------------------------------ MODULE ViewerPage ----------------------------
(***************************************************************************)
(* The viewer of contribs/webview/web/js, one open page: how graph files    *)
(* get in (embedded, fetched, or dropped by the user), setData, which       *)
(* builds the canvas and refreshes every panel, the legends and the filters *)
(* they drive, the colour encoding, selection with its back/forward trail,  *)
(* search, and the tooltip.  Each handler runs to its end before the next   *)
(* begins, but for the awaits of a fetch and of reading a dropped file.     *)
(***************************************************************************)
EXTENDS Integers, Sequences, FiniteSets, Functions

CONSTANTS
  Extraction,     \* the extractions whose files the page may be given
  NodesOf,        \* extraction -> the ids in its nodes.jsonl
  EdgesOf,        \* extraction -> the records [from, to, kind] of its edges.jsonl
  KindOf,         \* id -> kind of node
  MeasuredIn,     \* extraction -> the ids that carry metadata.runtime
  CommunityIn,    \* extraction -> id -> metadata.community, or Unclustered
  Unclustered,
  None, Badge,    \* no extraction or node; the text of a help badge in the tooltip
  Drop,           \* the drops that can be read at a time
  Bundles,        \* the lists of files a drop may bring
  Queries,        \* what the user searches for, as the set of ids that match
  MaxTrail        \* bound on the length of the selection history

Legend == {"node-kinds", "edge-kinds", "communities"}
Encodings == {"structural", "runtime", "community"}
File == [half : {"nodes", "edges"}, of : Extraction] \cup [half : {"empty", "broken"}, of : {None}]

ASSUME ViewerAssumption ==
  /\ {None, Badge} \cap (Extraction \cup UNION {NodesOf[g] : g \in Extraction}) = {}
  /\ \A g \in Extraction : MeasuredIn[g] \subseteq NodesOf[g]
  /\ Bundles \subseteq Seq(File) /\ MaxTrail \in Nat \ {0}

VARIABLES
  data,           \* the extractions state.nodes and state.edges come from
  fetching,       \* what tryFetch waits for and has received
  disk,           \* the extraction the served files hold now
  dropped,        \* state.droppedFiles
  reading,        \* drop -> the files its handler has still to read
  undisturbed,    \* history: drop -> its files, if no other drop was read meanwhile
  status,         \* what the status line says
  hidden,         \* legend -> hiddenNodeKinds, hiddenEdgeKinds, hiddenCommunities
  boxes, master,  \* legend -> its checkboxes; the state of its "all" checkbox
  hideIsolated, onlyMeasured,
  veiled,         \* the elements of the canvas with class hidden
  encoding,
  drawn,          \* node -> its fill as of the last cy.style()
  history, historyIndex, canGoBack, canGoForward,
  selected,       \* the node with class sel
  details,        \* whose details the panel shows, and from which data
  hits,           \* the ids of the search results
  pointer, timer, tooltip   \* node under the pointer, of the dwell timer, in the tooltip

loadVars == <<fetching, disk, dropped, reading, undisturbed, status>>
filterVars == <<hidden, boxes, master, hideIsolated, onlyMeasured, veiled>>
colourVars == <<encoding, drawn>>
trailVars == <<history, historyIndex, canGoBack, canGoForward>>
selectVars == <<trailVars, selected, details>>
tipVars == <<pointer, timer, tooltip>>
pageVars == <<data, filterVars, colourVars, selectVars, tipVars>>
vars == <<loadVars, pageVars, hits>>

-----------------------------------------------------------------------------
HasGraph == data.nodes # None
Nodes == IF HasGraph THEN NodesOf[data.nodes] ELSE {}
Edges == IF HasGraph THEN EdgesOf[data.edges] ELSE {}

\* nodeRuntime, nodeCommunity
Measured == IF HasGraph THEN MeasuredIn[data.nodes] ELSE {}
CommunityOf(n) == CommunityIn[data.nodes][n]

\* state.communities
Communities == {CommunityOf(n) : n \in Nodes} \ {Unclustered}

\* The edges of the canvas: those whose ends are both nodes.
CanvasEdges == {e \in Edges : {e.from, e.to} \subseteq Nodes}

Entries(legend) ==
  CASE legend = "node-kinds" -> {KindOf[n] : n \in Nodes}
    [] legend = "edge-kinds" -> {e.kind : e \in Edges}
    [] OTHER -> Communities

\* The fill cyStyle gives a node.
Fill(n) ==
  CASE encoding = "runtime" -> IF n \in Measured THEN <<"heat", n>> ELSE <<"muted", None>>
    [] encoding = "community" -> IF CommunityOf(n) # Unclustered THEN <<"community", CommunityOf(n)>>
                                 ELSE <<"muted", None>>
    [] OTHER -> <<"kind", KindOf[n]>>

Restyle == drawn' = [n \in Nodes' |-> Fill(n)']

-----------------------------------------------------------------------------
(***************************************************************************)
(* applyFilters: the nodes hidden by a kind, by a community or for want of  *)
(* a measurement, the edges hidden by their kind, then what is isolated.    *)
(***************************************************************************)
FilteredNodes ==
  {n \in Nodes : \/ KindOf[n] \in hidden["node-kinds"]
                 \/ onlyMeasured /\ n \notin Measured
                 \/ CommunityOf(n) \in hidden["communities"]}

FilteredEdges == {e \in CanvasEdges : e.kind \in hidden["edge-kinds"]}

\* Edges to hidden nodes count as company.
IsolatedByEdges ==
  {n \in Nodes \ FilteredNodes : \A e \in CanvasEdges \ FilteredEdges : n \notin {e.from, e.to}}

Isolated ==
  {n \in Nodes \ FilteredNodes :
     \A e \in CanvasEdges \ FilteredEdges :
       n \in {e.from, e.to} => {e.from, e.to} \cap FilteredNodes # {}}

ApplyFilters ==
  veiled' = [nodes |-> (FilteredNodes \cup (IF hideIsolated THEN Isolated ELSE {}))',
             edges |-> FilteredEdges']

\* syncMaster
MasterState(entries, off) ==
  IF entries \cap off = {} THEN "checked" ELSE IF entries \subseteq off THEN "unchecked" ELSE "mixed"

\* One checkbox per entry of a legend, ticked when the entry is not hidden.
Checkboxes(l) == [x \in Entries(l)' |-> x \notin hidden'[l]]

LegendBoxes == [l \in {"node-kinds", "edge-kinds"} |-> Checkboxes(l)]

\* renderCommunities: the rows beyond the limit can be unfolded.
CommunityBoxes == Checkboxes("communities")

RenderLegends ==
  /\ boxes' = [l \in Legend |-> IF l = "communities" THEN CommunityBoxes ELSE LegendBoxes[l]]
  /\ master' = [l \in Legend |-> MasterState(Entries(l)', hidden'[l])]

\* renderRuntime: without measurements there is nothing to filter by.
RenderRuntime == onlyMeasured' = (onlyMeasured /\ Measured' # {})

\* The encodings the loaded data can tell nodes apart by.
Drawable ==
  {"structural"} \cup (IF Measured # {} THEN {"runtime"} ELSE {})
                 \cup (IF Communities # {} THEN {"community"} ELSE {})

\* The canvas keeps the encoding it was built with.
SyncEncodingUnstyled ==
  /\ encoding' = IF encoding \in Drawable' THEN encoding ELSE "structural"
  /\ drawn' = [n \in Nodes' |-> IF encoding \in Drawable' THEN Fill(n)' ELSE <<"muted", None>>]

SyncEncodingOptions ==
  /\ encoding' = IF encoding \in Drawable' THEN encoding ELSE "structural"
  /\ Restyle

UpdateHistoryButtons ==
  /\ canGoBack' = (historyIndex' > 0)
  /\ canGoForward' = (historyIndex' < Len(history') - 1)

\* The buttons keep the state of the old trail.
ResetTrailOnly == history' = <<>> /\ historyIndex' = -1 /\ UNCHANGED <<canGoBack, canGoForward>>

ResetTrail == history' = <<>> /\ historyIndex' = -1 /\ UpdateHistoryButtons

ClearHoverTooltip == timer' = None /\ tooltip' = None

\* The old canvas is destroyed with its dwell timer running.
RebuildCanvasOnly == selected' = None /\ pointer' = None /\ UNCHANGED <<timer, tooltip>>

\* The old canvas goes, with its classes and what the pointer was over.
RebuildCanvas == selected' = None /\ pointer' = None /\ ClearHoverTooltip

SetData(nodes, edges) ==
  /\ data' = [nodes |-> nodes, edges |-> edges]
  /\ ResetTrail
  /\ RebuildCanvas
  /\ UNCHANGED <<hidden, hideIsolated, details>>
  /\ RenderLegends /\ RenderRuntime /\ SyncEncodingOptions /\ ApplyFilters
  /\ status' = "loaded"

-----------------------------------------------------------------------------
(* Loading.                                                                 *)

NoFiles == [nodes |-> None, edges |-> None]
Waiting == fetching.waiting

\* boot: a page served over http waits for the files, one opened from disk does
\* not.  A page with embedded data is one whose fetch ended before anything else.
Init ==
  /\ data = NoFiles /\ dropped = NoFiles
  /\ fetching \in [waiting : BOOLEAN, nodes : {None}, edges : {None}]
  /\ disk \in Extraction
  /\ reading = [d \in Drop |-> <<>>] /\ undisturbed = [d \in Drop |-> <<>>]
  /\ status = "none"
  /\ hidden = [l \in Legend |-> {}] /\ boxes = [l \in Legend |-> <<>>]
  /\ master = [l \in Legend |-> "checked"]
  /\ hideIsolated = FALSE /\ onlyMeasured = FALSE
  /\ veiled = [nodes |-> {}, edges |-> {}]
  /\ encoding = "structural" /\ drawn = <<>>
  /\ history = <<>> /\ historyIndex = -1 /\ canGoBack = FALSE /\ canGoForward = FALSE
  /\ selected = None /\ details = None /\ hits = {}
  /\ pointer = None /\ timer = None /\ tooltip = None

\* An extraction rewrites the files the page is served with.
Rewrite ==
  /\ \E g \in Extraction \ {disk} : disk' = g
  /\ UNCHANGED <<pageVars, hits, fetching, dropped, reading, undisturbed, status>>

\* The text of one file arrives; with the second one the graph is set.
Fetched(half) ==
  /\ Waiting /\ fetching[half] = None
  /\ LET got == [fetching EXCEPT ![half] = disk]
     IN  IF None \in {got.nodes, got.edges}
         THEN fetching' = got /\ UNCHANGED <<pageVars, status>>
         ELSE fetching' = [got EXCEPT !.waiting = FALSE] /\ SetData(got.nodes, got.edges)
  /\ UNCHANGED <<hits, disk, dropped, reading, undisturbed>>

\* One of the two is not there, or does not parse.
FetchFails ==
  /\ Waiting
  /\ fetching' = [fetching EXCEPT !.waiting = FALSE]
  /\ status' = "no data"
  /\ UNCHANGED <<pageVars, hits, disk, dropped, reading, undisturbed>>

InFlight == {d \in Drop : reading[d] # <<>>}

StartDrop(d, files) ==
  /\ reading[d] = <<>> /\ files # <<>>
  /\ reading' = [reading EXCEPT ![d] = files]
  /\ undisturbed' = [e \in Drop |-> IF e = d /\ InFlight = {} THEN files
                                    ELSE IF e \in InFlight \cup {d} THEN <<>> ELSE undisturbed[e]]
  /\ UNCHANGED <<pageVars, hits, fetching, disk, dropped, status>>

\* The first file of each half stays.
SortedKeepingFirst(file) ==
  IF file.half \in {"nodes", "edges"} /\ dropped[file.half] = None
  THEN [dropped EXCEPT ![file.half] = file.of] ELSE dropped

\* state.droppedFiles after a file has been read: an empty one is passed over.
Sorted(file) ==
  IF file.half \in {"nodes", "edges"} THEN [dropped EXCEPT ![file.half] = file.of] ELSE dropped

\* A file has been read; a line that does not parse ends the handler there.
ReadFile(d) ==
  /\ reading[d] # <<>>
  /\ IF Head(reading[d]).half = "broken"
     THEN /\ reading' = [reading EXCEPT ![d] = <<>>]
          /\ UNCHANGED <<dropped, pageVars, status>>
     ELSE /\ reading' = [reading EXCEPT ![d] = Tail(@)]
          /\ dropped' = Sorted(Head(reading[d]))
          /\ IF Len(reading[d]) > 1 THEN UNCHANGED <<pageVars, status>>
             ELSE IF None \in Range(dropped') THEN status' = "half" /\ UNCHANGED pageVars
             ELSE SetData(dropped'.nodes, dropped'.edges)
  /\ UNCHANGED <<hits, fetching, disk, undisturbed>>

-----------------------------------------------------------------------------
(* Filters and colours.                                                     *)

\* The click flips the checkbox, and the handler goes by the checkbox.
ToggleEntry(l, x) ==
  /\ boxes' = [boxes EXCEPT ![l][x] = ~@]
  /\ hidden' = [hidden EXCEPT ![l] = IF boxes'[l][x] THEN @ \ {x} ELSE @ \cup {x}]
  /\ master' = [master EXCEPT ![l] = MasterState(Entries(l), hidden'[l])]
  /\ UNCHANGED <<data, hideIsolated, onlyMeasured>>
  /\ ApplyFilters
  /\ UNCHANGED <<colourVars, selectVars, tipVars, loadVars, hits>>

\* Hides all when all are visible, and shows all otherwise.
SetAll(l) ==
  hidden' = [hidden EXCEPT ![l] = IF Entries(l) \cap @ = {} THEN @ \cup Entries(l) ELSE @ \ Entries(l)]

ToggleMaster(l) ==
  /\ Entries(l) # {}
  /\ SetAll(l)
  /\ boxes' = [boxes EXCEPT ![l] = [x \in Entries(l) |-> x \notin hidden'[l]]]
  /\ master' = [master EXCEPT ![l] = MasterState(Entries(l), hidden'[l])]
  /\ UNCHANGED <<data, hideIsolated, onlyMeasured>>
  /\ ApplyFilters
  /\ UNCHANGED <<colourVars, selectVars, tipVars, loadVars, hits>>

ToggleIsolated ==
  /\ hideIsolated' = ~hideIsolated
  /\ UNCHANGED <<data, hidden, boxes, master, onlyMeasured>>
  /\ IF HasGraph THEN ApplyFilters ELSE UNCHANGED veiled
  /\ UNCHANGED <<colourVars, selectVars, tipVars, loadVars, hits>>

\* The checkbox is on the page only with a measured graph.
ToggleMeasured ==
  /\ Measured # {}
  /\ onlyMeasured' = ~onlyMeasured
  /\ UNCHANGED <<data, hidden, boxes, master, hideIsolated>>
  /\ ApplyFilters
  /\ UNCHANGED <<colourVars, selectVars, tipVars, loadVars, hits>>

\* Before there is a graph every option can be chosen.
ChooseEncoding(value) ==
  /\ HasGraph => value \in Drawable
  /\ encoding' = value
  /\ UNCHANGED data
  /\ Restyle
  /\ UNCHANGED <<filterVars, selectVars, tipVars, loadVars, hits>>

-----------------------------------------------------------------------------
(* Selection, search, and the tooltip.                                      *)

\* Selecting after going back starts a new branch.
RecordSelection(n) ==
  IF historyIndex >= 0 /\ history[historyIndex + 1] = n THEN UNCHANGED trailVars
  ELSE /\ history' = Append(SubSeq(history, 1, historyIndex + 1), n)
       /\ historyIndex' = historyIndex + 1
       /\ UpdateHistoryButtons

Select(n) == selected' = n /\ details' = [id |-> n, of |-> data]

\* focusNode: nothing happens for a node that is not on the canvas.  The view
\* moves, and with it goes the tooltip.
Focus(n) ==
  /\ historyIndex < MaxTrail - 1
  /\ IF n \in Nodes THEN Select(n) /\ RecordSelection(n) /\ ClearHoverTooltip
     ELSE UNCHANGED <<selectVars, timer, tooltip>>
  /\ UNCHANGED <<data, filterVars, colourVars, pointer, loadVars, hits>>

TapNode(n) == n \in Nodes /\ Focus(n)

\* A row of the hotspots list, drawn anew with every graph.
FocusHotspot(n) == n \in Measured /\ Focus(n)

\* The search results stay when the graph is replaced.
FocusHit(n) == n \in hits /\ Focus(n)

\* The other ends of the edges the details panel lists, on the canvas or not.
Links ==
  IF details = None THEN {}
  ELSE LET edges == EdgesOf[details.of.edges]
       IN  {e.to : e \in {x \in edges : x.from = details.id}}
           \cup {e.from : e \in {x \in edges : x.to = details.id}}

FollowLink(n) == n \in Links /\ Focus(n)

TapBackground ==
  /\ HasGraph
  /\ selected' = None /\ details' = None
  /\ ClearHoverTooltip
  /\ UNCHANGED <<data, filterVars, colourVars, trailVars, pointer, loadVars, hits>>

NavigateHistory(delta) ==
  /\ HasGraph
  /\ historyIndex + delta \in 0 .. Len(history) - 1
  /\ LET n == history[historyIndex + delta + 1]
     IN  n \in Nodes /\ Select(n)
  /\ historyIndex' = historyIndex + delta
  /\ UNCHANGED history
  /\ UpdateHistoryButtons /\ ClearHoverTooltip
  /\ UNCHANGED <<data, filterVars, colourVars, pointer, loadVars, hits>>

Search(query) ==
  /\ hits' = query \cap Nodes
  /\ UNCHANGED <<pageVars, loadVars>>

HoverIn(n) ==
  /\ pointer = None /\ n \in Nodes \ veiled.nodes
  /\ pointer' = n
  /\ timer' = [id |-> n, of |-> data] /\ tooltip' = None
  /\ UNCHANGED <<data, filterVars, colourVars, selectVars, loadVars, hits>>

HoverOut ==
  /\ pointer # None
  /\ pointer' = None /\ ClearHoverTooltip
  /\ UNCHANGED <<data, filterVars, colourVars, selectVars, loadVars, hits>>

\* A pan, a zoom or a drag by the user.
Gesture ==
  /\ HasGraph
  /\ ClearHoverTooltip
  /\ UNCHANGED <<data, filterVars, colourVars, selectVars, pointer, loadVars, hits>>

\* The layout fits the view to what is visible.
Relayout == Gesture

DwellOver ==
  /\ timer # None
  /\ tooltip' = timer /\ timer' = None
  /\ UNCHANGED <<data, filterVars, colourVars, selectVars, pointer, loadVars, hits>>

\* A help badge is entered or gets the focus; is left or loses it.
ShowBadge ==
  /\ tooltip' = Badge
  /\ UNCHANGED <<data, filterVars, colourVars, selectVars, pointer, timer, loadVars, hits>>

HideBadge ==
  /\ tooltip' = None
  /\ UNCHANGED <<data, filterVars, colourVars, selectVars, pointer, timer, loadVars, hits>>

-----------------------------------------------------------------------------
Loading ==
  \/ Rewrite \/ FetchFails
  \/ \E half \in {"nodes", "edges"} : Fetched(half)
  \/ \E d \in Drop : ReadFile(d) \/ \E files \in Bundles : StartDrop(d, files)

Filtering ==
  \/ \E l \in Legend : ToggleMaster(l) \/ \E x \in DOMAIN boxes[l] : ToggleEntry(l, x)
  \/ ToggleIsolated \/ ToggleMeasured
  \/ \E value \in Encodings : ChooseEncoding(value)

Selecting ==
  \/ \E n \in UNION {NodesOf[g] : g \in Extraction} :
       TapNode(n) \/ FocusHotspot(n) \/ FocusHit(n) \/ FollowLink(n)
  \/ TapBackground \/ NavigateHistory(-1) \/ NavigateHistory(1)
  \/ \E query \in Queries : Search(query)

Pointing ==
  \/ \E n \in Nodes : HoverIn(n)
  \/ HoverOut \/ Gesture \/ Relayout \/ DwellOver \/ ShowBadge \/ HideBadge

Next == Loading \/ Filtering \/ Selecting \/ Pointing

Spec == Init /\ [][Next]_vars

-----------------------------------------------------------------------------
\* What the boxes on the page, as they are checked, leave to be seen.
Unticked(l, x) == x \in DOMAIN boxes[l] /\ ~boxes[l][x]

Explained(n) ==
  \/ Unticked("node-kinds", KindOf[n])
  \/ Unticked("communities", CommunityOf(n))
  \/ onlyMeasured /\ Measured # {} /\ n \notin Measured

Visible == Nodes \ veiled.nodes
VisibleEdges == {e \in CanvasEdges \ veiled.edges : {e.from, e.to} \subseteq Visible}

(***************************************************************************)
(* However filters are set and graphs replaced, the boxes on the page tell  *)
(* what the canvas shows: a node is visible unless a box of its kind or     *)
(* community is unticked, or it is unmeasured and only measured ones are    *)
(* asked for; with "hide isolated" a visible node has a visible edge; and   *)
(* an "all" box is checked exactly when every box below it is.              *)
(***************************************************************************)
BoxesTell ==
  HasGraph =>
    /\ \A n \in Nodes :
         IF n \in Visible
         THEN ~Explained(n) /\ (hideIsolated => \E e \in VisibleEdges : n \in {e.from, e.to})
         ELSE Explained(n) \/ (hideIsolated /\ \A e \in VisibleEdges : n \notin {e.from, e.to})
    /\ \A e \in CanvasEdges : e \in veiled.edges <=> Unticked("edge-kinds", e.kind)
    /\ \A l \in Legend : master[l] = "checked" <=> \A x \in DOMAIN boxes[l] : boxes[l][x]

(***************************************************************************)
(* syncEncodingOptions falls back "if the active mode lost its data ... and *)
(* re-applies the style": the canvas is always drawn in the encoding the    *)
(* page names, and that one tells at least one node of a graph that has any *)
(* from "no data".                                                          *)
(***************************************************************************)
ColoursCurrent ==
  HasGraph => /\ drawn = [n \in Nodes |-> Fill(n)]
              /\ Nodes # {} => \E n \in Nodes : drawn[n] # <<"muted", None>>

(***************************************************************************)
(* The trail: the cursor is on it, every node of it is on the canvas, it    *)
(* "never holds consecutive duplicates", a button is enabled exactly when   *)
(* there is a step in its direction, and while a node is selected it is the *)
(* one under the cursor and the one the panel shows, as the loaded data has *)
(* it.  Nothing is said of the panel while no node is selected.             *)
(***************************************************************************)
TrailSound ==
  /\ historyIndex \in -1 .. Len(history) - 1 /\ (historyIndex = -1 <=> history = <<>>)
  /\ \A i \in DOMAIN history : history[i] \in Nodes
  /\ \A i \in 1 .. Len(history) - 1 : history[i] # history[i + 1]
  /\ selected # None => selected = history[historyIndex + 1]
                        /\ details = [id |-> selected, of |-> data]
  /\ canGoBack <=> historyIndex > 0
  /\ canGoForward <=> historyIndex < Len(history) - 1

(***************************************************************************)
(* graph.js, setData: it "(re)builds the graph and refreshes every sidebar  *)
(* panel": the details are those of a node of the loaded graph.  It does    *)
(* not hold: the details panel stays as it was.                             *)
(***************************************************************************)
PanelOfLoadedGraph == details # None => details.of = data

(***************************************************************************)
(* setupCanvasHover: "a stale tooltip never lingers": a tooltip of a node,  *)
(* shown or still to be shown, is of the node of the loaded graph the       *)
(* pointer is on.                                                           *)
(***************************************************************************)
TooltipFresh ==
  /\ timer # None => timer = [id |-> pointer, of |-> data]
  /\ tooltip \notin {None, Badge} => tooltip = [id |-> pointer, of |-> data]

(***************************************************************************)
(* Dropping both files of one extraction shows that extraction, whatever    *)
(* halves were dropped before, unless another drop is read at the same time *)
(* or a file does not parse.                                                *)
(***************************************************************************)
DropShows(d) ==
  \A g \in Extraction :
    /\ reading[d] # <<>> /\ reading'[d] = <<>>
    /\ \A i \in DOMAIN undisturbed[d] : undisturbed[d][i].of \in {g, None}
    /\ {"nodes", "edges"} \subseteq {f.half : f \in Range(undisturbed[d])}
    /\ "broken" \notin {f.half : f \in Range(undisturbed[d])}
    => data' = [nodes |-> g, edges |-> g]

WholeDropShown == [][\A d \in Drop : DropShows(d)]_vars
=============================================================================
