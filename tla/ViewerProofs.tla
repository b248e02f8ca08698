----------------------------- MODULE ViewerProofs ---------------------------
(***************************************************************************)
(* Proofs about the viewer: that an open page agrees with its graph, for    *)
(* any extractions, drops and controls, and that it keeps what its user     *)
(* chose, for any number of tabs, sections and widths.                      *)
(*                                                                          *)
(* PageInv, the inductive invariant of the page, has a part for each group  *)
(* of panels, and every part is preserved by itself once LoadingStep and    *)
(* ControlStep have said what a step can do to the loaded graph.  IInv, of  *)
(* the preferences, adds to ViewKept that the storage holds the choices of  *)
(* a tab no other tab has written after.                                    *)
(***************************************************************************)
EXTENDS ViewerPage, ViewerPrefs, SequenceTheorems, TLAPS


Ids == UNION {NodesOf[g] : g \in Extraction}

\* Both files of the loaded graph are of some extraction.
DataTypeOK ==
  /\ data \in [nodes : Extraction \cup {None}, edges : Extraction \cup {None}]
  /\ data.nodes = None <=> data.edges = None

LoadTypeOK ==
  /\ DataTypeOK
  /\ fetching \in [waiting : BOOLEAN, nodes : Extraction \cup {None}, edges : Extraction \cup {None}]
  /\ disk \in Extraction
  /\ dropped \in [nodes : Extraction \cup {None}, edges : Extraction \cup {None}]
  /\ reading \in [Drop -> Seq(File)]
  /\ undisturbed \in [Drop -> Seq(File)]

LEMMA NodesAreIds == ASSUME DataTypeOK PROVE Nodes \subseteq Ids /\ None \notin Nodes /\ Badge \notin Nodes
BY ViewerAssumption DEF DataTypeOK, Nodes, HasGraph, Ids

LEMMA SortedType ==
  ASSUME LoadTypeOK, NEW file \in File
  PROVE  Sorted(file) \in [nodes : Extraction \cup {None}, edges : Extraction \cup {None}]
BY DEF LoadTypeOK, Sorted, File

\* What reading a file does: nothing to the page, or it sets a graph.
LEMMA ReadFileStep ==
  ASSUME LoadTypeOK, NEW d \in Drop, ReadFile(d)
  PROVE  /\ reading[d] # <<>> /\ Head(reading[d]) \in File /\ Tail(reading[d]) \in Seq(File)
         /\ UNCHANGED <<hits, fetching, disk, undisturbed>>
         /\ \/ Head(reading[d]).half = "broken" /\ reading' = [reading EXCEPT ![d] = <<>>]
               /\ UNCHANGED <<dropped, pageVars>>
            \/ /\ Head(reading[d]).half # "broken" /\ reading' = [reading EXCEPT ![d] = Tail(@)]
               /\ dropped' = Sorted(Head(reading[d]))
               /\ \/ (Len(reading[d]) > 1 \/ dropped'.nodes = None \/ dropped'.edges = None)
                     /\ UNCHANGED pageVars
                  \/ /\ dropped'.nodes \in Extraction /\ dropped'.edges \in Extraction
                     /\ SetData(dropped'.nodes, dropped'.edges)
<1>1. reading[d] \in Seq(File) /\ reading[d] # <<>>
  BY DEF LoadTypeOK, ReadFile
<1>2. Head(reading[d]) \in File /\ Tail(reading[d]) \in Seq(File)
  BY <1>1
<1>3. CASE Head(reading[d]).half = "broken"
  BY <1>1, <1>2, <1>3 DEF ReadFile
<1>4. CASE Head(reading[d]).half # "broken"
  <2>1. dropped' = Sorted(Head(reading[d]))
    BY <1>4 DEF ReadFile
  <2>2. dropped' \in [nodes : Extraction \cup {None}, edges : Extraction \cup {None}]
    BY <1>2, <2>1, SortedType
  <2>3. None \in Range(dropped') <=> dropped'.nodes = None \/ dropped'.edges = None
    BY <2>2 DEF Range
  <2>4. \/ (Len(reading[d]) > 1 \/ None \in Range(dropped')) /\ UNCHANGED pageVars
        \/ None \notin Range(dropped') /\ SetData(dropped'.nodes, dropped'.edges)
    BY <1>4 DEF ReadFile
  <2>5. reading' = [reading EXCEPT ![d] = Tail(@)]
    BY <1>4 DEF ReadFile
  <2>6. QED  BY <1>1, <1>2, <1>4, <2>1, <2>2, <2>3, <2>4, <2>5 DEF ReadFile
<1>5. QED  BY <1>3, <1>4

\* Loading leaves the page alone, or sets a graph.
LEMMA LoadingStep ==
  ASSUME LoadTypeOK, Loading
  PROVE  /\ UNCHANGED hits
         /\ \/ UNCHANGED pageVars
            \/ \E nodes, edges \in Extraction : SetData(nodes, edges)
<1>1. ASSUME NEW half \in {"nodes", "edges"}, Fetched(half)
      PROVE  UNCHANGED pageVars \/ \E nodes, edges \in Extraction : SetData(nodes, edges)
  <2> DEFINE got == [fetching EXCEPT ![half] = disk]
  <2>1. got \in [waiting : BOOLEAN, nodes : Extraction \cup {None}, edges : Extraction \cup {None}]
    BY <1>1 DEF LoadTypeOK
  <2>2. \/ UNCHANGED pageVars
        \/ None \notin {got.nodes, got.edges} /\ SetData(got.nodes, got.edges)
    BY <1>1 DEF Fetched
  <2> HIDE DEF got
  <2>3. QED  BY <2>1, <2>2
<1>2. ASSUME NEW d \in Drop, ReadFile(d)
      PROVE  UNCHANGED pageVars \/ \E nodes, edges \in Extraction : SetData(nodes, edges)
  BY <1>2, ReadFileStep
<1>3. UNCHANGED hits
  BY DEF Loading, Rewrite, FetchFails, Fetched, ReadFile, StartDrop
<1>4. QED  BY <1>1, <1>2, <1>3 DEF Loading, Rewrite, FetchFails, StartDrop

\* Everything else leaves the graph and what is being loaded alone.
LEMMA ControlStep ==
  ASSUME Filtering \/ Selecting \/ Pointing
  PROVE  UNCHANGED <<data, loadVars>>
BY DEF Filtering, Selecting, Pointing, ToggleMaster, ToggleEntry, ToggleIsolated, ToggleMeasured,
       ChooseEncoding, TapNode, FocusHotspot, FocusHit, FollowLink, Focus, TapBackground,
       NavigateHistory, Search, HoverIn, HoverOut, Gesture, Relayout, DwellOver, ShowBadge, HideBadge, pageVars

LEMMA LoadTypesKept == ASSUME LoadTypeOK, [Next]_vars PROVE LoadTypeOK'
<1>1. CASE UNCHANGED vars
  BY <1>1 DEF vars, loadVars, pageVars, LoadTypeOK, DataTypeOK
<1>2. CASE Filtering \/ Selecting \/ Pointing
  BY <1>2, ControlStep DEF loadVars, LoadTypeOK, DataTypeOK
<1>3. CASE Loading
  <2>1. DataTypeOK'
    <3>1. ASSUME NEW nodes \in Extraction, NEW edges \in Extraction, SetData(nodes, edges)
          PROVE  DataTypeOK'
      BY <3>1, ViewerAssumption DEF SetData, DataTypeOK
    <3>2. QED  BY <1>3, <3>1, LoadingStep DEF pageVars, LoadTypeOK, DataTypeOK
  <2>2. CASE Rewrite \/ FetchFails
    BY <2>1, <2>2 DEF Rewrite, FetchFails, LoadTypeOK
  <2>3. ASSUME NEW half \in {"nodes", "edges"}, Fetched(half) PROVE LoadTypeOK'
    <3>1. /\ fetching' \in [waiting : BOOLEAN, nodes : Extraction \cup {None}, edges : Extraction \cup {None}]
          /\ UNCHANGED <<disk, dropped, reading, undisturbed>>
      <4> DEFINE got == [fetching EXCEPT ![half] = disk]
      <4>1. got \in [waiting : BOOLEAN, nodes : Extraction \cup {None}, edges : Extraction \cup {None}]
        BY <2>3 DEF LoadTypeOK
      <4>2. fetching' = got \/ fetching' = [got EXCEPT !.waiting = FALSE]
        BY <2>3 DEF Fetched
      <4> HIDE DEF got
      <4>3. QED  BY <2>3, <4>1, <4>2 DEF Fetched
    <3>2. QED  BY <2>1, <3>1 DEF LoadTypeOK
  <2>4. ASSUME NEW d \in Drop, ReadFile(d) PROVE LoadTypeOK'
    <3>1. dropped' \in [nodes : Extraction \cup {None}, edges : Extraction \cup {None}]
      BY <2>4, ReadFileStep, SortedType DEF LoadTypeOK
    <3>2. reading' \in [Drop -> Seq(File)]
      <4>1. PICK rest \in Seq(File) : reading' = [reading EXCEPT ![d] = rest]
        <5>1. <<>> \in Seq(File)
          OBVIOUS
        <5>2. QED  BY <2>4, <5>1, ReadFileStep
      <4>2. QED  BY <4>1 DEF LoadTypeOK
    <3>3. QED  BY <2>1, <2>4, <3>1, <3>2, ReadFileStep DEF LoadTypeOK
  <2>5. ASSUME NEW d \in Drop, NEW files \in Bundles, StartDrop(d, files) PROVE LoadTypeOK'
    <3>1. files \in Seq(File) /\ <<>> \in Seq(File)
      BY ViewerAssumption
    <3>2. QED  BY <2>1, <2>5, <3>1 DEF StartDrop, LoadTypeOK
  <2>6. QED  BY <1>3, <2>2, <2>3, <2>4, <2>5 DEF Loading
<1>4. QED  BY <1>1, <1>2, <1>3 DEF Next

-----------------------------------------------------------------------------
(* The tooltip.                                                             *)

LEMMA TooltipKept == ASSUME LoadTypeOK, TooltipFresh, [Next]_vars PROVE TooltipFresh'
<1> USE DEF TooltipFresh
<1>1. CASE UNCHANGED vars
  BY <1>1 DEF vars, pageVars, tipVars
<1>2. CASE Loading
  <2>1. CASE UNCHANGED pageVars
    BY <2>1 DEF pageVars, tipVars
  <2>2. ASSUME NEW nodes, NEW edges, SetData(nodes, edges) PROVE TooltipFresh'
    BY <2>2 DEF SetData, RebuildCanvas, ClearHoverTooltip
  <2>3. QED  BY <1>2, <2>1, <2>2, LoadingStep
<1>3. CASE Filtering
  BY <1>3 DEF Filtering, ToggleMaster, ToggleEntry, ToggleIsolated, ToggleMeasured, ChooseEncoding, tipVars
<1>4. CASE Selecting
  BY <1>4 DEF Selecting, TapNode, FocusHotspot, FocusHit, FollowLink, Focus, TapBackground,
              NavigateHistory, Search, ClearHoverTooltip, pageVars, tipVars
<1>5. CASE Pointing
  BY <1>5 DEF Pointing, HoverIn, HoverOut, Gesture, Relayout, DwellOver, ShowBadge, HideBadge, ClearHoverTooltip
<1>6. QED  BY <1>1, <1>2, <1>3, <1>4, <1>5 DEF Next

-----------------------------------------------------------------------------
(* The trail.                                                               *)

TrailTypeOK == history \in Seq(Ids) /\ historyIndex \in Int

TrailInv == TrailTypeOK /\ TrailSound

LEMMA SetDataResetsTrail ==
  ASSUME NEW nodes, NEW edges, SetData(nodes, edges) PROVE TrailInv'
<1>1. /\ history' = <<>> /\ historyIndex' = -1 /\ selected' = None
      /\ canGoBack' = (historyIndex' > 0) /\ canGoForward' = (historyIndex' < Len(history') - 1)
  BY DEF SetData, ResetTrail, UpdateHistoryButtons, RebuildCanvas
<1>2. Len(history') = 0 /\ DOMAIN history' = {} /\ history' \in Seq(Ids)
  BY <1>1
<1>3. TrailTypeOK'
  BY <1>1, <1>2 DEF TrailTypeOK
<1>4. historyIndex' \in -1 .. Len(history') - 1
  BY <1>1, <1>2
<1>5. \A i \in 1 .. Len(history') - 1 : history'[i] # history'[i + 1]
  BY <1>2
<1>6. QED  BY <1>1, <1>2, <1>3, <1>4, <1>5 DEF TrailInv, TrailSound

\* Recording a selection ends the trail with it.
LEMMA FocusKeepsTrail ==
  ASSUME DataTypeOK, TrailInv, NEW n \in Ids, Focus(n) PROVE TrailInv'
<1> USE DEF TrailInv, TrailTypeOK
<1>1. data' = data /\ Nodes' = Nodes
  BY DEF Focus, Nodes, HasGraph
<1>2. CASE n \notin Nodes
  BY <1>1, <1>2 DEF Focus, selectVars, trailVars, TrailSound
<1>3. CASE n \in Nodes
  <2>1. selected' = n /\ details' = [id |-> n, of |-> data] /\ RecordSelection(n)
    BY <1>3 DEF Focus, Select
  <2>2. CASE historyIndex >= 0 /\ history[historyIndex + 1] = n
    BY <1>1, <2>1, <2>2 DEF RecordSelection, trailVars, TrailSound
  <2>3. CASE ~(historyIndex >= 0 /\ history[historyIndex + 1] = n)
    <3> DEFINE kept == SubSeq(history, 1, historyIndex + 1)
    <3>1. historyIndex \in -1 .. Len(history) - 1 /\ Len(history) \in Nat
      BY DEF TrailSound
    <3>2. /\ kept \in Seq(Ids) /\ Len(kept) = historyIndex + 1
          /\ \A i \in 1 .. historyIndex + 1 : kept[i] = history[i]
      BY <3>1
    <3>3. /\ history' = Append(kept, n) /\ historyIndex' = historyIndex + 1
          /\ canGoBack' = (historyIndex' > 0)
          /\ canGoForward' = (historyIndex' < Len(history') - 1)
      BY <2>1, <2>3 DEF RecordSelection, UpdateHistoryButtons
    <3> HIDE DEF kept
    <3>4. /\ history' \in Seq(Ids) /\ Len(history') = historyIndex + 2
          /\ \A i \in 1 .. historyIndex + 1 : history'[i] = history[i]
          /\ history'[historyIndex + 2] = n
      BY <3>1, <3>2, <3>3
    <3>5. \A i \in DOMAIN history' : history'[i] \in Nodes'
      BY <1>1, <1>3, <3>1, <3>4 DEF TrailSound
    <3>6. \A i \in 1 .. Len(history') - 1 : history'[i] # history'[i + 1]
      <4> SUFFICES ASSUME NEW i \in 1 .. historyIndex + 1 PROVE history'[i] # history'[i + 1]
        BY <3>1, <3>4
      <4>1. CASE i = historyIndex + 1
        BY <2>3, <3>1, <3>4, <4>1
      <4>2. CASE i # historyIndex + 1
        <5>1. i \in 1 .. Len(history) - 1 /\ i + 1 \in 1 .. historyIndex + 1
          BY <3>1, <4>2
        <5>2. history[i] # history[i + 1]
          BY <5>1 DEF TrailSound
        <5>3. QED  BY <3>4, <5>1, <5>2
      <4>3. QED  BY <4>1, <4>2
    <3>7. history' # <<>> /\ historyIndex' \in 0 .. Len(history') - 1
      <4>1. Len(history') # 0 /\ historyIndex' \in 0 .. Len(history') - 1
        BY <3>1, <3>3, <3>4
      <4>2. QED  BY <4>1
    <3>8. historyIndex' \in Int /\ history'[historyIndex' + 1] = n
      BY <3>1, <3>3, <3>4
    <3>9. /\ historyIndex' \in -1 .. Len(history') - 1
          /\ historyIndex' = -1 <=> history' = <<>>
      BY <3>1, <3>3, <3>4, <3>7
    <3>10. QED  BY <1>1, <2>1, <3>3, <3>4, <3>5, <3>6, <3>8, <3>9 DEF TrailSound
  <2>4. QED  BY <2>2, <2>3
<1>4. QED  BY <1>2, <1>3

LEMMA NavigateKeepsTrail ==
  ASSUME DataTypeOK, TrailInv, NEW delta \in {-1, 1}, NavigateHistory(delta) PROVE TrailInv'
<1>1. data' = data /\ Nodes' = Nodes /\ history' = history /\ historyIndex' = historyIndex + delta
  BY DEF NavigateHistory, Nodes, HasGraph
<1>2. /\ historyIndex' \in 0 .. Len(history) - 1
      /\ selected' = history[historyIndex' + 1] /\ details' = [id |-> selected', of |-> data]
      /\ canGoBack' = (historyIndex' > 0) /\ canGoForward' = (historyIndex' < Len(history') - 1)
  BY <1>1 DEF NavigateHistory, Select, UpdateHistoryButtons
<1>3. historyIndex' \in Int /\ Len(history) \in Nat /\ history' # <<>>
  BY <1>1, <1>2 DEF TrailInv, TrailTypeOK
<1>4. TrailTypeOK' /\ (historyIndex' \in -1 .. Len(history') - 1)
      /\ (historyIndex' = -1 <=> history' = <<>>)
  BY <1>1, <1>2, <1>3 DEF TrailInv, TrailTypeOK
<1>5. /\ \A i \in DOMAIN history' : history'[i] \in Nodes'
      /\ \A i \in 1 .. Len(history') - 1 : history'[i] # history'[i + 1]
  BY <1>1 DEF TrailInv, TrailSound
<1>6. QED  BY <1>1, <1>2, <1>4, <1>5 DEF TrailInv, TrailSound

LEMMA TrailKept == ASSUME LoadTypeOK, TrailInv, [Next]_vars PROVE TrailInv'
<1>1. ASSUME UNCHANGED <<data, selectVars>> PROVE TrailInv'
  <2>1. Nodes' = Nodes
    BY <1>1 DEF Nodes, HasGraph
  <2>2. QED  BY <1>1, <2>1 DEF selectVars, trailVars, TrailInv, TrailTypeOK, TrailSound
<1>2. CASE UNCHANGED vars
  BY <1>1, <1>2 DEF vars, pageVars
<1>3. CASE Loading
  BY <1>1, <1>3, LoadingStep, SetDataResetsTrail DEF pageVars
<1>4. CASE Filtering
  <2>1. UNCHANGED <<data, selectVars>>
    BY <1>4 DEF Filtering, ToggleMaster, ToggleEntry, ToggleIsolated, ToggleMeasured, ChooseEncoding
  <2>2. QED  BY <1>1, <2>1
<1>5. CASE Pointing
  <2>1. UNCHANGED <<data, selectVars>>
    BY <1>5 DEF Pointing, HoverIn, HoverOut, Gesture, Relayout, DwellOver, ShowBadge, HideBadge
  <2>2. QED  BY <1>1, <2>1
<1>6. CASE Selecting
  <2>1. ASSUME NEW n \in Ids, Focus(n) PROVE TrailInv'
    BY <2>1, FocusKeepsTrail DEF LoadTypeOK
  <2>2. CASE NavigateHistory(-1) \/ NavigateHistory(1)
    BY <2>2, NavigateKeepsTrail DEF LoadTypeOK
  <2>3. CASE TapBackground
    <3>1. Nodes' = Nodes
      BY <2>3 DEF TapBackground, Nodes, HasGraph
    <3>2. QED  BY <2>3, <3>1 DEF TapBackground, trailVars, TrailInv, TrailTypeOK, TrailSound
  <2>4. ASSUME NEW query, Search(query) PROVE TrailInv'
    BY <1>1, <2>4 DEF Search, pageVars
  <2>5. QED  BY <1>6, <2>1, <2>2, <2>3, <2>4 DEF Selecting, TapNode, FocusHotspot, FocusHit, FollowLink, Ids
<1>7. QED  BY <1>2, <1>3, <1>4, <1>5, <1>6 DEF Next

-----------------------------------------------------------------------------
(* The filters and their boxes.                                             *)

\* What applyFilters hides.
Veil == [nodes |-> FilteredNodes \cup (IF hideIsolated THEN Isolated ELSE {}), edges |-> FilteredEdges]

BoxesMatch(l) ==
  DOMAIN boxes[l] = Entries(l) /\ \A x \in Entries(l) : boxes[l][x] <=> x \notin hidden[l]

\* The boxes are those of the loaded graph, ticked as the filters are set.
FiltersAgree ==
  /\ hidden = [l \in Legend |-> hidden[l]] /\ Unclustered \notin hidden["communities"]
  /\ DOMAIN boxes = Legend /\ \A l \in Legend : BoxesMatch(l)
  /\ master = [l \in Legend |-> MasterState(Entries(l), hidden[l])]
  /\ onlyMeasured => Measured # {}
  /\ HasGraph => veiled = Veil

LEMMA VeilApplied == ApplyFilters <=> veiled' = Veil'
BY DEF ApplyFilters, Veil

\* What a graph has to offer depends on the graph alone, and what is hidden on
\* the filters beside it.
LEMMA SameGraph ==
  ASSUME UNCHANGED data
  PROVE  /\ HasGraph' = HasGraph /\ Nodes' = Nodes /\ Measured' = Measured /\ Communities' = Communities
         /\ Drawable' = Drawable /\ \A l \in Legend : Entries(l)' = Entries(l)
<1>1. HasGraph' = HasGraph /\ Nodes' = Nodes /\ Edges' = Edges /\ Measured' = Measured
  BY DEF HasGraph, Nodes, Edges, Measured
<1>2. \A n : CommunityOf(n)' = CommunityOf(n)
  BY DEF CommunityOf
<1>3. Communities' = Communities
  BY <1>1, <1>2 DEF Communities
<1>4. QED  BY <1>1, <1>3 DEF Entries, Drawable

LEMMA SameVeil ==
  ASSUME UNCHANGED <<data, hidden, hideIsolated, onlyMeasured>> PROVE Veil' = Veil
<1>1. Nodes' = Nodes /\ Measured' = Measured /\ CanvasEdges' = CanvasEdges
  BY SameGraph DEF CanvasEdges, Edges, HasGraph, Nodes
<1>2. \A n : CommunityOf(n)' = CommunityOf(n)
  BY DEF CommunityOf
<1>3. FilteredNodes' = FilteredNodes /\ FilteredEdges' = FilteredEdges
  BY <1>1, <1>2 DEF FilteredNodes, FilteredEdges
<1>4. Isolated' = Isolated
  BY <1>1, <1>3 DEF Isolated
<1>5. QED  BY <1>3, <1>4 DEF Veil

LEMMA NothingUnclustered == Unclustered \notin Entries("communities")
BY DEF Entries, Communities

LEMMA InitAgrees == ASSUME Init PROVE FiltersAgree
<1>1. ~HasGraph /\ Nodes = {} /\ Edges = {} /\ Measured = {} /\ Communities = {}
  BY DEF Init, NoFiles, HasGraph, Nodes, Edges, Measured, Communities
<1>2. \A l \in Legend : Entries(l) = {}
  BY <1>1 DEF Entries, Legend
<1>3. hidden = [l \in Legend |-> {}] /\ boxes = [l \in Legend |-> <<>>] /\ "communities" \in Legend
      /\ master = [l \in Legend |-> "checked"] /\ ~onlyMeasured
  BY DEF Init, Legend
<1>4. \A l \in Legend : BoxesMatch(l) /\ MasterState(Entries(l), hidden[l]) = "checked"
  BY <1>2, <1>3 DEF BoxesMatch, MasterState
<1>5. QED  BY <1>1, <1>3, <1>4 DEF FiltersAgree

LEMMA SetDataAgrees ==
  ASSUME FiltersAgree, NEW nodes, NEW edges, SetData(nodes, edges) PROVE FiltersAgree'
<1>1. /\ UNCHANGED <<hidden, hideIsolated>> /\ veiled' = Veil'
      /\ master' = [l \in Legend |-> MasterState(Entries(l)', hidden'[l])]
      /\ onlyMeasured' => Measured' # {}
  BY VeilApplied DEF SetData, RenderLegends, RenderRuntime
<1>2. boxes' = [l \in Legend |-> Checkboxes(l)]
  BY DEF SetData, RenderLegends, LegendBoxes, CommunityBoxes, Legend
<1>3. \A l \in Legend : BoxesMatch(l)'
  BY <1>2 DEF BoxesMatch, Checkboxes
<1>4. QED  BY <1>1, <1>2, <1>3 DEF FiltersAgree

\* What the two handlers of a legend have in common.
LEMMA LegendAgrees ==
  ASSUME FiltersAgree, NEW l \in Legend, NEW off, NEW ticks,
         UNCHANGED <<data, hideIsolated, onlyMeasured>>, ApplyFilters,
         hidden' = [hidden EXCEPT ![l] = off], l = "communities" => Unclustered \notin off,
         boxes' = [boxes EXCEPT ![l] = ticks],
         DOMAIN ticks = Entries(l), \A x \in Entries(l) : ticks[x] <=> x \notin off,
         master' = [master EXCEPT ![l] = MasterState(Entries(l), hidden'[l])]
  PROVE  FiltersAgree'
<1>1. /\ \A k \in Legend : Entries(k)' = Entries(k)
      /\ hidden'[l] = off /\ boxes'[l] = ticks /\ DOMAIN boxes' = Legend
      /\ \A k \in Legend \ {l} : hidden'[k] = hidden[k] /\ boxes'[k] = boxes[k]
  <2>1. DOMAIN hidden = Legend /\ DOMAIN boxes = Legend
    BY DEF FiltersAgree
  <2>2. UNCHANGED data
    OBVIOUS
  <2>3. QED  BY <2>1, <2>2, SameGraph
<1>2. ASSUME NEW k \in Legend PROVE BoxesMatch(k)'
  BY <1>1 DEF FiltersAgree, BoxesMatch
<1>3. master' = [k \in Legend |-> MasterState(Entries(k)', hidden'[k])]
  BY <1>1 DEF FiltersAgree
<1>4. "communities" \in Legend
  BY DEF Legend
<1>5. QED  BY <1>1, <1>2, <1>3, <1>4, SameGraph, VeilApplied DEF FiltersAgree

LEMMA ToggleEntryAgrees ==
  ASSUME FiltersAgree, NEW l \in Legend, NEW x \in DOMAIN boxes[l], ToggleEntry(l, x)
  PROVE  FiltersAgree'
<1> DEFINE ticks == [boxes[l] EXCEPT ![x] = ~boxes[l][x]]
           off == IF x \in hidden[l] THEN hidden[l] \ {x} ELSE hidden[l] \cup {x}
<1>1. /\ x \in Entries(l) /\ DOMAIN boxes = Legend /\ DOMAIN boxes[l] = Entries(l)
      /\ \A y \in Entries(l) : boxes[l][y] <=> y \notin hidden[l]
  BY DEF FiltersAgree, BoxesMatch
<1>2. boxes' = [boxes EXCEPT ![l] = ticks] /\ boxes'[l] = ticks
  BY <1>1 DEF ToggleEntry
<1>3. /\ DOMAIN ticks = Entries(l) /\ ticks[x] = ~boxes[l][x]
      /\ \A y \in Entries(l) : y # x => ticks[y] = boxes[l][y]
  BY <1>1
<1> HIDE DEF ticks
<1>4. hidden' = [hidden EXCEPT ![l] = off]
  <2>1. hidden' = [hidden EXCEPT ![l] = IF ticks[x] THEN hidden[l] \ {x} ELSE hidden[l] \cup {x}]
    BY <1>2 DEF ToggleEntry
  <2>2. ticks[x] <=> x \in hidden[l]
    BY <1>1, <1>3
  <2>3. QED  BY <2>1, <2>2
<1>5. \A y \in Entries(l) : ticks[y] <=> y \notin off
  BY <1>1, <1>3
<1>6. l = "communities" => Unclustered \notin off
  BY <1>1, NothingUnclustered DEF FiltersAgree
<1>7. /\ UNCHANGED <<data, hideIsolated, onlyMeasured>> /\ ApplyFilters
      /\ master' = [master EXCEPT ![l] = MasterState(Entries(l), hidden'[l])]
  BY DEF ToggleEntry
<1> HIDE DEF off
<1>8. QED  BY <1>2, <1>3, <1>4, <1>5, <1>6, <1>7, LegendAgrees

LEMMA ToggleMasterAgrees ==
  ASSUME FiltersAgree, NEW l \in Legend, ToggleMaster(l) PROVE FiltersAgree'
<1> DEFINE off == IF Entries(l) \cap hidden[l] = {} THEN hidden[l] \cup Entries(l) ELSE hidden[l] \ Entries(l)
<1>1. /\ hidden' = [hidden EXCEPT ![l] = off]
      /\ l = "communities" => Unclustered \notin off
  BY NothingUnclustered DEF ToggleMaster, SetAll, FiltersAgree
<1> HIDE DEF off
<1> DEFINE ticks == [x \in Entries(l) |-> x \notin off]
<1>2. hidden'[l] = off
  BY <1>1 DEF FiltersAgree
<1>3. /\ UNCHANGED <<data, hideIsolated, onlyMeasured>> /\ ApplyFilters
      /\ boxes' = [boxes EXCEPT ![l] = ticks]
      /\ master' = [master EXCEPT ![l] = MasterState(Entries(l), hidden'[l])]
  BY <1>2 DEF ToggleMaster
<1>4. DOMAIN ticks = Entries(l) /\ \A x \in Entries(l) : ticks[x] <=> x \notin off
  OBVIOUS
<1> HIDE DEF ticks
<1>5. QED  BY <1>1, <1>3, <1>4, LegendAgrees

LEMMA FiltersKept == ASSUME LoadTypeOK, FiltersAgree, [Next]_vars PROVE FiltersAgree'
<1>1. ASSUME UNCHANGED <<data, filterVars>> PROVE FiltersAgree'
  <2>1. UNCHANGED <<data, hidden, boxes, master, hideIsolated, onlyMeasured, veiled>>
    BY <1>1 DEF filterVars
  <2>2. Measured' = Measured /\ HasGraph' = HasGraph /\ Veil' = Veil /\ \A l \in Legend : Entries(l)' = Entries(l)
    BY <2>1, SameGraph, SameVeil
  <2>3. QED  BY <2>1, <2>2 DEF FiltersAgree, BoxesMatch
<1>2. CASE UNCHANGED vars
  BY <1>1, <1>2 DEF vars, pageVars
<1>3. CASE Loading
  BY <1>1, <1>3, LoadingStep, SetDataAgrees DEF pageVars
<1>4. CASE Selecting \/ Pointing
  <2>1. UNCHANGED <<data, filterVars>>
    BY <1>4 DEF Selecting, TapNode, FocusHotspot, FocusHit, FollowLink, Focus, TapBackground, NavigateHistory,
                Search, pageVars, Pointing, HoverIn, HoverOut, Gesture, Relayout, DwellOver, ShowBadge, HideBadge
  <2>2. QED  BY <1>1, <2>1
<1>5. CASE Filtering
  <2>1. CASE ToggleIsolated \/ ToggleMeasured
    <3>1. /\ UNCHANGED <<data, hidden, boxes, master>>
          /\ HasGraph => veiled' = Veil'
          /\ onlyMeasured' => Measured # {}
      BY <2>1, VeilApplied DEF ToggleIsolated, ToggleMeasured, FiltersAgree
    <3>2. Measured' = Measured /\ HasGraph' = HasGraph /\ \A l \in Legend : Entries(l)' = Entries(l)
      BY <3>1, SameGraph
    <3>3. QED  BY <3>1, <3>2 DEF FiltersAgree, BoxesMatch
  <2>2. ASSUME NEW value, ChooseEncoding(value) PROVE FiltersAgree'
    BY <1>1, <2>2 DEF ChooseEncoding
  <2>3. QED  BY <1>5, <2>1, <2>2, ToggleEntryAgrees, ToggleMasterAgrees DEF Filtering
<1>6. QED  BY <1>2, <1>3, <1>4, <1>5 DEF Next

\* A node is filtered out exactly when an unticked box says so.
LEMMA FilteredExplained ==
  ASSUME DataTypeOK, HasGraph, FiltersAgree, NEW n \in Nodes
  PROVE  n \in FilteredNodes <=> Explained(n)
<1>1. \A l \in Legend : \A x : Unticked(l, x) <=> x \in Entries(l) /\ x \in hidden[l]
  BY DEF FiltersAgree, BoxesMatch, Unticked
<1>2. KindOf[n] \in Entries("node-kinds")
  BY DEF Entries
<1>3. CommunityOf(n) \in hidden["communities"] => CommunityOf(n) \in Entries("communities")
  BY DEF FiltersAgree, Entries, Communities
<1>4. onlyMeasured => Measured # {}
  BY DEF FiltersAgree
<1>5. "node-kinds" \in Legend /\ "communities" \in Legend
  BY DEF Legend
<1>6. QED  BY <1>1, <1>2, <1>3, <1>4, <1>5 DEF Explained, FilteredNodes

LEMMA BoxesTellTrue == ASSUME DataTypeOK, FiltersAgree PROVE BoxesTell
<1> SUFFICES ASSUME HasGraph
             PROVE  /\ \A n \in Nodes :
                         IF n \in Visible
                         THEN ~Explained(n) /\ (hideIsolated => \E e \in VisibleEdges : n \in {e.from, e.to})
                         ELSE Explained(n) \/ (hideIsolated /\ \A e \in VisibleEdges : n \notin {e.from, e.to})
                    /\ \A e \in CanvasEdges : e \in veiled.edges <=> Unticked("edge-kinds", e.kind)
                    /\ \A l \in Legend : master[l] = "checked" <=> \A x \in DOMAIN boxes[l] : boxes[l][x]
  BY DEF BoxesTell
<1>1. /\ veiled.edges = FilteredEdges
      /\ veiled.nodes = FilteredNodes \cup (IF hideIsolated THEN Isolated ELSE {})
  BY DEF FiltersAgree, Veil
<1>2. ASSUME NEW e \in CanvasEdges PROVE e \in veiled.edges <=> Unticked("edge-kinds", e.kind)
  <2>1. e.kind \in Entries("edge-kinds")
    BY DEF CanvasEdges, Entries
  <2>2. "edge-kinds" \in Legend
    BY DEF Legend
  <2>3. QED  BY <1>1, <2>1, <2>2 DEF FiltersAgree, BoxesMatch, Unticked, FilteredEdges
<1>3. ASSUME NEW l \in Legend
      PROVE  master[l] = "checked" <=> \A x \in DOMAIN boxes[l] : boxes[l][x]
  <2>1. master[l] = MasterState(Entries(l), hidden[l])
    BY DEF FiltersAgree
  <2>2. master[l] = "checked" <=> Entries(l) \cap hidden[l] = {}
    BY <2>1 DEF MasterState
  <2>3. QED  BY <2>2 DEF FiltersAgree, BoxesMatch
<1>4. ASSUME NEW n \in Nodes, n \in Visible
      PROVE  ~Explained(n) /\ (hideIsolated => \E e \in VisibleEdges : n \in {e.from, e.to})
  <2>1. n \notin FilteredNodes /\ (hideIsolated => n \notin Isolated)
    BY <1>1, <1>4 DEF Visible
  <2>2. ASSUME hideIsolated PROVE \E e \in VisibleEdges : n \in {e.from, e.to}
    <3>1. PICK e \in CanvasEdges \ FilteredEdges :
            n \in {e.from, e.to} /\ {e.from, e.to} \cap FilteredNodes = {}
      BY <2>1, <2>2 DEF Isolated
    <3>2. {e.from, e.to} \subseteq Nodes /\ {e.from, e.to} \cap Isolated = {}
      BY <3>1 DEF Isolated, CanvasEdges
    <3>3. {e.from, e.to} \subseteq Visible
      BY <1>1, <3>1, <3>2 DEF Visible
    <3>4. QED  BY <1>1, <3>1, <3>3 DEF VisibleEdges
  <2>3. QED  BY <2>1, <2>2, FilteredExplained
<1>5. ASSUME NEW n \in Nodes, n \notin Visible
      PROVE  Explained(n) \/ (hideIsolated /\ \A e \in VisibleEdges : n \notin {e.from, e.to})
  <2>1. n \in FilteredNodes \/ (hideIsolated /\ n \in Isolated)
    BY <1>1, <1>5 DEF Visible
  <2>2. \A e \in VisibleEdges : n \notin {e.from, e.to}
    BY <1>5 DEF VisibleEdges
  <2>3. QED  BY <2>1, <2>2, FilteredExplained
<1>6. QED  BY <1>2, <1>3, <1>4, <1>5

-----------------------------------------------------------------------------
(* The colours.                                                             *)

ColoursAgree == HasGraph => encoding \in Drawable /\ drawn = [n \in Nodes |-> Fill(n)]

LEMMA ColoursKept == ASSUME LoadTypeOK, ColoursAgree, [Next]_vars PROVE ColoursAgree'
<1>1. ASSUME UNCHANGED <<data, colourVars>> PROVE ColoursAgree'
  <2>1. /\ HasGraph' = HasGraph /\ Nodes' = Nodes /\ Measured' = Measured /\ Drawable' = Drawable
        /\ encoding' = encoding /\ drawn' = drawn
    BY <1>1, SameGraph DEF colourVars
  <2>2. \A n : CommunityOf(n)' = CommunityOf(n)
    BY <1>1 DEF CommunityOf
  <2>3. \A n : Fill(n)' = Fill(n)
    BY <2>1, <2>2 DEF Fill
  <2>4. QED  BY <2>1, <2>3 DEF ColoursAgree
<1>2. CASE UNCHANGED vars
  BY <1>1, <1>2 DEF vars, pageVars
<1>3. CASE Loading
  <2>1. ASSUME NEW nodes, NEW edges, SetData(nodes, edges) PROVE ColoursAgree'
    <3>1. encoding' \in Drawable' /\ drawn' = [n \in Nodes' |-> Fill(n)']
      BY <2>1 DEF SetData, SyncEncodingOptions, Restyle, Drawable
    <3>2. QED  BY <3>1 DEF ColoursAgree
  <2>2. QED  BY <1>1, <1>3, <2>1, LoadingStep DEF pageVars
<1>4. CASE Selecting \/ Pointing
  <2>1. UNCHANGED <<data, colourVars>>
    BY <1>4 DEF Selecting, TapNode, FocusHotspot, FocusHit, FollowLink, Focus, TapBackground, NavigateHistory,
                Search, pageVars, Pointing, HoverIn, HoverOut, Gesture, Relayout, DwellOver, ShowBadge, HideBadge
  <2>2. QED  BY <1>1, <2>1
<1>5. CASE Filtering
  <2>1. ASSUME NEW value, ChooseEncoding(value) PROVE ColoursAgree'
    <3>1. /\ UNCHANGED data /\ encoding' = value /\ (HasGraph => value \in Drawable)
          /\ drawn' = [n \in Nodes' |-> Fill(n)']
      BY <2>1 DEF ChooseEncoding, Restyle
    <3>2. QED  BY <3>1, SameGraph DEF ColoursAgree
  <2>2. ASSUME ~\E value \in Encodings : ChooseEncoding(value) PROVE UNCHANGED <<data, colourVars>>
    BY <1>5, <2>2 DEF Filtering, ToggleMaster, ToggleEntry, ToggleIsolated, ToggleMeasured
  <2>3. QED  BY <1>1, <2>1, <2>2
<1>6. QED  BY <1>2, <1>3, <1>4, <1>5 DEF Next

\* An encoding that can be chosen tells some node from "no data".
LEMMA ColoursTrue == ASSUME DataTypeOK, ColoursAgree PROVE ColoursCurrent
<1> SUFFICES ASSUME HasGraph, Nodes # {} PROVE \E n \in Nodes : drawn[n] # <<"muted", None>>
  BY DEF ColoursCurrent, ColoursAgree
<1>1. Measured \subseteq Nodes
  BY ViewerAssumption DEF DataTypeOK, HasGraph, Measured, Nodes
<1>2. PICK n \in Nodes : Fill(n) # <<"muted", None>>
  <2>1. CASE encoding = "runtime"
    BY <1>1, <2>1 DEF ColoursAgree, Drawable, Fill
  <2>2. CASE encoding = "community"
    BY <2>2 DEF ColoursAgree, Drawable, Communities, Fill
  <2>3. CASE encoding = "structural"
    BY <2>3 DEF Fill
  <2>4. QED  BY <2>1, <2>2, <2>3 DEF ColoursAgree, Drawable
<1>3. QED  BY <1>2 DEF ColoursAgree

-----------------------------------------------------------------------------
(* Whole drops.                                                             *)

\* How many files of its drop a handler has read.
ReadCount(d) == Len(undisturbed[d]) - Len(reading[d])

\* The halves read so far are those the page keeps, each from a file of the drop.
Kept(d) ==
  \A half \in {"nodes", "edges"} :
    (\E i \in 1 .. ReadCount(d) : undisturbed[d][i].half = half) =>
      \E i \in 1 .. ReadCount(d) : undisturbed[d][i].half = half /\ dropped[half] = undisturbed[d][i].of

\* A drop nobody disturbed is the only one being read, and the rest of it is to come.
DropTrue(d) ==
  undisturbed[d] # <<>> /\ reading[d] # <<>> =>
    /\ \A e \in Drop \ {d} : reading[e] = <<>>
    /\ ReadCount(d) >= 0
    /\ \A i \in 1 .. Len(reading[d]) : reading[d][i] = undisturbed[d][ReadCount(d) + i]
    /\ Kept(d)

DropsTrue == \A d \in Drop : DropTrue(d)

LEMMA StartDropTrue ==
  ASSUME LoadTypeOK, DropsTrue, NEW d \in Drop, NEW files \in Bundles, StartDrop(d, files)
  PROVE  DropsTrue'
<1> SUFFICES ASSUME NEW e \in Drop, undisturbed'[e] # <<>>, reading'[e] # <<>> PROVE DropTrue(e)'
  BY DEF DropsTrue, DropTrue
<1>1. /\ reading[d] = <<>> /\ reading' = [reading EXCEPT ![d] = files]
      /\ undisturbed'[e] = IF e = d /\ InFlight = {} THEN files
                           ELSE IF e \in InFlight \cup {d} THEN <<>> ELSE undisturbed[e]
  BY DEF StartDrop
<1>2. e = d /\ InFlight = {} /\ undisturbed'[e] = files /\ reading'[e] = files
  BY <1>1 DEF LoadTypeOK, InFlight
<1>3. \A f \in Drop \ {e} : reading'[f] = <<>>
  BY <1>1, <1>2 DEF LoadTypeOK, InFlight
<1>4. files \in Seq(File)
  BY ViewerAssumption
<1>5. ReadCount(e)' = 0
  BY <1>2, <1>4 DEF ReadCount
<1>6. \A i \in 1 .. Len(reading'[e]) : reading'[e][i] = undisturbed'[e][ReadCount(e)' + i]
  BY <1>2, <1>4, <1>5
<1>7. Kept(e)'
  BY <1>5 DEF Kept
<1>8. QED  BY <1>3, <1>5, <1>6, <1>7 DEF DropTrue

\* The next file is one more of the drop.
LEMMA NextFile ==
  ASSUME LoadTypeOK, NEW d \in Drop, DropTrue(d), undisturbed[d] # <<>>, reading[d] # <<>>
  PROVE  /\ Len(reading[d]) \in Nat \ {0} /\ ReadCount(d) \in Nat /\ Len(undisturbed[d]) \in Nat
         /\ ReadCount(d) + 1 \in 1 .. Len(undisturbed[d])
         /\ Head(reading[d]) = undisturbed[d][ReadCount(d) + 1]
         /\ undisturbed[d] \in Seq(File)
<1>1. reading[d] \in Seq(File) /\ undisturbed[d] \in Seq(File)
  BY DEF LoadTypeOK
<1>2. Len(reading[d]) \in Nat \ {0} /\ Len(undisturbed[d]) \in Nat /\ Head(reading[d]) = reading[d][1]
  BY <1>1
<1>3. /\ ReadCount(d) >= 0
      /\ \A i \in 1 .. Len(reading[d]) : reading[d][i] = undisturbed[d][ReadCount(d) + i]
  BY DEF DropTrue
<1>4. ReadCount(d) = Len(undisturbed[d]) - Len(reading[d])
  BY DEF ReadCount
<1>5. 1 \in 1 .. Len(reading[d]) /\ ReadCount(d) \in Nat /\ ReadCount(d) + 1 \in 1 .. Len(undisturbed[d])
  <2>1. \A m, n \in Nat : m # 0 /\ n - m >= 0 => 1 \in 1 .. m /\ n - m \in Nat /\ n - m + 1 \in 1 .. n
    OBVIOUS
  <2>2. QED  BY <1>2, <1>3, <1>4, <2>1
<1>6. reading[d][1] = undisturbed[d][ReadCount(d) + 1]
  BY <1>3, <1>5
<1>7. QED  BY <1>1, <1>2, <1>5, <1>6

\* Once it is sorted, every half among the files read is kept from one of them.
LEMMA SortedKeeps ==
  ASSUME LoadTypeOK, NEW d \in Drop, DropTrue(d), undisturbed[d] # <<>>, reading[d] # <<>>,
         dropped' = Sorted(Head(reading[d])), NEW half \in {"nodes", "edges"},
         \E i \in 1 .. ReadCount(d) + 1 : undisturbed[d][i].half = half
  PROVE  \E i \in 1 .. ReadCount(d) + 1 : undisturbed[d][i].half = half /\ dropped'[half] = undisturbed[d][i].of
<1> DEFINE k == ReadCount(d)
           file == undisturbed[d][k + 1]
<1>1. k \in Nat /\ file \in File /\ Head(reading[d]) = file
  BY NextFile
<1>2. dropped \in [nodes : Extraction \cup {None}, edges : Extraction \cup {None}]
  BY DEF LoadTypeOK
<1>3. dropped' = IF file.half \in {"nodes", "edges"} THEN [dropped EXCEPT ![file.half] = file.of] ELSE dropped
  BY <1>1 DEF Sorted
<1>4. Kept(d)
  BY DEF DropTrue
<1> HIDE DEF k, file
<1>5. CASE file.half = half
  <2>1. dropped'[half] = file.of
    BY <1>2, <1>3, <1>5
  <2>2. k + 1 \in 1 .. k + 1
    BY <1>1
  <2>3. QED  BY <1>5, <2>1, <2>2 DEF file, k
<1>6. CASE file.half # half
  <2>1. dropped'[half] = dropped[half]
    BY <1>2, <1>3, <1>6
  <2>2. PICK i \in 1 .. k + 1 : undisturbed[d][i].half = half
    BY DEF k
  <2>3. i \in 1 .. k
    BY <1>1, <1>6, <2>2 DEF file
  <2>4. PICK j \in 1 .. k : undisturbed[d][j].half = half /\ dropped[half] = undisturbed[d][j].of
    BY <1>4, <2>2, <2>3 DEF Kept, k
  <2>5. j \in 1 .. k + 1
    BY <1>1, <2>4
  <2>6. QED  BY <2>1, <2>4, <2>5 DEF k
<1>7. QED  BY <1>5, <1>6

LEMMA ReadFileTrue ==
  ASSUME LoadTypeOK, DropsTrue, NEW d \in Drop, ReadFile(d) PROVE DropsTrue'
<1> SUFFICES ASSUME NEW e \in Drop, undisturbed'[e] # <<>>, reading'[e] # <<>> PROVE DropTrue(e)'
  BY DEF DropsTrue, DropTrue
<1>1. /\ undisturbed' = undisturbed /\ reading[d] # <<>> /\ DropTrue(e) /\ DropTrue(d)
      /\ \A f \in Drop \ {d} : reading'[f] = reading[f]
  BY ReadFileStep DEF DropsTrue, LoadTypeOK
<1>2. e = d
  BY <1>1 DEF DropTrue
<1>3. /\ reading' = [reading EXCEPT ![d] = Tail(@)] /\ dropped' = Sorted(Head(reading[d]))
      /\ reading'[d] = Tail(reading[d])
  BY <1>1, <1>2, ReadFileStep DEF LoadTypeOK
<1>4. /\ reading[d] \in Seq(File) /\ Len(reading'[d]) = Len(reading[d]) - 1 /\ Len(reading[d]) \in Nat
      /\ \A i \in 1 .. Len(reading'[d]) : reading'[d][i] = reading[d][i + 1] /\ i + 1 \in 1 .. Len(reading[d])
  <2>1. reading[d] \in Seq(File) /\ reading[d] # <<>>
    BY <1>1 DEF LoadTypeOK
  <2>2. Len(reading[d]) \in Nat \ {0} /\ Len(Tail(reading[d])) = Len(reading[d]) - 1
        /\ \A i \in 1 .. Len(reading[d]) - 1 : Tail(reading[d])[i] = reading[d][i + 1]
    BY <2>1
  <2>3. \A i \in 1 .. Len(reading[d]) - 1 : i + 1 \in 1 .. Len(reading[d])
    BY <2>2
  <2>4. QED  BY <1>3, <2>1, <2>2, <2>3
<1>5. ReadCount(d)' = ReadCount(d) + 1 /\ ReadCount(d) \in Nat
  <2>1. ReadCount(d) \in Nat /\ Len(undisturbed[d]) \in Nat
    BY <1>1, <1>2, NextFile
  <2>2. QED  BY <1>1, <1>4, <2>1 DEF ReadCount
<1>6. \A f \in Drop \ {d} : reading'[f] = <<>>
  BY <1>1, <1>2 DEF DropTrue
<1>7. \A i \in 1 .. Len(reading'[d]) : reading'[d][i] = undisturbed'[d][ReadCount(d)' + i]
  <2>1. \A i \in 1 .. Len(reading[d]) : reading[d][i] = undisturbed[d][ReadCount(d) + i]
    BY <1>1, <1>2 DEF DropTrue
  <2> SUFFICES ASSUME NEW i \in 1 .. Len(reading'[d])
               PROVE  reading'[d][i] = undisturbed[d][ReadCount(d) + 1 + i]
    BY <1>1, <1>5
  <2>2. ReadCount(d) + (i + 1) = ReadCount(d) + 1 + i
    BY <1>5
  <2>3. QED  BY <1>4, <2>1, <2>2
<1>8. Kept(d)'
  BY <1>1, <1>2, <1>3, <1>5, SortedKeeps DEF Kept
<1>9. QED  BY <1>2, <1>5, <1>6, <1>7, <1>8 DEF DropTrue

LEMMA DropsKept == ASSUME LoadTypeOK, DropsTrue, [Next]_vars PROVE DropsTrue'
<1>1. ASSUME UNCHANGED <<dropped, reading, undisturbed>> PROVE DropsTrue'
  <2>1. dropped' = dropped /\ reading' = reading /\ undisturbed' = undisturbed
    BY <1>1
  <2>2. ASSUME NEW d \in Drop PROVE DropTrue(d)'
    BY <2>1 DEF DropsTrue, DropTrue, Kept, ReadCount
  <2>3. QED  BY <2>2 DEF DropsTrue
<1>2. CASE UNCHANGED vars
  BY <1>1, <1>2 DEF vars, loadVars
<1>3. CASE Filtering \/ Selecting \/ Pointing
  BY <1>1, <1>3, ControlStep DEF loadVars
<1>4. CASE Loading
  BY <1>1, <1>4, StartDropTrue, ReadFileTrue DEF Loading, Rewrite, FetchFails, Fetched
<1>5. QED  BY <1>2, <1>3, <1>4 DEF Next

\* The last file of a whole drop sets its extraction.
LEMMA LastFileShows ==
  ASSUME LoadTypeOK, DropsTrue, [Next]_vars, NEW d \in Drop PROVE DropShows(d)
<1> SUFFICES ASSUME NEW g \in Extraction, reading[d] # <<>>, reading'[d] = <<>>,
                    \A i \in DOMAIN undisturbed[d] : undisturbed[d][i].of \in {g, None},
                    {"nodes", "edges"} \subseteq {f.half : f \in Range(undisturbed[d])},
                    "broken" \notin {f.half : f \in Range(undisturbed[d])}
             PROVE  data' = [nodes |-> g, edges |-> g]
  BY DEF DropShows
<1>1. undisturbed[d] \in Seq(File) /\ Range(undisturbed[d]) = {undisturbed[d][i] : i \in 1 .. Len(undisturbed[d])}
  <2>1. undisturbed[d] \in Seq(File)
    BY DEF LoadTypeOK
  <2>2. DOMAIN undisturbed[d] = 1 .. Len(undisturbed[d])
    BY <2>1
  <2>3. QED  BY <2>1, <2>2 DEF Range
<1>2. /\ \A half \in {"nodes", "edges"} : \E i \in 1 .. Len(undisturbed[d]) : undisturbed[d][i].half = half
      /\ \A i \in 1 .. Len(undisturbed[d]) : undisturbed[d][i].half # "broken"
      /\ undisturbed[d] # <<>>
  BY <1>1
<1>3. DropTrue(d) /\ Head(reading[d]) = undisturbed[d][ReadCount(d) + 1]
      /\ ReadCount(d) + 1 \in 1 .. Len(undisturbed[d]) /\ Len(reading[d]) \in Nat \ {0}
  BY <1>2, NextFile DEF DropsTrue
<1>4. ReadFile(d)
  <2>1. ~UNCHANGED reading
    OBVIOUS
  <2>2. PICK e \in Drop : ReadFile(e) \/ \E files \in Bundles : StartDrop(e, files)
    BY <2>1, ControlStep DEF Next, Loading, Rewrite, FetchFails, Fetched, vars, loadVars
  <2>3. ASSUME e # d PROVE reading'[d] = reading[d]
    BY <2>2, <2>3, ReadFileStep DEF StartDrop, LoadTypeOK
  <2>4. ASSUME NEW files \in Bundles, StartDrop(e, files) PROVE e # d
    BY <2>4 DEF StartDrop
  <2>5. QED  BY <2>2, <2>3, <2>4
<1>5. /\ Tail(reading[d]) = <<>> /\ dropped' = Sorted(Head(reading[d]))
      /\ \/ Len(reading[d]) > 1 \/ dropped'.nodes = None \/ dropped'.edges = None
         \/ SetData(dropped'.nodes, dropped'.edges)
  BY <1>2, <1>3, <1>4, ReadFileStep DEF LoadTypeOK
<1>6. Len(reading[d]) = 1
  <2>1. reading[d] \in Seq(File) /\ Len(Tail(reading[d])) = 0
    BY <1>5 DEF LoadTypeOK
  <2>2. QED  BY <1>3, <2>1
<1>7. ReadCount(d) + 1 = Len(undisturbed[d])
  BY <1>1, <1>6 DEF ReadCount
<1>8. ASSUME NEW half \in {"nodes", "edges"} PROVE dropped'[half] = g
  <2>1. PICK i \in 1 .. Len(undisturbed[d]) :
          undisturbed[d][i].half = half /\ dropped'[half] = undisturbed[d][i].of
    <3>1. dropped' = Sorted(Head(reading[d])) /\ undisturbed[d] # <<>> /\ reading[d] # <<>> /\ DropTrue(d)
      BY <1>2, <1>3, <1>5
    <3>2. \E i \in 1 .. ReadCount(d) + 1 : undisturbed[d][i].half = half
      BY <1>2, <1>7
    <3>3. \E i \in 1 .. ReadCount(d) + 1 :
            undisturbed[d][i].half = half /\ dropped'[half] = undisturbed[d][i].of
      BY <3>1, <3>2, SortedKeeps
    <3>4. QED  BY <1>7, <3>3
  <2>2. undisturbed[d][i] \in File /\ undisturbed[d][i].of \in {g, None} /\ None \notin Extraction
    BY <1>1, ViewerAssumption
  <2>3. QED  BY <2>1, <2>2 DEF File
<1>9. dropped'.nodes = g /\ dropped'.edges = g /\ g # None
  BY <1>8, ViewerAssumption
<1>10. QED  BY <1>5, <1>6, <1>9 DEF SetData

-----------------------------------------------------------------------------
PageInv == LoadTypeOK /\ TooltipFresh /\ TrailInv /\ FiltersAgree /\ ColoursAgree /\ DropsTrue

LEMMA PageInit == ASSUME Init PROVE PageInv
<1>1. LoadTypeOK
  BY DEF Init, NoFiles, LoadTypeOK, DataTypeOK
<1>2. TooltipFresh /\ ColoursAgree
  BY DEF Init, NoFiles, TooltipFresh, ColoursAgree, HasGraph
<1>3. TrailInv
  <2>1. history = <<>> /\ Len(history) = 0 /\ DOMAIN history = {} /\ history \in Seq(Ids) /\ historyIndex = -1
        /\ ~canGoBack /\ ~canGoForward /\ selected = None
    BY DEF Init
  <2>2. historyIndex \in -1 .. Len(history) - 1 /\ ~(historyIndex > 0) /\ ~(historyIndex < Len(history) - 1)
        /\ historyIndex \in Int /\ 1 .. Len(history) - 1 = {}
    BY <2>1
  <2>3. QED  BY <2>1, <2>2 DEF TrailInv, TrailTypeOK, TrailSound
<1>4. DropsTrue
  BY DEF Init, DropsTrue, DropTrue
<1>5. QED  BY <1>1, <1>2, <1>3, <1>4, InitAgrees DEF PageInv

LEMMA PageKept == ASSUME PageInv, [Next]_vars PROVE PageInv'
BY LoadTypesKept, TooltipKept, TrailKept, FiltersKept, ColoursKept, DropsKept DEF PageInv

(***************************************************************************)
(* Whatever graphs replace one another and whatever the user clicks, the    *)
(* boxes tell what the canvas shows, for any graphs and filters.            *)
(***************************************************************************)
THEOREM BoxesTellAlways == Spec => []BoxesTell
<1>1. PageInv => BoxesTell
  BY BoxesTellTrue DEF PageInv, LoadTypeOK
<1>2. QED  BY <1>1, PageInit, PageKept, PTL DEF Spec

(***************************************************************************)
(* The canvas is always drawn in the encoding the page names, and that one  *)
(* tells nodes from "no data".                                              *)
(***************************************************************************)
THEOREM ColoursStayCurrent == Spec => []ColoursCurrent
<1>1. PageInv => ColoursCurrent
  BY ColoursTrue DEF PageInv, LoadTypeOK
<1>2. QED  BY <1>1, PageInit, PageKept, PTL DEF Spec

(***************************************************************************)
(* The trail never leaves the loaded graph, its cursor and the buttons      *)
(* always agree with it, and so do the selection and, while there is one,   *)
(* the details.                                                             *)
(***************************************************************************)
THEOREM TrailStaysSound == Spec => []TrailSound
<1>1. PageInv => TrailSound
  BY DEF PageInv, TrailInv
<1>2. QED  BY <1>1, PageInit, PageKept, PTL DEF Spec

(***************************************************************************)
(* No tooltip outlives the pointer's stay on its node, or the graph.        *)
(***************************************************************************)
THEOREM TooltipsStayFresh == Spec => []TooltipFresh
<1>1. PageInv => TooltipFresh
  BY DEF PageInv
<1>2. QED  BY <1>1, PageInit, PageKept, PTL DEF Spec

(***************************************************************************)
(* The last file of a drop of one extraction shows that extraction, for     *)
(* any number of files in any order.                                        *)
(***************************************************************************)
THEOREM WholeDropsShow == Spec => WholeDropShown
<1>1. PageInv /\ [Next]_vars => [\A d \in Drop : DropShows(d)]_vars
  BY LastFileShows DEF PageInv
<1>2. QED  BY <1>1, PageInit, PageKept, PTL DEF Spec, WholeDropShown

-----------------------------------------------------------------------------
(* The preferences.                                                         *)


\* A view is its four fields.
LEMMA ViewFields ==
  ASSUME NEW v \in View, NEW w \in View,
         v.folds = w.folds, v.collapsed = w.collapsed, v.width = w.width, v.theme = w.theme
  PROVE  v = w
BY DEF View

\* A page that is loaded reads the storage as it is.
LEMMA LoadedIsStored == ASSUME TypeOK PROVE Loaded \in View /\ (works => Loaded = stored)
<1>1. Loaded \in View
  BY DEF TypeOK, Loaded, View, LoadFolds, LoadCollapsed, LoadWidth, StoredTheme
<1>2. ASSUME works PROVE Loaded = stored
  <2>1. stored \in View /\ Loaded.folds = stored.folds /\ Loaded.collapsed = stored.collapsed
        /\ Loaded.width = stored.width /\ Loaded.theme = stored.theme
    BY <1>2 DEF TypeOK, Loaded, LoadFolds, LoadCollapsed, LoadWidth, StoredTheme
  <2>2. QED  BY <1>1, <2>1, ViewFields
<1>3. QED  BY <1>1, <1>2

LEMMA InitInvariant == ASSUME Absent \notin Theme, PrefsInit PROVE IInv
BY DEF PrefsInit, IInv, TypeOK, View, Default, Resolved, Resolve, Synced

\* A write of one tab leaves every other tab behind, and must be what its own user chose.
LEMMA WritePreserves ==
  ASSUME Absent \notin Theme, IInv, NEW t \in Tab,
         NEW page \in View, NEW choice \in View, NEW store \in View,
         shown' = [shown EXCEPT ![t] = page], wanted' = [wanted EXCEPT ![t] = choice],
         Write(t, store), works' = works, os' = os, dragging' \in [Tab -> BOOLEAN],
         works /\ ~foreign[t] =>
           /\ store = choice /\ page.folds = store.folds /\ page.collapsed = store.collapsed
           /\ page.theme = Resolve(store.theme)
           /\ ~dragging'[t] => page.width = store.width
  PROVE  IInv'
<1>1. TypeOK
  BY DEF IInv
<1>2. /\ \A u \in Tab : foreign'[u] = (foreign[u] \/ u # t)
      /\ foreign' \in [Tab -> BOOLEAN]
      /\ stored' = IF works THEN store ELSE stored
  BY <1>1 DEF TypeOK, Write
<1>3. TypeOK'
  BY <1>1, <1>2 DEF TypeOK
<1>4. shown'[t] = page /\ wanted'[t] = choice
  BY <1>1 DEF TypeOK
<1>5. ASSUME works, NEW u \in Tab, ~foreign'[u] PROVE Synced(u)'
  <2>1. u = t /\ ~foreign[t]
    BY <1>2, <1>5
  <2>2. stored' = store
    BY <1>2, <1>5
  <2>3. QED  BY <1>4, <1>5, <2>1, <2>2 DEF Synced, Resolve
<1>6. QED  BY <1>3, <1>5 DEF IInv

LEMMA TogglePreserves ==
  ASSUME Absent \notin Theme, IInv, NEW t \in Tab,
         ToggleSidebar(t) \/ ToggleTheme(t) \/ \E s \in Section : ToggleFold(t, s)
  PROVE  IInv'
<1>1. /\ shown[t] \in View /\ wanted[t] \in View /\ stored \in View
      /\ dragging \in [Tab -> BOOLEAN] /\ works \in BOOLEAN
  BY DEF IInv, TypeOK
<1>2. works /\ ~foreign[t] => Synced(t)
  BY DEF IInv
<1>3. CASE ToggleSidebar(t)
  <2>1. PICK collapsed \in BOOLEAN : collapsed = ~shown[t].collapsed
    OBVIOUS
  <2> DEFINE page == [shown[t] EXCEPT !.collapsed = collapsed]
             choice == [wanted[t] EXCEPT !.collapsed = collapsed]
             store == [stored EXCEPT !.collapsed = collapsed]
  <2>2. page \in View /\ choice \in View /\ store \in View
    BY <1>1 DEF View
  <2>3. /\ shown' = [shown EXCEPT ![t] = page] /\ wanted' = [wanted EXCEPT ![t] = choice]
        /\ Write(t, store) /\ works' = works /\ os' = os /\ dragging' = dragging
    BY <1>3, <2>1 DEF ToggleSidebar
  <2>4. works /\ ~foreign[t] =>
          /\ store = choice /\ page.folds = store.folds /\ page.collapsed = store.collapsed
          /\ page.theme = Resolve(store.theme) /\ (~dragging[t] => page.width = store.width)
    BY <1>1, <1>2 DEF Synced, View, Resolve
  <2> HIDE DEF page, choice, store
  <2>5. QED  BY <1>1, <2>2, <2>3, <2>4, WritePreserves
<1>4. CASE ToggleTheme(t)
  <2>1. PICK theme \in Theme : theme = Opposite(shown[t].theme)
    BY DEF Opposite, Theme
  <2> DEFINE page == [shown[t] EXCEPT !.theme = theme]
             choice == [wanted[t] EXCEPT !.theme = theme]
             store == [stored EXCEPT !.theme = theme]
  <2>2. page \in View /\ choice \in View /\ store \in View
    BY <1>1 DEF View
  <2>3. /\ shown' = [shown EXCEPT ![t] = page] /\ wanted' = [wanted EXCEPT ![t] = choice]
        /\ Write(t, store) /\ works' = works /\ os' = os /\ dragging' = dragging
    BY <1>4, <2>1 DEF ToggleTheme
  <2>4. works /\ ~foreign[t] =>
          /\ store = choice /\ page.folds = store.folds /\ page.collapsed = store.collapsed
          /\ page.theme = Resolve(store.theme) /\ (~dragging[t] => page.width = store.width)
    BY <1>1, <1>2, <2>1 DEF Synced, View, Resolve
  <2> HIDE DEF page, choice, store
  <2>5. QED  BY <1>1, <2>2, <2>3, <2>4, WritePreserves
<1>5. ASSUME NEW s \in Section, ToggleFold(t, s) PROVE IInv'
  <2>1. PICK folds \in SUBSET Section : folds = Flip(shown[t].folds, s)
    BY <1>1 DEF Flip, View
  <2> DEFINE page == [shown[t] EXCEPT !.folds = folds]
             choice == [wanted[t] EXCEPT !.folds = folds]
             store == [stored EXCEPT !.folds = folds]
  <2>2. page \in View /\ choice \in View /\ store \in View
    BY <1>1 DEF View
  <2>3. /\ shown' = [shown EXCEPT ![t] = page] /\ wanted' = [wanted EXCEPT ![t] = choice]
        /\ Write(t, store) /\ works' = works /\ os' = os /\ dragging' = dragging
    BY <1>5, <2>1 DEF ToggleFold
  <2>4. works /\ ~foreign[t] =>
          /\ store = choice /\ page.folds = store.folds /\ page.collapsed = store.collapsed
          /\ page.theme = Resolve(store.theme) /\ (~dragging[t] => page.width = store.width)
    BY <1>1, <1>2 DEF Synced, View, Resolve
  <2> HIDE DEF page, choice, store
  <2>5. QED  BY <1>1, <2>2, <2>3, <2>4, WritePreserves
<1>6. QED  BY <1>3, <1>4, <1>5

\* While the handle is held the page has a width that is not stored yet.
LEMMA DragPreserves ==
  ASSUME Absent \notin Theme, IInv, NEW t \in Tab, NEW w \in Width, DragMove(t, w) \/ DragUp(t, w)
  PROVE  IInv'
<1>1. /\ shown[t] \in View /\ wanted[t] \in View /\ stored \in View
      /\ dragging \in [Tab -> BOOLEAN] /\ works \in BOOLEAN
  BY DEF IInv, TypeOK
<1> DEFINE page == [shown[t] EXCEPT !.width = w]
           choice == [wanted[t] EXCEPT !.width = w]
           store == [stored EXCEPT !.width = w]
<1>2. /\ page \in View /\ page.folds = shown[t].folds /\ page.collapsed = shown[t].collapsed
      /\ page.theme = shown[t].theme
  BY <1>1 DEF View
<1>3. CASE DragMove(t, w)
  <2>1. /\ shown' = [shown EXCEPT ![t] = page] /\ dragging' = [dragging EXCEPT ![t] = TRUE]
        /\ works' = works /\ stored' = stored /\ os' = os /\ wanted' = wanted /\ foreign' = foreign
    BY <1>3 DEF DragMove
  <2> HIDE DEF page
  <2>2. TypeOK'
    BY <1>2, <2>1 DEF IInv, TypeOK
  <2>3. ASSUME works, NEW u \in Tab, ~foreign[u] PROVE Synced(u)'
    <3>1. Synced(u)
      BY <2>3 DEF IInv
    <3>2. CASE u = t
      BY <1>1, <1>2, <2>1, <3>1, <3>2 DEF IInv, TypeOK, Synced, Resolve
    <3>3. CASE u # t
      BY <1>1, <2>1, <3>1, <3>3 DEF IInv, TypeOK, Synced, Resolve
    <3>4. QED  BY <3>2, <3>3
  <2>4. QED  BY <2>1, <2>2, <2>3 DEF IInv
<1>4. CASE DragUp(t, w)
  <2>1. choice \in View /\ store \in View
    BY <1>1 DEF View
  <2>2. /\ shown' = [shown EXCEPT ![t] = page] /\ wanted' = [wanted EXCEPT ![t] = choice]
        /\ Write(t, store) /\ works' = works /\ os' = os
        /\ dragging' = [dragging EXCEPT ![t] = FALSE]
    BY <1>4 DEF DragUp
  <2>3. works /\ ~foreign[t] =>
          /\ store = choice /\ page.folds = store.folds /\ page.collapsed = store.collapsed
          /\ page.theme = Resolve(store.theme) /\ page.width = store.width
    BY <1>1 DEF IInv, Synced, View, Resolve
  <2> HIDE DEF page, choice, store
  <2>4. dragging' \in [Tab -> BOOLEAN]
    BY <1>1, <2>2
  <2>5. QED  BY <1>2, <2>1, <2>2, <2>3, <2>4, WritePreserves
<1>5. QED  BY <1>3, <1>4

\* The tabs follow the system where the storage has no theme.
LEMMA OsChangePreserves == ASSUME Absent \notin Theme, IInv, OsChange PROVE IInv'
BY DEF IInv, TypeOK, View, Synced, Resolve, OsChange, Opposite, Theme, StoredTheme

LEMMA ReloadPreserves ==
  ASSUME Absent \notin Theme, IInv, NEW t \in Tab, Reload(t) \/ ResetView(t) PROVE IInv'
<1>1. TypeOK /\ stored' \in View /\ UNCHANGED <<works, os>>
  <2>1. Default \in View
    BY DEF Default, View
  <2>2. QED  BY <2>1 DEF IInv, TypeOK, Reload, ResetView
<1>2. Loaded' \in View /\ (works => Loaded' = stored')
  <2>1. Loaded' \in View
    BY <1>1 DEF TypeOK, Loaded, View, LoadFolds, LoadCollapsed, LoadWidth, StoredTheme
  <2>2. ASSUME works
        PROVE  /\ Loaded'.folds = stored'.folds /\ Loaded'.collapsed = stored'.collapsed
               /\ Loaded'.width = stored'.width /\ Loaded'.theme = stored'.theme
    BY <1>1, <2>2 DEF Loaded, LoadFolds, LoadCollapsed, LoadWidth, StoredTheme
  <2>3. QED  BY <1>1, <2>1, <2>2, ViewFields
<1>3. /\ shown' = [shown EXCEPT ![t] = [Loaded' EXCEPT !.theme = IF Loaded'.theme = Absent THEN os ELSE Loaded'.theme]]
      /\ dragging' = [dragging EXCEPT ![t] = FALSE]
  BY <1>1 DEF Reload, ResetView, LoadView, Resolved, Resolve
<1>4. CASE Reload(t)
  <2>1. Loaded \in View /\ (works => Loaded = stored) /\ stored' = stored
    BY <1>1, <1>4, LoadedIsStored DEF Reload
  <2>2. /\ wanted' = IF foreign[t] THEN [wanted EXCEPT ![t] = Loaded] ELSE wanted
        /\ foreign' = [foreign EXCEPT ![t] = FALSE]
    BY <1>4 DEF Reload
  <2>3. TypeOK'
    BY <1>1, <1>2, <1>3, <2>1, <2>2 DEF TypeOK, View, Theme
  <2>4. QED  BY <1>1, <1>2, <1>3, <2>1, <2>2, <2>3 DEF IInv, TypeOK, View, Synced, Resolve
<1>5. CASE ResetView(t)
  <2>1. /\ works => stored' = Default
        /\ wanted' = [wanted EXCEPT ![t] = Default] /\ foreign' = [u \in Tab |-> u # t]
        /\ Default \in View
    BY <1>5 DEF ResetView, Default, View
  <2>2. TypeOK'
    BY <1>1, <1>2, <1>3, <2>1 DEF TypeOK, View, Theme
  <2> HIDE DEF Default
  <2>3. QED  BY <1>1, <1>2, <1>3, <2>1, <2>2 DEF IInv, TypeOK, View, Synced, Resolve
<1>6. QED  BY <1>4, <1>5

LEMMA StepInvariant ==
  ASSUME Absent \notin Theme, IInv, [PrefsNext]_prefVars PROVE IInv'
<1>1. CASE UNCHANGED prefVars
  BY <1>1 DEF prefVars, IInv, TypeOK, Synced, Resolve
<1>2. QED
  BY <1>1, TogglePreserves, DragPreserves, OsChangePreserves, ReloadPreserves DEF PrefsNext

(***************************************************************************)
(* A page shows what its user last chose, through any number of reloads, as *)
(* long as no other tab has written since it was loaded.                    *)
(***************************************************************************)
THEOREM ChoicesSurviveReloads == ASSUME Absent \notin Theme PROVE PrefsSpec => []ViewKept
<1>1. PrefsInit => IInv
  BY InitInvariant
<1>2. IInv /\ [PrefsNext]_prefVars => IInv'
  BY StepInvariant
<1>3. IInv => ViewKept
  <2> SUFFICES ASSUME IInv, works, NEW t \in Tab, ~foreign[t], ~dragging[t]
               PROVE  shown[t] = Resolved(wanted[t])
    BY DEF ViewKept
  <2>1. Synced(t) /\ shown[t] \in View /\ wanted[t] \in View /\ os \in Theme
    BY DEF IInv, TypeOK
  <2>2. Resolved(wanted[t]) \in View
    BY <2>1 DEF Resolved, Resolve, View
  <2>3. /\ shown[t].folds = Resolved(wanted[t]).folds
        /\ shown[t].collapsed = Resolved(wanted[t]).collapsed
        /\ shown[t].width = Resolved(wanted[t]).width
        /\ shown[t].theme = Resolved(wanted[t]).theme
    BY <2>1 DEF Synced, Resolved, View
  <2>4. QED  BY <2>1, <2>2, <2>3, ViewFields
<1>4. QED  BY <1>1, <1>2, <1>3, PTL DEF PrefsSpec
=============================================================================
