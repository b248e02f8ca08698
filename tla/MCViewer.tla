------------------------------- MODULE MCViewer -----------------------------
(***************************************************************************)
(* The page and its preferences on two extractions, the second without      *)
(* measurements and communities and without one of the nodes.  The groups   *)
(* of controls hardly read each other's state, so a behaviour uses one of   *)
(* them, beside loading, and "loading" has the drops that overlap.          *)
(***************************************************************************)
EXTENDS ViewerPage, ViewerPrefs, TLC

CONSTANTS m, f1, f2, g1, g2, d1, d2

VARIABLE controls

MCNodesOf == g1 :> {m, f1, f2} @@ g2 :> {m, f1}
MCEdgesOf ==
  g1 :> {[from |-> m, to |-> f1, kind |-> "CONTAINS"], [from |-> m, to |-> f2, kind |-> "CONTAINS"],
         [from |-> f1, to |-> f2, kind |-> "CALLS"], [from |-> f2, to |-> f2, kind |-> "CALLS"]}
  @@ g2 :> {[from |-> m, to |-> f1, kind |-> "CONTAINS"]}
MCKindOf == m :> "Module" @@ f1 :> "Function" @@ f2 :> "Function"
MCMeasuredIn == g1 :> {f1} @@ g2 :> {}
MCCommunityIn ==
  g1 :> (m :> Unclustered @@ f1 :> "c0" @@ f2 :> "c1") @@ g2 :> (m :> Unclustered @@ f1 :> Unclustered)

Half(h, g) == [half |-> h, of |-> g]
Pair(g) == <<Half("nodes", g), Half("edges", g)>>
Swapped(g) == <<Half("edges", g), Half("nodes", g)>>
Singles == {<<Half(h, g)>> : h \in {"nodes", "edges"}, g \in {g1, g2}}
MCBundles ==
  Singles \cup {Pair(g1), Pair(g2), Swapped(g1)}
  \cup {<<Half("broken", None)>> \o Pair(g1), <<Half("nodes", g1), Half("broken", None)>>,
        <<Half("empty", None)>> \o Pair(g2), Pair(g2) \o <<Half("empty", None)>>}

MCQueries == {{m}, {f1, f2}, {}}

-----------------------------------------------------------------------------
MCInit ==
  /\ Init /\ PrefsInit
  /\ controls \in {"loading", "filters", "selection", "hover", "preferences", "sidebar"}
  /\ controls # "loading" => ~Waiting /\ disk = g1
  /\ controls \notin {"preferences", "sidebar"} => works /\ os = "dark"

\* One drop at a time, of both halves, of one extraction or mixed.
OneDrop ==
  \/ /\ InFlight = {}
     /\ \E g, h \in {g1, g2} : StartDrop(d1, <<Half("nodes", g), Half("edges", h)>>)
  \/ ReadFile(d1)

Hover ==
  \/ Pointing
  \/ TapBackground
  \/ history = <<>> /\ \E n \in Nodes : TapNode(n)
  \/ "Function" \in DOMAIN boxes["node-kinds"] /\ ToggleEntry("node-kinds", "Function")

MCNext ==
  /\ UNCHANGED controls
  /\ \/ controls = "loading" /\ Loading /\ UNCHANGED prefVars
     \/ controls = "filters" /\ (OneDrop \/ Filtering) /\ UNCHANGED prefVars
     \/ controls = "selection" /\ (OneDrop \/ Selecting) /\ UNCHANGED prefVars
     \/ controls = "hover" /\ (OneDrop \/ Hover) /\ UNCHANGED prefVars
     \/ controls = "preferences" /\ PrefsNext /\ UNCHANGED vars
        /\ \A t \in Tab : shown'[t].collapsed = FALSE /\ shown'[t].width = Absent
     \/ controls = "sidebar" /\ PrefsNext /\ UNCHANGED vars
        /\ \A t \in Tab : shown'[t].folds = {} /\ shown'[t].theme = os'

MCSpec == MCInit /\ [][MCNext]_<<vars, controls, prefVars>>
=============================================================================
