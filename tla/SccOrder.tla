------------------------------- MODULE SccOrder -----------------------------
(***************************************************************************)
(* What stronglyConnectedComponents promises: it numbers the strongly       *)
(* connected components from 0, one after the other, "in reverse            *)
(* topological order": a component is numbered when every component it      *)
(* calls into has been.  In which order it picks among those is its own     *)
(* affair.                                                                  *)
(***************************************************************************)
EXTENDS CallGraph

VARIABLES
  succ,             \* the graph, fixed from the start
  componentOf,      \* the number of each node's component, -1 while it has none
  componentCount    \* how many components have been numbered

sccVars == <<succ, componentOf, componentCount>>

Numbered == {v \in Node : componentOf[v] # -1}

SccTypeOK ==
  /\ succ \in Graph
  /\ componentOf \in [Node -> -1 .. N - 1]
  /\ componentCount \in 0 .. N

SccInit ==
  /\ succ \in Graph
  /\ componentOf = [v \in Node |-> -1]
  /\ componentCount = 0

Number(C) ==
  /\ C \cap Numbered = {}
  /\ \A v \in C : succ[v] \subseteq C \cup Numbered
  /\ componentOf' = [v \in Node |-> IF v \in C THEN componentCount ELSE componentOf[v]]
  /\ componentCount' = componentCount + 1
  /\ UNCHANGED succ

SccNext == \E v \in Node : Number(SccOf(succ, v))

\* Whole components are numbered, none of the numbers is left out, and calls lead
\* to components with smaller ones.
SccIInv ==
  /\ succ \in Graph /\ componentCount \in Nat
  /\ componentOf \in [Node -> -1 .. componentCount - 1]
  /\ \A c \in 0 .. componentCount - 1 : \E v \in Node : componentOf[v] = c
  /\ \A u \in Numbered : {v \in Node : componentOf[v] = componentOf[u]} = SccOf(succ, u)
  /\ \A u \in Numbered : \A v \in succ[u] : v \in Numbered /\ componentOf[v] <= componentOf[u]

SccSpec == SccInit /\ [][SccNext]_sccVars /\ WF_sccVars(SccNext)
=============================================================================
