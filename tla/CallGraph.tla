------------------------------ MODULE CallGraph -----------------------------
(***************************************************************************)
(* The call graph as graph_query.ts holds it in memory: the nodes numbered  *)
(* from 0 in the order they were read, the successor list of each node      *)
(* without self-edges, and the strongly connected components ("call         *)
(* cycles") of that graph.                                                  *)
(***************************************************************************)
EXTENDS Integers, FiniteSets

CONSTANT N   \* how many nodes the graph has

ASSUME NAssumption == N \in Nat

Node == 0 .. N - 1

\* computeCostModel and strongCycles drop an edge from a node to itself.
Graph == {succ \in [Node -> SUBSET Node] : \A v \in Node : v \notin succ[v]}

Closed(succ, S) == \A v \in S : succ[v] \subseteq S

\* v can be reached from u by any number of calls, zero included.
Reaches(succ, u, v) == \A S \in SUBSET Node : u \in S /\ Closed(succ, S) => v \in S

Mutual(succ, u, v) == Reaches(succ, u, v) /\ Reaches(succ, v, u)

SccOf(succ, v) == {u \in Node : Mutual(succ, u, v)}
=============================================================================
