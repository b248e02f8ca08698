-------------------------------- MODULE Tarjan ------------------------------
(***************************************************************************)
(* stronglyConnectedComponents of graph_query.ts, step by step: Tarjan's    *)
(* algorithm with an explicit work stack, on which strongCycles and the     *)
(* cost model rest.  A frame of the work stack is a node and the successors *)
(* still to be looked at; their order is the order of the rows the database *)
(* returned, which no query fixes, so any of them may be next.              *)
(***************************************************************************)
EXTENDS CallGraph, Sequences, SequencesExt

VARIABLES
  succ,             \* successors
  start,            \* the loop variable of the outer loop
  index,            \* discovery number, -1 before discovery
  lowlink,
  onStack,          \* the nodes v with onStack[v] set
  componentOf,
  sccStack,
  work,             \* workNode and workNext
  counter,
  componentCount

vars == <<succ, start, index, lowlink, onStack, componentOf, sccStack, work,
          counter, componentCount>>

Init ==
  /\ succ \in Graph
  /\ start = 0
  /\ index = [v \in Node |-> -1]
  /\ lowlink = [v \in Node |-> 0]
  /\ onStack = {}
  /\ componentOf = [v \in Node |-> -1]
  /\ sccStack = <<>>
  /\ work = <<>>
  /\ counter = 0
  /\ componentCount = 0

Top == Last(work)

\* The first visit of v, on top of the frames s.
Discover(v, s) ==
  /\ index' = [index EXCEPT ![v] = counter]
  /\ lowlink' = [lowlink EXCEPT ![v] = counter]
  /\ counter' = counter + 1
  /\ sccStack' = Append(sccStack, v)
  /\ onStack' = onStack \cup {v}
  /\ work' = Append(s, [node |-> v, rest |-> succ[v]])
  /\ UNCHANGED <<succ, componentOf, componentCount>>

SkipVisited ==
  /\ work = <<>> /\ start \in Node /\ index[start] # -1
  /\ start' = start + 1
  /\ UNCHANGED <<succ, index, lowlink, onStack, componentOf, sccStack, work, counter,
                 componentCount>>

BeginRoot ==
  /\ work = <<>> /\ start \in Node /\ index[start] = -1
  /\ Discover(start, <<>>)
  /\ start' = start + 1

\* The work stack once its top frame has looked at next.
Advanced(next) == Append(Front(work), [Top EXCEPT !.rest = @ \ {next}])

FollowNew(next) ==
  /\ index[next] = -1
  /\ Discover(next, Advanced(next))
  /\ UNCHANGED start

\* A node of a finished component counts as one on the stack.
FollowOldOffStack(next) ==
  /\ index[next] # -1
  /\ lowlink' = IF index[next] < lowlink[Top.node]
                THEN [lowlink EXCEPT ![Top.node] = index[next]]
                ELSE lowlink
  /\ work' = Advanced(next)
  /\ UNCHANGED <<succ, start, index, onStack, componentOf, sccStack, counter, componentCount>>

FollowOld(next) ==
  /\ index[next] # -1
  /\ lowlink' = IF next \in onStack /\ index[next] < lowlink[Top.node]
                THEN [lowlink EXCEPT ![Top.node] = index[next]]
                ELSE lowlink
  /\ work' = Advanced(next)
  /\ UNCHANGED <<succ, start, index, onStack, componentOf, sccStack, counter, componentCount>>

Follow == work # <<>> /\ \E next \in Top.rest : FollowNew(next) \/ FollowOld(next)

\* The parent does not learn the lowlink of its finished child.
PopSilently ==
  /\ work' = Front(work)
  /\ UNCHANGED <<succ, start, index, counter, lowlink>>

\* The finished frame leaves the work stack and hands its lowlink to its parent.
Pop ==
  /\ work' = Front(work)
  /\ lowlink' = [v \in Node |->
       IF /\ Len(work) > 1
          /\ v = work[Len(work) - 1].node
          /\ lowlink[Top.node] < lowlink[v]
       THEN lowlink[Top.node] ELSE lowlink[v]]
  /\ UNCHANGED <<succ, start, index, counter>>

Retreat ==
  /\ work # <<>> /\ Top.rest = {} /\ lowlink[Top.node] # index[Top.node]
  /\ Pop
  /\ UNCHANGED <<onStack, componentOf, sccStack, componentCount>>

\* How much of the SCC stack stays when node's component is popped.
Below(node) == (CHOOSE i \in 1 .. Len(sccStack) : sccStack[i] = node) - 1

Finish ==
  /\ work # <<>> /\ Top.rest = {} /\ lowlink[Top.node] = index[Top.node]
  /\ LET kept == Below(Top.node)
         members == {sccStack[i] : i \in kept + 1 .. Len(sccStack)}
     IN  /\ sccStack' = SubSeq(sccStack, 1, kept)
         /\ onStack' = onStack \ members
         /\ componentOf' = [v \in Node |-> IF v \in members THEN componentCount ELSE componentOf[v]]
  /\ componentCount' = componentCount + 1
  /\ Pop

Next == SkipVisited \/ BeginRoot \/ Follow \/ Retreat \/ Finish

\* A sequential loop: nothing but its own next step can happen.
Spec == Init /\ [][Next]_vars /\ WF_vars(Next)

Done == work = <<>> /\ start = N

\* What strongCycles reports: the numbered components of several members.
StrongCycles ==
  {C \in {{v \in Node : componentOf[v] = c} : c \in 0 .. componentCount - 1} : Cardinality(C) > 1}

-----------------------------------------------------------------------------
(***************************************************************************)
(* The algorithm keeps the promise of SccOrder: every step numbers nothing, *)
(* or exactly one strongly connected component whose callees are numbered   *)
(* already, and in the end every node has a number.                         *)
(***************************************************************************)
Promise == INSTANCE SccOrder
NumbersComponents == Promise!SccSpec

(***************************************************************************)
(* Whatever order the rows come in, the passes over the result see the same *)
(* partition: at the end two nodes have one number exactly when each calls  *)
(* the other, directly or not, no edge leads to a higher number, and the    *)
(* reported cycles are the strongly connected components that are no single *)
(* node.                                                                    *)
(***************************************************************************)
CyclesFound ==
  Done =>
    /\ \A u, v \in Node :
         /\ componentOf[u] \in 0 .. componentCount - 1
         /\ componentOf[u] = componentOf[v] <=> Mutual(succ, u, v)
         /\ v \in succ[u] => componentOf[v] <= componentOf[u]
    /\ StrongCycles = {SccOf(succ, v) : v \in {u \in Node : SccOf(succ, u) # {u}}}
=============================================================================
