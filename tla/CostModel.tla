------------------------------ MODULE CostModel -----------------------------
(***************************************************************************)
(* computeCostModel of graph_query.ts, on which `cost` and its attribution  *)
(* rest: the components are numbered as SccOrder says, then priced in the   *)
(* order of their numbers; what a component costs is its own self cost plus *)
(* its share of everything it calls.                                        *)
(*                                                                          *)
(* The program computes in floating point.  Here a cost is an integer       *)
(* number of units, with Unit units to one unit of self cost, chosen so     *)
(* that no division leaves a remainder.                                     *)
(***************************************************************************)
EXTENDS SccOrder, FiniteSetsExt

CONSTANTS
  Counts,      \* the weights an edge may carry: call sites, or samples
  SelfCosts,   \* the self costs a node may have measured
  Unit

ASSUME CostAssumption ==
  /\ Counts \subseteq Nat
  /\ SelfCosts \subseteq Nat
  /\ Unit \in Nat \ {0}

VARIABLES
  weight,      \* the count of each edge
  self,        \* measured self cost of each node
  inclusive,   \* inclusiveByComponent
  priced       \* how many components have been priced

vars == <<sccVars, weight, self, inclusive, priced>>

Edges(g) == {e \in Node \X Node : e[2] \in g[e[1]]}

Init ==
  /\ SccInit
  /\ weight \in [Edges(succ) -> Counts]
  /\ self \in [Node -> SelfCosts]
  /\ inclusive = [c \in Node |-> 0]
  /\ priced = 0

Members(c) == {v \in Node : componentOf[v] = c}

\* The edges that leave their component.
Crossing == {e \in Edges(succ) : componentOf[e[1]] # componentOf[e[2]]}

\* Internal calls divide the cost of a cycle too.
AnyInbound(v) == MapThenSumSet(LAMBDA e : weight[e], {e \in Edges(succ) : e[2] = v})

ExternalInbound(v) == MapThenSumSet(LAMBDA e : weight[e], {e \in Crossing : e[2] = v})

\* What the target of edge e costs the source, as costRanking and
\* costAttribution both reckon it.
Flow ==
  [e \in Crossing |->
     LET inbound == ExternalInbound(e[2])
     IN  IF inbound > 0 THEN (inclusive[componentOf[e[2]]] * weight[e]) \div inbound ELSE 0]

OwnCost(C) == Unit * MapThenSumSet(LAMBDA v : self[v], C)

Outflow(C) == MapThenSumSet(LAMBDA e : Flow[e], {e \in Crossing : e[1] \in C})

Collapse == SccNext /\ UNCHANGED <<weight, self, inclusive, priced>>

Price ==
  /\ Numbered = Node /\ priced < componentCount
  /\ inclusive' = [inclusive EXCEPT ![priced] = OwnCost(Members(priced)) + Outflow(Members(priced))]
  /\ priced' = priced + 1
  /\ UNCHANGED <<sccVars, weight, self>>

Next == Collapse \/ Price

Spec == Init /\ [][Next]_vars

Priced == Numbered = Node /\ priced = componentCount

Total == OwnCost(Node)

-----------------------------------------------------------------------------
\* The costs of the components that have been priced, from the first.
CostIInv ==
  /\ SccIInv
  /\ weight \in [Edges(succ) -> Nat] /\ self \in [Node -> Nat] /\ inclusive \in [Node -> Nat]
  /\ priced \in 0 .. componentCount /\ (Numbered # Node => priced = 0)
  /\ \A c \in 0 .. priced - 1 : inclusive[c] = OwnCost(Members(c)) + Outflow(Members(c))

\* Unit is chosen well.
NoRemainder ==
  \A e \in Crossing :
    ExternalInbound(e[2]) > 0 => (inclusive[componentOf[e[2]]] * weight[e]) % ExternalInbound(e[2]) = 0

Entries(c) == {v \in Members(c) : ExternalInbound(v) > 0}

(***************************************************************************)
(* "Cost is conserved": as long as no cycle is entered through two of its   *)
(* members, the components nobody outside calls share out exactly the total *)
(* self cost, and no node is held responsible for more than that total.     *)
(***************************************************************************)
Conserved ==
  Priced /\ NoRemainder /\ (\A c \in 0 .. componentCount - 1 : Cardinality(Entries(c)) <= 1) =>
    /\ MapThenSumSet(LAMBDA c : inclusive[c],
         {c \in 0 .. componentCount - 1 : Entries(c) = {}}) = Total
    /\ \A c \in 0 .. componentCount - 1 : inclusive[c] <= Total

(***************************************************************************)
(* cost.md: "shareOfTotal is a true fraction in [0, 1]".                    *)
(***************************************************************************)
ShareIsFraction == Priced => \A v \in Node : inclusive[componentOf[v]] <= Total
=============================================================================
