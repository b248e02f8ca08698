------------------------------- MODULE MCRuntime ----------------------------
(***************************************************************************)
(* The two halves of enrich, the samples and the calls of a profile. Each   *)
(* reads the profile and the nodes anew and they share nothing else, so a   *)
(* behaviour has one.                                                       *)
(***************************************************************************)
EXTENDS RuntimeJoin, CallTree

CONSTANT Halves

VARIABLE half

ProjectPaths == {<<"a">>, <<"src", "a">>}
SourcePlaces == {Root, <<"app">>}
NoPackages == {}

\* Every sum of these tells what it is the sum of.
PowersOfTwo == [f \in Frame |-> 2 ^ f]

DependencyPlaces == {Root \o <<"node_modules", "dep">>}

Idle ==
  /\ children = [f \in CallFrame |-> {}] /\ self = [f \in CallFrame |-> 0]
  /\ owner = [f \in CallFrame |-> NoSymbol]
  /\ root = TreeSize + 1 /\ stack = <<>> /\ onStack = {}
  /\ subtree = self

\* Bounds: the profiles that collapse lines are those that qualify names; the
\* first frame has always the same symbol, they are alike; and each frame has
\* its own power of two of ticks, which shows in every sum it is part of.
MCInit ==
  \/ /\ half = "samples" /\ half \in Halves /\ Init /\ Idle
     /\ profile.qualified = profile.collapsed
  \/ /\ half = "calls" /\ half \in Halves
     /\ children \in [CallFrame -> SUBSET CallFrame]
     /\ self = [f \in CallFrame |-> IF IsForest THEN 2 ^ (f - 1) ELSE 0]
     /\ TreeInit
     /\ owner[1] \in {NoSymbol, CHOOSE s \in Symbols : TRUE}
     /\ kind = <<>> /\ name = <<>> /\ file = <<>> /\ first = <<>> /\ last = <<>>
     /\ profile = <<>> /\ next = Foreign + 1 /\ attributions = <<>> /\ dropped = <<>>
     /\ manifest = <<>>

MCNext ==
  /\ UNCHANGED half
  /\ \/ half = "samples" /\ Next /\ UNCHANGED treeVars
     \/ half = "calls" /\ TreeNext /\ UNCHANGED vars

MCSpec == MCInit /\ [][MCNext]_<<half, vars, treeVars>> /\ WF_treeVars(half = "calls" /\ TreeNext /\ UNCHANGED vars)
=============================================================================
