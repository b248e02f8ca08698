------------------------------- MODULE CallTree -----------------------------
(***************************************************************************)
(* The runtime call graph enrich mines from a profile's call tree: the      *)
(* samples of each subtree, summed with an explicit stack over the profile  *)
(* nodes in whatever order the profile lists them, and the CALLS_RUNTIME    *)
(* edges that joining the frames onto graph nodes leaves.                   *)
(* Reading a profile does not check that it is a tree: a frame may have two  *)
(* callers or be on a cycle.                                                *)
(***************************************************************************)
EXTENDS Integers, Sequences, FiniteSets, FiniteSetsExt, SequencesExt

CONSTANTS
  TreeSize,    \* how many nodes the profile has
  Ticks,       \* the sample counts a node can have
  Symbols,     \* the graph nodes frames are joined onto
  NoSymbol,    \* of a frame that is dropped
  Tangled      \* bound: the frames that may form anything but a tree

CallFrame == 1 .. TreeSize

ASSUME TreeAssumption ==
  /\ TreeSize \in Nat /\ Ticks \subseteq Nat /\ Tangled \subseteq CallFrame
  /\ IsFiniteSet(Symbols) /\ NoSymbol \notin Symbols

VARIABLES
  children,    \* frame -> the frames called from it
  self,        \* frame -> its own samples
  owner,       \* frame -> the graph node it resolves to
  root,        \* the frame the outer loop is at
  stack, onStack,
  subtree      \* frame -> samples, for the frames summed so far

profileVars == <<children, self, owner>>
treeVars == <<profileVars, root, stack, onStack, subtree>>

\* The frames S and all those called from them, directly or not.
AllBelow[S \in SUBSET CallFrame] ==
  LET wider == S \cup UNION {children[g] : g \in S}
  IN  IF wider = S THEN S ELSE AllBelow[wider]

Below == [f \in CallFrame |-> AllBelow[{f}]]

BelowAny(T) == UNION {Below[c] : c \in T}

IsForest ==
  \A f \in CallFrame : f \notin BelowAny(children[f])
                   /\ Cardinality({g \in CallFrame : f \in children[g]}) <= 1

\* What a malformed profile samples and where it is joined does not matter to
\* the walk: only its calls vary.
TreeInit ==
  /\ children \in [CallFrame -> SUBSET CallFrame]
  /\ IF IsForest
     THEN self \in [CallFrame -> Ticks] /\ owner \in [CallFrame -> Symbols \cup {NoSymbol}]
     ELSE /\ \A f \in CallFrame : children[f] # {} => {f} \cup children[f] \subseteq Tangled
          /\ self = [f \in CallFrame |-> 0] /\ owner = [f \in CallFrame |-> NoSymbol]
  /\ root = 1
  /\ stack = <<>> /\ onStack = {}
  /\ subtree = <<>>

-----------------------------------------------------------------------------
\* The memory of the process, more than any walk needs.
StackLimit == 2 * TreeSize

\* subtreeSamples without the guard of onStack.
PendingUnguarded(f) == {c \in children[f] : c \notin DOMAIN subtree}

\* The callees of f to sum before f.
Pending(f) == {c \in children[f] : c \notin DOMAIN subtree /\ c \notin onStack}

SkipSummed ==
  /\ stack = <<>> /\ root \in DOMAIN subtree
  /\ root' = root + 1
  /\ UNCHANGED <<profileVars, stack, onStack, subtree>>

StartAt ==
  /\ stack = <<>> /\ root \in CallFrame \ DOMAIN subtree
  /\ stack' = <<root>> /\ onStack' = {root}
  /\ UNCHANGED <<profileVars, root, subtree>>

\* All the callees at once, in the order the frame lists them.
Descend ==
  /\ stack # <<>>
  /\ LET pending == Pending(Last(stack))
     IN  /\ pending # {} /\ Len(stack) < StackLimit
         /\ \E order \in SetToSeqs(pending) : stack' = stack \o order
         /\ onStack' = onStack \cup pending
  /\ UNCHANGED <<profileVars, root, subtree>>

\* A callee that is not summed yet, on a cycle, counts as nothing.
Sum ==
  /\ stack # <<>>
  /\ LET f == Last(stack)
         summed == children[f] \cap DOMAIN subtree
     IN  /\ Pending(f) = {}
         /\ subtree' = [g \in DOMAIN subtree \cup {f} |->
                          IF g = f THEN self[f] + MapThenSumSet(LAMBDA c : subtree[c], summed)
                          ELSE subtree[g]]
         /\ onStack' = onStack \ {f}
  /\ stack' = Front(stack)
  /\ UNCHANGED <<profileVars, root>>

TreeNext == SkipSummed \/ StartAt \/ Descend \/ Sum

TreeSpec == TreeInit /\ [][TreeNext]_treeVars /\ WF_treeVars(TreeNext)

Done == stack = <<>> /\ root = TreeSize + 1

-----------------------------------------------------------------------------
\* callEdges: one for each parent and child in the tree.
CallEdges == {e \in CallFrame \X CallFrame : e[2] \in children[e[1]]}

\* joinCallEdges that keeps calls that stay on one graph node.
JoinedWithRecursion ==
  {e \in CallEdges : NoSymbol \notin {owner[e[1]], owner[e[2]]}}

\* The call edges that survive: both ends resolve, and to different graph nodes.
Joined ==
  {e \in CallEdges : /\ NoSymbol \notin {owner[e[1]], owner[e[2]]}
                     /\ owner[e[1]] # owner[e[2]]}

\* The samples below a call.
Carried == [e \in CallEdges |-> subtree[e[2]]]

\* metadata.samples of the CALLS_RUNTIME edges to a graph node, by where they come from.
Flow(to) ==
  [from \in Symbols |->
     MapThenSumSet(LAMBDA e : Carried[e],
                   {e \in Joined : owner[e[1]] = from /\ owner[e[2]] = to})]

Inflow(to) == MapThenSumSet(LAMBDA from : Flow(to)[from], Symbols)

-----------------------------------------------------------------------------
SelfOf(S) == MapThenSumSet(LAMBDA f : self[f], S)

\* The frame and the frames it was called from, directly or not.
Above(f) == {g \in CallFrame : f \in Below[g]}

\* No graph node calls itself with another one in between.
NoIndirectRecursion ==
  \A f \in CallFrame : owner[f] \in Symbols =>
    \A g \in Above(f) :
      owner[g] = owner[f] => \A h \in Above(f) : g \in Above(h) => owner[h] = owner[f]

\* The samples of the subtree of each frame.
Whole == [f \in CallFrame |-> SelfOf(Below[f])]

\* Each frame of a call tree is summed once everything below it has been.
SubtreesWhole == \A f \in DOMAIN subtree : subtree[f] = Whole[f]

\* A frame on the stack is not below one that is to be summed before it; the frames
\* the outer loop has left behind are summed.
TreeIInv ==
  /\ children \in [CallFrame -> SUBSET CallFrame] /\ self \in [CallFrame -> Nat]
  /\ owner \in [CallFrame -> Symbols \cup {NoSymbol}]
  /\ root \in 1 .. TreeSize + 1 /\ 1 .. root - 1 \subseteq DOMAIN subtree
  /\ DOMAIN subtree \subseteq CallFrame
  /\ stack \in Seq(CallFrame) /\ onStack = ToSet(stack)
  /\ \A i, j \in DOMAIN stack : i # j => stack[i] # stack[j]
  /\ IsForest => /\ \A i, j \in DOMAIN stack : i < j => stack[i] \notin Below[stack[j]]
                 /\ SubtreesWhole

\* The frames of a graph node that are called from frames of another one.
Entered(s) ==
  {e[2] : e \in {c \in CallEdges : owner[c[2]] = s /\ owner[c[1]] \in Symbols \ {s}}}

(***************************************************************************)
(* In whatever order the profile lists the frames of a call tree, the total *)
(* of each is the samples of its whole subtree. And without indirect        *)
(* recursion the samples that flow into a graph node over its runtime edges *)
(* are in the end exactly those below the frames of other graph nodes that  *)
(* called it: no sample of the profile is counted twice, however often the  *)
(* node calls itself.                                                       *)
(***************************************************************************)
InflowCountsOnce ==
  IsForest =>
    /\ SubtreesWhole
    /\ Done /\ NoIndirectRecursion =>
         \A s \in Symbols : Inflow(s) = SelfOf(BelowAny(Entered(s)))

(***************************************************************************)
(* subtreeSamples has "a guard so a malformed non-tree cannot loop": the    *)
(* walk ends for every profile.                                             *)
(***************************************************************************)
WalkEnds == <>Done

-----------------------------------------------------------------------------
(***************************************************************************)
(* enrich.md: the weight of a runtime edge is "how much execution flowed    *)
(* through that call": never more than the whole profile.                   *)
(***************************************************************************)
FlowWithinProfile ==
  Done /\ IsForest => \A from, to \in Symbols : Flow(to)[from] <= SelfOf(CallFrame)
=============================================================================
