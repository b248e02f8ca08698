----------------------------- MODULE TarjanProofs ---------------------------
(***************************************************************************)
(* Proof that the iterative search numbers whole components, callees first, *)
(* and reports exactly the call cycles, for graphs of any size and every    *)
(* order of the rows.                                                       *)
(*                                                                          *)
(* The nodes with a frame are called open.  The invariant says what the     *)
(* stacks stand for: an open node reaches every node above it on the SCC    *)
(* stack (Below), every node on the SCC stack reaches an open one that was  *)
(* discovered no later than itself (Above), and what the edges followed so  *)
(* far lead to is bounded by the lowlinks of the frames (Bounded).          *)
(***************************************************************************)
EXTENDS Tarjan, FiniteSetTheorems, SequenceTheorems, TLAPS

Frame == [node : Node, rest : SUBSET Node]
Frames == 1 .. Len(work)
NodeAt(i) == work[i].node
Open == {NodeAt(i) : i \in Frames}

TarjanTypeOK ==
  /\ succ \in Graph /\ start \in Nat /\ start <= N
  /\ index \in [Node -> Nat \cup {-1}] /\ lowlink \in [Node -> Nat]
  /\ componentOf \in [Node -> Nat \cup {-1}] /\ componentCount \in Nat /\ counter \in Nat
  /\ sccStack \in Seq(Node) /\ work \in Seq(Frame) /\ onStack \subseteq Node

\* The edges that have been looked at.
Followed(u, w) ==
  /\ index[u] # -1 /\ w \in succ[u]
  /\ \A i \in Frames : NodeAt(i) = u => w \notin work[i].rest

\* The SCC stack holds the nodes discovered and not yet numbered, oldest first.
StackSorted ==
  /\ onStack = {sccStack[i] : i \in 1 .. Len(sccStack)}
  /\ \A i, j \in 1 .. Len(sccStack) : i < j => index[sccStack[i]] < index[sccStack[j]]
  /\ \A v \in Node : index[v] < counter /\ (v \in onStack <=> index[v] # -1 /\ componentOf[v] = -1)
  /\ \A v \in Node : componentOf[v] # -1 => index[v] # -1

\* The frames are of nodes on the SCC stack, in the order of their discovery.
WorkSorted ==
  /\ \A i, j \in Frames : i < j => index[NodeAt(i)] < index[NodeAt(j)]
  /\ \A i \in Frames : NodeAt(i) \in onStack /\ work[i].rest \subseteq succ[NodeAt(i)]

Discovered ==
  /\ \A u, w \in Node : Followed(u, w) => index[w] # -1
  /\ \A v \in Node : v < start => index[v] # -1

BelowReaches ==
  \A v \in Open, u \in onStack : index[v] <= index[u] => Reaches(succ, v, u)

AboveReaches ==
  \A u \in onStack : \E v \in Open : index[v] <= index[u] /\ Reaches(succ, u, v)

LowlinksTrue ==
  \A v \in Open :
    /\ lowlink[v] <= index[v]
    /\ \E w \in onStack : lowlink[v] = index[w] /\ Reaches(succ, v, w)

Bounded ==
  \A v \in Open, u, w \in onStack :
    index[v] <= index[u] /\ Followed(u, w) =>
      \E j \in Open : index[v] <= index[j] /\ lowlink[j] <= index[w]

\* The numbers given so far are those of components, callees first.
NumbersTrue ==
  /\ \A v \in Node : componentOf[v] # -1 =>
       /\ componentOf[v] < componentCount
       /\ \A w \in succ[v] : componentOf[w] # -1 /\ componentOf[w] <= componentOf[v]
       /\ {u \in Node : componentOf[u] = componentOf[v]} = SccOf(succ, v)
  /\ \A c \in 0 .. componentCount - 1 : \E v \in Node : componentOf[v] = c

StackInv == StackSorted /\ WorkSorted
SearchInv == Discovered /\ BelowReaches /\ AboveReaches /\ LowlinksTrue /\ Bounded
TarjanInv == TarjanTypeOK /\ StackInv /\ SearchInv /\ NumbersTrue

-----------------------------------------------------------------------------
(* Reachability. *)

LEMMA ReachSelf ==
  ASSUME NEW g, NEW u PROVE Reaches(g, u, u)
BY DEF Reaches

LEMMA ReachEdge ==
  ASSUME NEW g, NEW u, NEW w \in g[u] PROVE Reaches(g, u, w)
BY DEF Reaches, Closed

LEMMA ReachTransitive ==
  ASSUME NEW g, NEW u, NEW v, NEW w, Reaches(g, u, v), Reaches(g, v, w)
  PROVE  Reaches(g, u, w)
BY DEF Reaches

LEMMA ReachStays ==
  ASSUME NEW g, NEW S \in SUBSET Node, Closed(g, S), NEW u \in S, NEW v, Reaches(g, u, v)
  PROVE  v \in S
BY DEF Reaches

LEMMA SccOfMember ==
  ASSUME NEW g, NEW v \in Node, NEW u \in SccOf(g, v)
  PROVE  SccOf(g, u) = SccOf(g, v)
<1>1. \A a, b, c : Mutual(g, a, b) /\ Mutual(g, b, c) => Mutual(g, a, c)
  BY ReachTransitive DEF Mutual
<1>2. \A a, b : Mutual(g, a, b) <=> Mutual(g, b, a)
  BY DEF Mutual
<1>3. Mutual(g, u, v)
  BY DEF SccOf
<1>4. \A x : Mutual(g, x, u) <=> Mutual(g, x, v)
  BY <1>1, <1>2, <1>3
<1>5. QED  BY <1>4 DEF SccOf

-----------------------------------------------------------------------------
(* What the steps do to the open nodes and to the followed edges. *)

LEMMA FrontFacts ==
  ASSUME NEW S, NEW s \in Seq(S), s # <<>>
  PROVE  /\ Front(s) \in Seq(S) /\ Len(Front(s)) = Len(s) - 1
         /\ \A i \in 1 .. Len(s) - 1 : Front(s)[i] = s[i]
<1>1. Len(s) \in Nat \ {0} /\ \A i \in 1 .. Len(s) : s[i] \in S
  BY EmptySeq, ElementOfSeq
<1>2. PICK m \in Nat : m = Len(s) - 1
  BY <1>1
<1>3. \A i \in 1 .. m : s[i] \in S
  BY <1>1, <1>2
<1>4. /\ SubSeq(s, 1, m) \in Seq(S)
      /\ Len(SubSeq(s, 1, m)) = IF 1 <= m THEN m - 1 + 1 ELSE 0
      /\ \A i \in 1 .. m - 1 + 1 : SubSeq(s, 1, m)[i] = s[1 + i - 1]
  BY <1>3, SubSeqProperties
<1>5. Len(SubSeq(s, 1, m)) = m
  BY <1>4
<1>6. \A i \in 1 .. m : i \in 1 .. m - 1 + 1 /\ 1 + i - 1 = i
  OBVIOUS
<1>7. \A i \in 1 .. m : SubSeq(s, 1, m)[i] = s[i]
  BY <1>4, <1>6
<1>8. Front(s) = SubSeq(s, 1, m)
  BY <1>2 DEF Front
<1>9. QED  BY <1>2, <1>4, <1>5, <1>7, <1>8

LEMMA TopFacts ==
  ASSUME TarjanTypeOK, StackInv, work # <<>>
  PROVE  /\ Len(work) \in Nat \ {0} /\ Len(work) \in Frames
         /\ Top = work[Len(work)] /\ Top \in Frame
         /\ Top.node \in Open /\ Top.node \in Node /\ Top.node = NodeAt(Len(work))
         /\ Top.rest \subseteq succ[Top.node] /\ Open \subseteq onStack
         /\ \A v \in Open : v # Top.node => index[v] < index[Top.node]
<1>1. work \in Seq(Frame)
  BY DEF TarjanTypeOK
<1>2. Len(work) \in Nat \ {0}
  BY <1>1, EmptySeq
<1>3. Len(work) \in Frames
  BY <1>2 DEF Frames
<1>4. Top = work[Len(work)]
  BY DEF Top, Last
<1>5. work[Len(work)] \in Frame
  BY <1>1, <1>3 DEF Frames
<1>6. Top.node = NodeAt(Len(work)) /\ Top.node \in Open
  BY <1>3, <1>4 DEF NodeAt, Open
<1>7. Top.node \in Node
  BY <1>4, <1>5 DEF Frame
<1>8. Open \subseteq onStack /\ Top.rest \subseteq succ[Top.node]
  BY <1>3, <1>4, <1>6 DEF StackInv, WorkSorted, Open
<1>9. ASSUME NEW v \in Open, v # Top.node PROVE index[v] < index[Top.node]
  <2>1. PICK i \in Frames : v = NodeAt(i)
    BY DEF Open
  <2>2. i < Len(work)
    BY <1>2, <1>6, <1>9, <2>1 DEF Frames
  <2>3. QED  BY <1>3, <1>6, <2>1, <2>2 DEF StackInv, WorkSorted
<1>10. QED  BY <1>2, <1>3, <1>4, <1>5, <1>6, <1>7, <1>8, <1>9

LEMMA AdvancedFacts ==
  ASSUME TarjanTypeOK, StackInv, work # <<>>, NEW next \in Top.rest
  PROVE  /\ Advanced(next) \in Seq(Frame) /\ Len(Advanced(next)) = Len(work)
         /\ \A i \in Frames :
              /\ Advanced(next)[i].node = NodeAt(i)
              /\ Advanced(next)[i].rest =
                   IF i = Len(work) THEN work[i].rest \ {next} ELSE work[i].rest
<1> DEFINE top == [Top EXCEPT !.rest = @ \ {next}]
           front == Front(work)
<1>1. work \in Seq(Frame) /\ Len(work) \in Nat \ {0} /\ Top = work[Len(work)] /\ Top \in Frame
  BY TopFacts DEF TarjanTypeOK
<1>2. top \in Frame /\ top.node = Top.node /\ top.rest = Top.rest \ {next}
  BY <1>1 DEF Frame
<1>3. /\ front \in Seq(Frame) /\ Len(front) = Len(work) - 1
      /\ \A i \in 1 .. Len(work) - 1 : front[i] = work[i]
  BY <1>1, FrontFacts
<1>4. \A i \in 1 .. Len(work) - 1 : i \in 1 .. Len(front)
  BY <1>3
<1>5. Advanced(next) = Append(front, top)
  BY DEF Advanced
<1> HIDE DEF top, front
<1>6. /\ Append(front, top) \in Seq(Frame) /\ Len(Append(front, top)) = Len(work)
      /\ \A i \in 1 .. Len(work) - 1 : Append(front, top)[i] = work[i]
      /\ Append(front, top)[Len(work)] = top
  <2>1. /\ Append(front, top) \in Seq(Frame) /\ Len(Append(front, top)) = Len(front) + 1
        /\ \A i \in 1 .. Len(front) : Append(front, top)[i] = front[i]
        /\ Append(front, top)[Len(front) + 1] = top
    BY <1>2, <1>3, AppendProperties
  <2>2. QED  BY <1>1, <1>3, <1>4, <2>1
<1>7. ASSUME NEW i \in Frames
      PROVE  /\ Advanced(next)[i].node = NodeAt(i)
             /\ Advanced(next)[i].rest =
                  IF i = Len(work) THEN work[i].rest \ {next} ELSE work[i].rest
  <2>1. CASE i = Len(work)
    BY <1>1, <1>2, <1>5, <1>6, <2>1 DEF NodeAt
  <2>2. CASE i # Len(work)
    <3>1. i \in 1 .. Len(work) - 1
      BY <1>1, <2>2 DEF Frames
    <3>2. QED  BY <1>5, <1>6, <2>2, <3>1 DEF NodeAt
  <2>3. QED  BY <2>1, <2>2
<1>8. QED  BY <1>5, <1>6, <1>7

\* What is left when the top frame is popped, and what becomes of the lowlinks.
LEMMA PopFacts ==
  ASSUME TarjanTypeOK, StackInv, work # <<>>, Top.rest = {}, Pop
  PROVE  /\ work' \in Seq(Frame) /\ Len(work') = Len(work) - 1
         /\ \A i \in 1 .. Len(work) - 1 : work'[i] = work[i]
         /\ Open' = Open \ {Top.node}
         /\ \A u, w \in Node : Followed(u, w)' => Followed(u, w)
         /\ lowlink' \in [Node -> Nat] /\ \A v \in Node : lowlink'[v] <= lowlink[v]
         /\ Open' # {} => \E p \in Open' :
              /\ \A v \in Open' : index[v] <= index[p]
              /\ lowlink'[p] <= lowlink[Top.node]
              /\ \A v \in Node : lowlink'[v] # lowlink[v] =>
                   v = p /\ lowlink'[v] = lowlink[Top.node]
<1>1. /\ work \in Seq(Frame) /\ Len(work) \in Nat \ {0} /\ Top = work[Len(work)]
      /\ Top.node = NodeAt(Len(work)) /\ Top.node \in Node
      /\ \A v \in Open : v # Top.node => index[v] < index[Top.node]
  BY TopFacts DEF TarjanTypeOK
<1>2. \A i \in Frames : work[i] \in Frame
  BY <1>1 DEF Frames
<1>3. /\ work' \in Seq(Frame) /\ Len(work') = Len(work) - 1
      /\ \A i \in 1 .. Len(work) - 1 : work'[i] = work[i]
  BY <1>1, FrontFacts DEF Pop
<1>4. Frames' = 1 .. Len(work) - 1 /\ \A i \in Frames' : NodeAt(i)' = NodeAt(i)
  BY <1>3 DEF Frames, NodeAt
<1>5. Frames = Frames' \cup {Len(work)} /\ Len(work) \notin Frames' /\ Frames \subseteq Int
  BY <1>1, <1>4 DEF Frames
<1>6. \A i \in Frames' : i < Len(work) /\ i \in Frames
  BY <1>1, <1>4 DEF Frames
<1>7. \A i, j \in Frames : i < j => index[NodeAt(i)] < index[NodeAt(j)]
  BY DEF StackInv, WorkSorted
<1>8. \A i \in Frames : NodeAt(i) \in Node
  BY <1>2 DEF NodeAt, Frame
<1>9. index \in [Node -> Int]
  BY DEF TarjanTypeOK
<1>10. \A i \in Frames' : NodeAt(i) # Top.node
  <2>1. \A i \in Frames' : index[NodeAt(i)] < index[Top.node]
    BY <1>1, <1>5, <1>6, <1>7
  <2>2. QED  BY <1>1, <1>6, <1>8, <1>9, <2>1
<1>11. Open' = {NodeAt(i) : i \in Frames'}
  BY <1>4 DEF Open
<1>12. Open = {NodeAt(i) : i \in Frames}
  BY DEF Open
<1>13. Open' = Open \ {Top.node}
  BY <1>1, <1>5, <1>10, <1>11, <1>12
<1>14. ASSUME NEW u \in Node, NEW w \in Node, Followed(u, w)' PROVE Followed(u, w)
  <2>1. index[u] # -1 /\ w \in succ[u]
    BY <1>14 DEF Followed, Pop
  <2>2. \A i \in Frames' : NodeAt(i) = u => w \notin work[i].rest
    BY <1>3, <1>4, <1>14 DEF Followed
  <2>3. w \notin work[Len(work)].rest
    BY <1>1
  <2>4. QED  BY <1>5, <2>1, <2>2, <2>3 DEF Followed
<1> DEFINE hands(v) == Len(work) > 1 /\ v = NodeAt(Len(work) - 1) /\ lowlink[Top.node] < lowlink[v]
<1>15. lowlink' = [v \in Node |-> IF hands(v) THEN lowlink[Top.node] ELSE lowlink[v]]
  BY DEF Pop, NodeAt
<1>16. lowlink \in [Node -> Nat]
  BY DEF TarjanTypeOK
<1>17. lowlink' \in [Node -> Nat]
  BY <1>1, <1>15, <1>16
<1>18. \A v \in Node : lowlink'[v] = IF hands(v) THEN lowlink[Top.node] ELSE lowlink[v]
  BY <1>15
<1>19. \A v \in Node : lowlink'[v] <= lowlink[v]
  BY <1>1, <1>16, <1>18
<1>20. ASSUME Open' # {}
       PROVE  \E p \in Open' :
                /\ \A v \in Open' : index[v] <= index[p]
                /\ lowlink'[p] <= lowlink[Top.node]
                /\ \A v \in Node : lowlink'[v] # lowlink[v] =>
                     v = p /\ lowlink'[v] = lowlink[Top.node]
  <2> DEFINE p == NodeAt(Len(work) - 1)
  <2>1. Frames' # {}
    BY <1>11, <1>20
  <2>2. Len(work) > 1 /\ Len(work) - 1 \in Frames'
    BY <1>1, <1>4, <2>1
  <2>3. p \in Open' /\ p \in Node
    BY <1>6, <1>8, <1>11, <2>2
  <2>4. \A v \in Open' : index[v] <= index[p]
    <3>1. ASSUME NEW i \in Frames' PROVE index[NodeAt(i)] <= index[p]
      <4>1. CASE i = Len(work) - 1
        BY <1>9, <2>3, <4>1
      <4>2. CASE i # Len(work) - 1
        <5>1. i < Len(work) - 1
          BY <1>1, <1>4, <4>2
        <5>2. index[NodeAt(i)] < index[p]
          BY <1>6, <1>7, <2>2, <5>1
        <5>3. QED  BY <1>6, <1>8, <1>9, <2>3, <5>2
      <4>3. QED  BY <4>1, <4>2
    <3>2. QED  BY <1>11, <3>1
  <2>5. lowlink'[p] <= lowlink[Top.node]
    BY <1>1, <1>16, <1>18, <2>2, <2>3
  <2>6. \A v \in Node : lowlink'[v] # lowlink[v] => v = p /\ lowlink'[v] = lowlink[Top.node]
    BY <1>18
  <2>7. QED  BY <2>3, <2>4, <2>5, <2>6
<1>21. QED  BY <1>3, <1>13, <1>14, <1>17, <1>19, <1>20

-----------------------------------------------------------------------------
(* The steps. *)

\* While no frame is open, nothing waits for a number.
LEMMA NothingOpen ==
  ASSUME TarjanInv, work = <<>>
  PROVE  Open = {} /\ onStack = {}
<1>1. Open = {}
  BY EmptySeq DEF Open, Frames
<1>2. QED  BY <1>1 DEF TarjanInv, SearchInv, AboveReaches

\* A node found for the first time.  Every open node reaches it, since the top
\* frame has an edge to it, and it is the one edge that s has looked at further.
LEMMA DiscoverPreserves ==
  ASSUME TarjanInv, NEW v \in Node, index[v] = -1,
         NEW s \in Seq(Frame), Len(s) = Len(work),
         \A i \in Frames : /\ s[i].node = NodeAt(i)
                           /\ s[i].rest \subseteq work[i].rest
                           /\ work[i].rest \ {v} \subseteq s[i].rest,
         \A u \in Open : Reaches(succ, u, v),
         Discover(v, s), start' = start \/ (start = v /\ start' = start + 1)
  PROVE  TarjanInv'
<1> USE DEF TarjanInv, StackInv, SearchInv
<1>1. /\ succ \in [Node -> SUBSET Node] /\ succ' = succ
      /\ index \in [Node -> Int] /\ lowlink \in [Node -> Nat] /\ counter \in Nat
      /\ onStack \subseteq Node /\ v \notin onStack
  BY DEF TarjanTypeOK, Graph, StackSorted, Discover
<1>2. /\ \A u \in Node : index'[u] = IF u = v THEN counter ELSE index[u]
      /\ \A u \in Node : lowlink'[u] = IF u = v THEN counter ELSE lowlink[u]
      /\ onStack' = onStack \cup {v}
  BY <1>1 DEF Discover
<1>0. PICK m \in Nat : m = Len(work) + 1
  BY LenProperties DEF TarjanTypeOK
<1>3. /\ work' \in Seq(Frame) /\ Len(work') = m /\ Len(work) \in Nat
      /\ \A i \in Frames : work'[i] = s[i]
      /\ work'[m] = [node |-> v, rest |-> succ[v]]
  <2>1. [node |-> v, rest |-> succ[v]] \in Frame
    BY <1>1 DEF Frame
  <2>2. work' = Append(s, [node |-> v, rest |-> succ[v]])
    BY DEF Discover
  <2>3. /\ work' \in Seq(Frame) /\ Len(work') = Len(s) + 1
        /\ \A i \in 1 .. Len(s) : work'[i] = s[i]
        /\ work'[Len(s) + 1] = [node |-> v, rest |-> succ[v]]
    BY <2>1, <2>2, AppendProperties
  <2>4. Len(work) \in Nat
    BY LenProperties DEF TarjanTypeOK
  <2>5. QED  BY <1>0, <2>3, <2>4 DEF Frames
<1>4. Frames' = Frames \cup {m} /\ m \notin Frames
  BY <1>0, <1>3 DEF Frames
<1>5. /\ \A i \in Frames : NodeAt(i)' = NodeAt(i)
      /\ NodeAt(m)' = v
  BY <1>3 DEF NodeAt
<1>6. Open' = Open \cup {v}
  BY <1>4, <1>5 DEF Open
<1>7. Open \subseteq onStack
  BY DEF Open, WorkSorted
<1>8. \A u \in Node : index[u] < counter
  BY DEF StackSorted
<1>9. ASSUME NEW u \in Node, NEW w \in Node, Followed(u, w)'
      PROVE  u # v /\ (Followed(u, w) \/ w = v)
  <2>1. u # v
    <3>1. (NodeAt(m) = u => w \notin work[m].rest)' /\ w \in succ[u]
      BY <1>1, <1>4, <1>9 DEF Followed
    <3>2. QED  BY <1>3, <1>5, <3>1
  <2>2. index[u] # -1 /\ w \in succ[u]
    BY <1>1, <1>2, <1>9, <2>1 DEF Followed
  <2>3. CASE w # v
    <3>1. ASSUME NEW i \in Frames, NodeAt(i) = u PROVE w \notin work[i].rest
      <4>1. w \notin work'[i].rest
        BY <1>4, <1>5, <1>9, <3>1 DEF Followed
      <4>2. QED  BY <1>3, <2>3, <4>1
    <3>2. QED  BY <2>1, <2>2, <3>1 DEF Followed
  <2>4. QED  BY <2>1, <2>3
<1>10. TarjanTypeOK'
  <2>1. v \notin Nat \/ v < N
    BY NAssumption DEF Node
  <2>2. start' \in Nat /\ start' <= N
    BY <2>1, NAssumption DEF TarjanTypeOK, Node
  <2>3. Append(sccStack, v) \in Seq(Node)
    BY AppendProperties DEF TarjanTypeOK
  <2>4. QED  BY <1>3, <2>2, <2>3 DEF TarjanTypeOK, Discover
<1>11. StackSorted'
  <2>1. /\ Len(sccStack') = Len(sccStack) + 1 /\ Len(sccStack) \in Nat
        /\ \A i \in 1 .. Len(sccStack) : sccStack'[i] = sccStack[i] /\ sccStack[i] \in Node
        /\ sccStack'[Len(sccStack) + 1] = v
    BY AppendProperties, LenProperties, ElementOfSeq DEF TarjanTypeOK, Discover
  <2>2. 1 .. Len(sccStack') = 1 .. Len(sccStack) \cup {Len(sccStack) + 1}
    BY <2>1
  <2>3. onStack = {sccStack[i] : i \in 1 .. Len(sccStack)}
    BY DEF StackSorted
  <2>4. onStack' = {sccStack'[i] : i \in 1 .. Len(sccStack')}
    BY <1>2, <2>1, <2>2, <2>3
  <2>5. \A i \in 1 .. Len(sccStack) : sccStack[i] # v
    BY <1>1, <2>3
  <2>6. ASSUME NEW i \in 1 .. Len(sccStack'), NEW j \in 1 .. Len(sccStack'), i < j
        PROVE  index'[sccStack'[i]] < index'[sccStack'[j]]
    <3>1. i \in 1 .. Len(sccStack) /\ index'[sccStack'[i]] = index[sccStack[i]]
      BY <1>2, <2>1, <2>2, <2>5, <2>6
    <3>2. CASE j \in 1 .. Len(sccStack)
      BY <1>2, <2>1, <2>5, <2>6, <3>1, <3>2 DEF StackSorted
    <3>3. CASE j = Len(sccStack) + 1
      BY <1>2, <1>8, <2>1, <3>1, <3>3
    <3>4. QED  BY <2>2, <3>2, <3>3
  <2>7. componentOf' = componentOf /\ counter' = counter + 1
    BY DEF Discover
  <2>8. ASSUME NEW u \in Node
        PROVE  /\ index'[u] < counter'
               /\ u \in onStack' <=> index'[u] # -1 /\ componentOf'[u] = -1
               /\ componentOf'[u] # -1 => index'[u] # -1
    <3>1. CASE u = v
      BY <1>1, <1>2, <2>7, <3>1 DEF StackSorted
    <3>2. CASE u # v
      BY <1>1, <1>2, <1>8, <2>7, <3>2 DEF StackSorted
    <3>3. QED  BY <3>1, <3>2
  <2>9. QED  BY <2>4, <2>6, <2>8 DEF StackSorted
<1>12. WorkSorted'
  <2>1. ASSUME NEW i \in Frames
        PROVE  /\ NodeAt(i) \in Node /\ NodeAt(i) # v /\ NodeAt(i) \in onStack
               /\ work'[i].rest \subseteq succ[NodeAt(i)]
    BY <1>1, <1>3 DEF WorkSorted
  <2>2. ASSUME NEW i \in Frames', NEW j \in Frames', i < j
        PROVE  (index[NodeAt(i)] < index[NodeAt(j)])'
    <3>1. i \in Frames
      BY <1>0, <1>3, <2>2 DEF Frames
    <3>2. CASE j \in Frames
      BY <1>2, <1>5, <2>1, <2>2, <3>1, <3>2 DEF WorkSorted
    <3>3. CASE j = m
      BY <1>2, <1>5, <1>8, <2>1, <3>1, <3>3
    <3>4. QED  BY <1>4, <3>2, <3>3
  <2>3. ASSUME NEW i \in Frames' PROVE (NodeAt(i) \in onStack /\ work[i].rest \subseteq succ[NodeAt(i)])'
    <3>1. CASE i \in Frames
      BY <1>1, <1>2, <1>5, <2>1, <3>1
    <3>2. CASE i = m
      BY <1>1, <1>2, <1>3, <1>5, <3>2
    <3>3. QED  BY <1>4, <3>1, <3>2
  <2>4. QED  BY <2>2, <2>3 DEF WorkSorted
<1>13. Discovered'
  <2>1. ASSUME NEW u \in Node, NEW w \in Node, Followed(u, w)' PROVE index'[w] # -1
    <3>1. CASE w = v
      BY <1>1, <1>2, <3>1
    <3>2. CASE w # v
      BY <1>2, <1>9, <2>1, <3>2 DEF Discovered
    <3>3. QED  BY <3>1, <3>2
  <2>2. ASSUME NEW u \in Node, u < start' PROVE index'[u] # -1
    BY <1>1, <1>2, <2>2 DEF Discovered, Node, TarjanTypeOK
  <2>3. QED  BY <2>1, <2>2 DEF Discovered
<1>14. BelowReaches'
  <2>1. ASSUME NEW a \in Open', NEW u \in onStack', index'[a] <= index'[u]
        PROVE  Reaches(succ', a, u)
    <3>1. CASE u = v
      <4>1. a \in Open \/ a = v
        BY <1>6
      <4>2. QED  BY <1>1, <3>1, <4>1, ReachSelf
    <3>2. CASE u # v
      <4>1. u \in onStack /\ index[u] < counter
        BY <1>1, <1>2, <1>8, <3>2
      <4>2. a # v
        BY <1>1, <1>2, <2>1, <3>2, <4>1
      <4>3. QED  BY <1>1, <1>2, <1>6, <1>7, <2>1, <4>1, <4>2 DEF BelowReaches
    <3>3. QED  BY <3>1, <3>2
  <2>2. QED  BY <2>1 DEF BelowReaches
<1>15. AboveReaches'
  <2>1. ASSUME NEW u \in onStack'
        PROVE  \E a \in Open' : index'[a] <= index'[u] /\ Reaches(succ', u, a)
    <3>1. CASE u = v
      <4>1. v \in Open' /\ index'[v] <= index'[v] /\ Reaches(succ', v, v)
        BY <1>1, <1>2, <1>6, ReachSelf
      <4>2. QED  BY <3>1, <4>1
    <3>2. CASE u # v
      BY <1>1, <1>2, <1>6, <1>7, <3>2 DEF AboveReaches
    <3>3. QED  BY <3>1, <3>2
  <2>2. QED  BY <2>1 DEF AboveReaches
<1>16. LowlinksTrue'
  <2>1. ASSUME NEW a \in Open'
        PROVE  /\ lowlink'[a] <= index'[a]
               /\ \E w \in onStack' : lowlink'[a] = index'[w] /\ Reaches(succ', a, w)
    <3>1. CASE a = v
      BY <1>1, <1>2, <3>1, ReachSelf
    <3>2. CASE a # v
      BY <1>1, <1>2, <1>6, <1>7, <3>2 DEF LowlinksTrue
    <3>3. QED  BY <3>1, <3>2
  <2>2. QED  BY <2>1 DEF LowlinksTrue
<1>17. Bounded'
  <2>1. ASSUME NEW a \in Open', NEW u \in onStack', NEW w \in onStack',
               index'[a] <= index'[u], Followed(u, w)'
        PROVE  \E j \in Open' : index'[a] <= index'[j] /\ lowlink'[j] <= index'[w]
    <3>1. u # v /\ (Followed(u, w) \/ w = v)
      BY <1>1, <1>2, <1>9, <2>1
    <3>2. u \in onStack /\ index[u] < counter
      BY <1>1, <1>2, <1>8, <3>1
    <3>3. a # v /\ a \in Open /\ a \in Node
      BY <1>1, <1>2, <1>6, <1>7, <2>1, <3>1, <3>2
    <3>4. CASE w = v
      <4>1. v \in Open' /\ lowlink'[v] = counter /\ index'[v] = counter
        BY <1>2, <1>6
      <4>2. index'[a] <= counter
        BY <1>1, <1>2, <1>8, <3>3
      <4>3. QED  BY <1>1, <3>4, <4>1, <4>2
    <3>5. CASE w # v
      <4>1. w \in onStack /\ Followed(u, w) /\ index[a] <= index[u]
        BY <1>1, <1>2, <2>1, <3>1, <3>2, <3>3, <3>5
      <4>2. PICK j \in Open : index[a] <= index[j] /\ lowlink[j] <= index[w]
        BY <3>2, <3>3, <4>1 DEF Bounded
      <4>3. j # v /\ j \in Node /\ j \in Open'
        BY <1>1, <1>6, <1>7
      <4>4. QED  BY <1>1, <1>2, <3>3, <3>5, <4>1, <4>2, <4>3
    <3>6. QED  BY <3>4, <3>5
  <2>2. QED  BY <2>1 DEF Bounded
<1>18. NumbersTrue'
  BY DEF NumbersTrue, Discover
<1>19. QED  BY <1>10, <1>11, <1>12, <1>13, <1>14, <1>15, <1>16, <1>17, <1>18

\* The top frame looks at a node that was found before.
LEMMA FollowOldPreserves ==
  ASSUME TarjanInv, work # <<>>, NEW next \in Top.rest, FollowOld(next)
  PROVE  TarjanInv'
<1> USE DEF TarjanInv, StackInv, SearchInv
<1>1. /\ Top.node \in Node /\ Top.node \in Open /\ Top.node = NodeAt(Len(work)) /\ Len(work) \in Frames
      /\ Top.rest \subseteq succ[Top.node] /\ Top = work[Len(work)] /\ Open \subseteq onStack
      /\ \A v \in Open : v # Top.node => index[v] < index[Top.node]
  BY TopFacts
<1>2. /\ succ \in [Node -> SUBSET Node] /\ succ' = succ /\ next \in Node
      /\ index \in [Node -> Int] /\ lowlink \in [Node -> Nat] /\ index' = index
      /\ onStack \subseteq Node /\ onStack' = onStack /\ start' = start
  BY <1>1 DEF TarjanTypeOK, Graph, FollowOld
<1>3. /\ work' \in Seq(Frame) /\ Len(work') = Len(work)
      /\ \A i \in Frames : /\ work'[i].node = NodeAt(i)
                           /\ work'[i].rest = IF i = Len(work) THEN work[i].rest \ {next} ELSE work[i].rest
  BY AdvancedFacts DEF FollowOld
<1>4. Frames' = Frames /\ \A i \in Frames : NodeAt(i)' = NodeAt(i)
  BY <1>3 DEF Frames, NodeAt
<1>5. Open' = Open
  BY <1>4 DEF Open
<1>6. ASSUME NEW u \in Node, NEW w \in Node, Followed(u, w)'
      PROVE  Followed(u, w) \/ (u = Top.node /\ w = next)
  <2>1. index[u] # -1 /\ w \in succ[u]
    BY <1>2, <1>6 DEF Followed
  <2>2. \A i \in Frames : NodeAt(i) = u => w \notin work'[i].rest
    BY <1>4, <1>6 DEF Followed
  <2>3. CASE u = Top.node /\ w = next
    BY <2>3
  <2>4. CASE ~(u = Top.node /\ w = next)
    <3>1. ASSUME NEW i \in Frames, NodeAt(i) = u PROVE w \notin work[i].rest
      BY <1>1, <1>3, <2>2, <2>4, <3>1
    <3>2. QED  BY <2>1, <3>1 DEF Followed
  <2>5. QED  BY <2>3, <2>4
<1>7. /\ \A v \in Node : v # Top.node => lowlink'[v] = lowlink[v]
      /\ lowlink'[Top.node] <= lowlink[Top.node]
      /\ lowlink' \in [Node -> Nat]
      /\ next \in onStack => lowlink'[Top.node] <= index[next]
      /\ lowlink'[Top.node] = lowlink[Top.node] \/ (next \in onStack /\ lowlink'[Top.node] = index[next])
  <2>1. index[next] \in Nat
    BY <1>2 DEF FollowOld, TarjanTypeOK
  <2>2. CASE next \in onStack /\ index[next] < lowlink[Top.node]
    <3>1. lowlink' = [lowlink EXCEPT ![Top.node] = index[next]]
      BY <2>2 DEF FollowOld
    <3>2. QED  BY <1>1, <1>2, <2>1, <2>2, <3>1
  <2>3. CASE ~(next \in onStack /\ index[next] < lowlink[Top.node])
    <3>1. lowlink' = lowlink
      BY <2>3 DEF FollowOld
    <3>2. QED  BY <1>1, <1>2, <2>1, <2>3, <3>1
  <2>4. QED  BY <2>2, <2>3
<1>8. \A v \in Node : lowlink'[v] <= lowlink[v]
  <2>1. \A v \in Node : lowlink[v] \in Nat
    BY <1>2
  <2>2. QED  BY <1>7, <2>1
<1>9. TarjanTypeOK'
  BY <1>3, <1>7 DEF TarjanTypeOK, FollowOld
<1>10. StackSorted'
  BY DEF StackSorted, FollowOld
<1>11. WorkSorted'
  <2>1. \A i \in Frames : work'[i].rest \subseteq work[i].rest
    BY <1>3
  <2>2. QED  BY <1>2, <1>4, <2>1 DEF WorkSorted
<1>12. Discovered'
  <2>1. index[next] # -1
    BY DEF FollowOld
  <2>2. QED  BY <1>2, <1>6, <2>1 DEF Discovered
<1>13. BelowReaches'
  BY <1>2, <1>5 DEF BelowReaches
<1>14. AboveReaches'
  BY <1>2, <1>5 DEF AboveReaches
<1>15. LowlinksTrue'
  <2>1. ASSUME NEW v \in Open
        PROVE  /\ lowlink'[v] <= index[v]
               /\ \E w \in onStack : lowlink'[v] = index[w] /\ Reaches(succ, v, w)
    <3>1. v \in Node /\ lowlink[v] <= index[v]
      BY <1>1, <1>2 DEF LowlinksTrue
    <3>2. lowlink'[v] <= index[v]
      <4>1. lowlink'[v] \in Nat /\ lowlink[v] \in Nat /\ index[v] \in Int /\ lowlink'[v] <= lowlink[v]
        BY <1>2, <1>7, <1>8, <3>1
      <4>2. QED  BY <3>1, <4>1
    <3>3. CASE lowlink'[v] = lowlink[v]
      BY <3>2, <3>3 DEF LowlinksTrue
    <3>4. CASE lowlink'[v] # lowlink[v]
      <4>1. v = Top.node /\ next \in onStack /\ lowlink'[v] = index[next]
        BY <1>7, <3>1, <3>4
      <4>2. Reaches(succ, v, next)
        BY <1>1, <4>1, ReachEdge
      <4>3. QED  BY <3>2, <4>1, <4>2
    <3>5. QED  BY <3>3, <3>4
  <2>2. QED  BY <1>2, <1>5, <2>1 DEF LowlinksTrue
<1>16. Bounded'
  <2>1. ASSUME NEW v \in Open, NEW u \in onStack, NEW w \in onStack,
               index[v] <= index[u], Followed(u, w)'
        PROVE  \E j \in Open : index[v] <= index[j] /\ lowlink'[j] <= index[w]
    <3>1. CASE Followed(u, w)
      <4>1. PICK j \in Open : index[v] <= index[j] /\ lowlink[j] <= index[w]
        BY <2>1, <3>1 DEF Bounded
      <4>2. /\ lowlink'[j] \in Nat /\ lowlink[j] \in Nat /\ index[w] \in Int
            /\ lowlink'[j] <= lowlink[j]
        BY <1>1, <1>2, <1>7, <1>8
      <4>3. lowlink'[j] <= index[w]
        BY <4>1, <4>2
      <4>4. QED  BY <4>1, <4>3
    <3>2. CASE u = Top.node /\ w = next
      BY <1>1, <1>7, <2>1, <3>2
    <3>3. QED  BY <1>2, <1>6, <2>1, <3>1, <3>2
  <2>2. QED  BY <1>2, <1>5, <2>1 DEF Bounded
<1>17. NumbersTrue'
  BY DEF NumbersTrue, FollowOld
<1>18. QED  BY <1>9, <1>10, <1>11, <1>12, <1>13, <1>14, <1>15, <1>16, <1>17

\* The frames below the top stay as they are.
LEMMA PopKeepsOrder ==
  ASSUME TarjanTypeOK, StackInv, work # <<>>, Top.rest = {}, Pop,
         \A v \in onStack : index[v] < index[Top.node] => v \in onStack'
  PROVE  WorkSorted'
<1>1. /\ Len(work) \in Nat \ {0} /\ Top.node = NodeAt(Len(work)) /\ Len(work) \in Frames
      /\ Len(work') = Len(work) - 1 /\ \A i \in 1 .. Len(work) - 1 : work'[i] = work[i]
  BY TopFacts, PopFacts
<1>2. Frames' = 1 .. Len(work) - 1 /\ \A i \in Frames' : NodeAt(i)' = NodeAt(i) /\ work'[i] = work[i]
  BY <1>1 DEF Frames, NodeAt
<1>3. \A i \in Frames' : i \in Frames /\ i < Len(work)
  BY <1>1, <1>2 DEF Frames
<1>4. index' = index /\ succ' = succ
  BY DEF Pop
<1>5. \A i \in Frames' : NodeAt(i) \in onStack'
  BY <1>1, <1>3 DEF StackInv, WorkSorted
<1>6. QED  BY <1>2, <1>3, <1>4, <1>5 DEF StackInv, WorkSorted

\* The top node reaches an older open node, which is still open when it is popped.
LEMMA RetreatPreserves ==
  ASSUME TarjanInv, Retreat
  PROVE  TarjanInv'
<1> USE DEF TarjanInv, StackInv, SearchInv
<1> DEFINE top == Top.node
<1>0. work # <<>> /\ Top.rest = {} /\ lowlink[top] # index[top] /\ Pop
  BY DEF Retreat
<1>1. /\ top \in Node /\ top \in Open /\ Open \subseteq onStack
      /\ \A v \in Open : v # top => index[v] < index[top]
  BY <1>0, TopFacts
<1>2. /\ succ' = succ /\ index \in [Node -> Int] /\ lowlink \in [Node -> Nat] /\ index' = index
      /\ onStack \subseteq Node /\ onStack' = onStack /\ start' = start
  BY DEF TarjanTypeOK, Retreat, Pop
<1>3. /\ work' \in Seq(Frame) /\ Open' = Open \ {top}
      /\ \A u, w \in Node : Followed(u, w)' => Followed(u, w)
      /\ lowlink' \in [Node -> Nat] /\ \A v \in Node : lowlink'[v] <= lowlink[v]
  BY <1>0, PopFacts
<1>4. PICK w \in onStack, g \in Open :
        /\ lowlink[top] = index[w] /\ Reaches(succ, top, w)
        /\ index[g] <= index[w] /\ Reaches(succ, w, g)
  BY <1>1 DEF LowlinksTrue, AboveReaches
<1>5. index[g] < index[top] /\ g # top /\ Reaches(succ, top, g) /\ g \in Open'
  <2>1. lowlink[top] < index[top]
    <3>1. lowlink[top] <= index[top] /\ lowlink[top] \in Int /\ index[top] \in Int
      BY <1>1, <1>2 DEF LowlinksTrue
    <3>2. QED  BY <1>0, <3>1
  <2>2. index[g] \in Int /\ index[w] \in Int /\ index[top] \in Int
    BY <1>1, <1>2
  <2>3. index[g] < index[top]
    BY <1>4, <2>1, <2>2
  <2>4. g # top
    BY <2>2, <2>3
  <2>5. QED  BY <1>3, <1>4, <2>3, <2>4, ReachTransitive
<1>6. PICK p \in Open' :
        /\ \A v \in Open' : index[v] <= index[p]
        /\ lowlink'[p] <= lowlink[top]
        /\ \A v \in Node : lowlink'[v] # lowlink[v] => v = p /\ lowlink'[v] = lowlink[top]
  <2>1. Open' # {}
    BY <1>5
  <2>2. QED  BY <1>0, <2>1, PopFacts
<1>7. p \in Open /\ p # top /\ p \in Node /\ index[p] < index[top]
  BY <1>1, <1>2, <1>3
<1> HIDE DEF top
<1>8. TarjanTypeOK'
  BY <1>3 DEF TarjanTypeOK, Retreat, Pop
<1>9. StackSorted'
  BY DEF StackSorted, Retreat, Pop
<1>10. WorkSorted'
  BY <1>0, <1>2, PopKeepsOrder
<1>11. Discovered'
  BY <1>2, <1>3 DEF Discovered
<1>12. BelowReaches'
  BY <1>2, <1>3 DEF BelowReaches
<1>13. AboveReaches'
  <2>1. ASSUME NEW u \in onStack
        PROVE  \E v \in Open' : index[v] <= index[u] /\ Reaches(succ, u, v)
    <3>1. PICK v \in Open : index[v] <= index[u] /\ Reaches(succ, u, v)
      BY DEF AboveReaches
    <3>2. CASE v = top
      <4>1. index[g] <= index[u]
        <5>1. index[g] \in Int /\ index[u] \in Int /\ index[top] \in Int
          BY <1>1, <1>2
        <5>2. QED  BY <1>5, <3>1, <3>2, <5>1
      <4>2. Reaches(succ, u, g)
        BY <1>5, <3>1, <3>2, ReachTransitive
      <4>3. QED  BY <1>5, <4>1, <4>2
    <3>3. CASE v # top
      BY <1>3, <3>1, <3>3
    <3>4. QED  BY <3>2, <3>3
  <2>2. QED  BY <1>2, <2>1 DEF AboveReaches
<1>14. LowlinksTrue'
  <2>1. ASSUME NEW v \in Open'
        PROVE  /\ lowlink'[v] <= index[v]
               /\ \E x \in onStack : lowlink'[v] = index[x] /\ Reaches(succ, v, x)
    <3>1. v \in Open /\ v \in Node
      BY <1>1, <1>2, <1>3
    <3>2. lowlink[v] <= index[v]
      BY <3>1 DEF LowlinksTrue
    <3>3. lowlink'[v] <= index[v]
      <4>1. lowlink'[v] \in Nat /\ lowlink[v] \in Nat /\ index[v] \in Int /\ lowlink'[v] <= lowlink[v]
        BY <1>2, <1>3, <3>1
      <4>2. QED  BY <3>2, <4>1
    <3>4. CASE lowlink'[v] = lowlink[v]
      BY <3>1, <3>3, <3>4 DEF LowlinksTrue
    <3>5. CASE lowlink'[v] # lowlink[v]
      <4>1. v = p /\ lowlink'[v] = index[w]
        BY <1>4, <1>6, <3>1, <3>5
      <4>2. Reaches(succ, p, top)
        BY <1>1, <1>2, <1>7 DEF BelowReaches
      <4>3. Reaches(succ, v, w)
        BY <1>4, <4>1, <4>2, ReachTransitive
      <4>4. QED  BY <3>3, <4>1, <4>3
    <3>6. QED  BY <3>4, <3>5
  <2>2. QED  BY <1>2, <2>1 DEF LowlinksTrue
<1>15. Bounded'
  <2>1. ASSUME NEW v \in Open', NEW u \in onStack, NEW x \in onStack,
               index[v] <= index[u], Followed(u, x)'
        PROVE  \E j \in Open' : index[v] <= index[j] /\ lowlink'[j] <= index[x]
    <3>1. v \in Open /\ Followed(u, x)
      BY <1>2, <1>3, <2>1
    <3>2. PICK j \in Open : index[v] <= index[j] /\ lowlink[j] <= index[x]
      BY <2>1, <3>1 DEF Bounded
    <3>3. /\ lowlink'[j] \in Nat /\ lowlink[j] \in Nat /\ index[x] \in Int
          /\ lowlink'[j] <= lowlink[j] /\ lowlink'[p] \in Nat
      BY <1>1, <1>2, <1>3, <1>7
    <3>4. CASE j = top
      <4>1. index[v] <= index[p]
        BY <1>6
      <4>2. lowlink'[p] <= index[x]
        BY <1>6, <3>2, <3>3, <3>4
      <4>3. QED  BY <4>1, <4>2
    <3>5. CASE j # top
      <4>1. j \in Open'
        BY <1>3, <3>5
      <4>2. lowlink'[j] <= index[x]
        BY <3>2, <3>3
      <4>3. QED  BY <3>2, <4>1, <4>2
    <3>6. QED  BY <3>4, <3>5
  <2>2. QED  BY <1>2, <2>1 DEF Bounded
<1>16. NumbersTrue'
  BY DEF NumbersTrue, Retreat, Pop
<1>17. QED  BY <1>8, <1>9, <1>10, <1>11, <1>12, <1>13, <1>14, <1>15, <1>16

-----------------------------------------------------------------------------
(* A component is finished. *)

Members == {u \in onStack : index[Top.node] <= index[u]}
Numbers == {v \in Node : componentOf[v] # -1}

\* What Finish pops from the SCC stack are the nodes found since the top node.
LEMMA MembersPopped ==
  ASSUME TarjanTypeOK, StackInv, work # <<>>,
         NEW kept, kept = Below(Top.node)
  PROVE  /\ kept \in Nat /\ kept < Len(sccStack) /\ sccStack[kept + 1] = Top.node
         /\ {sccStack[i] : i \in kept + 1 .. Len(sccStack)} = Members
         /\ onStack \ Members = {sccStack[i] : i \in 1 .. kept}
<1>1. /\ Top.node \in onStack /\ Top.node \in Node
  BY TopFacts
<1>2. /\ sccStack \in Seq(Node) /\ Len(sccStack) \in Nat
      /\ \A i \in 1 .. Len(sccStack) : sccStack[i] \in Node
      /\ index \in [Node -> Int]
  BY LenProperties, ElementOfSeq DEF TarjanTypeOK
<1>3. /\ onStack = {sccStack[i] : i \in 1 .. Len(sccStack)}
      /\ \A i, j \in 1 .. Len(sccStack) : i < j => index[sccStack[i]] < index[sccStack[j]]
  BY DEF StackInv, StackSorted
<1>4. PICK k \in 1 .. Len(sccStack) : sccStack[k] = Top.node /\ kept = k - 1
  <2>1. \E i \in 1 .. Len(sccStack) : sccStack[i] = Top.node
    BY <1>1, <1>3
  <2>2. QED  BY <2>1 DEF Below
<1>5. kept \in Nat /\ kept < Len(sccStack) /\ k = kept + 1
  BY <1>2, <1>4
<1>6. \A i \in 1 .. Len(sccStack) : index[Top.node] <= index[sccStack[i]] <=> i > kept
  <2>1. ASSUME NEW i \in 1 .. Len(sccStack)
        PROVE  index[Top.node] <= index[sccStack[i]] <=> i > kept
    <3>1. index[Top.node] \in Int /\ index[sccStack[i]] \in Int
      BY <1>1, <1>2
    <3>2. CASE i < k
      <4>1. index[sccStack[i]] < index[Top.node]
        BY <1>3, <1>4, <3>2
      <4>2. QED  BY <1>4, <1>5, <3>1, <3>2, <4>1
    <3>3. CASE i = k
      BY <1>4, <1>5, <3>1, <3>3
    <3>4. CASE i > k
      <4>1. index[Top.node] < index[sccStack[i]]
        BY <1>3, <1>4, <3>4
      <4>2. QED  BY <1>4, <1>5, <3>1, <3>4, <4>1
    <3>5. QED  BY <1>4, <3>2, <3>3, <3>4
  <2>2. QED  BY <2>1
<1>7. \A i : i \in kept + 1 .. Len(sccStack) <=> i \in 1 .. Len(sccStack) /\ i > kept
  BY <1>2, <1>5
<1>8. \A i : i \in 1 .. kept <=> i \in 1 .. Len(sccStack) /\ ~(i > kept)
  BY <1>2, <1>5
<1>9. {sccStack[i] : i \in kept + 1 .. Len(sccStack)} = Members
  BY <1>3, <1>6, <1>7 DEF Members
<1>10. onStack \ Members = {sccStack[i] : i \in 1 .. kept}
  BY <1>3, <1>6, <1>8 DEF Members
<1>11. QED  BY <1>4, <1>5, <1>9, <1>10

\* The top node calls nobody outside Members and the nodes with a number, and
\* neither does whom it calls: Members is its component.
LEMMA MembersAreComponent ==
  ASSUME TarjanInv, work # <<>>, Top.rest = {}, lowlink[Top.node] = index[Top.node]
  PROVE  /\ Members = SccOf(succ, Top.node)
         /\ Members \cap Numbers = {}
         /\ \A u \in Members : succ[u] \subseteq Members \cup Numbers
<1> USE DEF TarjanInv, StackInv, SearchInv
<1> DEFINE top == Top.node
<1>1. /\ top \in Node /\ top \in Open /\ Open \subseteq onStack /\ top = NodeAt(Len(work))
      /\ work[Len(work)].rest = {}
      /\ \A v \in Open : v # top => index[v] < index[top]
  BY TopFacts
<1>2. /\ succ \in [Node -> SUBSET Node] /\ index \in [Node -> Int] /\ lowlink \in [Node -> Nat]
      /\ onStack \subseteq Node
  BY DEF TarjanTypeOK, Graph
<1>3. \A v \in Node : v \in onStack <=> index[v] # -1 /\ v \notin Numbers
  BY DEF StackSorted, Numbers
<1>4. \A j \in Open : index[top] <= index[j] => j = top
  <2>1. ASSUME NEW j \in Open, index[top] <= index[j] PROVE j = top
    <3>1. index[top] \in Int /\ index[j] \in Int
      BY <1>1, <1>2
    <3>2. QED  BY <1>1, <2>1, <3>1
  <2>2. QED  BY <2>1
<1> HIDE DEF top
<1>5. ASSUME NEW u \in Members, NEW w \in succ[u] PROVE w \in Members \cup Numbers
  <2>1. u \in onStack /\ u \in Node /\ w \in Node /\ index[top] <= index[u] /\ index[u] # -1
    BY <1>2, <1>3 DEF Members, top
  <2>2. Followed(u, w)
    <3>1. ASSUME NEW i \in Frames, NodeAt(i) = u PROVE work[i].rest = {}
      <4>1. u = top
        BY <1>4, <2>1, <3>1 DEF Open
      <4>2. i = Len(work)
        <5>1. Len(work) \in Frames /\ Len(work) \in Nat
          BY TopFacts
        <5>2. ~(i < Len(work))
          <6>1. i < Len(work) => index[NodeAt(i)] < index[NodeAt(Len(work))]
            BY <5>1 DEF WorkSorted
          <6>2. QED  BY <1>1, <1>2, <3>1, <4>1, <6>1
        <5>3. QED  BY <5>1, <5>2 DEF Frames
      <4>3. QED  BY <1>1, <4>2
    <3>2. QED  BY <2>1, <3>1 DEF Followed
  <2>3. CASE w \notin Numbers
    <3>1. w \in onStack
      BY <1>3, <2>1, <2>2, <2>3 DEF Discovered
    <3>2. PICK j \in Open : index[top] <= index[j] /\ lowlink[j] <= index[w]
      BY <1>1, <2>1, <2>2, <3>1 DEF Bounded
    <3>3. index[top] <= index[w]
      BY <1>4, <3>2 DEF top
    <3>4. QED  BY <3>1, <3>3 DEF Members, top
  <2>4. QED  BY <2>3
<1>6. Closed(succ, Numbers)
  BY <1>2 DEF Closed, Numbers, NumbersTrue
<1>7. Closed(succ, Members \cup Numbers) /\ Members \cup Numbers \in SUBSET Node
  BY <1>2, <1>5, <1>6 DEF Closed, Members, Numbers
<1>8. top \in Members /\ Members \subseteq Node /\ Members \cap Numbers = {}
  BY <1>1, <1>2, <1>3 DEF Members, top
<1>9. ASSUME NEW u \in Members PROVE Mutual(succ, u, top)
  <2>1. u \in onStack /\ index[top] <= index[u]
    BY DEF Members, top
  <2>2. Reaches(succ, top, u)
    BY <1>1, <2>1 DEF BelowReaches
  <2>3. PICK v \in Open : Reaches(succ, u, v)
    BY <2>1 DEF AboveReaches
  <2>4. v \in Members \cup Numbers
    BY <1>7, <2>3, ReachStays
  <2>5. v = top
    BY <1>1, <1>2, <1>3, <1>4, <2>4 DEF Members, top
  <2>6. QED  BY <2>2, <2>3, <2>5 DEF Mutual
<1>10. ASSUME NEW u \in Node, Mutual(succ, u, top) PROVE u \in Members
  <2>1. u \in Members \cup Numbers
    BY <1>7, <1>8, <1>10, ReachStays DEF Mutual
  <2>2. CASE u \in Numbers
    <3>1. Numbers \in SUBSET Node
      BY DEF Numbers
    <3>2. top \in Numbers
      BY <1>6, <1>10, <2>2, <3>1, ReachStays DEF Mutual
    <3>3. QED  BY <1>8, <3>2
  <2>3. QED  BY <2>1, <2>2
<1>11. Members = SccOf(succ, top)
  BY <1>8, <1>9, <1>10 DEF SccOf
<1>12. QED  BY <1>5, <1>8, <1>11 DEF top

\* What Finish does to the numbers.
LEMMA FinishNumbers ==
  ASSUME TarjanInv, Finish
  PROVE  /\ work # <<>> /\ Top.rest = {} /\ lowlink[Top.node] = index[Top.node] /\ Pop
         /\ onStack' = onStack \ Members
         /\ componentOf' = [v \in Node |-> IF v \in Members THEN componentCount ELSE componentOf[v]]
         /\ componentCount' = componentCount + 1
         /\ sccStack' = SubSeq(sccStack, 1, Below(Top.node))
BY MembersPopped DEF Finish, TarjanInv

LEMMA FinishStack ==
  ASSUME TarjanInv, Finish
  PROVE  sccStack' \in Seq(Node) /\ StackSorted'
<1> USE DEF TarjanInv, StackInv
<1>1. PICK kept : kept = Below(Top.node)
  OBVIOUS
<1>2. /\ kept \in Nat /\ kept < Len(sccStack)
      /\ onStack \ Members = {sccStack[i] : i \in 1 .. kept}
  BY <1>1, FinishNumbers, MembersPopped
<1>3. /\ Len(sccStack) \in Nat /\ \A i \in 1 .. Len(sccStack) : sccStack[i] \in Node
  BY LenProperties, ElementOfSeq DEF TarjanTypeOK
<1>4. \A i \in 1 .. kept : i \in 1 .. Len(sccStack)
  BY <1>2, <1>3
<1>5. /\ sccStack' \in Seq(Node) /\ Len(sccStack') = kept
      /\ \A i \in 1 .. kept : sccStack'[i] = sccStack[i]
  <2>1. sccStack' = SubSeq(sccStack, 1, kept)
    BY <1>1, FinishNumbers
  <2>2. /\ SubSeq(sccStack, 1, kept) \in Seq(Node)
        /\ Len(SubSeq(sccStack, 1, kept)) = IF 1 <= kept THEN kept - 1 + 1 ELSE 0
        /\ \A i \in 1 .. kept - 1 + 1 : SubSeq(sccStack, 1, kept)[i] = sccStack[1 + i - 1]
    BY <1>2, <1>3, <1>4, SubSeqProperties
  <2>3. Len(SubSeq(sccStack, 1, kept)) = kept
    BY <1>2, <2>2
  <2>4. \A i \in 1 .. kept : i \in 1 .. kept - 1 + 1 /\ 1 + i - 1 = i
    BY <1>2
  <2>5. QED  BY <2>1, <2>2, <2>3, <2>4
<1>6. /\ onStack' = onStack \ Members /\ index' = index /\ counter' = counter
      /\ \A v \in Node : componentOf'[v] = IF v \in Members THEN componentCount ELSE componentOf[v]
      /\ componentCount # -1 /\ Members \subseteq onStack
  BY FinishNumbers DEF Pop, TarjanTypeOK, Members
<1>7. onStack' = {sccStack'[i] : i \in 1 .. Len(sccStack')}
  BY <1>2, <1>5, <1>6
<1>8. \A i, j \in 1 .. Len(sccStack') : i < j => index'[sccStack'[i]] < index'[sccStack'[j]]
  BY <1>4, <1>5, <1>6 DEF StackSorted
<1>9. \A v \in Node :
        /\ index'[v] < counter'
        /\ v \in onStack' <=> index'[v] # -1 /\ componentOf'[v] = -1
        /\ componentOf'[v] # -1 => index'[v] # -1
  BY <1>6 DEF StackSorted
<1>10. QED  BY <1>5, <1>7, <1>8, <1>9 DEF StackSorted

\* The new component gets a number of its own, higher than those it calls into.
LEMMA FinishKeepsNumbers ==
  ASSUME TarjanInv, Finish
  PROVE  NumbersTrue'
<1> USE DEF TarjanInv
<1>1. /\ componentCount \in Nat /\ componentCount' = componentCount + 1 /\ succ' = succ
      /\ \A v \in Node : componentOf'[v] = IF v \in Members THEN componentCount ELSE componentOf[v]
      /\ componentOf \in [Node -> Int] /\ succ \in [Node -> SUBSET Node]
  BY FinishNumbers DEF TarjanTypeOK, Pop, Graph
<1>2. /\ Members = SccOf(succ, Top.node) /\ Members \cap Numbers = {} /\ Top.node \in Node
      /\ \A u \in Members : succ[u] \subseteq Members \cup Numbers
  BY FinishNumbers, MembersAreComponent, TopFacts
<1>3. Top.node \in Members /\ Members \subseteq Node
  BY <1>2, ReachSelf DEF SccOf, Mutual
<1>4. \A v \in Numbers : v \in Node /\ v \notin Members /\ componentOf'[v] = componentOf[v]
                         /\ componentOf[v] < componentCount /\ componentOf[v] \in Int
  BY <1>1, <1>2 DEF Numbers, NumbersTrue
<1>5. \A v \in Members : componentOf'[v] = componentCount
  BY <1>1, <1>3
<1>6. \A v \in Node : componentOf'[v] # -1 <=> v \in Members \cup Numbers
  BY <1>1, <1>4, <1>5 DEF Numbers
<1>7. ASSUME NEW v \in Members
      PROVE  /\ componentOf'[v] < componentCount'
             /\ \A w \in succ[v] : componentOf'[w] # -1 /\ componentOf'[w] <= componentOf'[v]
             /\ {u \in Node : componentOf'[u] = componentOf'[v]} = SccOf(succ, v)
  <2>1. ASSUME NEW w \in succ[v] PROVE componentOf'[w] # -1 /\ componentOf'[w] <= componentOf'[v]
    <3>1. CASE w \in Members
      BY <1>1, <1>5, <3>1
    <3>2. CASE w \in Numbers
      BY <1>1, <1>4, <1>5, <1>6, <3>2
    <3>3. QED  BY <1>2, <3>1, <3>2
  <2>2. \A u \in Node : componentOf'[u] = componentCount => u \in Members
    BY <1>1, <1>4, <1>6
  <2>3. {u \in Node : componentOf'[u] = componentOf'[v]} = Members
    BY <1>3, <1>5, <2>2
  <2>4. SccOf(succ, v) = Members
    BY <1>2, <1>3, SccOfMember
  <2>5. QED  BY <1>1, <1>5, <2>1, <2>3, <2>4
<1>8. ASSUME NEW v \in Numbers
      PROVE  /\ componentOf'[v] < componentCount'
             /\ \A w \in succ[v] : componentOf'[w] # -1 /\ componentOf'[w] <= componentOf'[v]
             /\ {u \in Node : componentOf'[u] = componentOf'[v]} = SccOf(succ, v)
  <2>1. \A w \in succ[v] : w \in Numbers /\ componentOf[w] <= componentOf[v]
    BY <1>1, <1>4 DEF Numbers, NumbersTrue
  <2>2. \A w \in succ[v] : componentOf'[w] # -1 /\ componentOf'[w] <= componentOf'[v]
    BY <1>4, <1>6, <2>1
  <2>3. \A u \in Node : componentOf'[u] = componentOf'[v] <=> componentOf[u] = componentOf[v]
    <3>1. ASSUME NEW u \in Node
          PROVE  componentOf'[u] = componentOf'[v] <=> componentOf[u] = componentOf[v]
      <4>1. CASE u \in Members
        <5>1. componentOf[u] = -1 /\ componentOf[v] # -1
          BY <1>2, <4>1 DEF Numbers
        <5>2. componentOf'[u] # componentOf'[v]
          BY <1>1, <1>4, <1>5, <4>1
        <5>3. QED  BY <5>1, <5>2
      <4>2. CASE u \notin Members
        BY <1>1, <1>4, <4>2
      <4>3. QED  BY <4>1, <4>2
    <3>2. QED  BY <3>1
  <2>4. {u \in Node : componentOf[u] = componentOf[v]} = SccOf(succ, v)
    BY DEF Numbers, NumbersTrue
  <2>5. {u \in Node : componentOf'[u] = componentOf'[v]} = SccOf(succ, v)
    BY <2>3, <2>4
  <2>6. componentOf'[v] < componentCount'
    BY <1>1, <1>4
  <2>7. QED  BY <2>2, <2>5, <2>6
<1>9. ASSUME NEW c \in 0 .. componentCount' - 1 PROVE \E v \in Node : componentOf'[v] = c
  <2>1. CASE c = componentCount
    BY <1>2, <1>3, <1>5, <2>1
  <2>2. CASE c # componentCount
    <3>1. c \in 0 .. componentCount - 1
      BY <1>1, <1>9, <2>2
    <3>2. PICK v \in Node : componentOf[v] = c
      BY <3>1 DEF NumbersTrue
    <3>3. v \in Numbers
      BY <3>1, <3>2, <1>1 DEF Numbers
    <3>4. QED  BY <1>4, <3>2, <3>3
  <2>3. QED  BY <2>1, <2>2
<1>10. QED  BY <1>1, <1>6, <1>7, <1>8, <1>9 DEF NumbersTrue

\* What stays on the stack was found before the top node, and nothing it rests on leaves.
LEMMA FinishPreserves ==
  ASSUME TarjanInv, Finish
  PROVE  TarjanInv'
<1> USE DEF TarjanInv, StackInv, SearchInv
<1> DEFINE top == Top.node
<1>0. /\ work # <<>> /\ Top.rest = {} /\ lowlink[top] = index[top] /\ Pop
      /\ onStack' = onStack \ Members
  BY FinishNumbers
<1>1. /\ top \in Node /\ top \in Open /\ Open \subseteq onStack
      /\ \A v \in Open : v # top => index[v] < index[top]
  BY <1>0, TopFacts
<1>2. /\ succ' = succ /\ index \in [Node -> Int] /\ lowlink \in [Node -> Nat] /\ index' = index
      /\ onStack \subseteq Node /\ start' = start
  BY DEF TarjanTypeOK, Finish, Pop
<1>3. /\ work' \in Seq(Frame) /\ Open' = Open \ {top}
      /\ \A u, w \in Node : Followed(u, w)' => Followed(u, w)
      /\ lowlink' \in [Node -> Nat]
  BY <1>0, PopFacts
<1>4. \A u \in Node : u \in onStack' <=> u \in onStack /\ index[u] < index[top]
  BY <1>0, <1>1, <1>2 DEF Members
<1>5. \A v \in Open' : lowlink'[v] = lowlink[v] /\ v \in Open /\ v \in Node
                       /\ index[v] < index[top] /\ lowlink[v] <= index[v]
  <2>1. ASSUME NEW v \in Open' PROVE lowlink'[v] = lowlink[v]
    <3>1. v \in Open /\ v # top /\ v \in Node /\ index[v] < index[top] /\ lowlink[v] <= index[v]
      BY <1>1, <1>2, <1>3 DEF LowlinksTrue
    <3>2. lowlink'[v] # lowlink[v] => lowlink'[v] = lowlink[top]
      BY <1>0, <3>1, PopFacts
    <3>3. lowlink'[v] <= lowlink[v]
      BY <1>0, <3>1, PopFacts
    <3>4. lowlink'[v] \in Int /\ lowlink[v] \in Int /\ index[v] \in Int /\ index[top] \in Int
      BY <1>1, <1>2, <1>3, <3>1
    <3>5. QED  BY <1>0, <3>1, <3>2, <3>3, <3>4
  <2>2. QED  BY <1>1, <1>2, <1>3, <2>1 DEF LowlinksTrue
<1>6. StackSorted' /\ sccStack' \in Seq(Node)
  BY FinishStack
<1>7. TarjanTypeOK'
  BY <1>0, <1>3, <1>6, FinishNumbers DEF TarjanTypeOK, Finish, Pop
<1> HIDE DEF top
<1>8. WorkSorted'
  BY <1>0, <1>2, <1>4, PopKeepsOrder DEF top
<1>9. Discovered'
  BY <1>2, <1>3 DEF Discovered
<1>10. BelowReaches'
  BY <1>0, <1>2, <1>3 DEF BelowReaches
<1>11. AboveReaches'
  <2>1. ASSUME NEW u \in onStack'
        PROVE  \E v \in Open' : index[v] <= index[u] /\ Reaches(succ, u, v)
    <3>1. u \in onStack /\ u \in Node /\ index[u] < index[top]
      BY <1>0, <1>2, <1>4
    <3>2. PICK v \in Open : index[v] <= index[u] /\ Reaches(succ, u, v)
      BY <3>1 DEF AboveReaches
    <3>3. v # top
      BY <1>1, <1>2, <3>1, <3>2
    <3>4. QED  BY <1>3, <3>2, <3>3
  <2>2. QED  BY <1>2, <2>1 DEF AboveReaches
<1>12. LowlinksTrue'
  <2>1. ASSUME NEW v \in Open'
        PROVE  /\ lowlink'[v] <= index[v]
               /\ \E w \in onStack' : lowlink'[v] = index[w] /\ Reaches(succ, v, w)
    <3>1. PICK w \in onStack : lowlink[v] = index[w] /\ Reaches(succ, v, w)
      BY <1>5 DEF LowlinksTrue
    <3>2. index[w] < index[top]
      <4>1. index[v] \in Int /\ index[w] \in Int /\ index[top] \in Int
        BY <1>1, <1>2, <1>5
      <4>2. QED  BY <1>5, <3>1, <4>1
    <3>3. w \in onStack'
      BY <1>2, <1>4, <3>2
    <3>4. QED  BY <1>5, <3>1, <3>3
  <2>2. QED  BY <1>2, <2>1 DEF LowlinksTrue
<1>13. Bounded'
  <2>1. ASSUME NEW v \in Open', NEW u \in onStack', NEW w \in onStack',
               index[v] <= index[u], Followed(u, w)'
        PROVE  \E j \in Open' : index[v] <= index[j] /\ lowlink'[j] <= index[w]
    <3>1. u \in onStack /\ w \in onStack /\ u \in Node /\ w \in Node /\ index[w] < index[top]
      BY <1>0, <1>2, <1>4
    <3>2. v \in Open /\ Followed(u, w)
      BY <1>3, <1>5, <2>1, <3>1
    <3>3. PICK j \in Open : index[v] <= index[j] /\ lowlink[j] <= index[w]
      BY <2>1, <3>1, <3>2 DEF Bounded
    <3>4. j # top
      BY <1>0, <1>1, <1>2, <3>1, <3>3
    <3>5. QED  BY <1>3, <1>5, <3>3, <3>4
  <2>2. QED  BY <1>2, <2>1 DEF Bounded
<1>14. NumbersTrue'
  BY FinishKeepsNumbers
<1>15. QED  BY <1>6, <1>7, <1>8, <1>9, <1>10, <1>11, <1>12, <1>13, <1>14

-----------------------------------------------------------------------------
(* The whole search. *)

LEMMA InitHolds == Init => TarjanInv
<1> SUFFICES ASSUME Init PROVE TarjanInv
  OBVIOUS
<1>1. /\ work = <<>> /\ sccStack = <<>> /\ Len(work) = 0 /\ Len(sccStack) = 0
      /\ <<>> \in Seq(Frame) /\ <<>> \in Seq(Node)
  BY EmptySeq DEF Init
<1>2. Frames = {} /\ Open = {} /\ 1 .. Len(sccStack) = {}
  BY <1>1 DEF Frames, Open
<1>3. TarjanTypeOK
  BY <1>1, NAssumption DEF Init, TarjanTypeOK
<1>4. StackSorted
  BY <1>2 DEF Init, StackSorted
<1>5. WorkSorted /\ BelowReaches /\ AboveReaches /\ LowlinksTrue /\ Bounded
  BY <1>2 DEF Init, WorkSorted, BelowReaches, AboveReaches, LowlinksTrue, Bounded
<1>6. Discovered
  BY DEF Init, Discovered, Followed, Node
<1>7. NumbersTrue
  BY DEF Init, NumbersTrue
<1>8. QED  BY <1>3, <1>4, <1>5, <1>6, <1>7 DEF TarjanInv, StackInv, SearchInv

LEMMA SkipVisitedPreserves ==
  ASSUME TarjanInv, SkipVisited
  PROVE  TarjanInv'
<1>1. /\ UNCHANGED <<succ, index, lowlink, onStack, componentOf, sccStack, work, counter,
                     componentCount>>
      /\ start' = start + 1 /\ start \in Node /\ index[start] # -1
  BY DEF SkipVisited
<1>2. /\ UNCHANGED succ /\ UNCHANGED index /\ UNCHANGED lowlink /\ UNCHANGED onStack
      /\ UNCHANGED componentOf /\ UNCHANGED sccStack /\ UNCHANGED work /\ UNCHANGED counter
      /\ UNCHANGED componentCount
  BY <1>1
<1>3. TarjanTypeOK'
  BY <1>1, <1>2, NAssumption DEF TarjanInv, TarjanTypeOK, Node
<1>4. StackInv' /\ NumbersTrue'
  BY <1>2 DEF TarjanInv, StackInv, StackSorted, WorkSorted, Frames, NodeAt, NumbersTrue
<1>5. Discovered'
  BY <1>1, <1>2 DEF TarjanInv, SearchInv, Discovered, Followed, Frames, NodeAt, TarjanTypeOK, Node
<1>6. BelowReaches' /\ AboveReaches' /\ LowlinksTrue' /\ Bounded'
  BY <1>2 DEF TarjanInv, SearchInv, BelowReaches, AboveReaches, LowlinksTrue, Bounded, Open,
              Followed, Frames, NodeAt
<1>7. QED  BY <1>3, <1>4, <1>5, <1>6 DEF TarjanInv, SearchInv

LEMMA BeginRootPreserves ==
  ASSUME TarjanInv, BeginRoot
  PROVE  TarjanInv'
<1>1. /\ work = <<>> /\ start \in Node /\ index[start] = -1 /\ start' = start + 1
      /\ Discover(start, <<>>)
  BY DEF BeginRoot
<1>2. <<>> \in Seq(Frame) /\ Len(<<>>) = Len(work) /\ Frames = {} /\ Open = {}
  BY <1>1, EmptySeq, NothingOpen DEF Frames
<1>3. PICK v \in Node : v = start
  BY <1>1
<1>4. QED  BY <1>1, <1>2, <1>3, DiscoverPreserves

LEMMA FollowNewPreserves ==
  ASSUME TarjanInv, work # <<>>, NEW next \in Top.rest, FollowNew(next)
  PROVE  TarjanInv'
<1> USE DEF TarjanInv
<1>1. /\ Top.node \in Node /\ Top.node \in Open /\ Top.rest \subseteq succ[Top.node]
      /\ \A v \in Open : v # Top.node => index[v] < index[Top.node]
      /\ Open \subseteq onStack
  BY TopFacts
<1>2. next \in Node /\ index \in [Node -> Int] /\ onStack \subseteq Node
  BY <1>1 DEF TarjanTypeOK, Graph
<1>3. ASSUME NEW u \in Open PROVE Reaches(succ, u, next)
  <2>1. index[u] <= index[Top.node]
    BY <1>1, <1>2
  <2>2. Reaches(succ, u, Top.node)
    BY <1>1, <2>1 DEF SearchInv, BelowReaches
  <2>3. QED  BY <1>1, <2>2, ReachEdge, ReachTransitive
<1>4. /\ Advanced(next) \in Seq(Frame) /\ Len(Advanced(next)) = Len(work)
      /\ \A i \in Frames : /\ Advanced(next)[i].node = NodeAt(i)
                           /\ Advanced(next)[i].rest \subseteq work[i].rest
                           /\ work[i].rest \ {next} \subseteq Advanced(next)[i].rest
  BY AdvancedFacts
<1>5. index[next] = -1 /\ Discover(next, Advanced(next)) /\ start' = start
  BY DEF FollowNew
<1> HIDE DEF TarjanInv
<1>6. QED  BY <1>2, <1>3, <1>4, <1>5, DiscoverPreserves

LEMMA StutterPreserves ==
  ASSUME TarjanInv, UNCHANGED vars
  PROVE  TarjanInv'
<1>1. UNCHANGED succ /\ UNCHANGED start /\ UNCHANGED index /\ UNCHANGED lowlink
      /\ UNCHANGED onStack /\ UNCHANGED componentOf /\ UNCHANGED sccStack /\ UNCHANGED work
      /\ UNCHANGED counter /\ UNCHANGED componentCount
  BY DEF vars
<1>2. TarjanTypeOK' /\ NumbersTrue'
  BY <1>1 DEF TarjanInv, TarjanTypeOK, NumbersTrue
<1>3. StackInv'
  BY <1>1 DEF TarjanInv, StackInv, StackSorted, WorkSorted, Frames, NodeAt
<1>4. SearchInv'
  BY <1>1 DEF TarjanInv, SearchInv, Discovered, BelowReaches, AboveReaches, LowlinksTrue, Bounded,
              Open, Followed, Frames, NodeAt
<1>5. QED  BY <1>2, <1>3, <1>4 DEF TarjanInv

THEOREM SearchIsSound == Spec => []TarjanInv
<1>1. ASSUME TarjanInv, [Next]_vars PROVE TarjanInv'
  <2>1. CASE SkipVisited
    BY <1>1, <2>1, SkipVisitedPreserves
  <2>2. CASE BeginRoot
    BY <1>1, <2>2, BeginRootPreserves
  <2>3. CASE Follow
    <3>1. PICK next \in Top.rest : FollowNew(next) \/ FollowOld(next)
      BY <2>3 DEF Follow
    <3>2. work # <<>>
      BY <2>3 DEF Follow
    <3>3. QED  BY <1>1, <3>1, <3>2, FollowNewPreserves, FollowOldPreserves
  <2>4. CASE Retreat
    BY <1>1, <2>4, RetreatPreserves
  <2>5. CASE Finish
    BY <1>1, <2>5, FinishPreserves
  <2>6. CASE UNCHANGED vars
    BY <1>1, <2>6, StutterPreserves
  <2>7. QED  BY <1>1, <2>1, <2>2, <2>3, <2>4, <2>5, <2>6 DEF Next
<1>2. QED  BY <1>1, InitHolds, PTL DEF Spec

\* Every node is numbered when the search ends, and the invariant says what the numbers mean.
LEMMA DoneFindsCycles == TarjanInv => CyclesFound
<1> SUFFICES ASSUME TarjanInv, Done PROVE
      /\ \A u, v \in Node :
           /\ componentOf[u] \in 0 .. componentCount - 1
           /\ componentOf[u] = componentOf[v] <=> Mutual(succ, u, v)
           /\ v \in succ[u] => componentOf[v] <= componentOf[u]
      /\ StrongCycles = {SccOf(succ, v) : v \in {u \in Node : SccOf(succ, u) # {u}}}
  BY DEF CyclesFound
<1>1. \A v \in Node : componentOf[v] # -1
  <2>1. onStack = {} /\ start = N
    BY NothingOpen DEF Done
  <2>2. \A v \in Node : v < start
    BY <2>1, NAssumption DEF Node
  <2>3. QED  BY <2>1, <2>2 DEF TarjanInv, StackInv, StackSorted, SearchInv, Discovered
<1>2. \A v \in Node : /\ componentOf[v] \in 0 .. componentCount - 1
                      /\ {u \in Node : componentOf[u] = componentOf[v]} = SccOf(succ, v)
                      /\ \A w \in succ[v] : componentOf[w] <= componentOf[v]
  BY <1>1 DEF TarjanInv, NumbersTrue, TarjanTypeOK
<1>3. \A u, v \in Node : componentOf[u] = componentOf[v] <=> Mutual(succ, u, v)
  BY <1>2 DEF SccOf
<1>4. \A v \in Node : v \in SccOf(succ, v) /\ IsFiniteSet(SccOf(succ, v))
  <2>1. IsFiniteSet(Node)
    BY NAssumption, FS_Interval DEF Node
  <2>2. \A v \in Node : SccOf(succ, v) \in SUBSET Node
    BY DEF SccOf
  <2>3. QED  BY <1>3, <2>1, <2>2, FS_Subset DEF SccOf
<1>5. ASSUME NEW v \in Node PROVE Cardinality(SccOf(succ, v)) > 1 <=> SccOf(succ, v) # {v}
  <2>1. Cardinality(SccOf(succ, v)) \in Nat
    BY <1>4, FS_CardinalityType
  <2>2. Cardinality(SccOf(succ, v)) # 0
    BY <1>4, FS_EmptySet
  <2>3. Cardinality(SccOf(succ, v)) = 1 <=> SccOf(succ, v) = {v}
    BY <1>4, FS_Singleton
  <2>4. QED  BY <2>1, <2>2, <2>3
<1>6. \A C : C \in {{v \in Node : componentOf[v] = c} : c \in 0 .. componentCount - 1}
               <=> \E v \in Node : C = SccOf(succ, v)
  <2>1. \A c \in 0 .. componentCount - 1 : \E v \in Node : componentOf[v] = c
    BY DEF TarjanInv, NumbersTrue
  <2>2. ASSUME NEW c \in 0 .. componentCount - 1
        PROVE  \E v \in Node : {u \in Node : componentOf[u] = c} = SccOf(succ, v)
    BY <1>2, <2>1
  <2>3. ASSUME NEW v \in Node
        PROVE  \E c \in 0 .. componentCount - 1 : {u \in Node : componentOf[u] = c} = SccOf(succ, v)
    BY <1>2
  <2>4. QED  BY <2>2, <2>3
<1>7. StrongCycles = {SccOf(succ, v) : v \in {u \in Node : SccOf(succ, u) # {u}}}
  BY <1>5, <1>6 DEF StrongCycles
<1>8. QED  BY <1>2, <1>3, <1>7

\* strongCycles reports exactly the call cycles, and the numbers follow the calls.
THEOREM CyclesFoundAlways == Spec => []CyclesFound
BY SearchIsSound, DoneFindsCycles, PTL

\* Step by step: nothing is numbered, or exactly one component all of whose
\* callees have numbers already.
THEOREM NumbersInOrder == Spec => Promise!SccInit /\ [][Promise!SccNext]_Promise!sccVars
<1>1. Init => Promise!SccInit
  BY DEF Init, Promise!SccInit, Promise!Graph, Promise!Node, Graph, Node
<1>2. ASSUME TarjanInv, [Next]_vars PROVE [Promise!SccNext]_Promise!sccVars
  <2>1. CASE Finish
    <3>1. /\ work # <<>> /\ componentCount' = componentCount + 1 /\ succ' = succ
          /\ componentOf' = [v \in Node |-> IF v \in Members THEN componentCount ELSE componentOf[v]]
          /\ Members = SccOf(succ, Top.node) /\ Members \cap Numbers = {}
          /\ \A u \in Members : succ[u] \subseteq Members \cup Numbers
      BY <1>2, <2>1, FinishNumbers, MembersAreComponent DEF Pop
    <3>2. Top.node \in Node
      BY <1>2, <3>1, TopFacts DEF TarjanInv
    <3>3. Promise!Node = Node /\ Promise!Numbered = Numbers
      BY DEF Promise!Node, Node, Promise!Numbered, Numbers
    <3>4. Members = Promise!SccOf(succ, Top.node)
      BY <3>1, <3>3 DEF SccOf, Mutual, Reaches, Closed, Promise!SccOf, Promise!Mutual,
                        Promise!Reaches, Promise!Closed
    <3>5. Promise!Number(Promise!SccOf(succ, Top.node))
      BY <3>1, <3>3, <3>4 DEF Promise!Number
    <3>6. QED  BY <3>2, <3>3, <3>5 DEF Promise!SccNext
  <2>2. CASE SkipVisited \/ BeginRoot \/ Follow \/ Retreat \/ UNCHANGED vars
    BY <2>2 DEF SkipVisited, BeginRoot, Follow, FollowNew, FollowOld, Discover, Retreat, Pop, vars,
                Promise!sccVars
  <2>3. QED  BY <1>2, <2>1, <2>2 DEF Next
<1>3. QED  BY <1>1, <1>2, SearchIsSound, PTL DEF Spec
=============================================================================
