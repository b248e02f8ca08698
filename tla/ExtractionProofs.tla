-------------------------- MODULE ExtractionProofs --------------------------
(***************************************************************************)
(* What is proved about SemanticGraph, for syntax trees of every size and   *)
(* shape and every number of uses: calls, reads and writes are counted, and *)
(* dead-exports tells the truth; and about Heritage, for hierarchies of     *)
(* every depth: OVERRIDES leads where it should.                            *)
(***************************************************************************)
EXTENDS SemanticGraph, Heritage, Induction

-----------------------------------------------------------------------------
(* The syntax tree                                                          *)

\* The recursion of Around ends, for a parent comes before its children.
LEMMA AroundIs ==
  ASSUME TreeOK
  PROVE  Around = [d \in 0 .. Size |-> IF d = File THEN {} ELSE {d} \cup Around[parent[d]]]
<1> DEFINE D == 0 .. Size
           V == SUBSET D
           F(f, d) == IF d = File THEN {} ELSE {d} \cup f[parent[d]]
           Phi == [f \in [D -> V] |-> [d \in D |-> F(f, d)]]
           rank == [d \in D |-> d]
<1>1. Size \in Nat /\ rank \in [D -> 0 .. Size] /\ V # {}
  BY TreeAssumption
<1>2. \A d \in D : d # File => parent[d] \in D /\ parent[d] < d
  BY TreeAssumption DEF TreeOK, TreeNode, File
<1>3. Descends(D, V, rank, Phi)
  <2>1. Phi \in [[D -> V] -> [D -> V]]
    BY <1>2
  <2>2. ASSUME NEW f \in [D -> V], NEW g \in [D -> V], NEW d \in D,
               \A c \in D : rank[c] < rank[d] => f[c] = g[c]
        PROVE  Phi[f][d] = Phi[g][d]
    BY <1>2, <2>2
  <2> HIDE DEF D, V, Phi, rank
  <2>3. QED  BY <2>1, <2>2 DEF Descends
<1>4. PICK f \in [D -> V] : f = Phi[f]
  <2> HIDE DEF D, V, Phi, rank
  <2>1. QED  BY <1>1, <1>3, Recursion
<1>5. f = [d \in D |-> F(f, d)]
  BY <1>4
<1>6. QED  BY <1>5 DEF Around

\* Around, one step at a time.
LEMMA AroundStep ==
  ASSUME TreeOK
  PROVE  /\ Around[File] = {} /\ File \in 0 .. Size
         /\ \A d \in 0 .. Size : d # File =>
              /\ d \in TreeNode /\ parent[d] \in 0 .. Size /\ parent[d] < d
              /\ Around[d] = {d} \cup Around[parent[d]]
<1>1. Size \in Nat
  BY TreeAssumption
<1>2. \A d \in 0 .. Size : d # File => d \in TreeNode /\ parent[d] \in 0 .. Size /\ parent[d] < d
  BY <1>1 DEF File, TreeNode, TreeOK
<1>3. File \in 0 .. Size
  BY <1>1 DEF File
<1>4. \A d \in 0 .. Size : Around[d] = IF d = File THEN {} ELSE {d} \cup Around[parent[d]]
  BY AroundIs
<1>5. QED  BY <1>2, <1>3, <1>4

\* What is around a node comes before it.
LEMMA AroundBefore ==
  ASSUME TreeOK
  PROVE  \A d \in 0 .. Size : Around[d] \subseteq {a \in TreeNode : a <= d}
<1> DEFINE T == {d \in 0 .. Size : Around[d] \subseteq {a \in TreeNode : a <= d}}
<1>1. Size \in Nat
  BY TreeAssumption
<1>2. ASSUME NEW d \in 0 .. Size, \A j \in 0 .. Size : j < d => j \in T PROVE d \in T
  <2>1. CASE d = File
    BY <2>1, AroundStep
  <2>2. CASE d # File
    <3>1. /\ d \in TreeNode /\ parent[d] \in 0 .. Size /\ parent[d] < d
          /\ Around[d] = {d} \cup Around[parent[d]]
      BY <2>2, AroundStep
    <3>2. Around[parent[d]] \subseteq {a \in TreeNode : a <= parent[d]}
      BY <1>2, <3>1
    <3>3. \A a \in TreeNode : a <= parent[d] => a <= d
      BY <3>1 DEF TreeNode
    <3>4. QED  BY <1>1, <3>1, <3>2, <3>3 DEF TreeNode
  <2>3. QED  BY <2>1, <2>2
<1>3. 0 .. Size \subseteq T
  <2> HIDE DEF T
  <2>1. QED  BY <1>1, <1>2, SetInduction
<1>4. QED  BY <1>3

\* Of what is around a node, each is around the ones that come after it, and the
\* children of all but the node itself are around it too.
LEMMA AroundNested ==
  ASSUME TreeOK, NEW d \in 0 .. Size, NEW a \in Around[d]
  PROVE  /\ Around[a] \subseteq Around[d]
         /\ \A b \in Around[d] : b <= a => b \in Around[a]
         /\ a # d => \E c \in Around[d] : parent[c] = a
<1> DEFINE Good(n) == \A x \in Around[n] : /\ Around[x] \subseteq Around[n]
                                           /\ \A b \in Around[n] : b <= x => b \in Around[x]
                                           /\ x # n => \E c \in Around[n] : parent[c] = x
           T == {n \in 0 .. Size : Good(n)}
<1>1. Size \in Nat
  BY TreeAssumption
<1>2. ASSUME NEW n \in 0 .. Size, \A j \in 0 .. Size : j < n => j \in T PROVE n \in T
  <2>1. CASE n = File
    BY <2>1, AroundStep
  <2>2. CASE n # File
    <3>1. /\ n \in TreeNode /\ parent[n] \in 0 .. Size /\ parent[n] < n
          /\ Around[n] = {n} \cup Around[parent[n]]
      BY <2>2, AroundStep
    <3>2. Good(parent[n])
      BY <1>2, <3>1
    <3>3. \A x \in Around[parent[n]] : x \in TreeNode /\ x <= parent[n]
      BY <3>1, AroundBefore
    <3>4. \A x \in Around[parent[n]] : ~(n <= x)
      BY <1>1, <3>1, <3>3 DEF TreeNode
    <3>5. \A x \in Around[n] : Around[x] \subseteq Around[n]
      BY <3>1, <3>2
    <3>6. \A x, b \in Around[n] : b <= x => b \in Around[x]
      BY <3>1, <3>2, <3>4
    <3>7. ASSUME NEW x \in Around[n], x # n PROVE \E c \in Around[n] : parent[c] = x
      <4>1. x \in Around[parent[n]]
        BY <3>1, <3>7
      <4>2. CASE x = parent[n]
        BY <3>1, <4>2
      <4>3. CASE x # parent[n]
        <5>1. \E c \in Around[parent[n]] : parent[c] = x
          BY <3>2, <4>1, <4>3
        <5>2. QED  BY <3>1, <5>1
      <4>4. QED  BY <4>2, <4>3
    <3>8. QED  BY <3>5, <3>6, <3>7
  <2>3. QED  BY <2>1, <2>2
<1>3. 0 .. Size \subseteq T
  <2> HIDE DEF T
  <2>1. QED  BY <1>1, <1>2, SetInduction
<1>4. Good(d)
  BY <1>3
<1>5. QED  BY <1>4

-----------------------------------------------------------------------------
(* Scopes                                                                   *)

\* The nearest of the nodes S around at, or the file.
NearestOf(S) == Max({File} \cup S)

LEMMA NearestIs ==
  ASSUME TreeOK, NEW at \in 0 .. Size, NEW S \in SUBSET Around[at]
  PROVE  /\ NearestOf(S) \in {File} \cup S /\ NearestOf(S) \in 0 .. Size
         /\ \A x \in S : x <= NearestOf(S) /\ NearestOf(S) # File
<1>1. Size \in Nat /\ {File} \cup S \in SUBSET (0 .. Size) /\ {File} \cup S # {}
  BY TreeAssumption, AroundBefore DEF TreeNode, File
<1>2. NearestOf(S) \in {File} \cup S /\ \A x \in {File} \cup S : x <= NearestOf(S)
  BY <1>1, MaxOf DEF NearestOf
<1>3. \A x \in S : x \in TreeNode
  BY AroundBefore
<1>4. \A x \in S : x \in Nat /\ 0 < x
  BY <1>1, <1>3 DEF TreeNode
<1>5. NearestOf(S) \in Nat /\ NearestOf(S) \in 0 .. Size
  BY <1>1, <1>2 DEF File
<1>6. \A x \in S : NearestOf(S) # File
  BY <1>2, <1>4, <1>5 DEF File
<1>7. QED  BY <1>2, <1>5, <1>6

LEMMA ScopesAre ==
  ASSUME NEW at
  PROVE  /\ CallerScope(at) = NearestOf({d \in Around[at] : IsEmittedDeclaration(d)})
         /\ Caller(at) = NearestOf({d \in Around[at] : d \in Emitted /\ kind[d] # "property"})
  BY DEF CallerScope, Caller, Nearest, NearestOf

\* What a node can be, given where it stands.
LEMMA KindBelow ==
  ASSUME TreeOK, NEW d \in TreeNode
  PROVE  /\ kind[d] \in Kinds /\ parent[d] \in 0 .. Size /\ parent[d] # d
         /\ parent[d] # File => parent[d] \in TreeNode /\ kind[parent[d]] # "signature"
         /\ parent[d] = File => kind[d] \in Body
         /\ kind[d] = "method" => parent[d] # File /\ kind[parent[d]] \in {"class", "object"}
         /\ kind[d] = "property" => parent[d] # File /\ kind[parent[d]] = "class"
         /\ kind[d] = "signature" => parent[d] # File /\ kind[parent[d]] = "interface"
<1>1. kind[d] \in Kinds /\ kind[d] \in Allowed[KindOf(parent[d])]
  BY DEF TreeOK, Legal
<1>2. /\ parent[d] \in 0 .. Size /\ parent[d] # d
      /\ parent[d] # File => parent[d] \in TreeNode
  <2>1. d \in 0 .. Size /\ d # File /\ Size \in Nat
    BY TreeAssumption DEF TreeNode, File
  <2>2. parent[d] \in 0 .. Size /\ parent[d] < d
    BY <2>1, AroundStep
  <2>3. QED  BY <2>1, <2>2, AroundStep
<1>3. CASE parent[d] = File
  <2>1. Allowed[KindOf(parent[d])] = Body
    BY <1>3 DEF KindOf, Allowed
  <2>2. QED  BY <1>1, <1>2, <1>3, <2>1 DEF Body
<1>4. CASE parent[d] # File
  <2>1. KindOf(parent[d]) = kind[parent[d]] /\ kind[parent[d]] \in Kinds
    BY <1>2, <1>4 DEF KindOf, TreeOK
  <2>2. kind[d] \in Allowed[kind[parent[d]]]
    BY <1>1, <2>1
  <2>3. QED  BY <1>1, <1>2, <1>4, <2>1, <2>2 DEF Allowed, Body, Kinds
<1>5. QED  BY <1>3, <1>4

\* A signature has nothing below it.
LEMMA SignatureIsLeaf ==
  ASSUME TreeOK, NEW at \in 0 .. Size, KindOf(at) # "signature", NEW d \in Around[at]
  PROVE  kind[d] # "signature"
<1>1. d \in TreeNode
  BY AroundBefore
<1>2. CASE d = at
  <2>1. at # File
    BY <1>1, <1>2 DEF TreeNode, File
  <2>2. QED  BY <1>2, <2>1 DEF KindOf
<1>3. CASE d # at
  <2>1. PICK c \in Around[at] : parent[c] = d
    BY <1>3, AroundNested
  <2>2. c \in TreeNode /\ parent[c] # File
    BY <1>1, <2>1, AroundBefore DEF TreeNode, File
  <2>3. QED  BY <2>1, <2>2, KindBelow
<1>4. QED  BY <1>2, <1>3

LEMMA EmittedIs ==
  ASSUME TreeOK, NEW d \in TreeNode
  PROVE  /\ parent[d] = File => (d \in Emitted <=> kind[d] \in {"function", "variable", "class", "interface"})
         /\ parent[d] # File => (d \in Emitted <=> /\ parent[d] \in TopLevel
                                                   /\ kind[d] \in {"method", "property", "signature"})
<1>1. File \notin TopLevel
  BY DEF TopLevel, TreeNode, File
<1>2. CASE parent[d] = File
  <2>1. d \in Emitted <=> d \in TopLevel
    BY <1>1, <1>2 DEF Emitted, MemberOf
  <2>2. QED  BY <1>2, <2>1 DEF TopLevel
<1>3. CASE parent[d] # File
  <2>1. d \in Emitted <=> /\ parent[d] \in TopLevel /\ kind[parent[d]] \in {"class", "interface"}
                          /\ kind[d] \in {"method", "property", "signature"}
    BY <1>3 DEF Emitted, MemberOf, TopLevel
  <2>2. parent[d] \in TopLevel /\ kind[d] \in {"method", "property", "signature"}
          => kind[parent[d]] \in {"class", "interface"}
    BY KindBelow DEF TopLevel
  <2>3. QED  BY <1>3, <2>1, <2>2
<1>4. QED  BY <1>2, <1>3

\* isEmittedDeclaration looks at the parent only, and errs for the members of local
\* classes and interfaces alone.
LEMMA DeclarationIsEmitted ==
  ASSUME TreeOK, NEW d \in TreeNode
  PROVE  /\ d \in Emitted /\ kind[d] # "property" => IsEmittedDeclaration(d)
         /\ IsEmittedDeclaration(d) /\ d \notin Emitted => d \in LocalMethod \/ kind[d] = "signature"
         /\ IsEmittedDeclaration(d) => kind[d] # "property"
<1>1. /\ kind[d] \in Kinds
      /\ kind[d] = "method" => parent[d] # File /\ kind[parent[d]] \in {"class", "object"}
      /\ kind[d] = "property" => parent[d] # File /\ kind[parent[d]] = "class"
      /\ kind[d] = "signature" => parent[d] # File /\ kind[parent[d]] = "interface"
  BY KindBelow
<1>2. CASE parent[d] = File
  BY <1>1, <1>2, EmittedIs DEF IsEmittedDeclaration
<1>3. CASE parent[d] # File
  <2>1. parent[d] \in TreeNode
    BY <1>3, KindBelow
  <2>2. d \in Emitted <=> parent[d] \in TopLevel /\ kind[d] \in {"method", "property", "signature"}
    BY <1>3, EmittedIs
  <2>3. IsEmittedDeclaration(d) <=> /\ kind[d] \in {"method", "signature"}
                                    /\ kind[parent[d]] \in {"class", "interface"}
    BY <1>3 DEF IsEmittedDeclaration
  <2>4. kind[parent[d]] \in {"class", "interface"} => (parent[d] \in TopLevel <=> parent[parent[d]] = File)
    BY <2>1 DEF TopLevel
  <2>5. kind[d] = "method" /\ kind[parent[d]] = "class" /\ parent[parent[d]] # File => d \in LocalMethod
    BY DEF LocalMethod
  <2>6. parent[d] \in TopLevel => kind[parent[d]] \in {"function", "variable", "class", "interface"}
    BY DEF TopLevel
  <2>7. QED  BY <1>1, <2>2, <2>3, <2>4, <2>5, <2>6
<1>4. QED  BY <1>2, <1>3

\* Where no local class is around, the scope of a call is the innermost declaration
\* in the graph.
LEMMA CallerIsScope ==
  ASSUME TreeOK, NEW at \in 0 .. Size, KindOf(at) # "signature", Around[at] \cap LocalMethod = {}
  PROVE  CallerScope(at) = Caller(at)
<1>1. \A d \in Around[at] : IsEmittedDeclaration(d) <=> d \in Emitted /\ kind[d] # "property"
  <2> TAKE d \in Around[at]
  <2>1. d \in TreeNode /\ kind[d] # "signature" /\ d \notin LocalMethod
    BY AroundBefore, SignatureIsLeaf
  <2>2. QED  BY <2>1, DeclarationIsEmitted
<1>2. {d \in Around[at] : IsEmittedDeclaration(d)} = {d \in Around[at] : d \in Emitted /\ kind[d] # "property"}
  BY <1>1
<1>3. QED  BY <1>2, ScopesAre

\* The scope of a read is the innermost function or method, or else what Reader says.
LEMMA ReaderIsScope == ASSUME TreeOK, NEW at \in 0 .. Size PROVE ReaderScope(at) = Reader(at)
<1> DEFINE bodies == {d \in Around[at] : kind[d] \in {"function", "method"}}
           others == {d \in Around[at] : kind[d] \in {"variable", "property", "class", "interface"}}
           holders == {d \in Around[at] : kind[d] \notin {"object", "arrow", "signature"}}
<1>1. ReaderScope(at) = IF NearestOf(bodies) # File THEN NearestOf(bodies) ELSE NearestOf(holders)
  BY DEF ReaderScope, Nearest, NearestOf
<1>2. Reader(at) = IF bodies # {} THEN NearestOf(bodies) ELSE NearestOf(others)
  BY DEF Reader, NearestOf
<1>3. \A d \in Around[at] : kind[d] \in Kinds
  BY AroundBefore DEF TreeOK
<1>4. CASE bodies = {}
  <2>1. NearestOf(bodies) = File
    <3>1. NearestOf(bodies) \in {File} \cup bodies
      BY NearestIs
    <3>2. QED  BY <1>4, <3>1
  <2>2. \A d \in Around[at] : kind[d] \notin {"function", "method"}
    BY <1>4
  <2>3. holders = others
    BY <1>3, <2>2 DEF Kinds
  <2> HIDE DEF bodies, others, holders
  <2>4. QED  BY <1>1, <1>2, <1>4, <2>1, <2>3
<1>5. CASE bodies # {}
  <2>1. NearestOf(bodies) # File
    <3>1. \A x \in bodies : NearestOf(bodies) # File
      BY NearestIs
    <3>2. QED  BY <1>5, <3>1
  <2> HIDE DEF bodies, others, holders
  <2>2. QED  BY <1>1, <1>2, <1>5, <2>1
<1>6. QED  BY <1>4, <1>5

-----------------------------------------------------------------------------
(* The edges of a use                                                       *)

LEMMA AccessEdges ==
  ASSUME NEW k, NEW u, NEW e
  PROVE  e \in Access(k, u) <=> /\ kind[u.to] \in {"function", "variable", "class"}
                                /\ IsEmittedDeclaration(u.to) /\ ReaderScope(u.at) \notin {File, u.to}
                                /\ e = Edge(k, ReaderScope(u.at), u.to)
  BY DEF Access

\* An edge says what it is of, and each kind of edge is of one kind of use.
LEMMA EdgesAre ==
  ASSUME NEW u \in Use, NEW e
  PROVE  e \in EdgesOf(u) <=>
           \/ /\ u.how = "type" /\ u.at \in Emitted
              /\ e = Edge(IF kind[u.at] \in {"variable", "property"} THEN "USES_TYPE" ELSE "SIGNATURE", u.at, u.to)
           \/ \E k \in {"READS", "WRITES"} : u.how \in Touches(k) /\ e \in Access(k, u)
           \/ u.how = "call" /\ IsEmittedDeclaration(u.to) /\ e = Edge("CALLS", CallerScope(u.at), u.to)
           \/ u.how = "new" /\ IsEmittedDeclaration(u.to) /\ e = Edge("INSTANTIATES", CallerScope(u.at), u.to)
           \/ u.how = "handle" /\ IsEmitted(u.to) /\ e = Edge("HANDLES", Endpoint, u.to)
           \/ u.how = "outside" /\ e = Edge("OUTSIDE", EnclosingScope(u.at), u.to)
<1>1. u.how \in {"call", "new", "read", "write", "update", "handle", "outside", "type"}
  BY DEF Use
<1>2. \A k : k \in Accesses(u) <=> k \in {"READS", "WRITES"} /\ u.how \in Touches(k)
  BY <1>1 DEF Accesses, Touches
<1> DEFINE rest == CASE u.how = "call" /\ IsEmittedDeclaration(u.to) -> {Edge("CALLS", CallerScope(u.at), u.to)}
      [] u.how = "new" /\ IsEmittedDeclaration(u.to) -> {Edge("INSTANTIATES", CallerScope(u.at), u.to)}
      [] u.how = "handle" /\ IsEmitted(u.to) -> {Edge("HANDLES", Endpoint, u.to)}
      [] u.how = "outside" -> {Edge("OUTSIDE", EnclosingScope(u.at), u.to)}
      [] OTHER -> {}
<1>3. EdgesOf(u) = TypeEdges(u) \cup (UNION {Access(k, u) : k \in Accesses(u)}) \cup rest
  BY DEF EdgesOf
<1>4. e \in TypeEdges(u) <=>
        /\ u.how = "type" /\ u.at \in Emitted
        /\ e = Edge(IF kind[u.at] \in {"variable", "property"} THEN "USES_TYPE" ELSE "SIGNATURE", u.at, u.to)
  BY DEF TypeEdges
<1>5. e \in UNION {Access(k, u) : k \in Accesses(u)} <=>
        \E k \in {"READS", "WRITES"} : u.how \in Touches(k) /\ e \in Access(k, u)
  BY <1>2
<1>6. e \in rest <=>
        \/ u.how = "call" /\ IsEmittedDeclaration(u.to) /\ e = Edge("CALLS", CallerScope(u.at), u.to)
        \/ u.how = "new" /\ IsEmittedDeclaration(u.to) /\ e = Edge("INSTANTIATES", CallerScope(u.at), u.to)
        \/ u.how = "handle" /\ IsEmitted(u.to) /\ e = Edge("HANDLES", Endpoint, u.to)
        \/ u.how = "outside" /\ e = Edge("OUTSIDE", EnclosingScope(u.at), u.to)
  OBVIOUS
<1> HIDE DEF rest
<1>7. e \in EdgesOf(u) <=>
        e \in TypeEdges(u) \/ e \in UNION {Access(k, u) : k \in Accesses(u)} \/ e \in rest
  <2> DEFINE accesses == UNION {Access(k, u) : k \in Accesses(u)}
             types == TypeEdges(u)
  <2>1. EdgesOf(u) = types \cup accesses \cup rest
    BY <1>3
  <2> HIDE DEF accesses, types
  <2>2. e \in EdgesOf(u) <=> e \in types \/ e \in accesses \/ e \in rest
    BY <2>1
  <2>3. QED  BY <2>2 DEF accesses, types
<1>8. QED  BY <1>4, <1>5, <1>6, <1>7, Zenon

LEMMA EdgeIs ==
  \A k, s, d : /\ Edge(k, s, d).kind = k /\ Edge(k, s, d).from = s /\ Edge(k, s, d).to = d
               /\ \A l, t, c : Edge(k, s, d) = Edge(l, t, c) <=> k = l /\ s = t /\ d = c
  BY DEF Edge

\* The edges of one use by their kinds.
LEMMA CallEdges ==
  ASSUME NEW u \in Use, NEW s, NEW d
  PROVE  /\ Edge("CALLS", s, d) \in EdgesOf(u) <=>
              u.how = "call" /\ IsEmittedDeclaration(u.to) /\ s = CallerScope(u.at) /\ d = u.to
         /\ Edge("INSTANTIATES", s, d) \in EdgesOf(u) <=>
              u.how = "new" /\ IsEmittedDeclaration(u.to) /\ s = CallerScope(u.at) /\ d = u.to
<1>1. \A k \in {"CALLS", "INSTANTIATES"}, l \in {"READS", "WRITES"} : Edge(k, s, d) \notin Access(l, u)
  BY AccessEdges, EdgeIs
<1>2. QED  BY <1>1, EdgesAre, EdgeIs

LEMMA ValueEdges ==
  ASSUME NEW u \in Use, NEW k \in {"READS", "WRITES"}, NEW s, NEW d
  PROVE  Edge(k, s, d) \in EdgesOf(u) <=>
           /\ u.how \in Touches(k) /\ d = u.to /\ s = ReaderScope(u.at) /\ s \notin {File, d}
           /\ kind[d] \in {"function", "variable", "class"} /\ IsEmittedDeclaration(d)
<1>1. \A l : Edge(k, s, d) \in Access(l, u) <=>
        /\ k = l /\ d = u.to /\ s = ReaderScope(u.at) /\ s \notin {File, d}
        /\ kind[d] \in {"function", "variable", "class"} /\ IsEmittedDeclaration(d)
  BY AccessEdges, EdgeIs
<1>2. QED  BY <1>1, EdgesAre, EdgeIs

-----------------------------------------------------------------------------
(* The inductive invariant                                                  *)

\* What is extracted depends on the syntax tree only, which no step changes.
LEMMA TreeStays ==
  ASSUME UNCHANGED treeVars
  PROVE  /\ TreeOK' <=> TreeOK
         /\ GraphNodes' = GraphNodes
         /\ \A u : (Legit(u)' <=> Legit(u)) /\ EdgesOf(u)' = EdgesOf(u)
<1> USE DEF treeVars
<1>1. Around' = Around /\ Emitted' = Emitted /\ TopLevel' = TopLevel
  BY DEF Around, Emitted, TopLevel, MemberOf
<1>2. \A d : /\ KindOf(d)' = KindOf(d) /\ (HoldsFunction(d)' <=> HoldsFunction(d))
             /\ (IsEmittedDeclaration(d)' <=> IsEmittedDeclaration(d)) /\ (IsEmitted(d)' <=> IsEmitted(d))
  BY DEF KindOf, HoldsFunction, IsEmittedDeclaration, IsEmitted
<1>3. InScope' = InScope
  BY <1>1 DEF InScope
<1>4. \A at : /\ CallerScope(at)' = CallerScope(at) /\ EnclosingScope(at)' = EnclosingScope(at)
              /\ ReaderScope(at)' = ReaderScope(at)
  BY <1>1, <1>2 DEF CallerScope, EnclosingScope, ReaderScope, Nearest
<1>5. \A u : Legit(u)' <=> Legit(u)
  BY <1>2, <1>3 DEF Legit
<1>6. \A k, u : Access(k, u)' = Access(k, u) /\ TypeEdges(u)' = TypeEdges(u)
  BY <1>1, <1>2, <1>4 DEF Access, TypeEdges
<1>7. \A u : EdgesOf(u)' = EdgesOf(u)
  BY <1>2, <1>4, <1>6 DEF EdgesOf
<1>8. TreeOK' <=> TreeOK
  BY <1>2 DEF TreeOK, Legal
<1>9. GraphNodes' = GraphNodes
  BY <1>1 DEF GraphNodes
<1>10. QED  BY <1>5, <1>7, <1>8, <1>9

LEMMA SemanticStarts == Init => SemanticIInv
<1> SUFFICES ASSUME Init PROVE SemanticIInv
  OBVIOUS
<1>1. TreeOK
  BY DEF Init, TreeInit, TreeOK
<1>2. PICK k \in 1 .. MaxUses : uses \in [1 .. k -> {u \in Use : Legit(u)}]
  BY DEF Init
<1>3. UsesOK
  <2>1. k \in Nat /\ uses \in [1 .. k -> Use]
    BY <1>2, UsesAssumption
  <2>2. uses \in Seq(Use)
    BY <2>1
  <2>3. \A i \in DOMAIN uses : Legit(uses[i])
    BY <1>2
  <2>4. QED  BY <2>2, <2>3 DEF UsesOK, Init
<1>4. EdgesCounted /\ phase # "loaded"
  <2>1. DOMAIN uses \ pending = {} /\ DOMAIN edges = {}
    BY DEF Init
  <2>2. UNION {EdgesOf(uses[i]) : i \in DOMAIN uses \ pending} = {}
    BY <2>1
  <2>3. QED  BY <2>1, <2>2 DEF EdgesCounted, Init
<1>5. QED  BY <1>1, <1>3, <1>4 DEF SemanticIInv

LEMMA UsesFinite ==
  ASSUME UsesOK
  PROVE  /\ IsFiniteSet(DOMAIN uses) /\ \A i \in DOMAIN uses : uses[i] \in Use /\ Legit(uses[i])
         /\ \A e : IsFiniteSet(Merged(e)) /\ Merged(e) \subseteq DOMAIN uses
<1>1. PICK n \in Nat : n = Len(uses) /\ DOMAIN uses = 1 .. n
  BY DEF UsesOK
<1>2. IsFiniteSet(DOMAIN uses)
  BY <1>1, FS_Interval
<1>3. \A e : Merged(e) \in SUBSET DOMAIN uses
  BY DEF Merged
<1>4. \A e : IsFiniteSet(Merged(e))
  BY <1>2, <1>3, FS_Subset
<1>5. \A i \in DOMAIN uses : uses[i] \in Use
  BY DEF UsesOK
<1>6. QED  BY <1>2, <1>3, <1>4, <1>5 DEF UsesOK

\* addEdge: the edges of one more use.
LEMMA MergeCounts ==
  ASSUME SemanticIInv, NEW i \in DOMAIN uses, Merge(i) PROVE EdgesCounted'
<1>1. /\ i \in pending /\ pending' = pending \ {i} /\ uses' = uses /\ UNCHANGED treeVars
      /\ edges' = Added(edges, EdgesOf(uses[i]))
  BY DEF Merge
<1>2. \A j : EdgesOf(uses[j])' = EdgesOf(uses[j])
  BY <1>1, TreeStays
<1>3. DOMAIN uses' \ pending' = (DOMAIN uses \ pending) \cup {i} /\ i \notin DOMAIN uses \ pending
  BY <1>1
<1>4. \A e : Merged(e)' = IF e \in EdgesOf(uses[i]) THEN Merged(e) \cup {i} ELSE Merged(e)
  BY <1>1, <1>2, <1>3 DEF Merged
<1> DEFINE new == EdgesOf(uses[i])
           was == UNION {EdgesOf(uses[j]) : j \in DOMAIN uses \ pending}
<1>5. DOMAIN edges = was /\ DOMAIN edges' = DOMAIN edges \cup new
  BY <1>1 DEF SemanticIInv, EdgesCounted, Added
<1>6. UNION {EdgesOf(uses[j])' : j \in DOMAIN uses' \ pending'} = was \cup new
  BY <1>2, <1>3
<1>7. \A e : Cardinality(Merged(e)') = Cardinality(Merged(e)) + (IF e \in new THEN 1 ELSE 0)
  <2> TAKE e
  <2>1. IsFiniteSet(Merged(e)) /\ i \notin Merged(e)
    BY <1>1, UsesFinite DEF SemanticIInv, Merged
  <2>2. Cardinality(Merged(e)) \in Nat /\ Cardinality(Merged(e) \cup {i}) = Cardinality(Merged(e)) + 1
    BY <2>1, FS_CardinalityType, FS_AddElement
  <2>3. QED  BY <1>4, <2>2
<1>8. \A e : e \notin DOMAIN edges => Cardinality(Merged(e)) = 0
  <2> TAKE e
  <2>1. e \notin DOMAIN edges => Merged(e) = {}
    BY <1>5 DEF Merged
  <2>2. QED  BY <2>1, FS_EmptySet
<1>9. \A e \in DOMAIN edges' :
        edges'[e] = (IF e \in DOMAIN edges THEN edges[e] ELSE 0) + (IF e \in new THEN 1 ELSE 0)
  BY <1>1, <1>5 DEF Added
<1>10. \A e \in DOMAIN edges' : edges'[e] = Cardinality(Merged(e)')
  <2> TAKE e \in DOMAIN edges'
  <2>1. (IF e \in DOMAIN edges THEN edges[e] ELSE 0) = Cardinality(Merged(e))
    BY <1>8 DEF SemanticIInv, EdgesCounted
  <2>2. QED  BY <1>7, <1>9, <2>1
<1>11. QED  BY <1>5, <1>6, <1>10 DEF EdgesCounted

LEMMA SemanticStep == SemanticIInv /\ [Next]_vars => SemanticIInv'
<1> SUFFICES ASSUME SemanticIInv, [Next]_vars PROVE SemanticIInv'
  OBVIOUS
<1>1. ASSUME UNCHANGED <<treeVars, uses>>, pending' \subseteq pending PROVE TreeOK' /\ UsesOK'
  <2>1. TreeOK'
    BY <1>1, TreeStays DEF SemanticIInv
  <2>2. \A j : Legit(uses[j])' <=> Legit(uses[j])
    BY <1>1, TreeStays
  <2>3. QED  BY <1>1, <2>1, <2>2 DEF SemanticIInv, UsesOK
<1>2. ASSUME NEW i \in DOMAIN uses, Merge(i) PROVE SemanticIInv'
  <2>1. UNCHANGED <<treeVars, uses, phase>> /\ pending' \subseteq pending /\ pending # {}
    BY <1>2 DEF Merge
  <2>2. phase' # "loaded"
    BY <2>1 DEF SemanticIInv
  <2>3. QED  BY <1>1, <1>2, <2>1, <2>2, MergeCounts DEF SemanticIInv
<1>3. ASSUME UNCHANGED <<treeVars, uses, pending, edges>> PROVE EdgesCounted'
  <2>1. \A j : EdgesOf(uses[j])' = EdgesOf(uses[j])
    BY <1>3, TreeStays
  <2>2. \A e : Merged(e)' = Merged(e)
    BY <1>3, <2>1 DEF Merged
  <2>3. UNION {EdgesOf(uses[j])' : j \in DOMAIN uses' \ pending'} = UNION {EdgesOf(uses[j]) : j \in DOMAIN uses \ pending}
    BY <1>3, <2>1
  <2>4. QED  BY <1>3, <2>2, <2>3 DEF SemanticIInv, EdgesCounted
<1>4. CASE Load
  <2>1. /\ UNCHANGED <<treeVars, uses, pending, edges>> /\ pending = {}
        /\ loaded' = {e \in DOMAIN edges : {e.from, e.to} \subseteq GraphNodes}
    BY <1>4 DEF Load
  <2>2. GraphNodes' = GraphNodes
    BY <2>1, TreeStays
  <2>3. QED  BY <1>1, <1>3, <2>1, <2>2 DEF SemanticIInv
<1>5. CASE UNCHANGED vars
  <2>1. UNCHANGED <<treeVars, uses, pending, edges, phase, loaded>>
    BY <1>5 DEF vars
  <2>2. GraphNodes' = GraphNodes
    BY <2>1, TreeStays
  <2>3. QED  BY <1>1, <1>3, <2>1, <2>2 DEF SemanticIInv
<1>6. QED  BY <1>2, <1>4, <1>5 DEF Next

LEMMA SemanticInvariant == Spec => []SemanticIInv
  BY SemanticStarts, SemanticStep, PTL DEF Spec

\* What is in the database in the end, and how often it was used.
LEMMA LoadedIs ==
  ASSUME SemanticIInv, phase = "loaded", NEW k, NEW s, NEW d, {s, d} \subseteq GraphNodes
  PROVE  /\ Edge(k, s, d) \in loaded <=> \E i \in DOMAIN uses : Edge(k, s, d) \in EdgesOf(uses[i])
         /\ Edge(k, s, d) \in loaded =>
              edges[Edge(k, s, d)] = Cardinality({i \in DOMAIN uses : Edge(k, s, d) \in EdgesOf(uses[i])})
<1> DEFINE e == Edge(k, s, d)
           of == {i \in DOMAIN uses : e \in EdgesOf(uses[i])}
<1>1. pending = {} /\ of = Merged(e)
  BY DEF SemanticIInv, Merged
<1>2. e \in DOMAIN edges <=> of # {}
  BY <1>1 DEF SemanticIInv, EdgesCounted
<1>3. e \in loaded <=> e \in DOMAIN edges
  BY EdgeIs DEF SemanticIInv
<1>4. e \in DOMAIN edges => edges[e] = Cardinality(of)
  BY <1>1 DEF SemanticIInv, EdgesCounted
<1> HIDE DEF e, of
<1>5. QED  BY <1>2, <1>3, <1>4 DEF e, of

-----------------------------------------------------------------------------
(* What a use is, and what it is of                                         *)

LEMMA EmittedNodes ==
  /\ Emitted \subseteq TreeNode /\ TopLevel \subseteq Emitted
  /\ File \notin TreeNode /\ Outside \notin TreeNode
  BY TreeAssumption DEF Emitted, TopLevel, MemberOf, TreeNode, File, Outside

\* A call or a new has a scope in the graph and a target there.
LEMMA InvocationIs ==
  ASSUME SemanticIInv, NEW i \in Invocation
  PROVE  /\ uses[i].at \in 0 .. Size /\ uses[i].to \in Emitted /\ IsEmittedDeclaration(uses[i].to)
         /\ CallerScope(uses[i].at) = Caller(uses[i].at)
         /\ Caller(uses[i].at) \in Emitted \cup {File}
<1>1. /\ i \in DOMAIN uses /\ uses[i] \in Use /\ Legit(uses[i]) /\ uses[i].at \in 0 .. Size
      /\ uses[i].how \in {"call", "new"} /\ uses[i].to \in Emitted
      /\ Around[uses[i].at] \cap LocalMethod = {}
  BY UsesFinite DEF SemanticIInv, Invocation, Use
<1>2. KindOf(uses[i].at) # "signature"
  BY <1>1 DEF Legit
<1>3. CallerScope(uses[i].at) = Caller(uses[i].at)
  BY <1>1, <1>2, CallerIsScope DEF SemanticIInv
<1>4. Caller(uses[i].at) \in Emitted \cup {File}
  <2> DEFINE S == {d \in Around[uses[i].at] : d \in Emitted /\ kind[d] # "property"}
  <2>1. NearestOf(S) \in {File} \cup S
    BY <1>1, NearestIs DEF SemanticIInv
  <2>2. QED  BY <2>1, ScopesAre
<1>5. kind[uses[i].to] # "property"
  BY <1>1 DEF Legit
<1>6. IsEmittedDeclaration(uses[i].to)
  BY <1>1, <1>5, EmittedNodes, DeclarationIsEmitted DEF SemanticIInv
<1>7. QED  BY <1>1, <1>3, <1>4, <1>6

\* What is called from the scope of such a use is called from outside of local
\* classes, too: their methods would be nearer.
LEMMA ScopeIsCaller ==
  ASSUME SemanticIInv, NEW i \in Invocation, NEW j \in DOMAIN uses, uses[j].how \in {"call", "new"},
         CallerScope(uses[j].at) = CallerScope(uses[i].at)
  PROVE  Around[uses[j].at] \cap LocalMethod = {}
<1> SUFFICES ASSUME NEW m \in Around[uses[j].at], m \in LocalMethod PROVE FALSE
  OBVIOUS
<1>1. TreeOK /\ uses[j].at \in 0 .. Size /\ uses[i].at \in 0 .. Size /\ m \in TreeNode
  <2>1. TreeOK /\ uses[j].at \in 0 .. Size /\ uses[i].at \in 0 .. Size
    BY UsesFinite DEF SemanticIInv, Invocation, Use
  <2>2. QED  BY <2>1, AroundBefore
<1>2. IsEmittedDeclaration(m)
  BY <1>1, KindBelow DEF LocalMethod, IsEmittedDeclaration
<1> DEFINE S(at) == {d \in Around[at] : IsEmittedDeclaration(d)}
           scope == CallerScope(uses[j].at)
<1>3. m \in S(uses[j].at) /\ scope = NearestOf(S(uses[j].at)) /\ scope = NearestOf(S(uses[i].at))
  BY <1>2, ScopesAre
<1>4. scope \in {File} \cup S(uses[j].at) /\ m <= scope /\ scope # File
  BY <1>1, <1>3, NearestIs
<1>5. scope \in {File} \cup S(uses[i].at)
  BY <1>1, <1>3, NearestIs
<1>6. scope \in Around[uses[j].at] /\ scope \in Around[uses[i].at]
  BY <1>4, <1>5
<1>7. m \in Around[scope]
  BY <1>1, <1>4, <1>6, AroundNested
<1>8. m \in Around[uses[i].at]
  BY <1>1, <1>6, <1>7, AroundNested
<1>9. QED  BY <1>8 DEF Invocation

(***************************************************************************)
(* semantic_extractor.ts and graph_builder.ts: however declarations nest    *)
(* and however many uses there are in whatever order, a call or new outside *)
(* of the methods of local classes is in the database, from the innermost   *)
(* declaration around it, and counted as often as it occurs.                *)
(***************************************************************************)
THEOREM InvocationsAreCounted == Spec => []InvocationsCounted
<1>1. SemanticIInv => InvocationsCounted
  <2> SUFFICES ASSUME SemanticIInv, phase = "loaded", NEW i \in Invocation
               PROVE  LET same == {j \in Invocation : /\ uses[j].how = uses[i].how /\ uses[j].to = uses[i].to
                                                      /\ Caller(uses[j].at) = Caller(uses[i].at)}
                      IN  \E e \in loaded :
                            /\ e.kind = (IF uses[i].how = "call" THEN "CALLS" ELSE "INSTANTIATES")
                            /\ e.from = Caller(uses[i].at) /\ e.to = uses[i].to
                            /\ edges[e] = Cardinality(same)
    BY DEF InvocationsCounted
  <2> DEFINE k == IF uses[i].how = "call" THEN "CALLS" ELSE "INSTANTIATES"
             s == Caller(uses[i].at)
             d == uses[i].to
             of == {j \in DOMAIN uses : Edge(k, s, d) \in EdgesOf(uses[j])}
             same == {j \in Invocation : /\ uses[j].how = uses[i].how /\ uses[j].to = uses[i].to
                                         /\ Caller(uses[j].at) = Caller(uses[i].at)}
  <2>1. /\ i \in DOMAIN uses /\ uses[i].how \in {"call", "new"}
        /\ d \in Emitted /\ IsEmittedDeclaration(d) /\ s \in Emitted \cup {File}
        /\ CallerScope(uses[i].at) = s
    BY InvocationIs DEF Invocation
  <2>2. \A j \in DOMAIN uses : Edge(k, s, d) \in EdgesOf(uses[j]) <=>
          uses[j].how = uses[i].how /\ IsEmittedDeclaration(uses[j].to) /\ s = CallerScope(uses[j].at) /\ d = uses[j].to
    <3> TAKE j \in DOMAIN uses
    <3>1. uses[j] \in Use
      BY UsesFinite DEF SemanticIInv
    <3>2. QED  BY <2>1, <3>1, CallEdges
  <2>3. of \subseteq same
    <3> SUFFICES ASSUME NEW j \in of PROVE j \in same
      OBVIOUS
    <3>1. /\ j \in DOMAIN uses /\ uses[j].how = uses[i].how /\ d = uses[j].to
          /\ s = CallerScope(uses[j].at)
      BY <2>2
    <3>2. Around[uses[j].at] \cap LocalMethod = {}
      BY <2>1, <3>1, ScopeIsCaller
    <3>3. j \in Invocation
      BY <2>1, <3>1, <3>2 DEF Invocation
    <3>4. QED  BY <3>1, <3>3, InvocationIs
  <2>4. same \subseteq of
    <3> SUFFICES ASSUME NEW j \in same PROVE j \in of
      OBVIOUS
    <3>1. j \in DOMAIN uses /\ IsEmittedDeclaration(uses[j].to) /\ s = CallerScope(uses[j].at)
      BY InvocationIs DEF Invocation
    <3>2. QED  BY <2>2, <3>1
  <2>5. i \in of /\ of = same
    BY <2>1, <2>2, <2>3, <2>4
  <2>6. {s, d} \subseteq GraphNodes
    BY <2>1 DEF GraphNodes
  <2> HIDE DEF k, s, d
  <2>7. Edge(k, s, d) \in loaded /\ edges[Edge(k, s, d)] = Cardinality(same)
    BY <2>5, <2>6, LoadedIs
  <2> DEFINE edge == Edge(k, s, d)
  <2>8. edge.kind = k /\ edge.from = s /\ edge.to = d
    BY EdgeIs
  <2> HIDE DEF edge
  <2>9. edge \in loaded /\ edges[edge] = Cardinality(same)
    BY <2>7 DEF edge
  <2>10. QED  BY <2>8, <2>9 DEF k, s, d
<1>2. QED  BY <1>1, SemanticInvariant, PTL

(***************************************************************************)
(* extractValueAccess: the READS and WRITES edges of a declaration of the   *)
(* graph count its reads and its writes of another, however they nest.      *)
(***************************************************************************)
THEOREM AccessesAreCounted == Spec => []AccessesCounted
<1>1. SemanticIInv => AccessesCounted
  <2> SUFFICES ASSUME SemanticIInv, phase = "loaded", NEW s \in Emitted, NEW k \in {"READS", "WRITES"},
                      NEW d \in {v \in TopLevel : kind[v] \in {"variable", "function", "class"}} \ {s}
               PROVE  LET times == Cardinality({i \in DOMAIN uses : /\ uses[i].how \in Touches(k) /\ uses[i].to = d
                                                                   /\ Reader(uses[i].at) = s})
                          e == Edge(k, s, d)
                      IN  IF times = 0 THEN e \notin loaded ELSE e \in loaded /\ edges[e] = times
    BY DEF AccessesCounted
  <2> DEFINE of == {i \in DOMAIN uses : Edge(k, s, d) \in EdgesOf(uses[i])}
             accesses == {i \in DOMAIN uses : /\ uses[i].how \in Touches(k) /\ uses[i].to = d
                                              /\ Reader(uses[i].at) = s}
  <2>1. d \in TreeNode /\ d \in Emitted /\ s \in TreeNode /\ s # File /\ d # s
    BY EmittedNodes
  <2>2. IsEmittedDeclaration(d)
    BY <2>1, DeclarationIsEmitted DEF SemanticIInv
  <2>3. of = accesses
    <3>1. ASSUME NEW i \in DOMAIN uses
          PROVE  Edge(k, s, d) \in EdgesOf(uses[i]) <=>
                   uses[i].how \in Touches(k) /\ uses[i].to = d /\ Reader(uses[i].at) = s
      <4>1. uses[i] \in Use /\ uses[i].at \in 0 .. Size
        BY UsesFinite DEF SemanticIInv, Use
      <4>2. ReaderScope(uses[i].at) = Reader(uses[i].at)
        BY <4>1, ReaderIsScope DEF SemanticIInv
      <4>3. QED  BY <2>1, <2>2, <4>1, <4>2, ValueEdges
    <3>2. QED  BY <3>1
  <2>4. IsFiniteSet(accesses)
    BY UsesFinite, FS_Subset DEF SemanticIInv
  <2>5. Cardinality(accesses) = 0 <=> accesses = {}
    BY <2>4, FS_EmptySet
  <2>6. {s, d} \subseteq GraphNodes
    BY <2>1 DEF GraphNodes
  <2>7. /\ Edge(k, s, d) \in loaded <=> of # {}
        /\ Edge(k, s, d) \in loaded => edges[Edge(k, s, d)] = Cardinality(of)
    <3> HIDE DEF of, accesses
    <3>1. Edge(k, s, d) \in loaded <=> \E i \in DOMAIN uses : Edge(k, s, d) \in EdgesOf(uses[i])
      BY <2>6, LoadedIs
    <3>2. Edge(k, s, d) \in loaded =>
            edges[Edge(k, s, d)] = Cardinality({i \in DOMAIN uses : Edge(k, s, d) \in EdgesOf(uses[i])})
      BY <2>6, LoadedIs
    <3>3. QED  BY <3>1, <3>2 DEF of
  <2> HIDE DEF of, accesses
  <2>8. QED  BY <2>3, <2>5, <2>7 DEF accesses
<1>2. QED  BY <1>1, SemanticInvariant, PTL

-----------------------------------------------------------------------------
(* Dead exports                                                             *)

\* What a top-level declaration contains in the graph is its members.
LEMMA MembersContained ==
  ASSUME TreeOK, NEW d \in TopLevel, NEW t
  PROVE  /\ <<d, t>> \in Contains <=> t \in MemberOf(d)
         /\ t \in {d} \cup MemberOf(d) => t \in Emitted /\ t \in TreeNode
<1>1. d \in TreeNode /\ d \in 0 .. Size /\ d # File /\ d \in Emitted
  BY TreeAssumption, EmittedNodes DEF TreeNode, File
<1>2. t \in MemberOf(d) <=> t \in TreeNode /\ parent[t] = d /\ kind[t] \in {"method", "property", "signature"}
  BY DEF MemberOf
<1>3. t \in TreeNode /\ parent[t] = d =>
        (t \in Emitted <=> kind[t] \in {"method", "property", "signature"})
  BY <1>1, EmittedIs
<1>4. <<d, t>> \in Contains <=> t \in Emitted /\ parent[t] = d
  BY <1>1 DEF Contains
<1>5. QED  BY <1>1, <1>2, <1>3, <1>4, EmittedNodes

\* An edge that keeps a symbol alive comes from a use of it, no assignment.
LEMMA ReferenceIsUse ==
  ASSUME NEW u \in Use, NEW e \in EdgesOf(u), e.kind \in References
  PROVE  e.to = u.to /\ u.how \notin {"write", "outside"}
<1>1. \A k : e \in Access(k, u) => e.kind = k /\ e.to = u.to
  BY AccessEdges, EdgeIs
<1>2. e.kind \notin {"WRITES", "OUTSIDE"}
  BY DEF References
<1>3. "write" \notin Touches("READS") /\ "outside" \notin Touches("READS")
  BY DEF Touches
<1>4. QED  BY <1>1, <1>2, <1>3, EdgesAre, EdgeIs

\* A use that dead-exports has to know of gives an edge that keeps its symbol alive.
LEMMA KnownIsReferenced ==
  ASSUME SemanticIInv, phase = "loaded", NEW i \in DOMAIN uses, Known(i), uses[i].to \in Emitted
  PROVE  \E e \in loaded : e.kind \in References /\ e.to = uses[i].to
<1> DEFINE u == uses[i]
<1>1. /\ u \in Use /\ u.at \in 0 .. Size /\ Legit(u) /\ TreeOK
      /\ u.to \in TreeNode /\ u.to \in GraphNodes
  BY UsesFinite, EmittedNodes DEF SemanticIInv, Use, GraphNodes
<1>2. ASSUME NEW k \in References, NEW s \in GraphNodes, Edge(k, s, u.to) \in EdgesOf(u)
      PROVE  \E e \in loaded : e.kind \in References /\ e.to = u.to
  <2>1. Edge(k, s, u.to) \in loaded
    BY <1>1, <1>2, LoadedIs
  <2>2. QED  BY <2>1, EdgeIs
<1>3. CASE i \in Invocation
  <2>1. /\ u.how \in {"call", "new"} /\ IsEmittedDeclaration(u.to)
        /\ CallerScope(u.at) \in GraphNodes
    BY <1>3, InvocationIs DEF Invocation, GraphNodes
  <2>2. \E k \in References : Edge(k, CallerScope(u.at), u.to) \in EdgesOf(u)
    BY <1>1, <2>1, CallEdges DEF References
  <2>3. QED  BY <1>2, <2>1, <2>2
<1>4. CASE u.how = "handle"
  <2>1. kind[u.to] \in {"function", "method", "variable"}
    BY <1>1, <1>4 DEF Legit, HoldsFunction
  <2>2. IsEmitted(u.to)
    BY <1>1, <2>1, EmittedIs DEF IsEmitted
  <2>3. Edge("HANDLES", Endpoint, u.to) \in EdgesOf(u)
    BY <1>1, <1>4, <2>2, EdgesAre
  <2>4. "HANDLES" \in References /\ Endpoint \in GraphNodes
    BY DEF References, GraphNodes
  <2>5. QED  BY <1>2, <2>3, <2>4
<1>5. CASE u.how = "type" /\ u.at \in Emitted
  <2>1. \E k \in References : Edge(k, u.at, u.to) \in EdgesOf(u)
    BY <1>1, <1>5, EdgesAre DEF References
  <2>2. u.at \in GraphNodes
    BY <1>5 DEF GraphNodes
  <2>3. QED  BY <1>2, <2>1, <2>2
<1>6. CASE u.how \in {"read", "update"} /\ Reader(u.at) \in Emitted \ {u.to}
  <2>1. kind[u.to] \in {"function", "variable", "class"}
    BY <1>1, <1>6 DEF Legit
  <2>2. IsEmittedDeclaration(u.to)
    BY <1>1, <2>1, DeclarationIsEmitted
  <2>3. ReaderScope(u.at) = Reader(u.at) /\ Reader(u.at) \notin {File, u.to}
    BY <1>1, <1>6, ReaderIsScope, EmittedNodes
  <2>4. u.how \in Touches("READS")
    BY <1>6 DEF Touches
  <2>5. Edge("READS", Reader(u.at), u.to) \in EdgesOf(u)
    BY <1>1, <2>1, <2>2, <2>3, <2>4, ValueEdges
  <2>6. "READS" \in References /\ Reader(u.at) \in GraphNodes
    BY <1>6 DEF References, GraphNodes
  <2>7. QED  BY <1>2, <2>5, <2>6
<1>7. QED  BY <1>3, <1>4, <1>5, <1>6 DEF Known

(***************************************************************************)
(* deadExports: nothing it reports is called, constructed, read, registered *)
(* or named as a type where the graph can know of it, nor is a member of    *)
(* it; and what it leaves out is used by more than assignments.             *)
(***************************************************************************)
THEOREM DeadExportsAreTrue == Spec => []DeadExportsTrue
<1>1. SemanticIInv => DeadExportsTrue
  <2> SUFFICES ASSUME SemanticIInv, phase = "loaded", NEW d \in TopLevel
               PROVE  IF d \in DeadExports
                      THEN ~\E i \in DOMAIN uses : Known(i) /\ uses[i].to \in {d} \cup MemberOf(d)
                      ELSE \E i \in DOMAIN uses : /\ uses[i].how \notin {"write", "outside"}
                                                  /\ uses[i].to \in {d} \cup MemberOf(d)
    BY DEF DeadExportsTrue
  <2>1. d \in DeadExports <=>
          ~\E e \in loaded : e.kind \in References /\ (e.to = d \/ e.to \in MemberOf(d))
    BY MembersContained DEF DeadExports, SemanticIInv
  <2>2. ASSUME NEW i \in DOMAIN uses, Known(i), uses[i].to \in {d} \cup MemberOf(d)
        PROVE  d \notin DeadExports
    <3>1. uses[i].to \in Emitted
      BY <2>2, MembersContained DEF SemanticIInv
    <3>2. \E e \in loaded : e.kind \in References /\ e.to = uses[i].to
      BY <2>2, <3>1, KnownIsReferenced
    <3>3. QED  BY <2>1, <2>2, <3>2
  <2>3. ASSUME d \notin DeadExports
        PROVE  \E i \in DOMAIN uses : /\ uses[i].how \notin {"write", "outside"}
                                      /\ uses[i].to \in {d} \cup MemberOf(d)
    <3>1. PICK e \in loaded : e.kind \in References /\ (e.to = d \/ e.to \in MemberOf(d))
      BY <2>1, <2>3
    <3>2. PICK i \in DOMAIN uses : e \in EdgesOf(uses[i])
      BY <3>1 DEF SemanticIInv, EdgesCounted
    <3>3. uses[i] \in Use
      BY <3>2, UsesFinite DEF SemanticIInv
    <3>4. e.to = uses[i].to /\ uses[i].how \notin {"write", "outside"}
      BY <3>1, <3>2, <3>3, ReferenceIsUse
    <3>5. QED  BY <3>1, <3>2, <3>4
  <2>4. QED  BY <2>2, <2>3
<1>2. QED  BY <1>1, SemanticInvariant, PTL

-----------------------------------------------------------------------------
(* Heritage                                                                 *)

LEMMA HeritageInvariant == HeritageSpec => []HeritageIInv
<1>1. HeritageInit => HeritageIInv
  <2> SUFFICES ASSUME HeritageInit PROVE HeritageIInv
    OBVIOUS
  <2>1. PICK named \in SUBSET {p \in Type \X Type : p[2] < p[1] /\ (typeKind[p[1]] = "interface" => typeKind[p[2]] = "interface")} :
          supers = [t \in Type |-> {s \in Type : <<t, s>> \in named}]
    BY DEF HeritageInit
  <2>2. \A t \in Type : \A s \in supers[t] : s < t
    BY <2>1
  <2>3. supers \in [Type -> SUBSET Type]
    BY <2>1
  <2>4. \A t \in Type : base[t] # NoBase => {typeKind[t], typeKind[base[t]]} = {"class"}
    BY DEF HeritageInit
  <2>5. \A t \in Type : base[t] # NoBase => typeKind[base[t]] = "class"
    BY <2>4
  <2>6. QED  BY <2>2, <2>3, <2>5 DEF HeritageInit, HeritageIInv, TypesOK
<1>2. HeritageIInv /\ [HeritageNext]_heritageVars => HeritageIInv'
  <2> SUFFICES ASSUME HeritageIInv, [HeritageNext]_heritageVars PROVE HeritageIInv'
    OBVIOUS
  <2>1. UNCHANGED <<typeKind, place, base, supers, methods>>
    BY DEF HeritageNext, Extract, heritageVars
  <2>2. TypesOK'
    BY <2>1 DEF HeritageIInv, TypesOK
  <2>3. EmittedType' = EmittedType /\ \A t : ExtractClass(t)' = ExtractClass(t) /\ ExtractInterface(t)' = ExtractInterface(t)
    BY <2>1 DEF EmittedType, ExtractClass, ExtractInterface, Overridden, DeclaringBase, InProject
  <2>4. CASE Extract
    BY <2>1, <2>2, <2>3, <2>4 DEF Extract, HeritageIInv
  <2>5. CASE UNCHANGED heritageVars
    BY <2>1, <2>2, <2>3, <2>5 DEF heritageVars, HeritageIInv
  <2>6. QED  BY <2>4, <2>5 DEF HeritageNext
<1>3. QED  BY <1>1, <1>2, PTL DEF HeritageSpec

\* The number of a type is its rank in every recursion over the hierarchy.
Rank == [t \in Type |-> t]

LEMMA TypeRecursion ==
  ASSUME NEW V, V # {}, NEW Phi, Descends(Type, V, Rank, Phi)
  PROVE  \E f \in [Type -> V] : f = Phi[f]
<1>1. K \in Nat /\ Rank \in [Type -> 0 .. K]
  BY HeritageAssumption DEF Type, Rank
<1>2. QED  BY <1>1, Recursion

LEMMA BaseIs ==
  ASSUME TypesOK, NEW t \in Type, base[t] # NoBase
  PROVE  base[t] \in Type /\ base[t] < t
<1>1. K \in Nat /\ t \in 1 .. K /\ base[t] \in 0 .. K - 1 /\ base[t] < t
  BY HeritageAssumption DEF TypesOK, Type
<1>2. QED  BY <1>1 DEF NoBase, Type

LEMMA BasesAre ==
  ASSUME TypesOK
  PROVE  Bases = [t \in Type |-> IF base[t] = NoBase THEN {} ELSE {base[t]} \cup Bases[base[t]]]
<1> DEFINE V == SUBSET Type
           Phi == [f \in [Type -> V] |-> [t \in Type |-> IF base[t] = NoBase THEN {} ELSE {base[t]} \cup f[base[t]]]]
<1>1. V # {}
  OBVIOUS
<1>2. Descends(Type, V, Rank, Phi)
  <2>1. ASSUME NEW f \in [Type -> V], NEW t \in Type
        PROVE  (IF base[t] = NoBase THEN {} ELSE {base[t]} \cup f[base[t]]) \in V
    BY BaseIs
  <2>2. Phi \in [[Type -> V] -> [Type -> V]]
    BY <2>1
  <2>3. ASSUME NEW f \in [Type -> V], NEW g \in [Type -> V], NEW t \in Type,
               \A s \in Type : Rank[s] < Rank[t] => f[s] = g[s]
        PROVE  Phi[f][t] = Phi[g][t]
    BY <2>3, BaseIs DEF Rank
  <2> HIDE DEF V, Phi
  <2>4. QED  BY <2>2, <2>3 DEF Descends
<1>3. PICK f \in [Type -> V] : f = Phi[f]
  <2> HIDE DEF V, Phi
  <2>1. QED  BY <1>1, <1>2, TypeRecursion
<1>4. f = [t \in Type |-> IF base[t] = NoBase THEN {} ELSE {base[t]} \cup f[base[t]]]
  BY <1>3
<1>5. QED  BY <1>4 DEF Bases

LEMMA DeclaringBaseIs ==
  ASSUME TypesOK, NEW m, NEW t \in Type
  PROVE  DeclaringBase(t, m) = IF base[t] = NoBase \/ m \in methods[base[t]] THEN base[t]
                               ELSE DeclaringBase(base[t], m)
<1> DEFINE F(f, u) == IF base[u] = NoBase \/ m \in methods[base[u]] THEN base[u] ELSE f[base[u]]
           V == 0 .. K
           Phi == [f \in [Type -> V] |-> [u \in Type |-> F(f, u)]]
           nearest == CHOOSE f : f = [u \in Type |-> F(f, u)]
<1>1. V # {}
  BY HeritageAssumption
<1>2. Descends(Type, V, Rank, Phi)
  <2>1. ASSUME NEW f \in [Type -> V], NEW u \in Type PROVE F(f, u) \in V
    <3>1. base[u] \in V
      <4>1. K \in Nat /\ base[u] \in 0 .. K - 1
        BY HeritageAssumption DEF TypesOK
      <4>2. QED  BY <4>1
    <3>2. base[u] # NoBase => f[base[u]] \in V
      BY BaseIs
    <3> HIDE DEF V
    <3>3. QED  BY <3>1, <3>2
  <2>2. Phi \in [[Type -> V] -> [Type -> V]]
    BY <2>1
  <2>3. ASSUME NEW f \in [Type -> V], NEW g \in [Type -> V], NEW u \in Type,
               \A s \in Type : Rank[s] < Rank[u] => f[s] = g[s]
        PROVE  Phi[f][u] = Phi[g][u]
    BY <2>3, BaseIs DEF Rank
  <2> HIDE DEF V, Phi
  <2>4. QED  BY <2>2, <2>3 DEF Descends
<1>3. PICK f \in [Type -> V] : f = Phi[f]
  <2> HIDE DEF V, Phi
  <2>1. QED  BY <1>1, <1>2, TypeRecursion
<1>4. f = [u \in Type |-> F(f, u)]
  BY <1>3
<1>5. nearest = [u \in Type |-> F(nearest, u)]
  BY <1>4
<1>6. \A u : DeclaringBase(u, m) = nearest[u]
  BY DEF DeclaringBase
<1>7. nearest[t] = F(nearest, t)
  BY <1>5
<1> HIDE DEF nearest
<1>8. QED  BY <1>6, <1>7

\* The base classes of t that declare m.
Declarers(t, m) == {a \in Bases[t] : m \in methods[a]}

\* The declaring base class is the first of them, the others are its own.
LEMMA DeclaringBaseFirst ==
  ASSUME TypesOK, NEW m, NEW t \in Type
  PROVE  /\ Bases[t] \subseteq {a \in Type : a < t}
         /\ DeclaringBase(t, m) = NoBase => Declarers(t, m) = {}
         /\ DeclaringBase(t, m) # NoBase =>
              /\ DeclaringBase(t, m) \in Type /\ DeclaringBase(t, m) < t
              /\ typeKind[DeclaringBase(t, m)] = "class" /\ m \in methods[DeclaringBase(t, m)]
              /\ Declarers(t, m) = {DeclaringBase(t, m)} \cup Declarers(DeclaringBase(t, m), m)
<1> DEFINE D(u) == DeclaringBase(u, m)
           Good(u) == /\ Bases[u] \subseteq {a \in Type : a < u}
                      /\ D(u) = NoBase => Declarers(u, m) = {}
                      /\ D(u) # NoBase => /\ D(u) \in Type /\ D(u) < u
                                          /\ typeKind[D(u)] = "class" /\ m \in methods[D(u)]
                                          /\ Declarers(u, m) = {D(u)} \cup Declarers(D(u), m)
           T == {i \in 0 .. K : i \in Type => Good(i)}
<1>1. K \in Nat /\ Type \subseteq 0 .. K
  BY HeritageAssumption DEF Type
<1>2. ASSUME NEW u \in 0 .. K, \A j \in 0 .. K : j < u => j \in T PROVE u \in T
  <2> SUFFICES ASSUME u \in Type PROVE Good(u)
    OBVIOUS
  <2>1. /\ Bases[u] = IF base[u] = NoBase THEN {} ELSE {base[u]} \cup Bases[base[u]]
        /\ D(u) = IF base[u] = NoBase \/ m \in methods[base[u]] THEN base[u] ELSE D(base[u])
    BY BasesAre, DeclaringBaseIs
  <2>2. CASE base[u] = NoBase
    BY <2>1, <2>2 DEF Declarers
  <2>3. CASE base[u] # NoBase
    <3>1. base[u] \in Type /\ base[u] < u /\ typeKind[base[u]] = "class"
      BY <2>3, BaseIs DEF TypesOK
    <3>2. Good(base[u])
      BY <1>1, <1>2, <3>1
    <3>3. Bases[u] = {base[u]} \cup Bases[base[u]]
      BY <2>1, <2>3
    <3>4. Bases[u] \subseteq {a \in Type : a < u}
      <4>1. \A a \in Type : a < base[u] => a < u
        BY <1>1, <3>1 DEF Type
      <4>2. QED  BY <3>1, <3>2, <3>3, <4>1
    <3>5. CASE m \in methods[base[u]]
      <4>1. D(u) = base[u]
        BY <2>1, <3>5
      <4>2. Declarers(u, m) = {base[u]} \cup Declarers(base[u], m)
        BY <3>3, <3>5 DEF Declarers
      <4>3. QED  BY <2>3, <3>1, <3>4, <3>5, <4>1, <4>2
    <3>6. CASE m \notin methods[base[u]]
      <4>1. D(u) = D(base[u])
        BY <2>1, <2>3, <3>6
      <4>2. Declarers(u, m) = Declarers(base[u], m)
        BY <3>3, <3>6 DEF Declarers
      <4>3. D(base[u]) \in Type /\ D(base[u]) < base[u] => D(base[u]) < u
        BY <1>1, <3>1 DEF Type
      <4>4. QED  BY <3>2, <3>4, <4>1, <4>2, <4>3
    <3>7. QED  BY <3>5, <3>6
  <2>4. QED  BY <2>2, <2>3
<1>3. 0 .. K \subseteq T
  <2> HIDE DEF T
  <2>1. QED  BY <1>1, <1>2, SetInduction
<1>4. Good(t)
  BY <1>1, <1>3
<1>5. QED  BY <1>4

-----------------------------------------------------------------------------
LEMMA HeritageEdgeIs ==
  \A k, s, d : HeritageEdge(k, s, d).kind = k /\ HeritageEdge(k, s, d).from = s /\ HeritageEdge(k, s, d).to = d
  BY DEF HeritageEdge

\* What method m of t is said to override.
LEMMA OverriddenDeclares ==
  ASSUME TypesOK, NEW t \in Type, NEW m, NEW s \in Overridden(t, m)
  PROVE  s \in Type /\ s < t /\ m \in methods[s]
<1>1. CASE s = DeclaringBase(t, m) /\ s # NoBase
  BY <1>1, DeclaringBaseFirst
<1>2. CASE s \in supers[t] /\ m \in methods[s]
  BY <1>2 DEF TypesOK
<1>3. QED  BY <1>1, <1>2 DEF Overridden

\* The OVERRIDES edges from one method in the database.
LEMMA OverridesAre ==
  ASSUME HeritageIInv, extracted, NEW t \in Type, NEW m, NEW e
  PROVE  e \in LoadedHeritage /\ e.kind = "OVERRIDES" /\ e.from = <<t, m>> <=>
           /\ t \in EmittedType /\ typeKind[t] = "class" /\ m \in methods[t]
           /\ \E s \in Overridden(t, m) \cap EmittedType : e = HeritageEdge("OVERRIDES", <<t, m>>, <<s, m>>)
<1>1. ASSUME e \in LoadedHeritage, e.kind = "OVERRIDES", e.from = <<t, m>>
      PROVE  /\ t \in EmittedType /\ typeKind[t] = "class" /\ m \in methods[t]
             /\ \E s \in Overridden(t, m) \cap EmittedType : e = HeritageEdge("OVERRIDES", <<t, m>>, <<s, m>>)
  <2>1. e \in heritage /\ e.to \in TypeNodes
    BY <1>1 DEF LoadedHeritage
  <2>2. PICK u \in EmittedType : e \in IF typeKind[u] = "class" THEN ExtractClass(u) ELSE ExtractInterface(u)
    BY <2>1 DEF HeritageIInv
  <2>3. typeKind[u] = "class" /\ e \in ExtractClass(u)
    <3>1. ASSUME e \in ExtractInterface(u) PROVE FALSE
      <4>1. PICK s : e = HeritageEdge("EXTENDS", <<u>>, <<s>>)
        BY <3>1 DEF ExtractInterface
      <4>2. QED  BY <1>1, <4>1, HeritageEdgeIs
    <3>2. QED  BY <2>2, <3>1
  <2>4. PICK n \in methods[u] : \E s \in Overridden(u, n) : e = HeritageEdge("OVERRIDES", <<u, n>>, <<s, n>>)
    <3>1. \A s : /\ HeritageEdge("EXTENDS", <<u>>, <<s>>).kind = "EXTENDS"
                 /\ HeritageEdge("IMPLEMENTS", <<u>>, <<s>>).kind = "IMPLEMENTS"
      BY HeritageEdgeIs
    <3>2. \A s : e # HeritageEdge("EXTENDS", <<u>>, <<s>>) /\ e # HeritageEdge("IMPLEMENTS", <<u>>, <<s>>)
      BY <1>1, <3>1
    <3>3. QED  BY <2>3, <3>2 DEF ExtractClass
  <2>5. PICK s \in Overridden(u, n) : e = HeritageEdge("OVERRIDES", <<u, n>>, <<s, n>>)
    BY <2>4
  <2>6. u = t /\ n = m /\ e.to = <<s, m>>
    BY <1>1, <2>5, HeritageEdgeIs
  <2>7. s \in EmittedType
    BY <2>1, <2>6 DEF TypeNodes
  <2>8. QED  BY <2>2, <2>3, <2>4, <2>5, <2>6, <2>7
<1>2. ASSUME t \in EmittedType, typeKind[t] = "class", m \in methods[t],
             NEW s \in Overridden(t, m) \cap EmittedType, e = HeritageEdge("OVERRIDES", <<t, m>>, <<s, m>>)
      PROVE  e \in LoadedHeritage /\ e.kind = "OVERRIDES" /\ e.from = <<t, m>>
  <2>1. e \in ExtractClass(t)
    BY <1>2 DEF ExtractClass
  <2>2. e \in heritage
    BY <1>2, <2>1 DEF HeritageIInv
  <2>3. m \in methods[s]
    BY OverriddenDeclares DEF HeritageIInv
  <2>4. <<t, m>> \in TypeNodes /\ <<s, m>> \in TypeNodes
    BY <1>2, <2>3 DEF TypeNodes
  <2>5. QED  BY <1>2, <2>2, <2>4, HeritageEdgeIs DEF LoadedHeritage
<1>3. QED  BY <1>1, <1>2

\* Where OVERRIDES leads from method m of t at one step.
Steps(t, m) == {e.to[1] : e \in {x \in LoadedHeritage : x.kind = "OVERRIDES" /\ x.from = <<t, m>>}}

LEMMA StepsAre ==
  ASSUME HeritageIInv, extracted, NEW t \in Type, NEW m
  PROVE  /\ t \in EmittedType /\ typeKind[t] = "class" /\ m \in methods[t] =>
              Steps(t, m) = Overridden(t, m) \cap EmittedType
         /\ typeKind[t] # "class" => Steps(t, m) = {}
         /\ Steps(t, m) \subseteq {s \in Type : s < t}
<1> DEFINE E == {x \in LoadedHeritage : x.kind = "OVERRIDES" /\ x.from = <<t, m>>}
<1>1. \A e : e \in E <=>
           /\ t \in EmittedType /\ typeKind[t] = "class" /\ m \in methods[t]
           /\ \E s \in Overridden(t, m) \cap EmittedType : e = HeritageEdge("OVERRIDES", <<t, m>>, <<s, m>>)
  <2> TAKE e
  <2>1. e \in E <=> e \in LoadedHeritage /\ e.kind = "OVERRIDES" /\ e.from = <<t, m>>
    OBVIOUS
  <2> HIDE DEF E
  <2>2. QED  BY <2>1, OverridesAre
<1>2. Steps(t, m) = {e.to[1] : e \in E}
  BY DEF Steps
<1> HIDE DEF E
<1>3. CASE t \in EmittedType /\ typeKind[t] = "class" /\ m \in methods[t]
  <2>1. \A s : HeritageEdge("OVERRIDES", <<t, m>>, <<s, m>>).to[1] = s
    BY HeritageEdgeIs
  <2>2. \A s \in Overridden(t, m) \cap EmittedType : s \in Steps(t, m)
    BY <1>1, <1>2, <1>3, <2>1
  <2>3. \A s \in Steps(t, m) : s \in Overridden(t, m) \cap EmittedType
    <3> TAKE s \in Steps(t, m)
    <3>1. PICK e \in E : s = e.to[1]
      BY <1>2
    <3>2. PICK o \in Overridden(t, m) \cap EmittedType : e = HeritageEdge("OVERRIDES", <<t, m>>, <<o, m>>)
      BY <1>1
    <3>3. QED  BY <2>1, <3>1, <3>2
  <2>4. \A s \in Overridden(t, m) : s \in Type /\ s < t
    BY OverriddenDeclares DEF HeritageIInv
  <2>5. QED  BY <1>3, <2>2, <2>3, <2>4
<1>4. CASE ~(t \in EmittedType /\ typeKind[t] = "class" /\ m \in methods[t])
  <2>1. E = {}
    BY <1>1, <1>4
  <2>2. Steps(t, m) = {}
    BY <1>2, <2>1
  <2>3. QED  BY <1>4, <2>2
<1>5. QED  BY <1>3, <1>4

LEMMA LeadsAre ==
  ASSUME HeritageIInv, extracted, NEW m, NEW t \in Type
  PROVE  Leads(m)[t] = Steps(t, m) \cup (UNION {Leads(m)[s] : s \in Steps(t, m)})
<1> DEFINE F(f, u) == Steps(u, m) \cup (UNION {f[s] : s \in Steps(u, m)})
           V == SUBSET Type
           Phi == [f \in [Type -> V] |-> [u \in Type |-> F(f, u)]]
           leads == CHOOSE f : f = [u \in Type |-> F(f, u)]
<1>0. \A u \in Type : Steps(u, m) \subseteq {s \in Type : s < u}
  BY StepsAre
<1>1. V # {}
  OBVIOUS
<1>2. Descends(Type, V, Rank, Phi)
  <2>1. ASSUME NEW f \in [Type -> V], NEW u \in Type
        PROVE  F(f, u) \in V
    BY <1>0
  <2>2. Phi \in [[Type -> V] -> [Type -> V]]
    BY <2>1
  <2>3. ASSUME NEW f \in [Type -> V], NEW g \in [Type -> V], NEW u \in Type,
               \A s \in Type : Rank[s] < Rank[u] => f[s] = g[s]
        PROVE  Phi[f][u] = Phi[g][u]
    <3>1. \A s \in Steps(u, m) : f[s] = g[s]
      BY <1>0, <2>3 DEF Rank
    <3>2. {f[s] : s \in Steps(u, m)} = {g[s] : s \in Steps(u, m)}
      BY <3>1
    <3>3. QED  BY <3>2
  <2> HIDE DEF V, Phi
  <2>4. QED  BY <2>2, <2>3 DEF Descends
<1>3. PICK f \in [Type -> V] : f = Phi[f]
  <2> HIDE DEF V, Phi
  <2>1. QED  BY <1>1, <1>2, TypeRecursion
<1>4. f = [u \in Type |-> F(f, u)]
  BY <1>3
<1>5. leads = [u \in Type |-> F(leads, u)]
  BY <1>4
<1>6. Leads(m) = leads
  BY DEF Leads, Steps
<1>7. leads[t] = F(leads, t)
  BY <1>5
<1> HIDE DEF leads
<1>8. QED  BY <1>6, <1>7

\* The interfaces in the graph that declare m and that a type of S names.
NamedBy(S, m) ==
  {i \in EmittedType : typeKind[i] = "interface" /\ m \in methods[i] /\ \E a \in S : i \in supers[a]}

LEMMA LeadsToReplaced ==
  ASSUME HeritageIInv, extracted, NEW m, NEW c \in EmittedType, typeKind[c] = "class", m \in methods[c]
  PROVE  Leads(m)[c] = Replaced(c, m) \cup NamedBy({c} \cup Replaced(c, m), m)
<1> DEFINE Good(u) == Leads(m)[u] = Replaced(u, m) \cup NamedBy({u} \cup Replaced(u, m), m)
           T == {i \in 0 .. K : i \in EmittedType /\ typeKind[i] = "class" /\ m \in methods[i] => Good(i)}
<1>1. K \in Nat /\ EmittedType \subseteq Type /\ Type \subseteq 0 .. K /\ TypesOK
  BY HeritageAssumption DEF EmittedType, Type, HeritageIInv
<1>2. ASSUME NEW u \in 0 .. K, \A j \in 0 .. K : j < u => j \in T PROVE u \in T
  <2> SUFFICES ASSUME u \in EmittedType, typeKind[u] = "class", m \in methods[u] PROVE Good(u)
    OBVIOUS
  <2> DEFINE b == DeclaringBase(u, m)
             named == NamedBy({u}, m)
  <2>1. u \in Type
    BY <1>1
  <2>2. Leads(m)[u] = Steps(u, m) \cup (UNION {Leads(m)[s] : s \in Steps(u, m)})
    BY <2>1, LeadsAre
  <2>3. Steps(u, m) = (IF b # NoBase /\ b \in EmittedType THEN {b} ELSE {}) \cup named
    <3>1. Steps(u, m) = Overridden(u, m) \cap EmittedType
      BY <2>1, StepsAre
    <3>2. \A s \in EmittedType : InProject(s)
      BY DEF EmittedType, InProject
    <3>3. \A s : s \in Overridden(u, m) \cap EmittedType <=>
                   s \in EmittedType /\ ((s = b /\ b # NoBase) \/ s \in named)
      BY <3>2 DEF Overridden, NamedBy
    <3> HIDE DEF b, named
    <3>4. QED  BY <3>1, <3>3 DEF named, NamedBy
  <2>4. \A i \in named : Leads(m)[i] = {}
    <3> TAKE i \in named
    <3>1. i \in Type /\ typeKind[i] # "class"
      BY <1>1 DEF NamedBy
    <3>2. Steps(i, m) = {}
      BY <3>1, StepsAre
    <3>3. QED  BY <3>1, <3>2, LeadsAre
  <2>5. Replaced(u, m) = {a \in Declarers(u, m) : \A d \in Declarers(u, m) : d >= a => d \in EmittedType}
    BY DEF Replaced, Declarers
  <2>6. /\ b = NoBase => Declarers(u, m) = {}
        /\ b # NoBase => /\ b \in Type /\ b < u /\ typeKind[b] = "class" /\ m \in methods[b]
                         /\ Declarers(u, m) = {b} \cup Declarers(b, m)
    BY <1>1, <2>1, DeclaringBaseFirst
  <2>7. CASE b = NoBase
    <3>1. Replaced(u, m) = {} /\ Steps(u, m) = named
      BY <2>3, <2>5, <2>6, <2>7
    <3>2. UNION {Leads(m)[s] : s \in named} = {}
      BY <2>4
    <3>3. {u} \cup Replaced(u, m) = {u}
      BY <3>1
    <3> HIDE DEF b, named
    <3>4. Leads(m)[u] = named
      BY <2>2, <3>1, <3>2
    <3>5. QED  BY <3>1, <3>3, <3>4 DEF named
  <2>8. CASE b # NoBase /\ b \notin EmittedType
    <3>1. \A a \in Declarers(b, m) : a < b /\ a \in Nat /\ b \in Nat
      <4>1. Bases[b] \subseteq {a \in Type : a < b}
        BY <1>1, <2>6, <2>8, DeclaringBaseFirst
      <4>2. QED  BY <1>1, <2>6, <2>8, <4>1 DEF Declarers, Type
    <3>2. \A a \in Declarers(u, m) : b >= a
      BY <1>1, <2>6, <2>8, <3>1 DEF Type
    <3>3. Replaced(u, m) = {}
      BY <2>5, <2>6, <2>8, <3>2
    <3>4. Steps(u, m) = named /\ UNION {Leads(m)[s] : s \in named} = {}
      BY <2>3, <2>4, <2>8
    <3>5. {u} \cup Replaced(u, m) = {u}
      BY <3>3
    <3> HIDE DEF b, named
    <3>6. Leads(m)[u] = named
      BY <2>2, <3>4
    <3>7. QED  BY <3>3, <3>5, <3>6 DEF named
  <2>9. CASE b # NoBase /\ b \in EmittedType
    <3>1. Good(b)
      BY <1>1, <1>2, <2>6, <2>9
    <3>2. \A a \in Declarers(b, m) : ~(a >= b) /\ b >= a
      <4>1. Bases[b] \subseteq {a \in Type : a < b}
        BY <1>1, <2>6, <2>9, DeclaringBaseFirst
      <4>2. QED  BY <1>1, <2>6, <2>9, <4>1 DEF Declarers, Type
    <3>3. Replaced(b, m) = {a \in Declarers(b, m) : \A d \in Declarers(b, m) : d >= a => d \in EmittedType}
      BY DEF Replaced, Declarers
    <3>4. Declarers(u, m) = {b} \cup Declarers(b, m) /\ b >= b
      BY <1>1, <2>6, <2>9 DEF Type
    <3>5. Replaced(u, m) = {b} \cup Replaced(b, m)
      <4> HIDE DEF b
      <4>1. \A a : a \in Replaced(u, m) => a \in {b} \cup Replaced(b, m)
        BY <2>5, <3>3, <3>4
      <4>2. \A a : a \in {b} \cup Replaced(b, m) => a \in Replaced(u, m)
        BY <2>5, <2>9, <3>2, <3>3, <3>4
      <4>3. QED  BY <4>1, <4>2
    <3>6. Steps(u, m) = {b} \cup named
      BY <2>3, <2>9
    <3>7. Leads(m)[u] = {b} \cup named \cup Leads(m)[b]
      <4> HIDE DEF b, named
      <4>1. UNION {Leads(m)[s] : s \in {b} \cup named} = Leads(m)[b]
        BY <2>4
      <4>2. QED  BY <2>2, <3>6, <4>1
    <3>8. NamedBy({u} \cup Replaced(u, m), m) = named \cup NamedBy({b} \cup Replaced(b, m), m)
      <4> HIDE DEF b
      <4>1. QED  BY <3>5 DEF NamedBy
    <3> HIDE DEF b, named
    <3>9. QED  BY <3>1, <3>5, <3>7, <3>8
  <2>10. QED  BY <2>7, <2>8, <2>9
<1>3. 0 .. K \subseteq T
  <2> HIDE DEF T
  <2>1. QED  BY <1>1, <1>2, SetInduction
<1>4. QED  BY <1>1, <1>3

(***************************************************************************)
(* extractOverrides: for hierarchies of any depth OVERRIDES leads, step by  *)
(* step, to exactly the methods that a method replaces.                     *)
(***************************************************************************)
THEOREM OverridesLeadThere == HeritageSpec => []OverridesReach
<1>1. HeritageIInv => OverridesReach
  <2> SUFFICES ASSUME HeritageIInv, extracted, NEW c \in EmittedType, NEW m \in methods[c]
               PROVE  /\ typeKind[c] = "class" =>
                           Leads(m)[c] = Replaced(c, m) \cup NamedBy({c} \cup Replaced(c, m), m)
                      /\ Cardinality({e \in LoadedHeritage : e.kind = "OVERRIDES" /\ e.from = <<c, m>>
                                                              /\ typeKind[e.to[1]] = "class"}) <= 1
    BY DEF OverridesReach, NamedBy
  <2>1. typeKind[c] = "class" => Leads(m)[c] = Replaced(c, m) \cup NamedBy({c} \cup Replaced(c, m), m)
    BY LeadsToReplaced
  <2> DEFINE S == {e \in LoadedHeritage : e.kind = "OVERRIDES" /\ e.from = <<c, m>> /\ typeKind[e.to[1]] = "class"}
             edge == HeritageEdge("OVERRIDES", <<c, m>>, <<DeclaringBase(c, m), m>>)
  <2>2. \A e \in S : e = edge
    <3> TAKE e \in S
    <3>1. PICK s \in Overridden(c, m) : e = HeritageEdge("OVERRIDES", <<c, m>>, <<s, m>>)
      <4>1. c \in Type /\ e \in LoadedHeritage /\ e.kind = "OVERRIDES" /\ e.from = <<c, m>>
        BY DEF EmittedType
      <4> HIDE DEF S, edge
      <4>2. QED  BY <4>1, OverridesAre
    <3>2. typeKind[s] = "class"
      BY <3>1, HeritageEdgeIs
    <3>3. s = DeclaringBase(c, m)
      BY <3>2 DEF Overridden
    <3>4. QED  BY <3>1, <3>3
  <2> HIDE DEF S, edge
  <2>3. IsFiniteSet({edge}) /\ Cardinality({edge}) = 1 /\ S \in SUBSET {edge}
    BY <2>2, FS_Singleton
  <2>4. Cardinality(S) <= 1
    BY <2>3, FS_Subset
  <2>5. QED  BY <2>1, <2>4 DEF S
<1>2. QED  BY <1>1, HeritageInvariant, PTL
=============================================================================
