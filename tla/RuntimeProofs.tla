----------------------------- MODULE RuntimeProofs --------------------------
(***************************************************************************)
(* What is proved about enrich.  The join of a profile with the graph, for  *)
(* sources of any number of files and declarations, all ways they may have  *)
(* been profiled, and any ticks: all samples are accounted for, and those   *)
(* that a declaration gets are the samples it is entitled to.  The calls,   *)
(* for profiles of any size listed in any order and joined in any way: the  *)
(* walk sums whole subtrees, and no sample flows into a graph node twice.   *)
(***************************************************************************)
EXTENDS RuntimeJoin, CallTree, Induction, SequenceTheorems

-----------------------------------------------------------------------------
(* The file of a frame                                                      *)

LEMMA DeclNumbers ==
  /\ Decl \subseteq Frame /\ Engine \in Frame /\ Foreign \in Frame /\ Engine \notin Decl
  /\ Foreign \in Nat /\ Frame = 0 .. Foreign /\ Foreign \notin Decl
  /\ \A f \in Decl : Stands(f) = f /\ f # Engine /\ f # Foreign
  /\ \A f \in Frame : f # Engine => Stands(f) \in Decl
  /\ IsFiniteSet(Decl) /\ IsFiniteSet(Frame)
<1>1. D \in Nat /\ D > 0
  BY JoinAssumption
<1>2. IsFiniteSet(Decl) /\ IsFiniteSet(Frame)
  BY <1>1, FS_Interval DEF Decl, Frame, Engine, Foreign
<1>3. QED  BY <1>1, <1>2 DEF Decl, Frame, Engine, Foreign, Stands

LEMMA RootIs == Root \in Seq(STRING) /\ Len(Root) = 1 /\ Root[1] = "proj"
<1>1. Len(Root) = 1 /\ Root[1] = "proj"
  BY DEF Root
<1>2. QED  BY <1>1, JoinAssumption

LEMMA PathsAreSequences ==
  ASSUME LayoutOK, NEW f \in Frame, f # Engine
  PROVE  /\ file[Stands(f)] \in Paths /\ file[Stands(f)] \in Seq(STRING)
         /\ profile.prefix \in Seq(STRING) /\ profile.package \in Seq(STRING)
         /\ Root \in Seq(STRING) /\ Url(f) \in Seq(STRING)
<1>1. Stands(f) \in Decl
  BY DeclNumbers
<1>2. profile.prefix \in Seq(STRING) /\ profile.package \in Seq(STRING)
  <2>1. profile.prefix \in Places /\ profile.package \in {<<>>} \cup Packages
    BY DEF LayoutOK, Profile
  <2>2. <<>> \in Seq(STRING)
    BY EmptySeq
  <2>3. QED  BY <2>1, <2>2, JoinAssumption
<1>3. file[Stands(f)] \in Paths /\ file[Stands(f)] \in Seq(STRING)
  BY <1>1, JoinAssumption DEF LayoutOK
<1>4. Root \in Seq(STRING)
  BY RootIs
<1>5. Url(f) \in Seq(STRING)
  BY <1>2, <1>3, ConcatProperties DEF Url
<1>6. QED  BY <1>2, <1>3, <1>4, <1>5

\* The engine's own frames are in no file.
LEMMA EngineUnresolved == Resolution(Engine) = [nodes |-> {}, reason |-> "no-file"]
  BY DEF Resolution, ResolveFilePath, Url

\* A frame is in one file at most.
LEMMA OneFile ==
  ASSUME LayoutOK, NEW f \in Frame
  PROVE  ResolveFilePath(Url(f)) = {} \/ \E p \in Paths : ResolveFilePath(Url(f)) = {p}
<1> DEFINE url == Url(f)
           below == {p \in Paths : url = Root \o p}
           suffixed == {p \in Paths : IsSuffix(p, url)}
<1>1. \A p, q \in below : p = q
  <2>1. Root \in Seq(STRING) /\ Paths \subseteq Seq(STRING)
    BY JoinAssumption, RootIs
  <2>2. ASSUME NEW p \in Seq(STRING), NEW q \in Seq(STRING), Root \o p = Root \o q PROVE p = q
    BY <2>1, <2>2, ConcatSimplifications
  <2>3. QED  BY <2>1, <2>2
<1>2. Cardinality(suffixed) = 1 => \E p \in Paths : suffixed = {p}
  <2>1. IsFiniteSet(suffixed) /\ suffixed \subseteq Paths
    BY JoinAssumption, FS_Subset
  <2> HIDE DEF suffixed
  <2>2. Cardinality(suffixed) = 1 => \E p : suffixed = {p}
    BY <2>1, FS_Singleton
  <2>3. QED  BY <2>1, <2>2
<1>3. \/ ResolveFilePath(url) = {}
      \/ below # {} /\ ResolveFilePath(url) = below
      \/ Cardinality(suffixed) = 1 /\ ResolveFilePath(url) = suffixed
  BY DEF ResolveFilePath
<1>4. below # {} => \E p \in Paths : below = {p}
  <2> SUFFICES ASSUME NEW p \in below PROVE below = {p} /\ p \in Paths
    OBVIOUS
  <2>1. QED  BY <1>1
<1> HIDE DEF below, suffixed
<1>5. QED  BY <1>2, <1>3, <1>4

\* Where the sources were in the project's folder the file is the function's own.
LEMMA HomeFile ==
  ASSUME LayoutOK, NEW f \in Decl, AtHome
  PROVE  ResolveFilePath(Url(f)) = {file[f]}
<1>1. f \in Frame /\ f # Engine /\ f # Foreign /\ Stands(f) = f
  BY DeclNumbers
<1>2. file[f] \in Paths /\ file[f] \in Seq(STRING) /\ Root \in Seq(STRING)
  BY <1>1, PathsAreSequences
<1>3. Url(f) = Root \o file[f]
  BY <1>1 DEF Url, AtHome
<1>4. Url(f) # <<"node:internal">>
  <2>1. Len(Root) = 1 /\ Root[1] = "proj"
    BY RootIs
  <2>2. (Root \o file[f])[1] = "proj"
    BY <1>2, <2>1, ConcatProperties, LenProperties
  <2>3. <<"node:internal">>[1] # "proj"
    OBVIOUS
  <2>4. QED  BY <1>3, <2>2, <2>3
<1>5. file[f] \in {p \in Paths : Url(f) = Root \o p}
  BY <1>2, <1>3
<1>6. ResolveFilePath(Url(f)) = {p \in Paths : Url(f) = Root \o p}
  BY <1>4, <1>5 DEF ResolveFilePath
<1>7. QED  BY <1>1, <1>5, <1>6, OneFile

\* What follows a prefix ends it.
LEMMA SuffixOf ==
  ASSUME NEW p \in Seq(STRING), NEW q \in Seq(STRING)
  PROVE  IsSuffix(q, p \o q)
<1> DEFINE s == p \o q
<1>1. s \in Seq(STRING) /\ Len(s) = Len(p) + Len(q) /\ Len(p) \in Nat /\ Len(q) \in Nat
  BY ConcatProperties, LenProperties
<1>2. \A i \in 1 .. Len(q) : s[Len(s) - i + 1] = q[Len(q) - i + 1]
  <2> TAKE i \in 1 .. Len(q)
  <2>1. Len(s) - i + 1 \in 1 .. Len(p) + Len(q) /\ ~(Len(s) - i + 1 <= Len(p))
        /\ Len(s) - i + 1 - Len(p) = Len(q) - i + 1
    BY <1>1
  <2>2. s[Len(s) - i + 1] = q[Len(s) - i + 1 - Len(p)]
    BY <2>1, ConcatProperties
  <2>3. QED  BY <2>1, <2>2
<1> HIDE DEF s
<1> DEFINE a == Reverse(q)
           b == Reverse(s)
<1>3. a \in Seq(STRING) /\ Len(a) = Len(q) /\ \A i \in 1 .. Len(q) : a[i] = q[Len(q) - i + 1]
  BY <1>1 DEF Reverse
<1>4. b \in Seq(STRING) /\ Len(b) = Len(s) /\ \A i \in 1 .. Len(s) : b[i] = s[Len(s) - i + 1]
  BY <1>1 DEF Reverse
<1> HIDE DEF a, b
<1>5. \A i \in 1 .. Len(a) : a[i] = b[i]
  <2> TAKE i \in 1 .. Len(a)
  <2>1. i \in 1 .. Len(q) /\ i \in 1 .. Len(s)
    BY <1>1, <1>3
  <2>2. QED  BY <1>2, <1>3, <1>4, <2>1
<1>6. SubSeq(a, 1, Len(a)) = SubSeq(b, 1, Len(a))
  <2>1. SubSeq(a, 1, Len(a)) = [i \in 1 .. Len(a) |-> a[i]]
    BY <1>1, <1>3
  <2>2. SubSeq(b, 1, Len(a)) = [i \in 1 .. Len(a) |-> b[i]]
    BY <1>1, <1>3, <1>4
  <2>3. QED  BY <1>5, <2>1, <2>2
<1>7. Len(a) <= Len(b)
  BY <1>1, <1>3, <1>4
<1>8. QED  BY <1>6, <1>7 DEF IsSuffix, IsPrefix, a, b, s

\* Elsewhere it is the function's own too, or none.
LEMMA ElsewhereFile ==
  ASSUME LayoutOK, NEW f \in Decl, Elsewhere
  PROVE  ResolveFilePath(Url(f)) \subseteq {file[f]}
<1>1. f \in Frame /\ f # Engine /\ f # Foreign /\ Stands(f) = f
  BY DeclNumbers
<1>2. /\ file[f] \in Paths /\ file[f] \in Seq(STRING) /\ Root \in Seq(STRING)
      /\ profile.prefix \in Seq(STRING) /\ Paths \subseteq Seq(STRING)
  BY <1>1, PathsAreSequences, JoinAssumption
<1>3. Url(f) = profile.prefix \o file[f]
  BY <1>1 DEF Url
<1>4. ASSUME NEW p \in Paths PROVE Url(f) # Root \o p
  <2>1. Len(Root) = 1
    BY RootIs
  <2>2. (Root \o p)[1] = Root[1]
    BY <1>2, <2>1, ConcatProperties, LenProperties
  <2>3. Len(profile.prefix) >= 1
    BY <1>2, EmptySeq, LenProperties DEF Elsewhere
  <2> DEFINE n == Len(profile.prefix)
             m == Len(file[f])
  <2>4. (profile.prefix \o file[f])[1] = profile.prefix[1]
    <3>1. n \in Nat /\ m \in Nat
      BY <1>2, LenProperties
    <3>2. n >= 1
      BY <2>3
    <3>3. 1 \in 1 .. n + m /\ 1 <= n
      <4> HIDE DEF n, m
      <4>1. QED  BY <3>1, <3>2
    <3>4. QED  BY <1>2, <3>3, ConcatProperties
  <2>5. QED  BY <1>3, <2>2, <2>4 DEF Elsewhere
<1>5. file[f] \in {p \in Paths : IsSuffix(p, Url(f))}
  BY <1>2, <1>3, SuffixOf
<1>6. ResolveFilePath(Url(f)) \in {{}, {p \in Paths : IsSuffix(p, Url(f))}}
  BY <1>4 DEF ResolveFilePath
<1>7. QED  BY <1>1, <1>5, <1>6, OneFile

-----------------------------------------------------------------------------
(* The declaration of a frame                                               *)

\* Declarations of one file follow one another or nest.
LEMMA Nesting ==
  ASSUME LayoutOK, NEW d \in Decl, NEW e \in Decl, d # e, file[d] = file[e]
  PROVE  /\ first[d] \in Nat /\ last[d] \in Nat /\ first[e] \in Nat /\ last[e] \in Nat
         /\ first[d] <= last[d] /\ first[e] <= last[e] /\ first[d] # first[e]
         /\ first[d] < first[e] => last[d] < first[e] \/ last[e] <= last[d]
<1>1. Lines \in Nat /\ D \in Nat
  BY JoinAssumption
<1>2. /\ first[d] \in Nat /\ last[d] \in Nat /\ first[e] \in Nat /\ last[e] \in Nat
      /\ first[d] <= last[d] /\ first[e] <= last[e]
  BY <1>1 DEF LayoutOK
<1>3. d < e \/ e < d
  BY <1>1 DEF Decl
<1>4. d < e => first[d] < first[e] /\ (last[d] < first[e] \/ last[e] <= last[d])
  BY DEF LayoutOK, Later
<1>5. e < d => first[e] < first[d]
  BY DEF LayoutOK, Later
<1>6. QED  BY <1>2, <1>3, <1>4, <1>5

\* The narrowest declaration around a line is one.
LEMMA EnclosingOne ==
  ASSUME LayoutOK, NEW S \in SUBSET Decl, \A d, e \in S : file[d] = file[e], NEW line
  PROVE  /\ EnclosingNode(S, line) \subseteq S
         /\ \A d, e \in EnclosingNode(S, line) : d = e
<1>1. EnclosingNode(S, line) \subseteq S
  BY DEF EnclosingNode, Covering
<1>2. ASSUME NEW d \in EnclosingNode(S, line), NEW e \in EnclosingNode(S, line), d # e PROVE FALSE
  <2>1. d \in S /\ e \in S /\ d \in Covering(S, line) /\ e \in Covering(S, line)
    BY DEF EnclosingNode, Covering
  <2>2. /\ first[d] \in Nat /\ last[d] \in Nat /\ first[e] \in Nat /\ last[e] \in Nat
        /\ first[d] # first[e]
    BY <1>2, <2>1, Nesting
  <2>3. Span(d) < Span(e) \/ (Span(d) = Span(e) /\ first[d] >= first[e])
    BY <2>1 DEF EnclosingNode
  <2>4. Span(e) < Span(d) \/ (Span(e) = Span(d) /\ first[e] >= first[d])
    BY <2>1 DEF EnclosingNode
  <2>5. QED  BY <2>2, <2>3, <2>4 DEF Span
<1>3. QED  BY <1>1, <1>2

\* At the line where a declaration begins it is the narrowest.
LEMMA EnclosingOwn ==
  ASSUME LayoutOK, NEW S \in SUBSET Decl, \A d, e \in S : file[d] = file[e], NEW f \in S
  PROVE  EnclosingNode(S, first[f]) = {f}
<1>1. first[f] \in Nat /\ last[f] \in Nat /\ first[f] <= last[f]
  BY JoinAssumption DEF LayoutOK
<1>2. f \in Covering(S, first[f])
  BY <1>1 DEF Covering
<1>3. ASSUME NEW e \in Covering(S, first[f]), e # f PROVE Span(f) < Span(e)
  <2>1. e \in S /\ first[e] <= first[f] /\ first[f] <= last[e]
    BY DEF Covering
  <2>2. /\ first[e] \in Nat /\ last[e] \in Nat /\ first[e] # first[f]
        /\ first[e] < first[f] => last[e] < first[f] \/ last[f] <= last[e]
    BY <1>3, <2>1, Nesting
  <2>3. QED  BY <1>1, <2>1, <2>2 DEF Span
<1>4. f \in EnclosingNode(S, first[f])
  BY <1>1, <1>2, <1>3 DEF EnclosingNode, Span
<1>5. QED  BY <1>4, EnclosingOne

Reasons == {"no-file", "no-node", "ambiguous"}

LEMMA ReasonsFinite == IsFiniteSet(Reasons)
<1>1. IsFiniteSet({"no-file"})
  BY FS_Singleton
<1>2. IsFiniteSet({"no-file"} \cup {"no-node"})
  BY <1>1, FS_AddElement
<1>3. IsFiniteSet(({"no-file"} \cup {"no-node"}) \cup {"ambiguous"})
  BY <1>2, FS_AddElement
<1>4. Reasons = ({"no-file"} \cup {"no-node"}) \cup {"ambiguous"}
  BY DEF Reasons
<1>5. QED  BY <1>3, <1>4

LEMMA NameMatchesFinite ==
  ASSUME NEW S \in SUBSET Decl, NEW n
  PROVE  /\ NameMatches(S, n) \subseteq S /\ IsFiniteSet(NameMatches(S, n))
         /\ Cardinality(NameMatches(S, n)) \in Nat
         /\ Cardinality(NameMatches(S, n)) = 1 <=> \E x : NameMatches(S, n) = {x}
         /\ Cardinality(NameMatches(S, n)) = 0 <=> NameMatches(S, n) = {}
<1>1. NameMatches(S, n) \subseteq S
  BY DEF NameMatches
<1>2. IsFiniteSet(NameMatches(S, n))
  BY <1>1, DeclNumbers, FS_Subset
<1> DEFINE M == NameMatches(S, n)
<1> HIDE DEF M
<1>3. IsFiniteSet(M) => /\ Cardinality(M) \in Nat
                        /\ Cardinality(M) = 1 <=> \E x : M = {x}
                        /\ Cardinality(M) = 0 <=> M = {}
  BY FS_CardinalityType, FS_Singleton, FS_EmptySet
<1>4. QED  BY <1>1, <1>2, <1>3 DEF M

LEMMA ResolvedNode ==
  ASSUME LayoutOK, NEW S \in SUBSET Decl, \A d, e \in S : file[d] = file[e], NEW f \in Frame
  PROVE  /\ ResolveNode(S, f).nodes \subseteq S
         /\ \A d, e \in ResolveNode(S, f).nodes : d = e
         /\ ResolveNode(S, f).nodes = {} => ResolveNode(S, f).reason \in Reasons
<1> DEFINE named == NameMatches(S, FunctionName(f))
<1>1. /\ named \subseteq S /\ Cardinality(named) \in Nat
      /\ Cardinality(named) = 1 <=> \E x : named = {x}
  BY NameMatchesFinite
<1>2. CASE Cardinality(named) = 1
  <2>1. ResolveNode(S, f) = [nodes |-> named, reason |-> "name"]
    BY <1>2 DEF ResolveNode
  <2> HIDE DEF named
  <2>2. QED  BY <1>1, <1>2, <2>1
<1>3. CASE Cardinality(named) > 1
  <2>1. ResolveNode(S, f) = [nodes |-> EnclosingNode(named, Line(f)), reason |-> "ambiguous"]
    BY <1>1, <1>3 DEF ResolveNode
  <2> HIDE DEF named
  <2>2. named \in SUBSET Decl /\ \A d, e \in named : file[d] = file[e]
    BY <1>1
  <2>3. /\ EnclosingNode(named, Line(f)) \subseteq named
        /\ \A d, e \in EnclosingNode(named, Line(f)) : d = e
    BY <2>2, EnclosingOne
  <2>4. QED  BY <1>1, <2>1, <2>3 DEF Reasons
<1>4. CASE ~(Cardinality(named) = 1) /\ ~(Cardinality(named) > 1)
  <2>1. ResolveNode(S, f) = [nodes |-> EnclosingNode(S, Line(f)), reason |-> "no-node"]
    BY <1>4 DEF ResolveNode
  <2>2. /\ EnclosingNode(S, Line(f)) \subseteq S
        /\ \A d, e \in EnclosingNode(S, Line(f)) : d = e
    BY EnclosingOne
  <2>3. QED  BY <2>1, <2>2 DEF Reasons
<1>5. QED  BY <1>2, <1>3, <1>4

\* A frame resolves to a file and, in it, as ResolveNode says.
LEMMA ResolutionIs ==
  ASSUME LayoutOK, NEW f \in Frame, NEW p, ResolveFilePath(Url(f)) = {p}
  PROVE  /\ Resolution(f) = ResolveNode(FileNodes(p), f)
         /\ FileNodes(p) \in SUBSET Decl /\ FileNodes(p) \subseteq InGraph
         /\ \A d, e \in FileNodes(p) : file[d] = file[e]
<1>1. UNION {FileNodes(q) : q \in {p}} = FileNodes(p)
  OBVIOUS
<1>2. Resolution(f) = ResolveNode(UNION {FileNodes(q) : q \in {p}}, f)
  BY DEF Resolution
<1>3. QED  BY <1>1, <1>2 DEF FileNodes, InGraph

\* Each frame goes to one declaration of the graph at most, or is dropped for a reason.
LEMMA ResolvedOne ==
  ASSUME LayoutOK, NEW f \in Frame
  PROVE  /\ Resolution(f).nodes \subseteq InGraph
         /\ \A d, e \in Resolution(f).nodes : d = e
         /\ Resolution(f).nodes = {} => Resolution(f).reason \in Reasons
<1>1. CASE ResolveFilePath(Url(f)) = {}
  <2>1. Resolution(f) = [nodes |-> {}, reason |-> "no-file"]
    BY <1>1 DEF Resolution
  <2>2. QED  BY <2>1 DEF Reasons
<1>2. CASE \E p \in Paths : ResolveFilePath(Url(f)) = {p}
  <2>1. PICK p \in Paths : ResolveFilePath(Url(f)) = {p}
    BY <1>2
  <2>2. /\ Resolution(f) = ResolveNode(FileNodes(p), f)
        /\ FileNodes(p) \in SUBSET Decl /\ FileNodes(p) \subseteq InGraph
        /\ \A d, e \in FileNodes(p) : file[d] = file[e]
    BY <2>1, ResolutionIs
  <2> DEFINE S == FileNodes(p)
  <2>3. /\ ResolveNode(S, f).nodes \subseteq S
        /\ \A d, e \in ResolveNode(S, f).nodes : d = e
        /\ ResolveNode(S, f).nodes = {} => ResolveNode(S, f).reason \in Reasons
    <3>1. S \in SUBSET Decl /\ \A d, e \in S : file[d] = file[e]
      BY <2>2
    <3> HIDE DEF S
    <3>2. QED  BY <3>1, ResolvedNode
  <2>4. QED  BY <2>2, <2>3
<1>3. QED  BY <1>1, <1>2, OneFile

-----------------------------------------------------------------------------
(* Whose samples a declaration gets                                         *)

\* A function of the graph that executes can be found by its name.
LEMMA FunctionNamed ==
  ASSUME LayoutOK, NEW f \in InGraph, Executes(f)
  PROVE  /\ f \in FileNodes(file[f]) /\ f \in Decl /\ f \in Frame
         /\ f \in NameMatches(FileNodes(file[f]), FunctionName(f))
         /\ NameMatches(FileNodes(file[f]), FunctionName(f)) \subseteq Namesakes(f)
<1>1. f \in Decl /\ f \in Frame /\ f # Engine /\ Stands(f) = f
  BY DeclNumbers DEF InGraph
<1>2. kind[f] = "Function" /\ name[f] # Unnamed
  BY <1>1 DEF LayoutOK, Executes, InGraph, Kinds
<1>3. f \in FileNodes(file[f])
  BY DEF FileNodes
<1> DEFINE n == FunctionName(f)
<1>4. CASE ~profile.qualified
  <2>1. n = <<name[f]>>
    BY <1>1, <1>2, <1>4 DEF FunctionName
  <2>2. n # <<>> /\ Last(n) = name[f]
    BY <2>1 DEF Last
  <2>3. \A d : <<name[d]>> \in {n, <<Last(n)>>} <=> name[d] = name[f]
    BY <2>1, <2>2
  <2>4. QED  BY <1>1, <1>2, <1>3, <2>2, <2>3 DEF NameMatches, Namesakes
<1>5. CASE profile.qualified
  <2>1. n = <<"Class", name[f]>>
    BY <1>1, <1>2, <1>5 DEF FunctionName
  <2>2. n # <<>> /\ Last(n) = name[f]
    BY <2>1 DEF Last
  <2>3. \A d : <<name[d]>> # n
    <3>1. \A d : Len(<<name[d]>>) = 1 /\ Len(n) = 2
      BY <2>1
    <3>2. QED  BY <3>1
  <2>4. \A d : <<name[d]>> \in {n, <<Last(n)>>} <=> name[d] = name[f]
    BY <2>2, <2>3
  <2>5. QED  BY <1>1, <1>2, <1>3, <2>2, <2>4 DEF NameMatches, Namesakes
<1>6. QED  BY <1>4, <1>5

\* What a function of the graph is resolved to in its own file.
LEMMA OwnFile ==
  ASSUME LayoutOK, NEW f \in InGraph, Executes(f)
  PROVE  /\ ~profile.collapsed => ResolveNode(FileNodes(file[f]), f).nodes = {f}
         /\ \A d \in ResolveNode(FileNodes(file[f]), f).nodes \ {f} :
              d \in Namesakes(f) /\ first[d] = 1
<1> DEFINE S == FileNodes(file[f])
           named == NameMatches(S, FunctionName(f))
<1>1. f \in named /\ named \subseteq Namesakes(f) /\ f \in Decl /\ f \in Frame /\ f # Foreign
  BY FunctionNamed, DeclNumbers
<1>2. S \in SUBSET Decl /\ \A d, e \in S : file[d] = file[e]
  BY DEF FileNodes, InGraph
<1>3. /\ named \subseteq S /\ Cardinality(named) \in Nat /\ Cardinality(named) # 0
      /\ Cardinality(named) = 1 <=> \E x : named = {x}
  <2> HIDE DEF S
  <2>1. QED  BY <1>1, <1>2, NameMatchesFinite
<1>4. CASE Cardinality(named) = 1
  <2>1. ResolveNode(S, f) = [nodes |-> named, reason |-> "name"]
    BY <1>4 DEF ResolveNode
  <2> HIDE DEF named
  <2>2. named = {f}
    BY <1>1, <1>3, <1>4
  <2>3. QED  BY <2>1, <2>2
<1>5. CASE Cardinality(named) # 1
  <2>1. ResolveNode(S, f) = [nodes |-> EnclosingNode(named, Line(f)), reason |-> "ambiguous"]
    <3>1. Cardinality(named) > 1
      BY <1>3, <1>5
    <3>2. QED  BY <3>1 DEF ResolveNode
  <2>2. named \in SUBSET Decl /\ \A d, e \in named : file[d] = file[e]
    BY <1>2, <1>3
  <2>3. Line(f) = IF profile.collapsed THEN 1 ELSE first[f]
    BY <1>1, DeclNumbers DEF Line
  <2>4. EnclosingNode(named, first[f]) = {f}
    <3> HIDE DEF named
    <3>1. QED  BY <1>1, <2>2, EnclosingOwn
  <2>5. ASSUME NEW d \in EnclosingNode(named, 1) PROVE d \in Namesakes(f) /\ first[d] = 1
    <3>1. d \in named /\ first[d] <= 1 /\ d \in Decl
      BY <2>2 DEF EnclosingNode, Covering
    <3>2. first[d] \in 1 .. Lines /\ Lines \in Nat
      BY <3>1, JoinAssumption DEF LayoutOK
    <3>3. QED  BY <1>1, <3>1, <3>2
  <2> HIDE DEF named
  <2>6. CASE profile.collapsed
    BY <2>1, <2>3, <2>5, <2>6
  <2>7. CASE ~profile.collapsed
    BY <2>1, <2>3, <2>4, <2>7
  <2>8. QED  BY <2>6, <2>7
<1>6. QED  BY <1>4, <1>5

\* The declarations around a function that is not in the graph.
LEMMA HolderIs ==
  ASSUME LayoutOK, NEW f \in Decl, f \notin InGraph
  PROVE  EnclosingNode(FileNodes(file[f]), first[f]) = Holder(f)
<1> DEFINE S == FileNodes(file[f])
           C == Covering(S, first[f])
<1>1. first[f] \in Nat /\ last[f] \in Nat /\ first[f] <= last[f]
  BY JoinAssumption DEF LayoutOK
<1>2. C = {d \in InGraph : d = f \/ Within(f, d)}
  <2>1. ASSUME NEW d \in InGraph, file[d] = file[f]
        PROVE  first[d] <= first[f] /\ first[f] <= last[d] <=> first[d] < first[f] /\ last[f] <= last[d]
    <3>1. d \in Decl /\ d # f
      BY DEF InGraph
    <3>2. /\ first[d] \in Nat /\ last[d] \in Nat /\ first[d] # first[f]
          /\ first[d] < first[f] => last[d] < first[f] \/ last[f] <= last[d]
      BY <2>1, <3>1, Nesting
    <3>3. QED  BY <1>1, <3>2
  <2>2. QED  BY <2>1 DEF Covering, FileNodes, Within
<1>3. ASSUME NEW d \in C, NEW e \in C, d # e
      PROVE  (Span(d) < Span(e) \/ (Span(d) = Span(e) /\ first[d] >= first[e])) <=> Within(d, e)
  <2>1. /\ d \in Decl /\ e \in Decl /\ file[d] = file[e]
        /\ first[d] <= first[f] /\ first[f] <= last[d] /\ first[e] <= first[f] /\ first[f] <= last[e]
    BY DEF Covering, FileNodes, InGraph
  <2>2. /\ first[d] \in Nat /\ last[d] \in Nat /\ first[e] \in Nat /\ last[e] \in Nat
        /\ first[d] # first[e]
        /\ first[d] < first[e] => last[d] < first[e] \/ last[e] <= last[d]
    BY <1>3, <2>1, Nesting
  <2>3. first[e] < first[d] => last[e] < first[d] \/ last[d] <= last[e]
    BY <1>3, <2>1, Nesting
  <2>4. QED  BY <1>1, <2>1, <2>2, <2>3 DEF Span, Within
<1>4. EnclosingNode(S, first[f]) = {d \in C : \A e \in C : e = d \/ Within(d, e)}
  <2>1. \A d \in C : Span(d) < Span(d) \/ (Span(d) = Span(d) /\ first[d] >= first[d])
    <3> TAKE d \in C
    <3>1. first[d] \in Nat
      BY JoinAssumption DEF Covering, FileNodes, InGraph, LayoutOK
    <3>2. QED  BY <3>1
  <2>2. EnclosingNode(S, first[f]) =
          {d \in C : \A e \in C : Span(d) < Span(e) \/ (Span(d) = Span(e) /\ first[d] >= first[e])}
    BY DEF EnclosingNode
  <2> HIDE DEF C
  <2>3. QED  BY <1>3, <2>1, <2>2
<1>5. QED  BY <1>2, <1>4 DEF Holder

\* A function outside of the graph that nothing in it shares its name with.
LEMMA StrangerNamed ==
  ASSUME LayoutOK, NEW f \in Decl, f \notin InGraph, Namesakes(f) = {}, ~profile.collapsed
  PROVE  ResolveNode(FileNodes(file[f]), f).nodes = Holder(f)
<1> DEFINE S == FileNodes(file[f])
           n == FunctionName(f)
           named == NameMatches(S, n)
<1>1. Stands(f) = f /\ f # Foreign
  BY DeclNumbers
<1>2. named = {}
  <2>1. CASE name[f] = Unnamed
    BY <1>1, <2>1 DEF FunctionName, NameMatches
  <2>2. CASE name[f] # Unnamed /\ ~profile.qualified
    <3>1. n = <<name[f]>>
      BY <1>1, <2>2 DEF FunctionName
    <3>2. Last(n) = name[f]
      BY <3>1 DEF Last
    <3>3. \A d : <<name[d]>> \in {n, <<Last(n)>>} => name[d] = name[f]
      BY <3>1, <3>2
    <3>4. QED  BY <2>2, <3>3 DEF NameMatches, Namesakes
  <2>3. CASE name[f] # Unnamed /\ profile.qualified
    <3>1. n = <<"Class", name[f]>>
      BY <1>1, <2>3 DEF FunctionName
    <3>2. Last(n) = name[f]
      BY <3>1 DEF Last
    <3>3. \A d : Len(<<name[d]>>) = 1 /\ Len(n) = 2
      BY <3>1
    <3>4. \A d : <<name[d]>> \in {n, <<Last(n)>>} => name[d] = name[f]
      BY <3>2, <3>3
    <3>5. QED  BY <2>3, <3>4 DEF NameMatches, Namesakes
  <2>4. QED  BY <2>1, <2>2, <2>3
<1>3. Cardinality(named) = 0
  BY <1>2, FS_EmptySet
<1>4. ResolveNode(S, f).nodes = EnclosingNode(S, Line(f))
  BY <1>3 DEF ResolveNode
<1>5. Line(f) = first[f]
  BY <1>1 DEF Line
<1>6. QED  BY <1>4, <1>5, HolderIs

-----------------------------------------------------------------------------
(* The metrics and the drops                                                *)

LEMMA SamplesAre ==
  /\ Samples \in [Frame -> Nat]
  /\ \A f \in Frame : f \notin Executing => Samples[f] = 0
  BY JoinAssumption DEF Samples, Executing

LEMMA SamplesOfIs ==
  ASSUME NEW S \in SUBSET Frame
  PROVE  /\ SamplesOf(S) = SumOver(Samples, S) /\ SamplesOf(S) \in Int
         /\ \A f \in Frame \ S : SamplesOf(S \cup {f}) = Samples[f] + SamplesOf(S)
         /\ \A R \in SUBSET S : (\A f \in S \ R : Samples[f] = 0) => SamplesOf(S) = SamplesOf(R)
<1>1. \A R : SamplesOf(R) = SumOver(Samples, R)
  BY DEF SamplesOf, SumOver
<1>2. IsFiniteSet(S) /\ \A f \in Frame : Samples[f] \in Int
  <2>1. IsFiniteSet(Frame)
    BY DeclNumbers
  <2>2. IsFiniteSet(S)
    BY <2>1, FS_Subset
  <2>3. QED  BY <2>2, SamplesAre
<1>3. SumOver(Samples, S) \in Int
  BY <1>2, SumSame
<1>4. ASSUME NEW f \in Frame \ S PROVE SumOver(Samples, S \cup {f}) = Samples[f] + SumOver(Samples, S)
  BY <1>2, SumAdd
<1>5. ASSUME NEW R \in SUBSET S, \A f \in S \ R : Samples[f] = 0
      PROVE  SumOver(Samples, S) = SumOver(Samples, R)
  BY <1>2, <1>5, SumZeros
<1>6. QED  BY <1>1, <1>3, <1>4, <1>5

\* Adding to the tally of x, which may be new.
LEMMA TallyAdds ==
  ASSUME NEW t, IsFiniteSet(DOMAIN t), t \in [DOMAIN t -> Nat], NEW x, NEW n \in Nat, NEW u,
         u = [y \in DOMAIN t \cup {x} |->
                (IF y \in DOMAIN t THEN t[y] ELSE 0) + (IF y = x THEN n ELSE 0)]
  PROVE  /\ u \in [DOMAIN t \cup {x} -> Nat] /\ SumOver(t, DOMAIN t) \in Int
         /\ SumOver(u, DOMAIN u) = SumOver(t, DOMAIN t) + n
<1> DEFINE S == DOMAIN t
           R == S \ {x}
<1>1. IsFiniteSet(R) /\ x \notin R /\ R \cup {x} = S \cup {x}
  BY FS_Subset
<1>2. u \in [S \cup {x} -> Nat] /\ DOMAIN u = R \cup {x}
  BY <1>1
<1>3. \A y \in R : t[y] \in Int /\ t[y] = u[y] /\ u[y] \in Int
  OBVIOUS
<1>4. u[x] \in Int /\ u[x] = n + (IF x \in S THEN t[x] ELSE 0)
  OBVIOUS
<1> HIDE DEF R
<1>5. SumOver(t, R) = SumOver(u, R) /\ SumOver(t, R) \in Int
  BY <1>1, <1>3, SumSame
<1>6. SumOver(u, R \cup {x}) = u[x] + SumOver(u, R)
  BY <1>1, <1>3, <1>4, SumAdd
<1>7. CASE x \in S
  <2>1. t[x] \in Int /\ S = R \cup {x}
    <3>1. t[x] \in Int
      BY <1>7
    <3>2. S = R \cup {x}
      BY <1>1, <1>7
    <3>3. QED  BY <3>1, <3>2
  <2>2. SumOver(t, R \cup {x}) = t[x] + SumOver(t, R)
    BY <1>1, <1>3, <2>1, SumAdd
  <2>3. SumOver(t, S) = t[x] + SumOver(t, R)
    BY <2>1, <2>2
  <2>4. SumOver(u, DOMAIN u) = n + t[x] + SumOver(t, R)
    BY <1>2, <1>4, <1>5, <1>6, <1>7, <2>1
  <2>5. QED  BY <1>2, <1>5, <2>1, <2>3, <2>4
<1>8. CASE x \notin S
  <2>1. S = R
    BY <1>8 DEF R
  <2>2. u[x] = n
    BY <1>4, <1>8
  <2>3. SumOver(u, DOMAIN u) = n + SumOver(t, R)
    BY <1>2, <1>5, <1>6, <2>2
  <2>4. QED  BY <1>2, <1>5, <2>1, <2>3
<1>9. QED  BY <1>7, <1>8

LEMMA TalliesAre == Matched = SumOver(attributions, DOMAIN attributions) /\ Dropped = SumOver(dropped, DOMAIN dropped)
  BY DEF Matched, Dropped, SumOver

LEMMA InGraphFinite == IsFiniteSet(InGraph) /\ InGraph \subseteq Decl
  BY DeclNumbers, FS_Subset DEF InGraph

\* Tallies are numbers.
LEMMA MatchedIs == ASSUME JoinIInv PROVE Matched \in Int
<1>1. IsFiniteSet(DOMAIN attributions)
  BY InGraphFinite, FS_Subset DEF JoinIInv
<1>2. \A x \in DOMAIN attributions : attributions[x] \in Int
  BY DEF JoinIInv
<1>3. QED  BY <1>1, <1>2, TalliesAre, SumSame

LEMMA DroppedIs == ASSUME JoinIInv PROVE Dropped \in Int
<1>1. DOMAIN dropped = Reasons /\ \A x \in Reasons : dropped[x] \in Int
  BY DEF JoinIInv, Reasons
<1>2. QED  BY <1>1, ReasonsFinite, TalliesAre, SumSame

LEMMA JoinStarts == Init => JoinIInv
<1> SUFFICES ASSUME Init PROVE JoinIInv
  OBVIOUS
<1>1. LayoutOK
  BY DEF Init, LayoutOK
<1>2. next = Engine /\ next \in 0 .. Foreign + 1 /\ manifest = <<>>
  BY DeclNumbers DEF Init, Engine
<1>3. attributions = <<>> /\ DOMAIN attributions = {} /\ attributions \in [DOMAIN attributions -> Nat]
  BY DEF Init
<1>4. dropped = [r \in Reasons |-> 0]
  BY DEF Init, Reasons
<1>5. {f \in Frame : f < next} = {} /\ \A d : GivenTo(d) = {}
  BY <1>2, DeclNumbers DEF GivenTo, Executing, Engine
<1>6. SamplesOf({}) = 0
  <2>1. SamplesOf({}) = SumOver(Samples, {})
    BY SamplesOfIs
  <2>2. QED  BY <2>1, SumEmpty
<1>7. \A d \in InGraph : Attributed(d) = SamplesOf(GivenTo(d))
  BY <1>3, <1>5, <1>6 DEF Attributed
<1>8. Matched = 0
  BY <1>3, TalliesAre, SumEmpty
<1>9. Dropped = 0
  <2>1. IsFiniteSet(Reasons)
    BY ReasonsFinite
  <2>2. SumOver(dropped, Reasons) = SumOver(dropped, {})
    <3>1. {} \in SUBSET Reasons /\ \A r \in Reasons : dropped[r] = 0
      BY <1>4
    <3>2. QED  BY <2>1, <3>1, SumZeros
  <2>3. DOMAIN dropped = Reasons
    BY <1>4
  <2>4. QED  BY <2>2, <2>3, TalliesAre, SumEmpty
<1>10. dropped \in [Reasons -> Nat]
  BY <1>4
<1>11. Matched + Dropped = SamplesOf({f \in Frame : f < next})
  BY <1>5, <1>6, <1>8, <1>9
<1>12. DOMAIN attributions \subseteq InGraph
  BY <1>3
<1>13. QED  BY <1>1, <1>2, <1>3, <1>7, <1>10, <1>11, <1>12 DEF JoinIInv, Reasons

\* A step to the next frame with samples passes over frames that have none.
LEMMA Advanced ==
  ASSUME LayoutOK, next \in Frame, Advance
  PROVE  /\ next' \in 0 .. Foreign + 1 /\ next < next'
         /\ \A f \in Frame : f < next' => f < next \/ f = next \/ f \notin Executing
<1> DEFINE S == {Foreign + 1} \cup {f \in Frame : f > next /\ Samples[f] > 0}
<1>1. Foreign \in Nat /\ Frame = 0 .. Foreign
  BY DeclNumbers
<1>2. S \in SUBSET Nat /\ S # {} /\ S \subseteq 0 .. Foreign + 1 /\ \A f \in S : next < f
  BY <1>1
<1>3. next' = Min(S)
  BY DEF Advance
<1> HIDE DEF S
<1>4. PICK m \in S : \A f \in S : m <= f
  BY <1>2, LeastOf
<1>5. Min(S) \in S /\ \A f \in S : Min(S) <= f
  BY <1>4 DEF Min
<1>6. ASSUME NEW f \in Frame, f < next', ~(f < next), f # next, f \in Executing PROVE FALSE
  <2>1. Samples[f] > 0
    BY <1>6, JoinAssumption DEF Samples, Executing
  <2>2. f \in S
    BY <1>1, <1>6, <2>1 DEF S
  <2>3. f \in Nat /\ next' \in Nat /\ next' <= f
    BY <1>1, <1>2, <1>3, <1>5, <2>2
  <2>4. QED  BY <1>6, <2>3
<1>7. QED  BY <1>2, <1>3, <1>5, <1>6

\* The layout does not change, nor what rests on it alone.
LEMMA LayoutStays ==
  ASSUME UNCHANGED <<layout, profile>>
  PROVE  /\ LayoutOK' = LayoutOK /\ Executing' = Executing /\ InGraph' = InGraph /\ Samples' = Samples
         /\ \A f \in Frame : Resolution(f)' = Resolution(f)
         /\ \A S : SamplesOf(S)' = SamplesOf(S)
<1>1. /\ kind' = kind /\ name' = name /\ file' = file /\ first' = first /\ last' = last
      /\ profile' = profile
  BY DEF layout
<1>2. LayoutOK' = LayoutOK
  BY <1>1 DEF LayoutOK, Later
<1>3. \A f : Executes(f)' = Executes(f)
  BY <1>1 DEF Executes
<1>4. Executing' = Executing
  BY <1>3 DEF Executing
<1>5. Samples' = Samples
  BY <1>3 DEF Samples
<1>6. InGraph' = InGraph
  BY <1>1 DEF InGraph
<1>7. \A S : SamplesOf(S)' = SamplesOf(S)
  BY <1>5 DEF SamplesOf, MapThenSumSet, MapThenFoldSet
<1>8. \A f \in Frame : Resolution(f)' = Resolution(f)
  BY <1>1 DEF Resolution, ResolveFilePath, Url, ResolveNode, FileNodes, InGraph, NameMatches,
              FunctionName, EnclosingNode, Covering, Span, Line
<1>9. QED  BY <1>2, <1>4, <1>5, <1>6, <1>7, <1>8

\* After a step that gives the samples of the frame to the declarations S.
LEMMA GivenAfter ==
  ASSUME JoinIInv, next \in Frame, Advance, UNCHANGED <<layout, profile>>
  PROVE  /\ \A d \in InGraph : /\ SamplesOf(GivenTo(d))' =
                                    SamplesOf(GivenTo(d)) + (IF d \in Resolution(next).nodes THEN Samples[next] ELSE 0)
                               /\ SamplesOf(GivenTo(d)) \in Int
         /\ SamplesOf({f \in Frame : f < next})' = SamplesOf({f \in Frame : f < next}) + Samples[next]
         /\ SamplesOf({f \in Frame : f < next}) \in Int
<1>1. LayoutOK
  BY DEF JoinIInv
<1>2. /\ Executing' = Executing /\ InGraph' = InGraph /\ Samples' = Samples
      /\ \A f \in Frame : Resolution(f)' = Resolution(f)
      /\ \A S : SamplesOf(S)' = SamplesOf(S)
  BY LayoutStays
<1>3. /\ next' \in 0 .. Foreign + 1 /\ next < next'
      /\ \A f \in Frame : f < next' => f < next \/ f = next \/ f \notin Executing
  BY <1>1, Advanced
<1>4. \A f \in Frame : f \in Nat /\ next \in Nat /\ next' \in Nat
  BY <1>3, DeclNumbers
<1>5. \A f \in Frame : f < next' /\ f # next /\ f \in Executing <=> f < next /\ f \in Executing
  BY <1>3, <1>4
<1>6. ~(next < next) /\ Executing \subseteq Frame
  BY <1>4 DEF Executing
<1>7. ASSUME NEW d \in InGraph
      PROVE  /\ SamplesOf(GivenTo(d))' =
                  SamplesOf(GivenTo(d)) + (IF d \in Resolution(next).nodes THEN Samples[next] ELSE 0)
             /\ SamplesOf(GivenTo(d)) \in Int
  <2> DEFINE G == GivenTo(d)
             H == {f \in Executing : f < next' /\ d \in Resolution(f).nodes}
  <2>1. GivenTo(d)' = H
    BY <1>2, <1>6 DEF GivenTo
  <2>2. SamplesOf(GivenTo(d))' = SamplesOf(H)
    BY <1>2, <2>1
  <2>3. G \in SUBSET Frame /\ next \in Frame \ G
    BY <1>6 DEF GivenTo
  <2>4. CASE d \in Resolution(next).nodes /\ next \in Executing
    <3>1. H = G \cup {next}
      BY <1>3, <1>5, <1>6, <2>4 DEF GivenTo
    <3> HIDE DEF G, H
    <3>2. SamplesOf(H) = Samples[next] + SamplesOf(G) /\ SamplesOf(G) \in Int
      BY <2>3, <3>1, SamplesOfIs
    <3>3. Samples[next] \in Int
      BY SamplesAre
    <3>4. QED  BY <2>2, <2>4, <3>2, <3>3 DEF G
  <2>5. CASE ~(d \in Resolution(next).nodes /\ next \in Executing)
    <3>1. H = G
      BY <1>5, <1>6, <2>5 DEF GivenTo
    <3>2. d \in Resolution(next).nodes => Samples[next] = 0
      BY <2>5, SamplesAre
    <3> HIDE DEF G, H
    <3>3. SamplesOf(G) \in Int
      BY <2>3, SamplesOfIs
    <3>4. QED  BY <2>2, <3>1, <3>2, <3>3 DEF G
  <2>6. QED  BY <2>4, <2>5
<1>8. /\ SamplesOf({f \in Frame : f < next})' = SamplesOf({f \in Frame : f < next}) + Samples[next]
      /\ SamplesOf({f \in Frame : f < next}) \in Int
  <2> DEFINE P == {f \in Frame : f < next}
             Q == {f \in Frame : f < next'}
  <2>1. SamplesOf({f \in Frame : f < next})' = SamplesOf(Q)
    BY <1>2
  <2>2. /\ P \in SUBSET Frame /\ next \in Frame \ P /\ Q \in SUBSET Frame /\ P \cup {next} \in SUBSET Q
        /\ \A f \in Q \ (P \cup {next}) : Samples[f] = 0
    <3>1. P \in SUBSET Frame /\ next \in Frame \ P /\ Q \in SUBSET Frame
      BY <1>6
    <3>2. P \cup {next} \subseteq Q
      BY <1>3, <1>4
    <3>3. \A f \in Q \ (P \cup {next}) : f \in Frame /\ f \notin Executing
      BY <1>3
    <3>4. QED  BY <3>1, <3>2, <3>3, SamplesAre
  <2> HIDE DEF P, Q
  <2>3. SamplesOf(P \cup {next}) = Samples[next] + SamplesOf(P) /\ SamplesOf(P) \in Int
    BY <2>2, SamplesOfIs
  <2>4. SamplesOf(Q) = SamplesOf(P \cup {next})
    BY <2>2, SamplesOfIs
  <2>5. Samples[next] \in Int
    BY SamplesAre
  <2>6. QED  BY <2>1, <2>3, <2>4, <2>5 DEF P
<1>9. QED  BY <1>7, <1>8

LEMMA AttributeKeeps == JoinIInv /\ Attribute => JoinIInv'
<1> SUFFICES ASSUME JoinIInv, Attribute PROVE JoinIInv'
  OBVIOUS
<1>1. /\ LayoutOK /\ next \in Frame /\ Advance /\ UNCHANGED <<layout, profile>>
      /\ UNCHANGED <<dropped, manifest>>
  BY DEF JoinIInv, Attribute
<1>2. PICK x \in Resolution(next).nodes :
        attributions' = [e \in DOMAIN attributions \cup {x} |->
                           (IF e \in DOMAIN attributions THEN attributions[e] ELSE 0)
                             + (IF e = x THEN Samples[next] ELSE 0)]
  BY DEF Attribute
<1>3. x \in InGraph /\ \A d \in InGraph : d \in Resolution(next).nodes <=> d = x
  BY <1>1, <1>2, ResolvedOne
<1>4. LayoutOK' /\ InGraph' = InGraph /\ Samples' = Samples /\ SamplesOf(Frame)' = SamplesOf(Frame)
  BY <1>1, LayoutStays
<1>5. next' \in 0 .. Foreign + 1 /\ next < next'
  BY <1>1, Advanced
<1>6. Samples[next] \in Nat
  BY <1>1, SamplesAre
<1>7. DOMAIN attributions \subseteq InGraph /\ attributions \in [DOMAIN attributions -> Nat]
  BY DEF JoinIInv
<1>8. DOMAIN attributions' = DOMAIN attributions \cup {x} /\ attributions' \in [DOMAIN attributions' -> Nat]
  BY <1>2, <1>6, <1>7
<1>9. Matched' = Matched + Samples[next] /\ Matched \in Int
  <2>1. IsFiniteSet(DOMAIN attributions)
    BY <1>7, InGraphFinite, FS_Subset
  <2>2. /\ SumOver(attributions', DOMAIN attributions') = SumOver(attributions, DOMAIN attributions) + Samples[next]
        /\ SumOver(attributions, DOMAIN attributions) \in Int
    BY <1>2, <1>6, <1>7, <2>1, TallyAdds
  <2>3. Matched' = SumOver(attributions', DOMAIN attributions')
    BY DEF Matched, SumOver, MapThenSumSet, MapThenFoldSet
  <2>4. QED  BY <2>2, <2>3, TalliesAre
<1>10. Dropped' = Dropped
  BY <1>1 DEF Dropped, MapThenSumSet, MapThenFoldSet
<1>11. ASSUME NEW d \in InGraph PROVE Attributed(d)' = SamplesOf(GivenTo(d))'
  <2>1. Attributed(d) = SamplesOf(GivenTo(d))
    BY DEF JoinIInv
  <2>2. /\ SamplesOf(GivenTo(d))' = SamplesOf(GivenTo(d)) + (IF d = x THEN Samples[next] ELSE 0)
        /\ SamplesOf(GivenTo(d)) \in Int
    BY <1>1, <1>3, GivenAfter
  <2>3. Attributed(d)' = IF d \in DOMAIN attributions' THEN attributions'[d] ELSE 0
    BY DEF Attributed
  <2>4. Attributed(d)' = Attributed(d) + (IF d = x THEN Samples[next] ELSE 0)
    <3>1. CASE d = x
      BY <1>2, <1>6, <1>8, <2>3, <3>1 DEF Attributed
    <3>2. CASE d # x /\ d \in DOMAIN attributions
      <4>1. attributions'[d] = attributions[d] + 0 /\ attributions[d] \in Int
        BY <1>2, <1>7, <3>2
      <4>2. QED  BY <1>8, <2>3, <3>2, <4>1 DEF Attributed
    <3>3. CASE d # x /\ d \notin DOMAIN attributions
      BY <1>8, <2>3, <3>3 DEF Attributed
    <3>4. QED  BY <3>1, <3>2, <3>3
  <2>5. QED  BY <2>1, <2>2, <2>4
<1>12. Matched' + Dropped' = SamplesOf({f \in Frame : f < next})'
  <2>1. /\ SamplesOf({f \in Frame : f < next})' = SamplesOf({f \in Frame : f < next}) + Samples[next]
        /\ SamplesOf({f \in Frame : f < next}) \in Int
    BY <1>1, GivenAfter
  <2>2. Matched + Dropped = SamplesOf({f \in Frame : f < next})
    BY DEF JoinIInv
  <2>3. Dropped \in Int
    BY DroppedIs DEF JoinIInv
  <2>4. QED  BY <1>6, <1>9, <1>10, <2>1, <2>2, <2>3
<1>13. manifest = <<>>
  BY <1>1, DeclNumbers DEF JoinIInv
<1>14. dropped' \in [{"no-file", "no-node", "ambiguous"} -> Nat] /\ manifest' = <<>>
  BY <1>1, <1>13 DEF JoinIInv
<1>15. \A d \in InGraph' : Attributed(d)' = SamplesOf(GivenTo(d))'
  BY <1>4, <1>11
<1>16. DOMAIN attributions' \subseteq InGraph'
  BY <1>3, <1>4, <1>7, <1>8
<1>17. QED  BY <1>4, <1>5, <1>8, <1>12, <1>14, <1>15, <1>16 DEF JoinIInv

LEMMA RecordDropKeeps == JoinIInv /\ RecordDrop => JoinIInv'
<1> SUFFICES ASSUME JoinIInv, RecordDrop PROVE JoinIInv'
  OBVIOUS
<1>1. /\ LayoutOK /\ next \in Frame /\ Advance /\ UNCHANGED <<layout, profile>>
      /\ UNCHANGED <<attributions, manifest>> /\ Resolution(next).nodes = {}
  BY DEF JoinIInv, RecordDrop
<1> DEFINE r == Resolution(next).reason
<1>2. dropped' = [dropped EXCEPT ![r] = @ + Samples[next]]
  BY DEF RecordDrop
<1>3. r \in Reasons
  BY <1>1, ResolvedOne
<1>4. LayoutOK' /\ InGraph' = InGraph
  BY <1>1, LayoutStays
<1>5. next' \in 0 .. Foreign + 1 /\ next < next'
  BY <1>1, Advanced
<1>6. Samples[next] \in Nat
  BY <1>1, SamplesAre
<1>7. dropped \in [Reasons -> Nat]
  BY DEF JoinIInv, Reasons
<1> HIDE DEF r
<1>8. dropped' \in [Reasons -> Nat]
  BY <1>2, <1>3, <1>6, <1>7
<1>9. Dropped' = Dropped + Samples[next] /\ Dropped \in Int
  <2>1. DOMAIN dropped = Reasons /\ DOMAIN dropped' = Reasons /\ Reasons \cup {r} = Reasons
    BY <1>3, <1>7, <1>8
  <2>2. dropped' = [y \in Reasons \cup {r} |->
                      (IF y \in Reasons THEN dropped[y] ELSE 0) + (IF y = r THEN Samples[next] ELSE 0)]
    <3>1. dropped' = [y \in Reasons |-> IF y = r THEN dropped[y] + Samples[next] ELSE dropped[y]]
      BY <1>2, <1>3, <1>7
    <3>2. \A y \in Reasons : dropped[y] = dropped[y] + 0
      BY <1>7
    <3>3. QED  BY <2>1, <3>1, <3>2
  <2>3. /\ SumOver(dropped', DOMAIN dropped') = SumOver(dropped, DOMAIN dropped) + Samples[next]
        /\ SumOver(dropped, DOMAIN dropped) \in Int
    BY <1>6, <1>7, <2>1, <2>2, ReasonsFinite, TallyAdds
  <2>4. Dropped' = SumOver(dropped', DOMAIN dropped')
    BY DEF Dropped, SumOver, MapThenSumSet, MapThenFoldSet
  <2>5. QED  BY <2>3, <2>4, TalliesAre
<1>10. Matched' = Matched
  BY <1>1 DEF Matched, MapThenSumSet, MapThenFoldSet
<1>11. ASSUME NEW d \in InGraph PROVE Attributed(d)' = SamplesOf(GivenTo(d))'
  <2>1. Attributed(d) = SamplesOf(GivenTo(d))
    BY DEF JoinIInv
  <2>2. SamplesOf(GivenTo(d))' = SamplesOf(GivenTo(d)) + 0 /\ SamplesOf(GivenTo(d)) \in Int
    BY <1>1, GivenAfter
  <2>3. Attributed(d)' = Attributed(d)
    BY <1>1 DEF Attributed
  <2>4. QED  BY <2>1, <2>2, <2>3
<1>12. Matched' + Dropped' = SamplesOf({f \in Frame : f < next})'
  <2>1. /\ SamplesOf({f \in Frame : f < next})' = SamplesOf({f \in Frame : f < next}) + Samples[next]
        /\ SamplesOf({f \in Frame : f < next}) \in Int
    BY <1>1, GivenAfter
  <2>2. Matched + Dropped = SamplesOf({f \in Frame : f < next})
    BY DEF JoinIInv
  <2>3. Matched \in Int
    BY MatchedIs
  <2>4. QED  BY <1>6, <1>9, <1>10, <2>1, <2>2, <2>3
<1>13. manifest = <<>>
  BY <1>1, DeclNumbers DEF JoinIInv
<1>14. dropped' \in [{"no-file", "no-node", "ambiguous"} -> Nat] /\ manifest' = <<>>
  BY <1>1, <1>8, <1>13 DEF Reasons
<1>15. \A d \in InGraph' : Attributed(d)' = SamplesOf(GivenTo(d))'
  BY <1>4, <1>11
<1>16. DOMAIN attributions' \subseteq InGraph' /\ attributions' \in [DOMAIN attributions' -> Nat]
  BY <1>1, <1>4 DEF JoinIInv
<1>17. QED  BY <1>4, <1>5, <1>12, <1>14, <1>15, <1>16 DEF JoinIInv

LEMMA RestKeeps == JoinIInv /\ (WriteManifest \/ UNCHANGED vars) => JoinIInv'
<1> SUFFICES ASSUME JoinIInv, WriteManifest \/ UNCHANGED vars PROVE JoinIInv'
  OBVIOUS
<1>1. UNCHANGED <<layout, profile>> /\ UNCHANGED <<next, attributions, dropped>>
  BY DEF WriteManifest, vars
<1>2. /\ LayoutOK' = LayoutOK /\ Executing' = Executing /\ InGraph' = InGraph /\ Samples' = Samples
      /\ \A f \in Frame : Resolution(f)' = Resolution(f)
      /\ \A S : SamplesOf(S)' = SamplesOf(S)
  BY <1>1, LayoutStays
<1>3. \A d : GivenTo(d)' = GivenTo(d)
  BY <1>1, <1>2 DEF GivenTo, Executing
<1>4. \A d : SamplesOf(GivenTo(d))' = SamplesOf(GivenTo(d))
  BY <1>2, <1>3
<1>5. \A d : Attributed(d)' = Attributed(d)
  BY <1>1 DEF Attributed
<1>6. Matched' = Matched /\ Dropped' = Dropped
  BY <1>1 DEF Matched, Dropped, MapThenSumSet, MapThenFoldSet
<1>7. SamplesOf({f \in Frame : f < next})' = SamplesOf({f \in Frame : f < next})
  BY <1>1, <1>2
<1>8. TotalSamples' = TotalSamples
  BY <1>2 DEF TotalSamples
<1>9. manifest' # <<>> =>
        next' = Foreign + 1 /\ manifest' = [totalSamples |-> TotalSamples, matchedSamples |-> Matched]
  BY <1>1 DEF JoinIInv, WriteManifest, vars
<1>10. QED  BY <1>1, <1>2, <1>4, <1>5, <1>6, <1>7, <1>8, <1>9 DEF JoinIInv

LEMMA JoinInvariant == Spec => []JoinIInv
<1>1. JoinIInv /\ [Next]_vars => JoinIInv'
  BY AttributeKeeps, RecordDropKeeps, RestKeeps DEF Next
<1>2. QED  BY JoinStarts, <1>1, PTL DEF Spec

\* Once all frames have been joined, each declaration was given what it is entitled
\* to.
LEMMA AllEntitled ==
  ASSUME JoinIInv, next = Foreign + 1, NEW d \in InGraph
  PROVE  GivenTo(d) \in SUBSET (Executing \ {Engine}) /\ Entitled(d, GivenTo(d))
<1> DEFINE G == GivenTo(d)
<1>1. LayoutOK
  BY DEF JoinIInv
<1>2. \A f \in Frame : f \in G <=> f \in Executing /\ d \in Resolution(f).nodes
  <2>1. \A f \in Frame : f < next
    BY DeclNumbers
  <2>2. QED  BY <2>1 DEF GivenTo
<1>3. G \in SUBSET (Executing \ {Engine})
  BY EngineUnresolved DEF GivenTo
<1>4. d \in Decl /\ d \in Frame
  BY DeclNumbers DEF InGraph
<1> HIDE DEF G
<1>5. ASSUME AtHome, NEW f \in Decl PROVE Resolution(f) = ResolveNode(FileNodes(file[f]), f)
  BY <1>1, <1>5, HomeFile, ResolutionIs, DeclNumbers
<1>6. AtHome /\ ~profile.collapsed => (d \in Executing => d \in G)
  <2> SUFFICES ASSUME AtHome, ~profile.collapsed, d \in Executing PROVE d \in G
    OBVIOUS
  <2>1. ResolveNode(FileNodes(file[d]), d).nodes = {d}
    BY <1>1, OwnFile DEF Executing
  <2>2. Resolution(d).nodes = {d}
    BY <1>4, <1>5, <2>1
  <2>3. QED  BY <1>2, <1>4, <2>2
<1>7. ASSUME AtHome, ~profile.collapsed, NEW f \in (Decl \cap Executing) \ InGraph, Namesakes(f) = {}
      PROVE  f \in G <=> d \in Holder(f)
  <2>1. Resolution(f).nodes = Holder(f)
    BY <1>1, <1>5, <1>7, StrangerNamed
  <2>2. QED  BY <1>2, <2>1, DeclNumbers
<1>8. ASSUME AtHome \/ Elsewhere, NEW f \in (G \cap InGraph) \ {d}
      PROVE  d \in Namesakes(f) /\ first[d] = 1
  <2>1. f \in Decl /\ f \in Frame /\ Executes(f) /\ d \in Resolution(f).nodes
    BY <1>2, <1>3, DeclNumbers DEF InGraph, Executing
  <2>2. ResolveFilePath(Url(f)) \subseteq {file[f]}
    BY <1>1, <1>8, <2>1, HomeFile, ElsewhereFile
  <2>3. ResolveFilePath(Url(f)) # {}
    BY <2>1 DEF Resolution
  <2>4. Resolution(f) = ResolveNode(FileNodes(file[f]), f)
    <3>1. ResolveFilePath(Url(f)) = {file[f]}
      BY <2>2, <2>3
    <3>2. QED  BY <1>1, <2>1, <3>1, ResolutionIs
  <2>5. \A e \in ResolveNode(FileNodes(file[f]), f).nodes \ {f} : e \in Namesakes(f) /\ first[e] = 1
    BY <1>1, <1>8, <2>1, OwnFile
  <2>6. QED  BY <1>8, <2>1, <2>4, <2>5
<1>9. QED  BY <1>3, <1>6, <1>7, <1>8 DEF G, Entitled

(***************************************************************************)
(* RuntimeJoin.join: whatever the sources, the profile and the ticks, the   *)
(* samples that are matched and dropped are those of the profile, and each  *)
(* declaration is given the samples of its own frame and of those it holds, *)
(* of others at most of namesakes when all lines are 1.                     *)
(***************************************************************************)
THEOREM SamplesAreOwned == Spec => []SamplesOwned
<1>1. JoinIInv => SamplesOwned
  <2> SUFFICES ASSUME JoinIInv, manifest # <<>>
               PROVE  /\ manifest.totalSamples = manifest.matchedSamples + Dropped
                      /\ \A d \in InGraph : \E S \in SUBSET (Executing \ {Engine}) :
                           Attributed(d) = SamplesOf(S) /\ Entitled(d, S)
    BY DEF SamplesOwned
  <2>1. next = Foreign + 1 /\ manifest = [totalSamples |-> TotalSamples, matchedSamples |-> Matched]
    BY DEF JoinIInv
  <2>2. Matched + Dropped = SamplesOf({f \in Frame : f < next})
    BY DEF JoinIInv
  <2>3. {f \in Frame : f < next} = Frame
    BY <2>1, DeclNumbers
  <2>4. manifest.totalSamples = manifest.matchedSamples + Dropped
    BY <2>1, <2>2, <2>3 DEF TotalSamples
  <2>5. ASSUME NEW d \in InGraph
        PROVE  \E S \in SUBSET (Executing \ {Engine}) : Attributed(d) = SamplesOf(S) /\ Entitled(d, S)
    <3>1. GivenTo(d) \in SUBSET (Executing \ {Engine}) /\ Entitled(d, GivenTo(d))
      BY <2>1, AllEntitled
    <3>2. Attributed(d) = SamplesOf(GivenTo(d))
      BY DEF JoinIInv
    <3>3. QED  BY <3>1, <3>2
  <2>6. QED  BY <2>4, <2>5
<1>2. QED  BY <1>1, JoinInvariant, PTL

-----------------------------------------------------------------------------
(* The call tree                                                            *)

CallsTyped == children \in [CallFrame -> SUBSET CallFrame]

\* Nothing is called from a frame of S but frames of S.
ClosedDown(S) == \A g \in S : children[g] \subseteq S

LEMMA FramesFinite == IsFiniteSet(CallFrame) /\ TreeSize \in Nat
<1>1. TreeSize \in Nat
  BY TreeAssumption
<1>2. QED  BY <1>1, FS_Interval DEF CallFrame

Wider(S) == S \cup UNION {children[g] : g \in S}

LEMMA WiderIs ==
  ASSUME CallsTyped, NEW S \in SUBSET CallFrame
  PROVE  /\ Wider(S) \in SUBSET CallFrame /\ S \subseteq Wider(S)
         /\ IsFiniteSet(S) /\ Cardinality(S) \in 0 .. TreeSize
         /\ Wider(S) # S => Cardinality(S) < Cardinality(Wider(S))
         /\ Wider(S) = S <=> ClosedDown(S)
         /\ \A R \in SUBSET CallFrame : S \subseteq R /\ ClosedDown(R) => Wider(S) \subseteq R
<1>1. Wider(S) \in SUBSET CallFrame /\ S \subseteq Wider(S)
  BY DEF Wider, CallsTyped
<1>2. \A R \in SUBSET CallFrame : IsFiniteSet(R) /\ Cardinality(R) \in 0 .. TreeSize
  <2> TAKE R \in SUBSET CallFrame
  <2>1. IsFiniteSet(R) /\ Cardinality(R) <= Cardinality(CallFrame)
    BY FramesFinite, FS_Subset
  <2>2. Cardinality(CallFrame) = TreeSize
    BY FramesFinite, FS_Interval DEF CallFrame
  <2>3. QED  BY <2>1, <2>2, FramesFinite, FS_CardinalityType
<1>3. ASSUME Wider(S) # S PROVE Cardinality(S) < Cardinality(Wider(S))
  <2>1. IsFiniteSet(Wider(S))
    BY <1>1, <1>2
  <2>2. Cardinality(S) <= Cardinality(Wider(S)) /\ Cardinality(S) # Cardinality(Wider(S))
    BY <1>1, <1>3, <2>1, FS_Subset
  <2>3. QED  BY <1>1, <1>2, <2>2
<1>4. Wider(S) = S <=> ClosedDown(S)
  BY DEF Wider, ClosedDown
<1>5. ASSUME NEW R \in SUBSET CallFrame, S \subseteq R, ClosedDown(R) PROVE Wider(S) \subseteq R
  BY <1>5 DEF Wider, ClosedDown
<1>6. QED  BY <1>1, <1>2, <1>3, <1>4, <1>5

\* The recursion of AllBelow ends, for the set it has collected grows.
LEMMA AllBelowIs ==
  ASSUME CallsTyped
  PROVE  \A S \in SUBSET CallFrame : AllBelow[S] = IF Wider(S) = S THEN S ELSE AllBelow[Wider(S)]
<1> DEFINE K == SUBSET CallFrame
           F(f, S) == IF Wider(S) = S THEN S ELSE f[Wider(S)]
           Phi == [f \in [K -> K] |-> [S \in K |-> F(f, S)]]
           rank == [S \in K |-> TreeSize - Cardinality(S)]
<1>1. K # {} /\ \A S \in K : Wider(S) \in K /\ rank[S] \in Nat /\ (Wider(S) # S => rank[Wider(S)] < rank[S])
  <2>1. \A S \in K : Wider(S) \in K /\ rank[S] = TreeSize - Cardinality(S)
    BY WiderIs
  <2>2. \A S \in K : Cardinality(S) \in 0 .. TreeSize /\ (Wider(S) # S => Cardinality(S) < Cardinality(Wider(S)))
    BY WiderIs
  <2> HIDE DEF rank
  <2>3. \A S \in K : rank[S] \in Nat
    BY <2>1, <2>2, FramesFinite
  <2>4. ASSUME NEW S \in K, Wider(S) # S PROVE rank[Wider(S)] < rank[S]
    <3>1. PICK n \in 0 .. TreeSize : n = Cardinality(S)
      BY <2>2
    <3>2. PICK m \in 0 .. TreeSize : m = Cardinality(Wider(S))
      BY <2>1, <2>2
    <3>3. QED  BY <2>1, <2>2, <2>4, <3>1, <3>2, FramesFinite
  <2>5. QED  BY <2>1, <2>3, <2>4
<1>2. Descends(K, K, rank, Phi)
  <2>1. Phi \in [[K -> K] -> [K -> K]]
    <3>1. \A f \in [K -> K], S \in K : F(f, S) \in K
      BY <1>1
    <3> HIDE DEF K, F
    <3>2. QED  BY <3>1
  <2>2. ASSUME NEW f \in [K -> K], NEW g \in [K -> K], NEW S \in K,
               \A c \in K : rank[c] < rank[S] => f[c] = g[c]
        PROVE  Phi[f][S] = Phi[g][S]
    <3>1. F(f, S) = F(g, S)
      <4> HIDE DEF K, Phi, rank
      <4>1. QED  BY <1>1, <2>2
    <3> HIDE DEF K, rank, F
    <3>2. QED  BY <3>1
  <2> HIDE DEF K, Phi, rank
  <2>3. QED  BY <2>1, <2>2 DEF Descends
<1>3. PICK f \in [K -> K] : f = Phi[f]
  <2>1. rank \in [K -> Nat]
    BY <1>1
  <2> HIDE DEF K, Phi, rank
  <2>2. QED  BY <1>1, <1>2, <2>1, Recursion
<1>4. f = [S \in K |-> F(f, S)]
  <2> HIDE DEF K, F
  <2>1. QED  BY <1>3
<1>5. AllBelow = CHOOSE g : g = [S \in K |-> F(g, S)]
  BY DEF AllBelow, Wider
<1>6. AllBelow = [S \in K |-> F(AllBelow, S)]
  BY <1>4, <1>5
<1>7. QED  BY <1>6

\* It collects S and what is called from it, and nothing else.
CollectsDown(S) ==
  /\ AllBelow[S] \in SUBSET CallFrame /\ S \subseteq AllBelow[S] /\ ClosedDown(AllBelow[S])
  /\ \A R \in SUBSET CallFrame : S \subseteq R /\ ClosedDown(R) => AllBelow[S] \subseteq R

LEMMA AllBelowCollects ==
  ASSUME CallsTyped, NEW S \in SUBSET CallFrame
  PROVE  CollectsDown(S)
<1> DEFINE T == {k \in 0 .. TreeSize : \A R \in SUBSET CallFrame :
                   TreeSize - Cardinality(R) = k => CollectsDown(R)}
<1>1. ASSUME NEW k \in 0 .. TreeSize, \A j \in 0 .. TreeSize : j < k => j \in T PROVE k \in T
  <2> SUFFICES ASSUME NEW R \in SUBSET CallFrame, TreeSize - Cardinality(R) = k PROVE CollectsDown(R)
    OBVIOUS
  <2>1. AllBelow[R] = IF Wider(R) = R THEN R ELSE AllBelow[Wider(R)]
    BY AllBelowIs
  <2>2. /\ Wider(R) \in SUBSET CallFrame /\ R \subseteq Wider(R)
        /\ Wider(R) # R => Cardinality(R) < Cardinality(Wider(R))
        /\ Wider(R) = R <=> ClosedDown(R)
        /\ \A Q \in SUBSET CallFrame : R \subseteq Q /\ ClosedDown(Q) => Wider(R) \subseteq Q
    BY WiderIs
  <2>3. CASE Wider(R) = R
    BY <2>1, <2>2, <2>3 DEF CollectsDown
  <2>4. CASE Wider(R) # R
    <3>1. PICK n \in 0 .. TreeSize : n = Cardinality(R)
      BY WiderIs
    <3>2. PICK m \in 0 .. TreeSize : m = Cardinality(Wider(R))
      BY <2>2, WiderIs
    <3>3. TreeSize - m \in 0 .. TreeSize /\ TreeSize - m < k
      BY <2>2, <2>4, <3>1, <3>2, FramesFinite
    <3>4. CollectsDown(Wider(R))
      BY <1>1, <2>2, <3>2, <3>3
    <3>5. QED  BY <2>1, <2>2, <2>4, <3>4 DEF CollectsDown
  <2>5. QED  BY <2>3, <2>4
<1>2. 0 .. TreeSize \subseteq T
  <2> HIDE DEF T
  <2>1. QED  BY <1>1, FramesFinite, SetInduction
<1>3. PICK n \in 0 .. TreeSize : n = Cardinality(S)
  BY WiderIs
<1>4. TreeSize - n \in T
  BY <1>2, <1>3, FramesFinite
<1>5. QED  BY <1>3, <1>4

\* The frames below f are f and those below the frames it calls.
LEMMA BelowIs ==
  ASSUME CallsTyped, NEW f \in CallFrame
  PROVE  /\ f \in Below[f] /\ Below[f] \in SUBSET CallFrame /\ ClosedDown(Below[f])
         /\ children[f] \subseteq Below[f] /\ children[f] \in SUBSET CallFrame
         /\ \A R \in SUBSET CallFrame : f \in R /\ ClosedDown(R) => Below[f] \subseteq R
<1>1. {f} \in SUBSET CallFrame
  OBVIOUS
<1>2. CollectsDown({f})
  BY <1>1, AllBelowCollects
<1>3. QED  BY <1>2 DEF CollectsDown, Below, CallsTyped, ClosedDown

LEMMA BelowNested ==
  ASSUME CallsTyped, NEW f \in CallFrame, NEW g \in Below[f]
  PROVE  g \in CallFrame /\ Below[g] \subseteq Below[f]
<1>1. g \in CallFrame /\ Below[f] \in SUBSET CallFrame /\ ClosedDown(Below[f])
  BY BelowIs
<1>2. QED  BY <1>1, BelowIs

LEMMA BelowSplits ==
  ASSUME CallsTyped, NEW f \in CallFrame
  PROVE  Below[f] = {f} \cup UNION {Below[c] : c \in children[f]}
<1> DEFINE R == {f} \cup UNION {Below[c] : c \in children[f]}
<1>1. \A c \in children[f] : c \in Below[f] /\ c \in CallFrame
  BY BelowIs
<1>2. \A c \in children[f] : /\ c \in Below[c] /\ Below[c] \subseteq Below[f]
                             /\ Below[c] \in SUBSET CallFrame /\ ClosedDown(Below[c])
  BY <1>1, BelowIs, BelowNested
<1>3. R \in SUBSET CallFrame /\ f \in R
  BY <1>2
<1>4. ClosedDown(R)
  BY <1>2 DEF ClosedDown
<1>5. Below[f] \subseteq R
  <2> HIDE DEF R
  <2>1. QED  BY <1>3, <1>4, BelowIs
<1>6. R \subseteq Below[f]
  BY <1>2, BelowIs
<1>7. QED  BY <1>5, <1>6

\* A frame below f other than f is called from one below f.
LEMMA CalledFrom ==
  ASSUME CallsTyped, NEW f \in CallFrame, NEW g \in Below[f], g # f
  PROVE  \E p \in Below[f] : g \in children[p]
<1> DEFINE R == {x \in Below[f] : x = f \/ \E p \in Below[f] : x \in children[p]}
<1>1. R \in SUBSET CallFrame /\ f \in R /\ R \subseteq Below[f]
  BY BelowIs
<1>2. ClosedDown(R)
  <2>1. ASSUME NEW x \in R, NEW c \in children[x] PROVE c \in R
    <3>1. x \in Below[f] /\ c \in Below[f]
      BY BelowIs DEF ClosedDown
    <3>2. QED  BY <3>1
  <2> HIDE DEF R
  <2>2. QED  BY <2>1 DEF ClosedDown
<1>3. Below[f] \subseteq R
  <2> HIDE DEF R
  <2>1. QED  BY <1>1, <1>2, BelowIs
<1>4. QED  BY <1>3

-----------------------------------------------------------------------------
(* Forests                                                                  *)

LEMMA OneCaller ==
  ASSUME CallsTyped, IsForest, NEW f \in CallFrame, NEW p \in CallFrame, NEW q \in CallFrame,
         f \in children[p], f \in children[q]
  PROVE  p = q
<1> DEFINE S == {g \in CallFrame : f \in children[g]}
<1>1. Cardinality(S) <= 1
  BY DEF IsForest, BelowAny
<1>2. IsFiniteSet(S)
  BY FramesFinite, FS_Subset
<1>3. p \in S /\ q \in S
  OBVIOUS
<1> HIDE DEF S
<1>4. SUFFICES ASSUME p # q PROVE FALSE
  OBVIOUS
<1>5. IsFiniteSet(S \ {p}) /\ Cardinality(S \ {p}) = Cardinality(S) - 1 /\ q \in S \ {p}
  BY <1>2, <1>3, <1>4, FS_RemoveElement
<1>6. Cardinality(S \ {p}) \in Nat /\ Cardinality(S \ {p}) # 0 /\ Cardinality(S) \in Nat
  BY <1>2, <1>5, FS_EmptySet, FS_CardinalityType
<1>7. QED  BY <1>1, <1>5, <1>6

\* What f calls does not lead back to it.
LEMMA NoWayBack ==
  ASSUME CallsTyped, IsForest, NEW f \in CallFrame, NEW c \in children[f]
  PROVE  c \in CallFrame /\ f \notin Below[c] /\ c # f
<1>1. c \in CallFrame /\ f \notin Below[c]
  BY BelowIs DEF IsForest, BelowAny
<1>2. QED  BY <1>1, BelowIs

\* The frames below two are nested or have none in common.
LEMMA NestedOrApart ==
  ASSUME CallsTyped, IsForest, NEW f \in CallFrame, NEW g \in CallFrame, NEW h \in Below[f] \cap Below[g]
  PROVE  f \in Below[g] \/ g \in Below[f]
<1> SUFFICES ASSUME f \notin Below[g], g \notin Below[f] PROVE FALSE
  OBVIOUS
<1> DEFINE R == Below[f] \ Below[g]
<1>1. R \in SUBSET CallFrame /\ f \in R /\ Below[f] \in SUBSET CallFrame
  BY BelowIs
<1>2. ClosedDown(R)
  <2> SUFFICES ASSUME NEW x \in R, NEW c \in children[x], c \notin R PROVE FALSE
    BY DEF ClosedDown
  <2>1. c \in Below[f] /\ x \in CallFrame /\ c \in CallFrame
    BY <1>1, BelowIs DEF ClosedDown
  <2>2. c \in Below[g] /\ c # g
    BY <2>1
  <2>3. PICK p \in Below[g] : c \in children[p]
    BY <2>2, CalledFrom
  <2>4. p \in CallFrame
    BY BelowIs
  <2>5. p = x
    BY <2>1, <2>3, <2>4, OneCaller
  <2>6. QED  BY <2>3, <2>5
<1>3. Below[f] \subseteq R
  <2> HIDE DEF R
  <2>1. QED  BY <1>1, <1>2, BelowIs
<1>4. QED  BY <1>3

LEMMA CalleesApart ==
  ASSUME CallsTyped, IsForest, NEW f \in CallFrame, NEW c \in children[f], NEW d \in children[f], c # d
  PROVE  Below[c] \cap Below[d] = {} /\ c \notin Below[d]
<1>1. c \in CallFrame /\ d \in CallFrame /\ f \notin Below[c] /\ f \notin Below[d] /\ c \in Below[c]
  BY NoWayBack, BelowIs
<1>2. c \notin Below[d]
  <2> SUFFICES ASSUME c \in Below[d] PROVE FALSE
    OBVIOUS
  <2>1. PICK p \in Below[d] : c \in children[p]
    BY <1>1, CalledFrom
  <2>2. p \in CallFrame
    BY <1>1, BelowIs
  <2>3. p = f
    BY <1>1, <2>1, <2>2, OneCaller
  <2>4. QED  BY <1>1, <2>1, <2>3
<1>3. d \notin Below[c]
  <2> SUFFICES ASSUME d \in Below[c] PROVE FALSE
    OBVIOUS
  <2>1. PICK p \in Below[c] : d \in children[p]
    BY <1>1, CalledFrom
  <2>2. p \in CallFrame
    BY <1>1, BelowIs
  <2>3. p = f
    BY <1>1, <2>1, <2>2, OneCaller
  <2>4. QED  BY <1>1, <2>1, <2>3
<1>4. QED  BY <1>1, <1>2, <1>3, NestedOrApart

-----------------------------------------------------------------------------
(* Totals                                                                   *)

SelfTyped == self \in [CallFrame -> Nat]

LEMMA SelfOfIs ==
  ASSUME SelfTyped, NEW S \in SUBSET CallFrame
  PROVE  SelfOf(S) = SumOver(self, S) /\ SelfOf(S) \in Int /\ IsFiniteSet(S) /\ \A f \in S : self[f] \in Int
<1>1. SelfOf(S) = SumOver(self, S)
  BY DEF SelfOf, SumOver
<1>2. IsFiniteSet(S)
  BY FramesFinite, FS_Subset
<1>3. \A f \in S : self[f] \in Int
  BY DEF SelfTyped
<1>4. SumOver(self, S) \in Int
  BY <1>2, <1>3, SumSame
<1>5. QED  BY <1>1, <1>2, <1>3, <1>4

LEMMA WholeIs ==
  ASSUME CallsTyped, SelfTyped, NEW f \in CallFrame
  PROVE  Whole[f] = SelfOf(Below[f]) /\ Whole[f] \in Int /\ Below[f] \in SUBSET CallFrame
<1>1. Below[f] \in SUBSET CallFrame
  BY BelowIs
<1>2. SelfOf(Below[f]) \in Int
  BY <1>1, SelfOfIs
<1>3. Whole[f] = SelfOf(Below[f])
  BY DEF Whole
<1>4. QED  BY <1>1, <1>2, <1>3

Apart(T) == \A c, d \in T : c # d => Below[c] \cap Below[d] = {}

\* What is below frames with nothing in common below them is the sum of what is below
\* each.
LEMMA ApartAdds ==
  ASSUME CallsTyped, SelfTyped, NEW T \in SUBSET CallFrame, Apart(T)
  PROVE  SelfOf(BelowAny(T)) = SumOver(Whole, T) /\ BelowAny(T) \in SUBSET CallFrame
<1> DEFINE S == BelowAny(T)
           g == [x \in S |-> CHOOSE c \in T : x \in Below[c]]
<1>1. \A c \in T : Below[c] \in SUBSET CallFrame /\ Whole[c] = SelfOf(Below[c])
  BY WholeIs
<1>2. S \in SUBSET CallFrame
  BY <1>1 DEF BelowAny
<1>3. IsFiniteSet(T)
  BY SelfOfIs
<1>4. SelfOf(S) = SumOver(self, S) /\ IsFiniteSet(S) /\ \A x \in S : self[x] \in Int
  <2> HIDE DEF S
  <2>1. QED  BY <1>2, SelfOfIs
<1>5. \A x \in S : g[x] \in T /\ x \in Below[g[x]]
  <2>1. \A x \in S : \E c \in T : x \in Below[c]
    BY DEF BelowAny
  <2> HIDE DEF S
  <2>2. QED  BY <2>1
<1> HIDE DEF g
<1>6. ASSUME NEW c \in T PROVE Fibre(S, g, c) = Below[c]
  <2>1. Below[c] \subseteq S
    BY DEF BelowAny
  <2>2. \A x \in Below[c] : g[x] = c
    BY <1>5, <2>1 DEF Apart
  <2> HIDE DEF S
  <2>3. \A x \in S : g[x] = c => x \in Below[c]
    BY <1>5
  <2>4. QED  BY <2>1, <2>2, <2>3 DEF Fibre
<1>7. \A c \in T : Whole[c] = SumOver(self, Fibre(S, g, c))
  <2> TAKE c \in T
  <2>1. SelfOf(Below[c]) = SumOver(self, Below[c])
    BY <1>1, SelfOfIs
  <2>2. QED  BY <1>1, <1>6, <2>1
<1> HIDE DEF S
<1>8. \A x \in S : g[x] \in T
  BY <1>5
<1>9. SumOver(self, S) = SumOver(Whole, T)
  BY <1>3, <1>4, <1>7, <1>8, SumFibres
<1>10. QED  BY <1>2, <1>4, <1>9 DEF S

\* In a forest the total of a frame is its own samples and the totals of its callees.
LEMMA WholeSplits ==
  ASSUME CallsTyped, SelfTyped, IsForest, NEW f \in CallFrame
  PROVE  Whole[f] = self[f] + SumOver(Whole, children[f]) /\ SumOver(Whole, children[f]) \in Int
<1> DEFINE T == children[f]
           S == BelowAny(T)
<1>1. T \in SUBSET CallFrame
  BY BelowIs
<1>2. Apart(T)
  BY CalleesApart DEF Apart
<1>3. SelfOf(S) = SumOver(Whole, T) /\ S \in SUBSET CallFrame
  <2> HIDE DEF T
  <2>1. QED  BY <1>1, <1>2, ApartAdds
<1>4. f \notin S
  BY NoWayBack DEF BelowAny
<1>5. Below[f] = S \cup {f}
  BY BelowSplits DEF BelowAny
<1> HIDE DEF S, T
<1>6. SelfOf(S) = SumOver(self, S) /\ SelfOf(S) \in Int /\ IsFiniteSet(S)
  BY <1>3, SelfOfIs
<1>7. SelfOf(S \cup {f}) = SumOver(self, S \cup {f}) /\ \A x \in S \cup {f} : self[x] \in Int
  <2>1. S \cup {f} \in SUBSET CallFrame
    BY <1>3
  <2>2. QED  BY <2>1, SelfOfIs
<1>8. SumOver(self, S \cup {f}) = self[f] + SumOver(self, S)
  BY <1>4, <1>6, <1>7, SumAdd
<1>9. Whole[f] = SelfOf(Below[f])
  BY WholeIs
<1>10. QED  BY <1>3, <1>5, <1>6, <1>7, <1>8, <1>9 DEF T

-----------------------------------------------------------------------------
(* The walk                                                                 *)

\* None of it depends on where the walk is.
LEMMA TreeStays ==
  ASSUME UNCHANGED <<children, self>>
  PROVE  Below' = Below /\ Whole' = Whole /\ IsForest' = IsForest
<1>1. AllBelow' = AllBelow
  BY DEF AllBelow
<1>2. Below' = Below
  BY <1>1 DEF Below
<1>3. Whole' = Whole
  BY <1>2 DEF Whole, SelfOf, MapThenSumSet, MapThenFoldSet
<1>4. IsForest' = IsForest
  BY <1>2 DEF IsForest, BelowAny
<1>5. QED  BY <1>2, <1>3, <1>4

LEMMA WalkStarts == TreeInit => TreeIInv
<1> SUFFICES ASSUME TreeInit PROVE TreeIInv
  OBVIOUS
<1>1. /\ children \in [CallFrame -> SUBSET CallFrame] /\ self \in [CallFrame -> Nat]
      /\ owner \in [CallFrame -> Symbols \cup {NoSymbol}]
  <2>1. CASE IsForest
    <3>1. self \in [CallFrame -> Ticks] /\ Ticks \subseteq Nat
      BY <2>1, TreeAssumption DEF TreeInit
    <3>2. QED  BY <2>1, <3>1 DEF TreeInit
  <2>2. CASE ~IsForest
    <3>1. self = [f \in CallFrame |-> 0] /\ owner = [f \in CallFrame |-> NoSymbol]
      BY <2>2 DEF TreeInit
    <3>2. QED  BY <3>1 DEF TreeInit
  <2>3. QED  BY <2>1, <2>2
<1>2. stack = <<>> /\ onStack = {} /\ subtree = <<>> /\ root = 1
  BY DEF TreeInit
<1>3. stack \in Seq(CallFrame) /\ DOMAIN stack = {} /\ DOMAIN subtree = {} /\ ToSet(stack) = {}
  BY <1>2, EmptySeq DEF ToSet
<1>4. root \in 1 .. TreeSize + 1 /\ 1 .. root - 1 = {}
  BY <1>2, FramesFinite
<1>5. QED  BY <1>1, <1>2, <1>3, <1>4 DEF TreeIInv, SubtreesWhole

\* The last frame of the stack and the others.
LEMMA StackIs ==
  ASSUME TreeIInv, stack # <<>>
  PROVE  /\ Len(stack) \in Nat \ {0} /\ DOMAIN stack = 1 .. Len(stack) /\ Len(stack) \in DOMAIN stack
         /\ Last(stack) = stack[Len(stack)] /\ Last(stack) \in CallFrame
         /\ Front(stack) \in Seq(CallFrame) /\ DOMAIN Front(stack) = 1 .. Len(stack) - 1
         /\ \A i \in DOMAIN Front(stack) : Front(stack)[i] = stack[i] /\ i \in DOMAIN stack /\ i < Len(stack)
         /\ \A i \in DOMAIN stack : stack[i] \in CallFrame
<1>1. stack \in Seq(CallFrame)
  BY DEF TreeIInv
<1>2. Len(stack) \in Nat \ {0} /\ DOMAIN stack = 1 .. Len(stack)
  BY <1>1, EmptySeq, LenProperties
<1>3. \A i \in 1 .. Len(stack) : stack[i] \in CallFrame
  BY <1>1, ElementOfSeq
<1> DEFINE n == Len(stack) - 1
<1>4. n \in Int /\ n \in Nat /\ \A i \in 1 .. n : i \in 1 .. Len(stack) /\ i < Len(stack)
  BY <1>2
<1>5. /\ SubSeq(stack, 1, n) \in Seq(CallFrame)
      /\ Len(SubSeq(stack, 1, n)) = (IF 1 <= n THEN n - 1 + 1 ELSE 0)
      /\ \A i \in 1 .. n - 1 + 1 : SubSeq(stack, 1, n)[i] = stack[1 + i - 1]
  <2> HIDE DEF n
  <2>1. \A i \in 1 .. n : stack[i] \in CallFrame
    BY <1>3, <1>4
  <2>2. QED  BY <1>4, <2>1, SubSeqProperties
<1>6. Len(SubSeq(stack, 1, n)) = n /\ \A i \in 1 .. n : SubSeq(stack, 1, n)[i] = stack[i]
  <2> HIDE DEF n
  <2>1. QED  BY <1>4, <1>5
<1>7. DOMAIN SubSeq(stack, 1, n) = 1 .. n
  BY <1>5, <1>6, LenProperties
<1>8. Front(stack) = SubSeq(stack, 1, n)
  BY DEF Front
<1>9. QED  BY <1>2, <1>3, <1>4, <1>5, <1>6, <1>7, <1>8 DEF Last

\* What the walk leaves alone.
ProfileTyped ==
  /\ children \in [CallFrame -> SUBSET CallFrame] /\ self \in [CallFrame -> Nat]
  /\ owner \in [CallFrame -> Symbols \cup {NoSymbol}]

WalkTyped ==
  /\ root \in 1 .. TreeSize + 1 /\ 1 .. root - 1 \subseteq DOMAIN subtree
  /\ DOMAIN subtree \subseteq CallFrame
  /\ stack \in Seq(CallFrame) /\ onStack = ToSet(stack)
  /\ \A i, j \in DOMAIN stack : i # j => stack[i] # stack[j]

InTheirOrder == \A i, j \in DOMAIN stack : i < j => stack[i] \notin Below[stack[j]]

LEMMA TreeIInvParts ==
  TreeIInv <=> ProfileTyped /\ WalkTyped /\ (IsForest => InTheirOrder /\ SubtreesWhole)
  BY DEF TreeIInv, ProfileTyped, WalkTyped, InTheirOrder

LEMMA ProfileStays ==
  ASSUME ProfileTyped, UNCHANGED profileVars
  PROVE  ProfileTyped' /\ Below' = Below /\ Whole' = Whole /\ IsForest' = IsForest
  BY TreeStays DEF ProfileTyped, profileVars

LEMMA SkipKeeps == TreeIInv /\ SkipSummed => TreeIInv'
<1> SUFFICES ASSUME TreeIInv, SkipSummed PROVE TreeIInv'
  OBVIOUS
<1>1. ProfileTyped' /\ Below' = Below /\ Whole' = Whole /\ IsForest' = IsForest
  BY TreeIInvParts, ProfileStays DEF SkipSummed
<1>2. WalkTyped'
  <2>1. root \in CallFrame /\ 1 .. root - 1 \subseteq DOMAIN subtree
    BY TreeIInvParts DEF WalkTyped, SkipSummed
  <2>2. root' \in 1 .. TreeSize + 1 /\ 1 .. root' - 1 \subseteq DOMAIN subtree
    <3>1. root \in Nat /\ root' = root + 1 /\ root \in DOMAIN subtree
      BY <2>1 DEF SkipSummed, CallFrame
    <3>2. QED  BY <2>1, <3>1, FramesFinite DEF CallFrame
  <2>3. QED  BY <2>2, TreeIInvParts DEF WalkTyped, SkipSummed
<1>3. (InTheirOrder /\ SubtreesWhole)' <=> InTheirOrder /\ SubtreesWhole
  BY <1>1 DEF InTheirOrder, SubtreesWhole, SkipSummed
<1>4. QED  BY <1>1, <1>2, <1>3, TreeIInvParts DEF TreeIInv, ProfileTyped, WalkTyped, InTheirOrder

LEMMA StartKeeps == TreeIInv /\ StartAt => TreeIInv'
<1> SUFFICES ASSUME TreeIInv, StartAt PROVE TreeIInv'
  OBVIOUS
<1>1. ProfileTyped' /\ Below' = Below /\ Whole' = Whole /\ IsForest' = IsForest
  BY TreeIInvParts, ProfileStays DEF StartAt
<1>2. stack' = <<root>> /\ DOMAIN stack' = {1} /\ stack'[1] = root /\ root \in CallFrame
  BY DEF StartAt
<1>3. stack' \in Seq(CallFrame) /\ ToSet(stack') = {root}
  BY <1>2 DEF ToSet
<1>4. WalkTyped'
  BY <1>2, <1>3, TreeIInvParts DEF WalkTyped, StartAt
<1>5. InTheirOrder'
  BY <1>2 DEF InTheirOrder
<1>6. SubtreesWhole' <=> SubtreesWhole
  BY <1>1 DEF SubtreesWhole, StartAt
<1>7. QED  BY <1>1, <1>4, <1>5, <1>6, TreeIInvParts DEF TreeIInv, ProfileTyped, WalkTyped, InTheirOrder

\* A list of all members of S without repetition.
LEMMA ListsAll ==
  ASSUME NEW S \in SUBSET CallFrame, NEW s \in SetToSeqs(S)
  PROVE  /\ s \in Seq(S) /\ s \in Seq(CallFrame) /\ DOMAIN s = 1 .. Len(s) /\ Len(s) \in Nat
         /\ ToSet(s) = S /\ \A i, j \in DOMAIN s : i # j => s[i] # s[j]
<1> DEFINE n == Cardinality(S)
           K == 1 .. n
<1>1. IsFiniteSet(S) /\ n \in Nat
  BY FramesFinite, FS_Subset, FS_CardinalityType
<1>2. s \in [K -> S] /\ \A i, j \in K : i # j => s[i] # s[j]
  BY DEF SetToSeqs
<1>3. s \in Seq(S) /\ Len(s) = n
  <2> HIDE DEF n
  <2>1. QED  BY <1>1, <1>2
<1>4. s \in Injection(K, S)
  BY <1>2 DEF Injection, IsInjective
<1>5. IsFiniteSet(K) /\ Cardinality(K) = n
  <2> HIDE DEF n
  <2>1. QED  BY <1>1, FS_Interval
<1>6. s \in Surjection(K, S)
  <2> HIDE DEF K
  <2>1. QED  BY <1>1, <1>4, <1>5, FS_Injection
<1>7. ToSet(s) = S
  BY <1>2, <1>6 DEF Surjection, ToSet
<1>8. s \in Seq(CallFrame)
  BY <1>3, SeqMonotonic
<1>9. QED  BY <1>1, <1>2, <1>3, <1>7, <1>8

LEMMA DescendKeeps == TreeIInv /\ Descend => TreeIInv'
<1> SUFFICES ASSUME TreeIInv, Descend PROVE TreeIInv'
  OBVIOUS
<1> DEFINE f == Last(stack)
           P == Pending(f)
           n == Len(stack)
<1>0. ProfileTyped /\ WalkTyped /\ CallsTyped /\ SelfTyped
  BY TreeIInvParts DEF ProfileTyped, CallsTyped, SelfTyped
<1>1. ProfileTyped' /\ Below' = Below /\ Whole' = Whole /\ IsForest' = IsForest
  BY TreeIInvParts, ProfileStays DEF Descend
<1>2. /\ n \in Nat \ {0} /\ DOMAIN stack = 1 .. n /\ f = stack[n] /\ f \in CallFrame /\ n \in DOMAIN stack
      /\ \A i \in DOMAIN stack : stack[i] \in CallFrame
  BY StackIs DEF Descend
<1>3. P \in SUBSET CallFrame /\ P \subseteq children[f] /\ P \cap onStack = {}
  BY <1>0, <1>2, BelowIs DEF Pending
<1>4. PICK s \in SetToSeqs(P) : stack' = stack \o s
  BY DEF Descend
<1>5. onStack' = onStack \cup P
  BY DEF Descend
<1> HIDE DEF P, f, n
<1>6. /\ s \in Seq(CallFrame) /\ DOMAIN s = 1 .. Len(s) /\ Len(s) \in Nat
      /\ ToSet(s) = P /\ \A i, j \in DOMAIN s : i # j => s[i] # s[j]
  BY <1>3, <1>4, ListsAll
<1>7. /\ stack' \in Seq(CallFrame) /\ DOMAIN stack' = 1 .. n + Len(s)
      /\ \A i \in 1 .. n + Len(s) : stack'[i] = IF i <= n THEN stack[i] ELSE s[i - n]
  <2>1. stack \in Seq(CallFrame) /\ n = Len(stack)
    BY <1>0 DEF WalkTyped, n
  <2>2. /\ stack \o s \in Seq(CallFrame) /\ Len(stack \o s) = n + Len(s)
        /\ \A i \in 1 .. n + Len(s) : (stack \o s)[i] = IF i <= n THEN stack[i] ELSE s[i - n]
    BY <1>6, <2>1, ConcatProperties
  <2>3. DOMAIN (stack \o s) = 1 .. n + Len(s)
    BY <2>2, LenProperties
  <2>4. QED  BY <1>4, <2>2, <2>3
\* An old place and a new one.
<1>8. \A i \in DOMAIN stack' : \/ i \in DOMAIN stack /\ stack'[i] = stack[i] /\ i <= n
                               \/ i - n \in DOMAIN s /\ stack'[i] = s[i - n] /\ i > n /\ s[i - n] \in P
  <2> TAKE i \in DOMAIN stack'
  <2>1. i \in 1 .. n + Len(s) /\ i \in Nat /\ n \in Nat
    BY <1>2, <1>6, <1>7
  <2>2. CASE i <= n
    BY <1>2, <1>7, <2>1, <2>2
  <2>3. CASE i > n
    <3>1. i - n \in DOMAIN s /\ stack'[i] = s[i - n]
      BY <1>6, <1>7, <2>1, <2>3
    <3>2. s[i - n] \in P
      BY <1>6, <3>1 DEF ToSet
    <3>3. QED  BY <2>3, <3>1, <3>2
  <2>4. QED  BY <2>1, <2>2, <2>3
<1>9. WalkTyped'
  <2>1. ToSet(stack') = ToSet(stack) \cup ToSet(s)
    <3>1. \A i \in DOMAIN stack : i \in DOMAIN stack' /\ stack'[i] = stack[i]
      BY <1>2, <1>6, <1>7
    <3>2. \A i \in DOMAIN s : i + n \in DOMAIN stack' /\ stack'[i + n] = s[i]
      <4> TAKE i \in DOMAIN s
      <4>1. i \in Nat /\ i > 0 /\ i <= Len(s) /\ n \in Nat
        BY <1>2, <1>6
      <4>2. i + n \in 1 .. n + Len(s) /\ ~(i + n <= n) /\ (i + n) - n = i
        BY <4>1, <1>6
      <4>3. QED  BY <1>7, <4>2
    <3>3. ToSet(stack) \cup ToSet(s) \subseteq ToSet(stack')
      BY <3>1, <3>2 DEF ToSet
    <3>4. QED  BY <1>8, <3>3 DEF ToSet
  <2>2. onStack' = ToSet(stack')
    BY <1>0, <1>5, <1>6, <2>1 DEF WalkTyped
  <2>3. ASSUME NEW i \in DOMAIN stack', NEW j \in DOMAIN stack', i # j PROVE stack'[i] # stack'[j]
    <3>1. CASE i <= n /\ j <= n
      <4>1. i \in Int /\ j \in Int /\ n \in Int
        BY <1>2, <1>6, <1>7
      <4>2. i \in DOMAIN stack /\ j \in DOMAIN stack /\ stack'[i] = stack[i] /\ stack'[j] = stack[j]
        BY <1>8, <3>1, <4>1
      <4>3. QED  BY <1>0, <2>3, <4>2 DEF WalkTyped
    <3>2. CASE i > n /\ j > n
      <4>1. i - n \in DOMAIN s /\ j - n \in DOMAIN s /\ stack'[i] = s[i - n] /\ stack'[j] = s[j - n]
        BY <1>2, <1>7, <1>8, <3>2
      <4>2. i - n # j - n
        BY <1>2, <1>6, <1>7, <2>3
      <4>3. QED  BY <1>6, <4>1, <4>2
    <3>3. \A k \in DOMAIN stack : stack[k] \in onStack
      BY <1>0 DEF WalkTyped, ToSet
    <3>4. CASE i <= n /\ j > n
      BY <1>2, <1>3, <1>7, <1>8, <3>3, <3>4
    <3>5. CASE i > n /\ j <= n
      BY <1>2, <1>3, <1>7, <1>8, <3>3, <3>5
    <3>6. i \in Int /\ j \in Int /\ n \in Int
      BY <1>2, <1>6, <1>7
    <3>7. QED  BY <3>1, <3>2, <3>4, <3>5, <3>6
  <2>4. QED  BY <1>0, <1>7, <2>2, <2>3 DEF WalkTyped, Descend
<1>10. ASSUME IsForest PROVE InTheirOrder'
  <2> SUFFICES ASSUME NEW i \in DOMAIN stack', NEW j \in DOMAIN stack', i < j
               PROVE  stack'[i] \notin Below[stack'[j]]
    BY <1>1 DEF InTheirOrder
  <2>0. i \in Int /\ j \in Int /\ n \in Int
    BY <1>2, <1>6, <1>7
  <2>1. CASE j <= n
    <3>1. i \in DOMAIN stack /\ j \in DOMAIN stack /\ stack'[i] = stack[i] /\ stack'[j] = stack[j]
      BY <1>8, <2>0, <2>1
    <3>2. QED  BY <1>10, <3>1, TreeIInvParts DEF InTheirOrder
  <2>2. CASE j > n /\ i <= n
    <3>1. PICK c \in P : c = stack'[j]
      BY <1>8, <2>0, <2>2
    <3>2. i \in DOMAIN stack /\ stack'[i] = stack[i]
      BY <1>8, <2>0, <2>2
    <3>3. c \in children[f]
      BY <1>3
    <3>4. f \notin Below[c] /\ c \in Below[f]
      BY <1>0, <1>2, <1>10, <3>3, NoWayBack, BelowIs
    <3>5. Below[c] \subseteq Below[f]
      BY <1>0, <1>2, <3>4, BelowNested
    <3>6. CASE i = n
      BY <1>2, <3>1, <3>2, <3>4, <3>6
    <3>7. CASE i < n
      <4>1. stack[i] \notin Below[stack[n]]
        BY <1>2, <1>10, <3>2, <3>7, TreeIInvParts DEF InTheirOrder
      <4>2. QED  BY <1>2, <3>1, <3>2, <3>5, <4>1
    <3>8. QED  BY <2>0, <2>2, <3>6, <3>7
  <2>3. CASE i > n
    <3>1. /\ i - n \in DOMAIN s /\ j - n \in DOMAIN s /\ i - n # j - n
          /\ stack'[i] = s[i - n] /\ stack'[j] = s[j - n] /\ s[i - n] \in P /\ s[j - n] \in P
      <4>1. j > n /\ i - n # j - n
        BY <2>0, <2>3
      <4>2. QED  BY <1>8, <2>0, <2>3, <4>1
    <3>2. PICK c \in children[f] : c = s[i - n]
      BY <1>3, <3>1
    <3>3. PICK d \in children[f] : d = s[j - n]
      BY <1>3, <3>1
    <3>4. c # d
      BY <1>6, <3>1, <3>2, <3>3
    <3>5. c \notin Below[d]
      BY <1>0, <1>2, <1>10, <3>4, CalleesApart
    <3>6. QED  BY <3>1, <3>2, <3>3, <3>5
  <2>4. QED  BY <2>0, <2>1, <2>2, <2>3
<1>11. SubtreesWhole' <=> SubtreesWhole
  BY <1>1 DEF SubtreesWhole, Descend
<1>12. QED  BY <1>1, <1>9, <1>10, <1>11, TreeIInvParts DEF TreeIInv, ProfileTyped, WalkTyped, InTheirOrder

LEMMA SumKeeps == TreeIInv /\ Sum => TreeIInv'
<1> SUFFICES ASSUME TreeIInv, Sum PROVE TreeIInv'
  OBVIOUS
<1> DEFINE f == Last(stack)
           n == Len(stack)
           summed == children[f] \cap DOMAIN subtree
<1>0. ProfileTyped /\ WalkTyped /\ CallsTyped /\ SelfTyped
  BY TreeIInvParts DEF ProfileTyped, CallsTyped, SelfTyped
<1>1. ProfileTyped' /\ Below' = Below /\ Whole' = Whole /\ IsForest' = IsForest
  BY TreeIInvParts, ProfileStays DEF Sum
<1>2. /\ n \in Nat \ {0} /\ DOMAIN stack = 1 .. n /\ f = stack[n] /\ f \in CallFrame /\ n \in DOMAIN stack
      /\ \A i \in DOMAIN stack : stack[i] \in CallFrame
      /\ Front(stack) \in Seq(CallFrame) /\ DOMAIN Front(stack) = 1 .. n - 1
      /\ \A i \in DOMAIN Front(stack) : Front(stack)[i] = stack[i] /\ i \in DOMAIN stack /\ i < n
  BY StackIs DEF Sum
<1>3. /\ Pending(f) = {} /\ stack' = Front(stack) /\ onStack' = onStack \ {f} /\ root' = root
      /\ subtree' = [g \in DOMAIN subtree \cup {f} |->
                       IF g = f THEN self[f] + SumOver(subtree, summed) ELSE subtree[g]]
  BY DEF Sum, SumOver
<1> HIDE DEF f, n
<1>4. WalkTyped'
  <2>1. ToSet(stack') = ToSet(stack) \ {f}
    <3>1. \A i \in DOMAIN stack' : stack'[i] \in ToSet(stack) /\ stack'[i] # f
      <4> TAKE i \in DOMAIN stack'
      <4>1. stack'[i] = stack[i] /\ i \in DOMAIN stack /\ i < n
        BY <1>2, <1>3
      <4>2. i # n
        BY <1>2, <4>1
      <4>3. QED  BY <1>0, <1>2, <4>1, <4>2 DEF WalkTyped, ToSet
    <3>2. ASSUME NEW i \in DOMAIN stack, stack[i] # f PROVE i \in DOMAIN stack' /\ stack'[i] = stack[i]
      <4>1. i # n
        BY <1>2, <3>2
      <4>2. i \in 1 .. n - 1
        BY <1>2, <4>1
      <4>3. QED  BY <1>2, <1>3, <4>2
    <3>3. QED  BY <3>1, <3>2 DEF ToSet
  <2>2. onStack' = ToSet(stack')
    BY <1>0, <1>3, <2>1 DEF WalkTyped
  <2>3. \A i, j \in DOMAIN stack' : i # j => stack'[i] # stack'[j]
    BY <1>0, <1>2, <1>3 DEF WalkTyped
  <2>4. DOMAIN subtree' = DOMAIN subtree \cup {f}
    BY <1>3
  <2>5. QED  BY <1>0, <1>2, <1>3, <2>2, <2>3, <2>4 DEF WalkTyped
<1>5. ASSUME IsForest PROVE (InTheirOrder /\ SubtreesWhole)'
  <2>1. InTheirOrder /\ SubtreesWhole
    BY <1>5, TreeIInvParts
  <2>2. InTheirOrder'
    BY <1>1, <1>2, <1>3, <2>1 DEF InTheirOrder
  <2>3. summed = children[f]
    <3> SUFFICES ASSUME NEW c \in children[f], c \notin DOMAIN subtree PROVE FALSE
      OBVIOUS
    <3>1. c \in onStack
      BY <1>3 DEF Pending
    <3>2. PICK i \in DOMAIN stack : stack[i] = c
      BY <1>0, <3>1 DEF WalkTyped, ToSet
    <3>3. c # f /\ c \in Below[f]
      BY <1>0, <1>2, <1>5, NoWayBack, BelowIs
    <3>4. i < n
      BY <1>2, <3>2, <3>3
    <3>5. stack[i] \notin Below[stack[n]]
      BY <1>2, <2>1, <3>4 DEF InTheirOrder
    <3>6. QED  BY <1>2, <3>2, <3>3, <3>5
  <2>4. IsFiniteSet(summed) /\ \A c \in summed : subtree[c] \in Int /\ subtree[c] = Whole[c]
    <3>1. children[f] \in SUBSET CallFrame
      BY <1>0, <1>2, BelowIs
    <3>2. \A c \in summed : c \in CallFrame /\ subtree[c] = Whole[c]
      BY <2>1, <3>1 DEF SubtreesWhole
    <3>3. QED  BY <1>0, <3>1, <3>2, WholeIs, FramesFinite, FS_Subset
  <2> HIDE DEF summed
  <2>5. SumOver(subtree, summed) = SumOver(Whole, summed)
    BY <2>4, SumSame
  <2>6. self[f] + SumOver(subtree, summed) = Whole[f]
    BY <1>0, <1>2, <1>5, <2>3, <2>5, WholeSplits
  <2>7. \A g \in DOMAIN subtree' : subtree'[g] = Whole[g]
    BY <1>3, <2>1, <2>6 DEF SubtreesWhole
  <2>8. SubtreesWhole'
    BY <1>1, <2>7 DEF SubtreesWhole
  <2>9. QED  BY <2>2, <2>8
<1>6. QED  BY <1>1, <1>4, <1>5, TreeIInvParts DEF TreeIInv, ProfileTyped, WalkTyped, InTheirOrder

LEMMA TreeRests == TreeIInv /\ UNCHANGED treeVars => TreeIInv'
<1> SUFFICES ASSUME TreeIInv, UNCHANGED treeVars PROVE TreeIInv'
  OBVIOUS
<1>1. ProfileTyped' /\ Below' = Below /\ Whole' = Whole /\ IsForest' = IsForest
  BY TreeIInvParts, ProfileStays DEF treeVars
<1>2. (WalkTyped /\ InTheirOrder)' <=> WalkTyped /\ InTheirOrder
  BY <1>1 DEF WalkTyped, InTheirOrder, treeVars
<1>3. SubtreesWhole' <=> SubtreesWhole
  BY <1>1 DEF SubtreesWhole, treeVars
<1>4. WalkTyped' <=> WalkTyped
  BY DEF WalkTyped, treeVars
<1>5. QED  BY <1>1, <1>2, <1>3, <1>4, TreeIInvParts DEF TreeIInv, ProfileTyped, WalkTyped, InTheirOrder

LEMMA WalkInvariant == TreeSpec => []TreeIInv
<1>1. TreeIInv /\ [TreeNext]_treeVars => TreeIInv'
  BY SkipKeeps, StartKeeps, DescendKeeps, SumKeeps, TreeRests DEF TreeNext
<1>2. QED  BY WalkStarts, <1>1, PTL DEF TreeSpec

-----------------------------------------------------------------------------
(* The runtime edges                                                        *)

LEMMA FlowsIn ==
  ASSUME TreeIInv, NEW s \in Symbols, \A c \in CallFrame : subtree[c] \in Int
  PROVE  Inflow(s) = SumOver(Carried, {e \in Joined : owner[e[2]] = s})
<1> DEFINE S == {e \in Joined : owner[e[2]] = s}
           from == [e \in S |-> owner[e[1]]]
<1>1. IsFiniteSet(S) /\ S \subseteq CallEdges
  <2>1. IsFiniteSet(CallFrame \X CallFrame)
    BY FramesFinite, FS_Product
  <2>2. S \in SUBSET (CallFrame \X CallFrame) /\ S \subseteq CallEdges
    BY DEF Joined, CallEdges
  <2>3. QED  BY <2>1, <2>2, FS_Subset
<1>2. \A e \in S : Carried[e] \in Int
  BY <1>1 DEF Carried, CallEdges
<1>3. \A e \in S : from[e] \in Symbols
  <2> TAKE e \in S
  <2>1. e[1] \in CallFrame /\ owner[e[1]] # NoSymbol
    BY <1>1 DEF Joined, CallEdges
  <2>2. QED  BY <2>1 DEF TreeIInv
<1>4. \A t \in Symbols : Flow(s)[t] = SumOver(Carried, Fibre(S, from, t))
  <2> TAKE t \in Symbols
  <2>1. {e \in Joined : owner[e[1]] = t /\ owner[e[2]] = s} = Fibre(S, from, t)
    BY DEF Fibre
  <2> HIDE DEF S, from
  <2>2. QED  BY <2>1 DEF Flow, SumOver
<1>5. Inflow(s) = SumOver(Flow(s), Symbols)
  BY DEF Inflow, SumOver
<1> HIDE DEF S, from
<1>6. SumOver(Carried, S) = SumOver(Flow(s), Symbols)
  BY <1>1, <1>2, <1>3, <1>4, TreeAssumption, SumFibres
<1>7. QED  BY <1>5, <1>6 DEF S

\* Each frame that is entered is by one call.
LEMMA EnteredOnce ==
  ASSUME TreeIInv, IsForest, NEW s \in Symbols, \A c \in CallFrame : subtree[c] \in Int
  PROVE  Inflow(s) = SumOver(subtree, Entered(s)) /\ Entered(s) \in SUBSET CallFrame
<1> DEFINE S == {e \in Joined : owner[e[2]] = s}
           E == Entered(s)
           into == [e \in S |-> e[2]]
<1>0. CallsTyped /\ owner \in [CallFrame -> Symbols \cup {NoSymbol}] /\ s # NoSymbol
  BY TreeAssumption DEF TreeIInv, CallsTyped
<1>1. IsFiniteSet(S) /\ S \subseteq CallEdges
  <2>1. IsFiniteSet(CallFrame \X CallFrame)
    BY FramesFinite, FS_Product
  <2>2. S \in SUBSET (CallFrame \X CallFrame) /\ S \subseteq CallEdges
    BY DEF Joined, CallEdges
  <2>3. QED  BY <2>1, <2>2, FS_Subset
<1>2. S = {c \in CallEdges : owner[c[2]] = s /\ owner[c[1]] \in Symbols \ {s}}
  <2>1. \A c \in CallEdges : owner[c[1]] \in Symbols \cup {NoSymbol}
    BY <1>0 DEF CallEdges
  <2>2. \A c \in CallEdges :
          (/\ NoSymbol \notin {owner[c[1]], owner[c[2]]} /\ owner[c[1]] # owner[c[2]]
           /\ owner[c[2]] = s) <=> (owner[c[2]] = s /\ owner[c[1]] \in Symbols \ {s})
    BY <1>0, <2>1, TreeAssumption
  <2>3. QED  BY <2>2 DEF Joined
<1>3. E = {e[2] : e \in S}
  BY <1>2 DEF Entered
<1>4. E \in SUBSET CallFrame /\ IsFiniteSet(E)
  <2>1. E \in SUBSET CallFrame
    BY <1>1, <1>3 DEF CallEdges
  <2>2. QED  BY <2>1, FramesFinite, FS_Subset
<1>5. \A e \in S : Carried[e] \in Int /\ Carried[e] = subtree[e[2]] /\ into[e] \in E
  BY <1>1, <1>3 DEF Carried, CallEdges
<1>6. \A c \in E : subtree[c] = SumOver(Carried, Fibre(S, into, c))
  <2> TAKE c \in E
  <2>1. PICK e \in S : e[2] = c
    BY <1>3
  <2>2. ASSUME NEW d \in S, d[2] = c PROVE d = e
    <3>1. /\ d \in CallFrame \X CallFrame /\ e \in CallFrame \X CallFrame
          /\ c \in children[d[1]] /\ c \in children[e[1]]
      BY <1>1, <2>1, <2>2 DEF CallEdges
    <3>2. d[1] = e[1]
      BY <1>0, <1>4, <3>1, OneCaller
    <3>3. QED  BY <2>1, <2>2, <3>1, <3>2
  <2>3. Fibre(S, into, c) = {e}
    <3> HIDE DEF S
    <3>1. QED  BY <2>1, <2>2 DEF Fibre
  <2>4. SumOver(Carried, {e}) = Carried[e]
    BY <1>5, SumSingle
  <2>5. QED  BY <1>5, <2>1, <2>3, <2>4
<1>7. Inflow(s) = SumOver(Carried, S)
  BY FlowsIn
<1> HIDE DEF S, E, into
<1>8. \A e \in S : Carried[e] \in Int /\ into[e] \in E
  BY <1>5
<1>9. SumOver(Carried, S) = SumOver(subtree, E)
  BY <1>1, <1>4, <1>6, <1>8, SumFibres
<1>10. QED  BY <1>4, <1>7, <1>9 DEF E

\* Of two frames that are entered neither is below the other, or the caller of that one
\* would be between them.
LEMMA EnteredApart ==
  ASSUME TreeIInv, IsForest, NoIndirectRecursion, NEW s \in Symbols
  PROVE  Apart(Entered(s))
<1>0. CallsTyped
  BY DEF TreeIInv, CallsTyped
<1>1. \A c \in Entered(s) : /\ c \in CallFrame /\ owner[c] = s
                            /\ \E p \in CallFrame : c \in children[p] /\ owner[p] # s
  BY DEF Entered, CallEdges
<1>2. ASSUME NEW c \in Entered(s), NEW d \in Entered(s), c # d PROVE c \notin Below[d]
  <2> SUFFICES ASSUME c \in Below[d] PROVE FALSE
    OBVIOUS
  <2>1. PICK p \in CallFrame : c \in children[p] /\ owner[p] # s
    BY <1>1
  <2>2. c \in CallFrame /\ d \in CallFrame /\ owner[c] = s /\ owner[d] = s
    BY <1>1
  <2>3. PICK q \in Below[d] : c \in children[q]
    BY <1>0, <1>2, <2>2, CalledFrom
  <2>4. q \in CallFrame
    BY <1>0, <2>2, BelowIs
  <2>5. p \in Below[d]
    BY <1>0, <2>1, <2>2, <2>3, <2>4, OneCaller
  <2>6. c \in Below[p]
    BY <1>0, <2>1, BelowIs
  <2>7. d \in Above(c) /\ p \in Above(c) /\ d \in Above(p)
    BY <2>2, <2>5, <2>6 DEF Above
  <2>8. owner[p] = owner[c]
    BY <2>2, <2>7 DEF NoIndirectRecursion
  <2>9. QED  BY <2>1, <2>2, <2>8
<1>3. QED  BY <1>0, <1>1, <1>2, NestedOrApart DEF Apart

\* For profiles of any size, listed in any order and joined in any way: the walk sums
\* the subtrees, and where no graph node calls itself by way of another one each
\* sample flows into a node once.
THEOREM InflowIsCounted == TreeSpec => []InflowCountsOnce
<1>1. TreeIInv => InflowCountsOnce
  <2> SUFFICES ASSUME TreeIInv, IsForest PROVE InflowCountsOnce
    BY DEF InflowCountsOnce
  <2>1. SubtreesWhole /\ CallsTyped /\ SelfTyped
    BY DEF TreeIInv, CallsTyped, SelfTyped
  <2>2. ASSUME Done, NoIndirectRecursion, NEW s \in Symbols
        PROVE  Inflow(s) = SelfOf(BelowAny(Entered(s)))
    <3>1. DOMAIN subtree = CallFrame
      <4>1. 1 .. (TreeSize + 1) - 1 \subseteq DOMAIN subtree /\ DOMAIN subtree \subseteq CallFrame
        BY <2>2 DEF TreeIInv, Done
      <4>2. 1 .. (TreeSize + 1) - 1 = CallFrame
        BY FramesFinite DEF CallFrame
      <4>3. QED  BY <4>1, <4>2
    <3>2. \A c \in CallFrame : subtree[c] = Whole[c] /\ subtree[c] \in Int /\ Whole[c] \in Int
      BY <2>1, <3>1, WholeIs DEF SubtreesWhole
    <3>3. Inflow(s) = SumOver(subtree, Entered(s)) /\ Entered(s) \in SUBSET CallFrame
      BY <3>2, EnteredOnce
    <3>4. IsFiniteSet(Entered(s))
      BY <3>3, FramesFinite, FS_Subset
    <3>5. SumOver(subtree, Entered(s)) = SumOver(Whole, Entered(s))
      BY <3>2, <3>3, <3>4, SumSame
    <3>6. SelfOf(BelowAny(Entered(s))) = SumOver(Whole, Entered(s)) /\ BelowAny(Entered(s)) \in SUBSET CallFrame
      BY <2>1, <2>2, <3>3, EnteredApart, ApartAdds
    <3>7. QED  BY <3>3, <3>5, <3>6
  <2>3. QED  BY <2>1, <2>2 DEF InflowCountsOnce
<1>2. QED  BY WalkInvariant, <1>1, PTL
=============================================================================
