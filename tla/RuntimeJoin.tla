----------------------------- MODULE RuntimeJoin ----------------------------
(***************************************************************************)
(* How enrich attributes a CPU profile to the graph: the sampled frames are *)
(* taken one after the other, each one's url is resolved to a file of the   *)
(* graph and its name, or else its line, to a declaration in that file.     *)
(* A declaration begins on a line of its own and covers lines first..last.  *)
(***************************************************************************)
EXTENDS Integers, Sequences, FiniteSets, FiniteSetsExt, SequencesExt

CONSTANTS
  D,             \* how many declarations the sources have
  Lines,         \* how many lines a file has
  Names,         \* names of declarations
  Unnamed,       \* of a function without a name: V8 reports none or "(anonymous)"
  Paths,         \* the files of the project, each a sequence of segments
  Places,        \* where the profiled program's sources may have been
  Packages,      \* where the dependencies it loads may be
  TicksOf        \* how many ticks of the profiler find a function that executes

Decl == 1 .. D
Engine == 0                   \* a frame of node itself
Foreign == D + 1              \* a function of a dependency, in a file named like one of ours
Frame == Engine .. Foreign
Root == <<"proj">>            \* the --root of enrich

ASSUME JoinAssumption ==
  /\ D \in Nat \ {0} /\ Lines \in Nat \ {0} /\ Unnamed \notin Names
  /\ Paths \subseteq Seq(STRING) /\ IsFiniteSet(Paths)
  /\ Root \in Seq(STRING) /\ Places \subseteq Seq(STRING) /\ Packages \subseteq Seq(STRING)
  /\ TicksOf \in [Frame -> Nat \ {0}]

VARIABLES
  kind, name, file, first, last,   \* of each declaration
  profile,      \* how the profile came about, see Profile
  next,         \* the frame the join is at
  attributions, \* declaration -> samples
  dropped,      \* reason -> samples
  manifest      \* what enrich records about the coverage

layout == <<kind, name, file, first, last>>
vars == <<layout, profile, next, attributions, dropped, manifest>>

\* "local" functions are not in the graph, "Interface" nodes never execute.
Kinds == {"Function", "Interface", "local"}

Profile == [prefix : Places,          \* where the sources were when it was taken
            collapsed : BOOLEAN,        \* by a loader that puts everything on line 1
            qualified : BOOLEAN,        \* names are Class.method
            package : {<<>>} \cup Packages]

Within(d, e) == file[d] = file[e] /\ first[e] < first[d] /\ last[d] <= last[e]

Later(d, e) == d < e /\ file[d] = file[e]

\* Declarations nest, and only local ones in a local function. Which name is
\* which does not matter: the first declaration has the same one always, and
\* so do interfaces, which no name finds.
Init ==
  /\ file \in [Decl -> Paths]
  /\ first \in [Decl -> 1 .. Lines]
  /\ \A d, e \in Decl : Later(d, e) => first[d] < first[e]
  /\ last \in [Decl -> 1 .. Lines]
  /\ \A d \in Decl : first[d] <= last[d]
  /\ \A d, e \in Decl : Later(d, e) => last[d] < first[e] \/ last[e] <= last[d]
  /\ kind \in [Decl -> Kinds]
  /\ \A d, e \in Decl : Within(d, e) /\ kind[e] = "local" => kind[d] = "local"
  /\ name \in [Decl -> Names \cup {Unnamed}]
  /\ \A d \in Decl : name[d] = Unnamed => kind[d] = "local"
  /\ \A d \in Decl : d = 1 \/ kind[d] = "Interface" =>
                    name[d] \in {Unnamed, CHOOSE n \in Names : TRUE}
  /\ profile \in Profile
  /\ next = Engine
  /\ attributions = <<>>
  /\ dropped = [r \in {"no-file", "no-node", "ambiguous"} |-> 0]
  /\ manifest = <<>>

-----------------------------------------------------------------------------
\* A foreign function is named and placed like the first declaration.
Stands(f) == IF f = Foreign THEN 1 ELSE f

Executes(f) ==
  f # Engine => kind[Stands(f)] # "Interface" /\ (f = Foreign => profile.package # <<>>)

\* samplesByNode counts the ticks of each frame.
Samples == [f \in Frame |-> IF Executes(f) THEN TicksOf[f] ELSE 0]

\* What the frames S have been sampled together.
SamplesOf(S) == MapThenSumSet(LAMBDA f : Samples[f], S)

\* totalSamples.
TotalSamples == SamplesOf(Frame)

Url(f) ==
  IF f = Engine THEN <<"node:internal">>
  ELSE (IF f = Foreign THEN profile.package ELSE profile.prefix) \o file[Stands(f)]

\* aggregate: V8 counts lines from zero, so a collapsed line is line 1.
Line(f) == IF profile.collapsed THEN 1 ELSE first[Stands(f)]

FunctionName(f) ==
  LET n == name[Stands(f)]
  IN  IF n = Unnamed THEN <<>> ELSE IF profile.qualified THEN <<"Class", n>> ELSE <<n>>

-----------------------------------------------------------------------------
InGraph == {d \in Decl : kind[d] # "local"}

\* byFile: every file of the project has a Module node, which covers no lines.
FileNodes(path) == {d \in InGraph : file[d] = path}

\* The path below the root, or else the one path that ends the url.
ResolveFilePath(url) ==
  LET below == {p \in Paths : url = Root \o p}
      suffixed == {p \in Paths : IsSuffix(p, url)}
  IN  IF url = <<"node:internal">> THEN {}
      ELSE IF below # {} THEN below
      ELSE IF Cardinality(suffixed) = 1 THEN suffixed ELSE {}

\* candidateNames: the whole name and its last segment.
NameMatches(S, n) ==
  {d \in S : n # <<>> /\ kind[d] = "Function" /\ <<name[d]>> \in {n, <<Last(n)>>}}

Covering(S, line) == {d \in S : first[d] <= line /\ line <= last[d]}
Span(d) == last[d] - first[d]

\* enclosingNode with the comparison the other way.
OutermostNode(S, line) ==
  {d \in Covering(S, line) : \A e \in Covering(S, line) : Span(e) <= Span(d)}

\* The narrowest of S around the line, the later one of two as narrow.
EnclosingNode(S, line) ==
  {d \in Covering(S, line) :
     \A e \in Covering(S, line) :
       Span(d) < Span(e) \/ (Span(d) = Span(e) /\ first[d] >= first[e])}

\* resolveNode: the node, at most one, and why when there is none.
ResolveNode(S, f) ==
  LET named == NameMatches(S, FunctionName(f))
  IN  CASE Cardinality(named) = 1 -> [nodes |-> named, reason |-> "name"]
        [] Cardinality(named) > 1 -> [nodes |-> EnclosingNode(named, Line(f)), reason |-> "ambiguous"]
        [] OTHER -> [nodes |-> EnclosingNode(S, Line(f)), reason |-> "no-node"]

Resolution(f) ==
  LET path == ResolveFilePath(Url(f))
  IN  IF path = {} THEN [nodes |-> {}, reason |-> "no-file"]
      ELSE ResolveNode(UNION {FileNodes(p) : p \in path}, f)

-----------------------------------------------------------------------------
\* aggregate leaves out the frames without samples.
Advance == next' = Min({Foreign + 1} \cup {f \in Frame : f > next /\ Samples[f] > 0})

Attribute ==
  /\ next \in Frame
  /\ \E d \in Resolution(next).nodes :
       attributions' =
         [e \in DOMAIN attributions \cup {d} |->
            (IF e \in DOMAIN attributions THEN attributions[e] ELSE 0)
              + (IF e = d THEN Samples[next] ELSE 0)]
  /\ Advance
  /\ UNCHANGED <<layout, profile, dropped, manifest>>

RecordDrop ==
  /\ next \in Frame
  /\ Resolution(next).nodes = {}
  /\ dropped' = [dropped EXCEPT ![Resolution(next).reason] = @ + Samples[next]]
  /\ Advance
  /\ UNCHANGED <<layout, profile, attributions, manifest>>

Matched == MapThenSumSet(LAMBDA d : attributions[d], DOMAIN attributions)
Dropped == MapThenSumSet(LAMBDA r : dropped[r], DOMAIN dropped)

\* After the last frame enrich writes the metrics and the coverage.
WriteManifest ==
  /\ next = Foreign + 1 /\ manifest = <<>>
  /\ manifest' = [totalSamples |-> TotalSamples, matchedSamples |-> Matched]
  /\ UNCHANGED <<layout, profile, next, attributions, dropped>>

Next == Attribute \/ RecordDrop \/ WriteManifest

Spec == Init /\ [][Next]_vars

-----------------------------------------------------------------------------
Attributed(d) == IF d \in DOMAIN attributions THEN attributions[d] ELSE 0

\* Where the declarations can be, and how they were profiled.
LayoutOK ==
  /\ file \in [Decl -> Paths] /\ first \in [Decl -> 1 .. Lines] /\ last \in [Decl -> 1 .. Lines]
  /\ kind \in [Decl -> Kinds] /\ name \in [Decl -> Names \cup {Unnamed}]
  /\ profile \in Profile
  /\ \A d \in Decl : first[d] <= last[d] /\ (name[d] = Unnamed => kind[d] = "local")
  /\ \A d, e \in Decl :
       Later(d, e) => first[d] < first[e] /\ (last[d] < first[e] \/ last[e] <= last[d])

Executing == {f \in Frame : Executes(f)}

\* The declaration of the graph that function f is written in, at most one.
Holder(f) ==
  LET holders == {d \in InGraph : d = f \/ Within(f, d)}
  IN  {d \in holders : \A e \in holders : e = d \/ Within(d, e)}

\* The functions of f's file in the graph that have its name.
Namesakes(f) ==
  {d \in FileNodes(file[f]) : kind[d] = "Function" /\ name[d] = name[f] /\ name[f] # Unnamed}

AtHome == profile.prefix = Root

\* The sources were neither in the project's folder nor somewhere below it.
Elsewhere == profile.prefix # <<>> /\ profile.prefix[1] # Root[1]

\* Of the functions whose samples d was given, S: d itself if lines and paths are
\* those of the graph; then of the functions outside of the graph that nothing in it
\* shares its name with, those that d holds; and of others in the graph, none
\* but namesakes, whose samples d gets if they all stand on line 1.
Entitled(d, S) ==
  /\ AtHome /\ ~profile.collapsed => (d \in Executing => d \in S)
  /\ AtHome /\ ~profile.collapsed =>
       \A f \in (Decl \cap Executing) \ InGraph : Namesakes(f) = {} => (f \in S <=> d \in Holder(f))
  /\ AtHome \/ Elsewhere =>
       \A f \in (S \cap InGraph) \ {d} : d \in Namesakes(f) /\ first[d] = 1

\* The frames the join has come to whose samples d was given.
GivenTo(d) == {f \in Executing : f < next /\ d \in Resolution(f).nodes}

\* The samples of the frames the join has come to are either matched or dropped.
JoinIInv ==
  /\ LayoutOK
  /\ next \in 0 .. Foreign + 1
  /\ DOMAIN attributions \subseteq InGraph /\ attributions \in [DOMAIN attributions -> Nat]
  /\ dropped \in [{"no-file", "no-node", "ambiguous"} -> Nat]
  /\ \A d \in InGraph : Attributed(d) = SamplesOf(GivenTo(d))
  /\ Matched + Dropped = SamplesOf({f \in Frame : f < next})
  /\ manifest # <<>> =>
       next = Foreign + 1 /\ manifest = [totalSamples |-> TotalSamples, matchedSamples |-> Matched]

(***************************************************************************)
(* The metrics account for every sample: what was matched and dropped is    *)
(* the whole profile, and what a declaration has been given are the samples *)
(* of some functions. When the profile kept lines and paths, a function of  *)
(* the graph has its own samples however many others share its name, and    *)
(* one outside of the graph adds to the innermost declaration around it or  *)
(* is dropped, unless a function of the graph has the same name. Where the  *)
(* lines were collapsed or the sources were elsewhere no function of the    *)
(* graph gets what another one of the graph was running, unless it shares   *)
(* its name and stands on line 1.                                           *)
(***************************************************************************)
SamplesOwned ==
  manifest # <<>> =>
    /\ manifest.totalSamples = manifest.matchedSamples + Dropped
    /\ \A d \in InGraph :
         \E S \in SUBSET (Executing \ {Engine}) : Attributed(d) = SamplesOf(S) /\ Entitled(d, S)

(***************************************************************************)
(* enrich.md: among the frames that are dropped, "counted and labelled",    *)
(* are those of dependencies: no sample of one is attached to the project.  *)
(***************************************************************************)
DependenciesDropped ==
  manifest # <<>> =>
    \A d \in InGraph : \E S \in SUBSET (Decl \cap Executing) : Attributed(d) = SamplesOf(S)
=============================================================================
