----------------------------- MODULE SemanticGraph --------------------------
(***************************************************************************)
(* From the uses in a source file to the edges of the graph: the semantic,  *)
(* endpoint, config and API extractors give each use a scope and a target,  *)
(* the graph builder collapses equal edges into one with a count, load      *)
(* drops the edges without both ends, and dead-exports reads what is left.  *)
(* Every top-level declaration counts as exported.                          *)
(***************************************************************************)
EXTENDS SourceTree, Sequences

CONSTANT
  MaxUses         \* bound on the uses in the file

ASSUME UsesAssumption == MaxUses \in Nat

VARIABLES
  uses,       \* the uses in source order: what is used how, and where
  pending,    \* the uses the extractors have not come to
  edges,      \* the builder's edges: kind, from, to -> count
  phase,
  loaded      \* the relationships in the database

vars == <<treeVars, uses, pending, edges, phase, loaded>>

\* Graph-wide nodes: a configuration variable or an external API, and a route.
Outside == Size + 1
Endpoint == Size + 2

\* A symbol can be used where its declaration is in scope; a member wherever
\* the variable, class or interface that holds it can.
InScope ==
  LET inScope[d \in TreeNode] ==
        IF kind[d] \in {"method", "property", "signature", "object", "arrow"}
        THEN IF parent[d] = File THEN {} ELSE inScope[parent[d]]
        ELSE {at \in 0 .. Size : parent[d] = File \/ parent[d] \in Around[at]}
  IN  inScope

Named == {"function", "variable", "class", "interface", "method", "property", "signature"}

\* How a declaration is used.  "write" is a plain assignment, "update" one that
\* reads the old value too; "handle" registers a route with it, "outside" is a
\* read of process.env or a fetch.  "type" names a type in the annotation of the
\* declaration at: its own type, what it returns, or that of a parameter.
Use == [how : {"call", "new", "read", "write", "update", "handle", "outside", "type"},
        at : 0 .. Size, to : TreeNode \cup {Outside}]

\* A variable that holds a function.
HoldsFunction(d) == kind[d] = "variable" /\ \E f \in TreeNode : parent[f] = d /\ kind[f] = "arrow"

Legit(u) ==
  /\ IF u.how = "type" THEN KindOf(u.at) \notin {"file", "class", "interface", "object"}
     ELSE KindOf(u.at) \notin {"class", "interface", "signature"}
  /\ IF u.how = "outside" THEN u.to = Outside
     ELSE u.to \in TreeNode /\ kind[u.to] \in Named /\ u.at \in InScope[u.to]
  /\ u.how = "new" => kind[u.to] = "class"
  /\ u.how = "type" => kind[u.to] \in {"class", "interface"} /\ parent[u.to] # u.at
  /\ u.how = "call" => kind[u.to] \in {"function", "variable", "method", "signature"}
  /\ u.how = "read" => kind[u.to] \in {"function", "variable", "class"}
  /\ u.how \in {"write", "update"} => kind[u.to] = "variable"
  /\ u.how = "handle" => kind[u.to] \in {"function", "method"} \/ HoldsFunction(u.to)

Init ==
  /\ TreeInit
  /\ \E k \in 1 .. MaxUses : uses \in [1 .. k -> {u \in Use : Legit(u)}]
  /\ pending = DOMAIN uses
  /\ edges = <<>>
  /\ phase = "extract"
  /\ loaded = {}

-----------------------------------------------------------------------------
\* SemanticExtractor.isEmittedDeclaration: the parent is all it looks at.
IsEmittedDeclaration(d) ==
  IF kind[d] = "variable" THEN parent[d] = File
  ELSE IF parent[d] = File THEN kind[d] \in {"function", "class", "interface"}
  ELSE kind[parent[d]] \in {"class", "interface"} /\ kind[d] \in {"method", "signature"}

\* ScopeResolver.isEmitted: every method and property counts.
IsEmitted(d) ==
  \/ kind[d] \in {"method", "property"}
  \/ kind[d] \in {"function", "variable", "class", "interface"} /\ parent[d] = File

CallerScope(at) == Nearest(at, IsEmittedDeclaration)

EnclosingScope(at) == Nearest(at, IsEmitted)

\* File here is no scope: the read is not recorded.
ReaderScope(at) ==
  LET executable == Nearest(at, LAMBDA d : kind[d] \in {"function", "method"})
  IN  IF executable # File THEN executable
      ELSE Nearest(at, LAMBDA d : kind[d] \notin {"object", "arrow", "signature"})

Edge(k, from, to) == [kind |-> k, from |-> from, to |-> to]

\* extractValueAccess: a method is no value.
Access(k, u) ==
  IF /\ kind[u.to] \in {"function", "variable", "class"} /\ IsEmittedDeclaration(u.to)
     /\ ReaderScope(u.at) \notin {File, u.to}
  THEN {Edge(k, ReaderScope(u.at), u.to)} ELSE {}

\* Every assignment counted as a read of what it assigns to.
AccessesReadingAssigned(u) ==
  CASE u.how \in {"read", "handle"} -> {"READS"}
    [] u.how \in {"write", "update"} -> {"READS", "WRITES"}
    [] OTHER -> {}

\* isValueRead and isValueWrite; the handler a route is registered with is an
\* argument, and so a read.
Accesses(u) ==
  CASE u.how \in {"read", "handle"} -> {"READS"}
    [] u.how = "write" -> {"WRITES"}
    [] u.how = "update" -> {"READS", "WRITES"}
    [] OTHER -> {}

\* addTypeEdges, for the signatures, variables and properties of the file: any
\* class or interface will do.  RETURNS and PARAM_TYPE are one here.
TypeEdges(u) ==
  IF u.how # "type" \/ u.at \notin Emitted THEN {}
  ELSE {Edge(IF kind[u.at] \in {"variable", "property"} THEN "USES_TYPE" ELSE "SIGNATURE", u.at, u.to)}

EdgesOf(u) ==
  TypeEdges(u) \cup (UNION {Access(k, u) : k \in Accesses(u)}) \cup
    CASE u.how = "call" /\ IsEmittedDeclaration(u.to) -> {Edge("CALLS", CallerScope(u.at), u.to)}
      [] u.how = "new" /\ IsEmittedDeclaration(u.to) -> {Edge("INSTANTIATES", CallerScope(u.at), u.to)}
      [] u.how = "handle" /\ IsEmitted(u.to) -> {Edge("HANDLES", Endpoint, u.to)}
      [] u.how = "outside" -> {Edge("OUTSIDE", EnclosingScope(u.at), u.to)}
      [] OTHER -> {}

\* A repeated edge replaces the first.
AddedAnew(counts, new) ==
  [f \in DOMAIN counts \cup new |-> IF f \in new THEN 1 ELSE counts[f]]

\* addEdge, for each of the edges new.
Added(counts, new) ==
  [f \in DOMAIN counts \cup new |->
     (IF f \in DOMAIN counts THEN counts[f] ELSE 0) + (IF f \in new THEN 1 ELSE 0)]

\* The extractors come to the uses kind by kind and file by file, in no fixed order.
Merge(i) ==
  /\ i \in pending
  /\ pending' = pending \ {i}
  /\ edges' = Added(edges, EdgesOf(uses[i]))
  /\ UNCHANGED <<treeVars, uses, phase, loaded>>

GraphNodes == Emitted \cup {File, Outside, Endpoint}

Load ==
  /\ phase = "extract" /\ pending = {}
  /\ phase' = "loaded"
  /\ loaded' = {e \in DOMAIN edges : {e.from, e.to} \subseteq GraphNodes}
  /\ UNCHANGED <<treeVars, uses, pending, edges>>

Next == (\E i \in DOMAIN uses : Merge(i)) \/ Load

Spec == Init /\ [][Next]_vars

-----------------------------------------------------------------------------
\* Of REFERENCE_EDGE_KINDS those that occur here: to be written is not to be used.
References == {"CALLS", "INSTANTIATES", "READS", "HANDLES", "USES_TYPE", "SIGNATURE"}

\* Only references to the symbol itself keep it alive.
DeadByItself ==
  {d \in TopLevel : ~\E e \in loaded : e.kind \in References /\ e.to = d}

\* deadExports: neither the symbol nor anything it contains is referenced.
DeadExports ==
  {d \in TopLevel : ~\E e \in loaded : e.kind \in References /\ (e.to = d \/ <<d, e.to>> \in Contains)}

-----------------------------------------------------------------------------
\* The methods of classes declared inside a body, which are no nodes.
LocalMethod ==
  {d \in TreeNode : kind[d] = "method" /\ kind[parent[d]] = "class" /\ parent[parent[d]] # File}

Invocation ==
  {i \in DOMAIN uses : /\ uses[i].how \in {"call", "new"} /\ uses[i].to \in Emitted
                       /\ Around[uses[i].at] \cap LocalMethod = {}}

\* The innermost function, method, variable, class or interface of the graph
\* that an expression stands in.
Caller(at) == Nearest(at, LAMBDA d : d \in Emitted /\ kind[d] # "property")

(***************************************************************************)
(* Outside of the methods of local classes: every call and every new of a   *)
(* declaration in the graph is in the database, attributed to the innermost *)
(* declaration in the graph around it (arrow functions and the methods of   *)
(* object literals included) or to the module, and counted as often as it   *)
(* occurs in the source, whatever order the uses were merged in.            *)
(***************************************************************************)
InvocationsCounted ==
  phase = "loaded" =>
    \A i \in Invocation :
      LET same == {j \in Invocation : /\ uses[j].how = uses[i].how /\ uses[j].to = uses[i].to
                                      /\ Caller(uses[j].at) = Caller(uses[i].at)}
      IN  \E e \in loaded :
            /\ e.kind = (IF uses[i].how = "call" THEN "CALLS" ELSE "INSTANTIATES")
            /\ e.from = Caller(uses[i].at) /\ e.to = uses[i].to
            /\ edges[e] = Cardinality(same)

\* The function or method an expression stands in, in the graph or not, or else
\* the variable, property, class or interface.
Reader(at) ==
  LET bodies == {d \in Around[at] : kind[d] \in {"function", "method"}}
      others == {d \in Around[at] : kind[d] \in {"variable", "property", "class", "interface"}}
  IN  Max({File} \cup (IF bodies # {} THEN bodies ELSE others))

Touches(k) == IF k = "READS" THEN {"read", "update", "handle"} ELSE {"write", "update"}

(***************************************************************************)
(* value_access_edges.test.ts, for every nesting: how often a declaration   *)
(* of the graph reads and writes the value of another is what its READS and *)
(* its WRITES count, an update counting for both and a registered handler   *)
(* as read.                                                                 *)
(***************************************************************************)
AccessesCounted ==
  phase = "loaded" =>
    \A s \in Emitted, k \in {"READS", "WRITES"} :
      \A d \in {v \in TopLevel : kind[v] \in {"variable", "function", "class"}} \ {s} :
        LET times == Cardinality({i \in DOMAIN uses : /\ uses[i].how \in Touches(k) /\ uses[i].to = d
                                                     /\ Reader(uses[i].at) = s})
            e == Edge(k, s, d)
        IN  IF times = 0 THEN e \notin loaded ELSE e \in loaded /\ edges[e] = times

\* The uses dead-exports has to know of: outside of the methods of local classes,
\* reads only where Reader names a declaration of the graph, and types only in the
\* annotations of such a declaration.
Known(i) ==
  LET u == uses[i]
  IN  \/ i \in Invocation
      \/ u.how = "handle" /\ u.to \in Emitted
      \/ u.how = "type" /\ u.at \in Emitted
      \/ u.how \in {"read", "update"} /\ Reader(u.at) \in Emitted \ {u.to}

(***************************************************************************)
(* What dead-exports reports "for safe removal" is neither called nor       *)
(* constructed, neither the handler of a route nor read, nor the type of    *)
(* anything, nor is any of its members, so far as Known goes; and what it   *)
(* does not report is really used, by more than assignments to it.          *)
(***************************************************************************)
DeadExportsTrue ==
  phase = "loaded" =>
    \A d \in TopLevel :
      LET of(i) == uses[i].to \in {d} \cup MemberOf(d)
      IN  IF d \in DeadExports THEN ~\E i \in DOMAIN uses : Known(i) /\ of(i)
          ELSE \E i \in DOMAIN uses : uses[i].how \notin {"write", "outside"} /\ of(i)

-----------------------------------------------------------------------------
(* The inductive invariant: each edge counts the uses merged so far that    *)
(* give it, whatever their order.                                           *)

TreeOK ==
  /\ kind \in [TreeNode -> Kinds]
  /\ parent \in [TreeNode -> 0 .. Size - 1]
  /\ \A d \in TreeNode : parent[d] < d
  /\ Legal

UsesOK ==
  /\ uses \in Seq(Use) /\ \A i \in DOMAIN uses : Legit(uses[i])
  /\ pending \subseteq DOMAIN uses

Merged(e) == {i \in DOMAIN uses \ pending : e \in EdgesOf(uses[i])}

EdgesCounted ==
  /\ DOMAIN edges = UNION {EdgesOf(uses[i]) : i \in DOMAIN uses \ pending}
  /\ \A e \in DOMAIN edges : edges[e] = Cardinality(Merged(e))

SemanticIInv ==
  /\ TreeOK /\ UsesOK /\ EdgesCounted
  /\ phase = "loaded" =>
       pending = {} /\ loaded = {e \in DOMAIN edges : {e.from, e.to} \subseteq GraphNodes}

-----------------------------------------------------------------------------
(***************************************************************************)
(* dead-exports.md: the READS edge "is why exported consts referenced only  *)
(* as values are not flagged": a declaration read outside itself is not     *)
(* reported dead.                                                           *)
(***************************************************************************)
ReadKeepsAlive ==
  phase = "loaded" =>
    \A i \in DOMAIN uses :
      uses[i].how = "read" /\ uses[i].to \notin Around[uses[i].at] => uses[i].to \notin DeadExports

(***************************************************************************)
(* dead-exports.md: what "appears dead but is not" is "referenced           *)
(* exclusively through dynamic access", and USES_TYPE means that "this type *)
(* is used in a type position": a type that is named outside of its own     *)
(* declaration is not reported dead.                                        *)
(***************************************************************************)
TypeKeepsAlive ==
  phase = "loaded" =>
    \A i \in DOMAIN uses :
      uses[i].how = "type" /\ uses[i].to \notin Around[uses[i].at] => uses[i].to \notin DeadExports

(***************************************************************************)
(* scope_resolver.ts: "the returned id always exists in the graph and the   *)
(* edge built from it is never dropped at load".                            *)
(***************************************************************************)
ScopeAlwaysExists ==
  phase = "loaded" =>
    \A i \in DOMAIN uses : uses[i].how = "outside" => EdgesOf(uses[i]) \subseteq loaded

(***************************************************************************)
(* semantic_extractor.ts: isEmittedDeclaration tells "whether a declaration *)
(* was emitted as a node", so that no edge of a call or a new dangles and   *)
(* is "silently dropped at load".                                           *)
(***************************************************************************)
InvocationsNeverDangle ==
  phase = "loaded" =>
    \A e \in DOMAIN edges : e.kind \in {"CALLS", "INSTANTIATES"} => e \in loaded
=============================================================================
