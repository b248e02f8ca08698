----------------------------- MODULE GraphModel -----------------------------
(***************************************************************************)
(* The data codespine's commands exchange: rows, edges and manifests as the *)
(* Kuzu database stores them, and the pure functions that compute what a    *)
(* command writes from what it read.                                        *)
(***************************************************************************)
EXTENDS Integers, FiniteSets, Sequences

CONSTANTS
  Ids,            \* node ids the extractor can emit
  Revs,           \* revisions of the analysed project
  NodeLines,      \* NodeLines[r]: the node ids extract emits for revision r
  EdgeLines,      \* EdgeLines[r]: the edges it emits for r, some dangling
  GitRevs,        \* revisions GitSource.detect finds a GitHub origin for
  Warm,           \* revisions the output folder may have been extracted and
                  \* loaded at before
  Profiles,       \* CPU profiles that can be ingested
  UserLabels,     \* community names a user or agent can choose
  StaticKinds,    \* edge kinds the extractor emits
  RuntimeKind,    \* CALLS_RUNTIME, the kind only enrich writes
  WeightedKinds,  \* the kinds CLUSTER_EDGE_WEIGHTS gives a weight to
  Names,          \* function names
  NameOf,         \* NameOf[n]: the name of node n
  Words,          \* the texts a community label is made of
  DisplayOf,      \* DisplayOf[n]: the name of n, for a module its file's base name
  FileOf,         \* FileOf[n]: the directory, its last segment (None at the
                  \* root), the base name and the extension of n's file
  Within,         \* the pairs of texts the first of which is part of the second
  Frames,         \* Frames[p]: the names of the frames sampled in profile p
  CallTree,       \* CallTree[p]: the caller-callee pairs of its call tree
  MaxIndex,       \* largest community index a labels file names
  None            \* absence of a value

EmptyMap == [x \in {} |-> x]

Relation == [kind : StaticKinds, from : Ids, to : Ids]

Kinds == StaticKinds \cup {RuntimeKind}

ASSUME GraphAssumption ==
  /\ IsFiniteSet(Ids)
  /\ NodeLines \in [Revs -> SUBSET Ids]
  /\ EdgeLines \in [Revs -> SUBSET Relation]
  /\ GitRevs \subseteq Revs
  /\ Warm \subseteq Revs
  /\ RuntimeKind \notin StaticKinds
  /\ WeightedKinds \subseteq Kinds
  /\ NameOf \in [Ids -> Names]
  /\ DisplayOf \in [Ids -> Words]
  /\ \A n \in Ids : /\ FileOf[n].base \in Words
                    /\ FileOf[n].area \in Words \cup {None}
  /\ \A w \in Words : <<w, w>> \in Within
  /\ Frames \in [Profiles -> SUBSET Names]
  /\ CallTree \in [Profiles -> SUBSET (Names \X Names)]
  /\ MaxIndex \in Nat
  /\ None \notin Revs \cup Profiles \cup Nat

-----------------------------------------------------------------------------
(***************************************************************************)
(* A community label: the labeler's, one text or two joined by a dot and    *)
(* perhaps an index after a hash, or one a user chose.                      *)
(***************************************************************************)
Phrase == [1..1 -> Words] \cup [1..2 -> Words]

AutoLabel == [words : Phrase, suffix : (0..(Cardinality(Ids) - 1)) \cup {None}]

Labels == AutoLabel \cup [user : UserLabels]

(***************************************************************************)
(* A row keeps the columns and static metadata of the extraction it came    *)
(* from (rev) and the three keys later commands merge into metadata.  An    *)
(* edge keeps the extraction or profile its metadata came from (stamp).     *)
(***************************************************************************)
Row == [ rev       : Revs \cup {None},
         runtime   : Profiles \cup {None},
         community : Nat \cup {None},
         label     : Labels \cup {None} ]

\* What load writes: every metadata key of an earlier command is gone.
FreshRow(r) == [rev |-> r, runtime |-> None, community |-> None, label |-> None]

NoRow == FreshRow(None)

Edge == [kind : Kinds, from : Ids, to : Ids, stamp : Revs \cup Profiles \cup {None}]

Stamped(e, r) == [kind |-> e.kind, from |-> e.from, to |-> e.to, stamp |-> r]

SameRelation(e, f) == e.kind = f.kind /\ e.from = f.from /\ e.to = f.to

\* load() skips an edge unless both endpoints are among the nodes of its input.
Insertable(links, nodes) == {e \in links : {e.from, e.to} \subseteq nodes}

\* The labels array of the clustering manifest, indexed by community.
ClusteringManifest == UNION { [0..(k - 1) -> Labels] : k \in 0..Cardinality(Ids) }

\* No labels array is the absence of one.
ASSUME ManifestAssumption ==
  \A k \in 0..Cardinality(Ids) : None \notin [0..(k - 1) -> Labels]

Meta == [ source     : Revs \cup {None},
          runtime    : Profiles \cup {None},
          clustering : ClusteringManifest \cup {None} ]

\* GitSource.detect: the commit it names for a tree at revision r.
SourceOf(r) == IF r \in GitRevs THEN r ELSE None

NoMeta == [source |-> None, runtime |-> None, clustering |-> None]

-----------------------------------------------------------------------------
(***************************************************************************)
(* RuntimeJoin on a transpiled profile, whose frames carry names but no     *)
(* lines: a name that several nodes of S carry is ambiguous and dropped.    *)
(***************************************************************************)
Resolves(n, S) == \A m \in S : NameOf[m] = NameOf[n] => m = n

\* RuntimeJoin.join: the nodes of S that profile p is attributed to.
Attributed(p, S) == {n \in S : NameOf[n] \in Frames[p] /\ Resolves(n, S)}

\* RuntimeJoin.joinCallEdges: recursion (from = to) is dropped.
RuntimeEdges(p, S) ==
  { [kind |-> RuntimeKind, from |-> c[1], to |-> c[2], stamp |-> p] :
      c \in { d \in S \X S : /\ d[1] # d[2]
                             /\ <<NameOf[d[1]], NameOf[d[2]]>> \in CallTree[p]
                             /\ Resolves(d[1], S)
                             /\ Resolves(d[2], S) } }

RuntimeEdgesOf(E) == {e \in E : e.kind = RuntimeKind}

-----------------------------------------------------------------------------
\* readWeightedEdges: the edges of the kinds with a weight, of whatever strength.
Weighted(E) == {e \in E : e.kind \in WeightedKinds}

\* CommunityDetector.indexNodes: the endpoints of the weighted edges.
Touched(E) == {e.from : e \in Weighted(E)} \cup {e.to : e \in Weighted(E)}

MembersOf(f, i) == {n \in DOMAIN f : f[n] = i}

(***************************************************************************)
(* Leiden is random: any partition of S into k communities can come out of  *)
(* it, and orderClustersByNNodes numbers them by descending size.           *)
(***************************************************************************)
Partitions(S, k) ==
  { f \in [S -> 0..(k - 1)] :
      /\ \A i \in 0..(k - 1) : MembersOf(f, i) # {}
      /\ \A i, j \in 0..(k - 1) :
           i < j => Cardinality(MembersOf(f, i)) >= Cardinality(MembersOf(f, j)) }

-----------------------------------------------------------------------------
\* The directory of m's file holds at least 60 % of the members and has a name.
Dominates(m, members) ==
  /\ FileOf[m].area # None
  /\ 10 * Cardinality({n \in members : FileOf[n].dir = FileOf[m].dir})
       >= 6 * Cardinality(members)

(***************************************************************************)
(* composeLabel: the file's base name for a community within one file,      *)
(* otherwise the hub, after the area if most members share one.             *)
(***************************************************************************)
Composed(members, hub) ==
  IF \A m, n \in members : FileOf[m] = FileOf[n] THEN <<FileOf[hub].base>>
  ELSE IF \E m \in members : Dominates(m, members)
       THEN <<FileOf[CHOOSE m \in members : Dominates(m, members)].area, DisplayOf[hub]>>
       ELSE <<DisplayOf[hub]>>

\* disambiguate renames the labels more than one community has.
Shared(phrases, i) == \E j \in DOMAIN phrases : j # i /\ phrases[j] = phrases[i]

Mentions(phrase, word) == \E i \in DOMAIN phrase : <<word, phrase[i]>> \in Within

\* dedupe, first pass: a shared label gains its hub, unless it mentions it.
WithHub(phrases, hub) ==
  [ i \in DOMAIN phrases |->
      IF Shared(phrases, i) /\ ~Mentions(phrases[i], DisplayOf[hub[i]])
      THEN Append(phrases[i], DisplayOf[hub[i]]) ELSE phrases[i] ]

\* Mutant of WithIndex: there is no second pass.
WithoutIndex(phrases) ==
  [i \in DOMAIN phrases |-> [words |-> phrases[i], suffix |-> None]]

\* dedupe, second pass: a label still shared gains the index of its community.
WithIndex(phrases) ==
  [ i \in DOMAIN phrases |-> [ words |-> phrases[i],
                              suffix |-> IF Shared(phrases, i) THEN i ELSE None ] ]

\* The hub is the member the others couple to most.  Weights are left out: any
\* member can be it.
Hubs(f, k) == {h \in [0..(k - 1) -> DOMAIN f] : \A i \in 0..(k - 1) : h[i] \in MembersOf(f, i)}

\* CommunityLabeler.label: the labels array for each choice of hubs.
AutoLabels(f, k) ==
  { WithIndex(WithHub([i \in 0..(k - 1) |-> Composed(MembersOf(f, i), h[i])], h)) :
      h \in Hubs(f, k) }
-----------------------------------------------------------------------------

\* The nodes of S whose row carries community index i.
CommunityIn(S, rows, i) == {n \in S : rows[n].community = i}

\* The labels file: the names a user gives to some community indices.
LabelsFile == UNION {[S -> UserLabels] : S \in SUBSET (0..MaxIndex)}

\* currentLabelOf takes the label of the first member: the rows come back in no
\* stated order, so any member can be first.
CurrentLabels(S, rows, i) == {rows[n].label : n \in CommunityIn(S, rows, i)}

\* CommunityNamer.plan drops an index no member carries and a label already current.
Plans(file, S, rows) ==
  { plan \in SUBSET DOMAIN file :
      \A i \in DOMAIN file :
        LET current == CurrentLabels(S, rows, i)
        IN  IF i \in plan THEN current \ {[user |-> file[i]]} # {}
            ELSE current = {} \/ [user |-> file[i]] \in current }

\* Mutant of UpdatedManifest: the check of the index against labels.length is gone.
UpdatedManifestUnchecked(labels, file) ==
  [ i \in DOMAIN labels \cup DOMAIN file |->
      IF i \in DOMAIN file THEN [user |-> file[i]] ELSE labels[i] ]

\* updateManifestLabels renames every index of the file the labels array has,
\* whether or not the plan changes it.
UpdatedManifest(labels, file) ==
  [ i \in DOMAIN labels |->
      IF i \in DOMAIN file THEN [user |-> file[i]] ELSE labels[i] ]
=============================================================================
