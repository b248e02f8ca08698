---------------------------- MODULE AtomicCommands --------------------------
(***************************************************************************)
(* What load, enrich, cluster and rename promise as long as none of them is *)
(* killed: each is one atomic change of the database, computed from the     *)
(* database it found, although the code runs it as many statements that     *)
(* commit one by one.                                                       *)
(***************************************************************************)
EXTENDS GraphModel

VARIABLES stored, row, edges, meta

vars == <<stored, row, edges, meta>>

Init ==
  \/ /\ stored = {}
     /\ row = [n \in Ids |-> NoRow]
     /\ edges = {}
     /\ meta = NoMeta
  \/ \E r \in Warm :
       /\ stored = NodeLines[r]
       /\ row = [n \in Ids |-> IF n \in NodeLines[r] THEN FreshRow(r) ELSE NoRow]
       /\ edges = {Stamped(e, r) : e \in Insertable(EdgeLines[r], NodeLines[r])}
       /\ meta = [NoMeta EXCEPT !.source = SourceOf(r)]

\* The nodes named get fresh rows, the insertable edges replace their namesakes,
\* everything else stays: a load adds, it never removes.
Load(nodes, nodeRev, links, linkRev, source) ==
  LET new == Insertable(links, nodes) IN
  /\ stored' = stored \cup nodes
  /\ row' = [n \in Ids |-> IF n \in nodes THEN FreshRow(nodeRev) ELSE row[n]]
  /\ edges' = {f \in edges : \A e \in new : ~SameRelation(e, f)}
                \cup {Stamped(e, linkRev) : e \in new}
  /\ meta' = [meta EXCEPT !.source = source, !.runtime = None]

Enrich(p) ==
  /\ row' = [n \in Ids |-> IF n \in Attributed(p, stored)
                           THEN [row[n] EXCEPT !.runtime = p]
                           ELSE row[n]]
  /\ edges' = {e \in edges : e.kind # RuntimeKind} \cup RuntimeEdges(p, stored)
  /\ meta' = [meta EXCEPT !.runtime = p]
  /\ UNCHANGED stored

Cluster(f, labels) ==
  /\ row' = [n \in Ids |-> IF n \in DOMAIN f
                           THEN [row[n] EXCEPT !.community = f[n],
                                               !.label = labels[f[n]]]
                           ELSE row[n]]
  /\ meta' = [meta EXCEPT !.clustering = labels]
  /\ UNCHANGED <<stored, edges>>

Rename(file, plan) ==
  /\ \E n \in stored : row[n].community # None
  /\ row' = [n \in Ids |-> IF n \in stored /\ row[n].community \in plan
                           THEN [row[n] EXCEPT !.label = [user |-> file[row[n].community]]]
                           ELSE row[n]]
  /\ meta' = IF meta.clustering = None THEN meta
             ELSE [meta EXCEPT !.clustering = UpdatedManifest(@, file)]
  /\ UNCHANGED <<stored, edges>>

\* The files load reads can be parts of two different extractions.
LoadCommand ==
  \E r, q \in Revs, source \in GitRevs \cup {None} :
    \E nodes \in SUBSET NodeLines[r], links \in SUBSET EdgeLines[q] :
      Load(nodes, r, links, q, source)

EnrichCommand == \E p \in Profiles : Enrich(p)

ClusterCommand ==
  \E k \in 0..Cardinality(Ids) : \E f \in Partitions(Touched(edges), k) :
    \E labels \in AutoLabels(f, k) : Cluster(f, labels)

RenameCommand ==
  \E file \in LabelsFile : \E plan \in Plans(file, stored, row) : Rename(file, plan)

Next == LoadCommand \/ EnrichCommand \/ ClusterCommand \/ RenameCommand

Spec == Init /\ [][Next]_vars
=============================================================================
