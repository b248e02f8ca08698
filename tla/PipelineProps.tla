---------------------------- MODULE PipelineProps ---------------------------
(***************************************************************************)
(* What the commands promise one another about the shared output folder,    *)
(* and the promises of the documentation that the code does not keep.       *)
(***************************************************************************)
EXTENDS Pipeline

Quiescent == lock = None

-----------------------------------------------------------------------------
Owned(n) ==
  /\ row'[n].runtime # row[n].runtime => lock \in {Enricher} \cup Loaders
  /\ row'[n].community # row[n].community => lock \in {Clusterer} \cup Loaders
  /\ row'[n].label # row[n].label => lock \in {Clusterer, Renamer} \cup Loaders
  /\ row'[n].rev # row[n].rev => lock \in Loaders

(***************************************************************************)
(* The metadata column is written whole, from a copy read earlier in the    *)
(* session ("the caller is responsible for merging so that only the         *)
(* intended keys change", writeNodeMetadata).  No command loses a key of    *)
(* another: runtime changes only while enrich or load has the database,     *)
(* community only under cluster or load, communityLabel only under cluster, *)
(* rename or load.                                                          *)
(***************************************************************************)
KeyOwnership == [][\A n \in Ids : Owned(n)]_vars

SameExcept(r, s, keys) ==
  \A k \in {"rev", "runtime", "community", "label"} \ keys : r[k] = s[k]

(***************************************************************************)
(* The session discipline KeyOwnership rests on: whoever is between its     *)
(* first and its last access to the database holds the lock, the copy of    *)
(* the rows it writes back still agrees with the database on every key it   *)
(* does not own, and it knows a value for every node it has yet to write.   *)
(***************************************************************************)
LockHeld ==
  /\ \A l \in Loaders : ld[l].pc \in {"merge", "runtime", "close"} => lock = l
  /\ en.pc # "idle" => lock = Enricher
  /\ cl.pc # "idle" => lock = Clusterer
  /\ rn.pc # "idle" => lock = Renamer

RowsFresh ==
  /\ en.pc = "nodes" => \A n \in Ids : SameExcept(en.rows[n], row[n], {"runtime"})
  /\ cl.pc = "nodes" => \A n \in Ids : SameExcept(cl.rows[n], row[n], {"community", "label"})
  /\ rn.pc = "nodes" => \A n \in Ids : SameExcept(rn.rows[n], row[n], {"label"})

WorkKnown ==
  /\ ex.pc # Idle => ex.rev \in Revs
  /\ en.pc # "idle" => en.profile \in Profiles
  /\ cl.pc = "nodes" => \A n \in cl.todo : /\ n \in DOMAIN cl.communityOf
                                           /\ cl.communityOf[n] \in DOMAIN cl.labels
  /\ rn.pc = "nodes" => \A n \in rn.todo : rn.rows[n].community \in DOMAIN rn.file

SessionsFresh == LockHeld /\ RowsFresh /\ WorkKnown

(***************************************************************************)
(* The database holds the enrichment of profile p: its manifest, exactly    *)
(* its CALLS_RUNTIME edges, and its metrics on every node it resolves to.   *)
(***************************************************************************)
Enriched(p) ==
  /\ meta.runtime = p
  /\ RuntimeEdgesOf(edges) = RuntimeEdges(p, stored)
  /\ \A n \in Attributed(p, stored) : row[n].runtime = p

(***************************************************************************)
(* A completed enrich leaves the enrichment of its profile, whatever an     *)
(* earlier profile, a reload or an interrupted run left ("a re-run never    *)
(* leaves stale edges behind", clearEdgesByKind).                           *)
(***************************************************************************)
EnrichRepairs == EnrichDone => Enriched(en.profile)

(***************************************************************************)
(* A completed load has every node it read with fresh metadata, every       *)
(* insertable edge with the metadata read, the source read and no runtime   *)
(* manifest, whatever an interrupted load left.                             *)
(***************************************************************************)
LoadRepairs ==
  \A l \in Loaders : ld[l].pc = "close" =>
    /\ \A n \in ld[l].nodes : n \in stored /\ row[n] = FreshRow(ld[l].nodeRev)
    /\ \A e \in Insertable(ld[l].links, ld[l].nodes) :
         {f \in edges : SameRelation(e, f)} = {Stamped(e, ld[l].linkRev)}
    /\ meta.source = ld[l].source
    /\ meta.runtime = None

\* How far a command has got: what is no longer to be done is in the database.
EnrichProgress ==
  en.pc \in {"nodes", "clear", "edges"} =>
    /\ en.ids = stored
    /\ en.todoNodes \subseteq Attributed(en.profile, stored)
    /\ \A n \in Attributed(en.profile, stored) \ en.todoNodes : row[n].runtime = en.profile
    /\ en.pc # "nodes" => en.todoNodes = {} /\ meta.runtime = en.profile
    /\ en.pc = "edges" =>
         /\ en.todoEdges \subseteq RuntimeEdges(en.profile, stored)
         /\ RuntimeEdgesOf(edges) = RuntimeEdges(en.profile, stored) \ en.todoEdges

LoadProgress(l) ==
  ld[l].pc \in {"merge", "runtime", "close"} =>
    /\ ld[l].todoNodes \subseteq ld[l].nodes
    /\ ld[l].todoLinks \subseteq Insertable(ld[l].links, ld[l].nodes)
    /\ \A n \in ld[l].nodes \ ld[l].todoNodes : n \in stored /\ row[n] = FreshRow(ld[l].nodeRev)
    /\ \A e \in Insertable(ld[l].links, ld[l].nodes) \ ld[l].todoLinks :
         {f \in edges : SameRelation(e, f)} = {Stamped(e, ld[l].linkRev)}
    /\ ld[l].pc # "merge" =>
         ld[l].todoNodes = {} /\ ld[l].todoLinks = {} /\ meta.source = ld[l].source
    /\ ld[l].pc = "close" => meta.runtime = None

ClusterProgress ==
  cl.pc \in {"nodes", "close"} =>
    /\ cl.todo \subseteq DOMAIN cl.communityOf /\ DOMAIN cl.communityOf \subseteq stored
    /\ \A n \in DOMAIN cl.communityOf : cl.communityOf[n] \in DOMAIN cl.labels
    /\ \A i, j \in DOMAIN cl.labels : cl.labels[i] = cl.labels[j] => i = j
    /\ \A n \in DOMAIN cl.communityOf \ cl.todo :
         row[n].community = cl.communityOf[n] /\ row[n].label = cl.labels[cl.communityOf[n]]
    /\ cl.pc = "close" => cl.todo = {} /\ meta.clustering = cl.labels

\* MATCH both endpoints: no edge is without its nodes.
EdgesAnchored == \A e \in edges : {e.from, e.to} \subseteq stored

Progress ==
  /\ EdgesAnchored /\ EnrichProgress /\ ClusterProgress
  /\ \A l \in Loaders : LoadProgress(l)

(***************************************************************************)
(* A completed cluster leaves index and label of every node of its          *)
(* partition in agreement with the manifest, and two nodes share a label    *)
(* exactly when they share a community.                                     *)
(***************************************************************************)
ClusterRepairs ==
  cl.pc = "close" =>
    /\ meta.clustering = cl.labels
    /\ \A n \in DOMAIN cl.communityOf :
         /\ n \in stored
         /\ row[n].community \in DOMAIN meta.clustering
         /\ row[n].label = meta.clustering[row[n].community]
    /\ \A m, n \in DOMAIN cl.communityOf :
         row[m].label = row[n].label <=> row[m].community = row[n].community

(***************************************************************************)
(* While no command is killed, a runtime manifest that is there describes   *)
(* the metrics and the runtime call graph in the database: load clears it   *)
(* before it lets go of nodes it has stripped of their metrics.             *)
(***************************************************************************)
ManifestCurrent == Quiescent /\ meta.runtime # None => Enriched(meta.runtime)

-----------------------------------------------------------------------------
(***************************************************************************)
(* source_manifest.ts: the provenance is "captured by extract at the exact  *)
(* commit and root it parsed".                                              *)
(***************************************************************************)
SourceIsParsedCommit == ex.commit # None => ex.commit = ex.rev

(***************************************************************************)
(* The same promise for the file: an extraction that detected no source     *)
(* leaves no source.json for the next load to publish.                      *)
(***************************************************************************)
UndetectedSourceIsAbsent ==
  [][ex.pc = "source" /\ ex.commit = None /\ ex'.pc = Idle => sourceFile' = None]_vars

(***************************************************************************)
(* runtime_manifest.ts: "matched* are the part attached to nodes": the      *)
(* nodes that carry metrics are the ones the manifest's profile resolved to.*)
(***************************************************************************)
MetricsMatchManifest ==
  Quiescent /\ meta.runtime # None =>
    {n \in stored : row[n].runtime # None} = Attributed(meta.runtime, stored)

(***************************************************************************)
(* cluster.md: rename "writes the labels onto metadata.communityLabel for   *)
(* every member", and "a re-run is safe".                                   *)
(***************************************************************************)
RenameReachesEveryMember ==
  rn.pc = "close" =>
    \A i \in DOMAIN rn.file : \A n \in CommunityIn(stored, row, i) :
      row[n].label = [user |-> rn.file[i]]

(***************************************************************************)
(* cluster.md: "a later `cluster` resets labels to the structural           *)
(* baseline": when it is through, no node keeps a name a user chose.        *)
(***************************************************************************)
ClusterResetsLabels ==
  cl.pc = "close" => \A n \in stored : row[n].label \notin [user : UserLabels]

(***************************************************************************)
(* cluster.md: "Unknown indexes are ignored": a rename changes the manifest *)
(* label of a community only when some node belongs to that community.      *)
(***************************************************************************)
UnknownIndexIgnored ==
  [][ rn.pc = "nodes" /\ rn'.pc = "close" /\ meta.clustering # None =>
        \A i \in DOMAIN meta.clustering :
          meta'.clustering[i] # meta.clustering[i] => CommunityIn(stored, row, i) # {}
    ]_vars

(***************************************************************************)
(* kuzu_store.ts: the count load() returns is "the true number of           *)
(* relationships in the database".                                          *)
(***************************************************************************)
LoadCountsTheDatabase ==
  \A l \in Loaders : ld[l].pc = "close" =>
    Cardinality(Insertable(ld[l].links, ld[l].nodes)) = Cardinality(edges)
=============================================================================
