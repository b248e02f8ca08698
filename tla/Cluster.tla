------------------------------- MODULE Cluster ------------------------------
(***************************************************************************)
(* The cluster command (GraphClusterer) and cluster rename.  Both read the  *)
(* nodes once and then write whole metadata records back, node by node,     *)
(* before they write the clustering manifest.                               *)
(***************************************************************************)
EXTENDS KuzuStore

CONSTANTS
  Clusterer,      \* the process running cluster
  Renamer         \* the process running cluster rename

ASSUME ClusterAssumption ==
  /\ {Clusterer, Renamer} \subseteq Clients
  /\ Clusterer # Renamer

VARIABLES cl,     \* the clusterer
          rn      \* the renamer

ClusterState == [ pc          : {"idle", "read", "nodes", "close"},
                  communityOf : UNION {[S -> 0..Cardinality(Ids)] : S \in SUBSET Ids},
                  labels      : ClusteringManifest,
                  rows        : [Ids -> Row],
                  todo        : SUBSET Ids ]

IdleClusterer == [ pc |-> "idle", communityOf |-> EmptyMap, labels |-> EmptyMap,
                   rows |-> [n \in Ids |-> NoRow], todo |-> {} ]

RenameState == [ pc   : {"idle", "read", "nodes", "close"},
                 file : LabelsFile,
                 rows : [Ids -> Row],
                 todo : SUBSET Ids ]

IdleRenamer == [ pc |-> "idle", file |-> EmptyMap,
                 rows |-> [n \in Ids |-> NoRow], todo |-> {} ]

ClusterTypeOK ==
  /\ cl \in ClusterState
  /\ rn \in RenameState

ClusterInit ==
  /\ cl = IdleClusterer
  /\ rn = IdleRenamer

-----------------------------------------------------------------------------
ClusterOpen ==
  /\ cl.pc = "idle"
  /\ OpenStore(Clusterer)
  /\ cl' = [IdleClusterer EXCEPT !.pc = "read"]
  /\ UNCHANGED <<dbVars, rn>>

ClusterDetect ==
  /\ cl.pc = "read"
  /\ \E k \in 0..Cardinality(Ids) : \E f \in Partitions(Touched(edges), k) :
     \E labels \in AutoLabels(f, k) :
       cl' = [ pc          |-> "nodes",
               communityOf |-> f,
               labels      |-> labels,
               rows        |-> row,
               todo        |-> Touched(edges) \cap stored ]
  /\ UNCHANGED <<dbVars, lock, rn>>

\* Mutant of ClusterWriteNode: the spread of node.metadata is forgotten.
ClusterOverwriteNode ==
  /\ cl.pc = "nodes"
  /\ \E n \in cl.todo :
       LET i == cl.communityOf[n] IN
       /\ WriteNodeMetadata(n, [NoRow EXCEPT !.community = i, !.label = cl.labels[i]])
       /\ cl' = [cl EXCEPT !.todo = @ \ {n}]
  /\ UNCHANGED <<lock, rn>>

ClusterWriteNode ==
  /\ cl.pc = "nodes"
  /\ \E n \in cl.todo :
       LET i == cl.communityOf[n] IN
       /\ WriteNodeMetadata(n, [cl.rows[n] EXCEPT !.community = i, !.label = cl.labels[i]])
       /\ cl' = [cl EXCEPT !.todo = @ \ {n}]
  /\ UNCHANGED <<lock, rn>>

ClusterManifest ==
  /\ cl.pc = "nodes"
  /\ cl.todo = {}
  /\ WriteGraphMeta("clustering", cl.labels)
  /\ cl' = [cl EXCEPT !.pc = "close"]
  /\ UNCHANGED <<lock, rn>>

ClusterClose ==
  /\ cl.pc = "close"
  /\ CloseStore(Clusterer)
  /\ cl' = IdleClusterer
  /\ UNCHANGED <<dbVars, rn>>

ClusterCrash ==
  /\ cl.pc # "idle"
  /\ cl' = IdleClusterer
  /\ lock' = None
  /\ UNCHANGED <<dbVars, rn>>

-----------------------------------------------------------------------------
RenameOpen(file) ==
  /\ rn.pc = "idle"
  /\ OpenStore(Renamer)
  /\ rn' = [IdleRenamer EXCEPT !.pc = "read", !.file = file]
  /\ UNCHANGED <<dbVars, cl>>

RenamePlan ==
  /\ rn.pc = "read"
  /\ \E n \in stored : row[n].community # None
  /\ \E plan \in Plans(rn.file, stored, row) :
       rn' = [rn EXCEPT !.pc = "nodes", !.rows = row,
                        !.todo = {n \in stored : row[n].community \in plan}]
  /\ UNCHANGED <<dbVars, lock, cl>>

\* "no communities found - run cluster first": closed without a write.
RenameNothing ==
  /\ rn.pc = "read"
  /\ \A n \in stored : row[n].community = None
  /\ rn' = [rn EXCEPT !.pc = "close"]
  /\ UNCHANGED <<dbVars, lock, cl>>

\* Mutant of RenameWriteNode: the index is kept but the other metadata is not.
RenameOverwriteNode ==
  /\ rn.pc = "nodes"
  /\ \E n \in rn.todo :
       LET i == rn.rows[n].community IN
       /\ WriteNodeMetadata(n, [NoRow EXCEPT !.community = i, !.label = [user |-> rn.file[i]]])
       /\ rn' = [rn EXCEPT !.todo = @ \ {n}]
  /\ UNCHANGED <<lock, cl>>

RenameWriteNode ==
  /\ rn.pc = "nodes"
  /\ \E n \in rn.todo :
       /\ WriteNodeMetadata(n, [rn.rows[n] EXCEPT
                                  !.label = [user |-> rn.file[rn.rows[n].community]]])
       /\ rn' = [rn EXCEPT !.todo = @ \ {n}]
  /\ UNCHANGED <<lock, cl>>

\* Mutant of RenameManifest: the manifest keeps the old names.
RenameKeepManifest ==
  /\ rn.pc = "nodes"
  /\ rn.todo = {}
  /\ UNCHANGED dbVars
  /\ rn' = [rn EXCEPT !.pc = "close"]
  /\ UNCHANGED <<lock, cl>>

RenameManifest ==
  /\ rn.pc = "nodes"
  /\ rn.todo = {}
  /\ IF meta.clustering # None
     THEN WriteGraphMeta("clustering", UpdatedManifest(meta.clustering, rn.file))
     ELSE UNCHANGED dbVars
  /\ rn' = [rn EXCEPT !.pc = "close"]
  /\ UNCHANGED <<lock, cl>>

RenameClose ==
  /\ rn.pc = "close"
  /\ CloseStore(Renamer)
  /\ rn' = IdleRenamer
  /\ UNCHANGED <<dbVars, cl>>

RenameCrash ==
  /\ rn.pc # "idle"
  /\ rn' = IdleRenamer
  /\ lock' = None
  /\ UNCHANGED <<dbVars, cl>>

ClusterWork ==
  \/ ClusterDetect
  \/ ClusterWriteNode
  \/ ClusterManifest
  \/ ClusterClose
  \/ RenamePlan
  \/ RenameNothing
  \/ RenameWriteNode
  \/ RenameManifest
  \/ RenameClose
=============================================================================
