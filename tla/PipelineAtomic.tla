---------------------------- MODULE PipelineAtomic --------------------------
(***************************************************************************)
(* The pipeline with two history variables.  before, which shows that it    *)
(* implements AtomicCommands, is the database as it was when the process    *)
(* that now has it open opened it: a command takes effect when it closes.   *)
(* leftover says whether the last clustering passed over a node that still  *)
(* carries the index an earlier one gave it.                                *)
(***************************************************************************)
EXTENDS PipelineProps

VARIABLES before, leftover

atomicVars == <<vars, before, leftover>>

Database == [stored |-> stored, row |-> row, edges |-> edges, meta |-> meta]

AtomicInit == Init /\ before = Database /\ leftover = FALSE

\* The nodes with a community index that the clusterer's partition leaves out.
PassedOver == {n \in stored \ DOMAIN cl.communityOf : row[n].community # None}

AtomicNext ==
  /\ Next
  /\ before' = IF lock = None /\ lock' # None THEN Database ELSE before
  /\ leftover' = IF cl.pc = "close" /\ cl'.pc = "idle" THEN PassedOver # {} ELSE leftover

AtomicSpec == AtomicInit /\ [][AtomicNext]_atomicVars

View == IF lock = None THEN Database ELSE before

(***************************************************************************)
(* Without kills, every command appears to the others as one atomic change  *)
(* of the database: the lock makes up for the missing transactions.         *)
(***************************************************************************)
Atomic == INSTANCE AtomicCommands WITH
            stored <- View.stored, row <- View.row,
            edges <- View.edges, meta <- View.meta

CommandsAreAtomic == Atomic!Spec

-----------------------------------------------------------------------------
(***************************************************************************)
(* The nodes and edges files hold lines of one revision, wherever they are  *)
(* cut, and what a loader has read it read from them.                       *)
(***************************************************************************)
FilesTrue ==
  /\ nodesFile.ok => nodesFile.rev \in Revs /\ nodesFile.lines \subseteq NodeLines[nodesFile.rev]
  /\ edgesFile.ok => edgesFile.rev \in Revs /\ edgesFile.lines \subseteq EdgeLines[edgesFile.rev]
  /\ {ex.commit, sourceFile} \subseteq GitRevs \cup {None}

InputTrue(l) ==
  /\ ld[l].pc # Idle => ld[l].nodeRev \in Revs /\ ld[l].nodes \subseteq NodeLines[ld[l].nodeRev]
  /\ ld[l].pc \notin {Idle, "readEdges"} =>
       ld[l].linkRev \in Revs /\ ld[l].links \subseteq EdgeLines[ld[l].linkRev]
  /\ ld[l].source \in GitRevs \cup {None}

(***************************************************************************)
(* How each command has changed the database since it opened it: the part   *)
(* of the work that is done, and nothing else.                              *)
(***************************************************************************)
LoadSession(l) ==
  ld[l].pc \in {"merge", "runtime", "close"} =>
    LET links == Insertable(ld[l].links, ld[l].nodes)
        merged == ld[l].nodes \ ld[l].todoNodes
        new == links \ ld[l].todoLinks
    IN  /\ ld[l].todoNodes # {} => new = {}
        /\ stored = before.stored \cup merged
        /\ row = [n \in Ids |-> IF n \in merged THEN FreshRow(ld[l].nodeRev) ELSE before.row[n]]
        /\ edges = {f \in before.edges : \A e \in new : ~SameRelation(e, f)}
                     \cup {Stamped(e, ld[l].linkRev) : e \in new}
        /\ ld[l].pc = "merge" => meta = before.meta
        /\ ld[l].pc = "runtime" => meta = [before.meta EXCEPT !.source = ld[l].source]
        /\ ld[l].pc = "close" =>
             meta = [before.meta EXCEPT !.source = ld[l].source, !.runtime = None]

EnrichSession ==
  /\ en.pc = "read" => Database = before
  /\ en.pc \in {"nodes", "clear", "edges"} =>
       LET all == Attributed(en.profile, stored) IN
       /\ en.rows = before.row /\ stored = before.stored
       /\ row = [n \in Ids |-> IF n \in all \ en.todoNodes
                               THEN [before.row[n] EXCEPT !.runtime = en.profile]
                               ELSE before.row[n]]
       /\ edges = IF en.pc # "edges" THEN before.edges
                  ELSE {e \in before.edges : e.kind # RuntimeKind}
                         \cup (RuntimeEdges(en.profile, stored) \ en.todoEdges)
       /\ meta = IF en.pc = "nodes" THEN before.meta
                 ELSE [before.meta EXCEPT !.runtime = en.profile]

ClusterSession ==
  /\ cl.pc = "read" => Database = before
  /\ cl.pc \in {"nodes", "close"} =>
       /\ \E k \in 0..Cardinality(Ids) :
            /\ cl.communityOf \in Partitions(Touched(edges), k)
            /\ cl.labels \in AutoLabels(cl.communityOf, k)
       /\ cl.rows = before.row /\ stored = before.stored /\ edges = before.edges
       /\ row = [n \in Ids |->
                   IF n \in DOMAIN cl.communityOf \ cl.todo
                   THEN [before.row[n] EXCEPT !.community = cl.communityOf[n],
                                              !.label = cl.labels[cl.communityOf[n]]]
                   ELSE before.row[n]]
       /\ meta = IF cl.pc = "nodes" THEN before.meta
                 ELSE [before.meta EXCEPT !.clustering = cl.labels]

\* What a rename by this plan has done once only todo is left.
Renamed(plan, todo) ==
  LET members == {n \in before.stored : before.row[n].community \in plan} IN
  /\ \E n \in before.stored : before.row[n].community # None
  /\ todo \subseteq members
  /\ row = [n \in Ids |->
              IF n \in members \ todo
              THEN [before.row[n] EXCEPT !.label = [user |-> rn.file[before.row[n].community]]]
              ELSE before.row[n]]

RenameSession ==
  /\ rn.pc # "idle" => stored = before.stored /\ edges = before.edges
  /\ rn.pc = "read" => row = before.row /\ meta = before.meta
  /\ rn.pc = "nodes" =>
       /\ rn.rows = before.row /\ meta = before.meta
       /\ \E plan \in Plans(rn.file, before.stored, before.row) : Renamed(plan, rn.todo)
  /\ rn.pc = "close" =>
       \/ row = before.row /\ meta = before.meta
       \/ /\ \E plan \in Plans(rn.file, before.stored, before.row) : Renamed(plan, {})
          /\ meta = IF before.meta.clustering = None THEN before.meta
                    ELSE [before.meta EXCEPT !.clustering = UpdatedManifest(@, rn.file)]

BeforeTypeOK ==
  /\ before \in [stored : SUBSET Ids, row : [Ids -> Row], edges : SUBSET Edge, meta : Meta]
  /\ leftover \in BOOLEAN

Sessions ==
  /\ BeforeTypeOK /\ FilesTrue
  /\ \A l \in Loaders : InputTrue(l) /\ LoadSession(l)
  /\ EnrichSession /\ ClusterSession /\ RenameSession

-----------------------------------------------------------------------------
(***************************************************************************)
(* While no command is killed, manifest and rows agree about communities,   *)
(* through reloads, enrichments, re-clusterings and renames: every node     *)
(* that a static weighted edge touches has an index the manifest has a      *)
(* label for, and the label of the others of its community; and unless the  *)
(* last clustering passed over a node of an earlier one, every clustered    *)
(* node carries the label the manifest gives its community.                 *)
(***************************************************************************)
LabelAgreement ==
  lock = None =>
    LET known(n) == meta.clustering # None /\ row[n].community \in DOMAIN meta.clustering
        clustered == {n \in stored : row[n].community # None}
        static == clustered \cap Touched({e \in edges : e.kind # RuntimeKind})
    IN  /\ \A n \in static : known(n)
        /\ \A m, n \in static : row[m].community = row[n].community => row[m].label = row[n].label
        /\ ~leftover =>
             \A n \in clustered : known(n) /\ row[n].label = meta.clustering[row[n].community]
=============================================================================
