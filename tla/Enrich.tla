------------------------------- MODULE Enrich -------------------------------
(***************************************************************************)
(* The enrich command: RuntimeEnricher reads every node, joins the frames   *)
(* of one CPU profile onto them, merges metadata.runtime into the matched   *)
(* nodes, writes the runtime manifest, and replaces the CALLS_RUNTIME       *)
(* edges.                                                                   *)
(***************************************************************************)
EXTENDS KuzuStore

CONSTANT Enricher \* the process running enrich

ASSUME EnrichAssumption == Enricher \in Clients

VARIABLE en       \* the enricher

EnrichPc == {"idle", "read", "nodes", "clear", "edges"}

(***************************************************************************)
(* rows is the GraphNode table as readNodes returned it: every metadata     *)
(* write starts from these values, not from the ones then in the database.  *)
(***************************************************************************)
EnrichState == [ pc        : EnrichPc,
                 profile   : Profiles \cup {None},
                 ids       : SUBSET Ids,
                 rows      : [Ids -> Row],
                 todoNodes : SUBSET Ids,
                 todoEdges : SUBSET Edge ]

IdleEnricher == [ pc |-> "idle", profile |-> None, ids |-> {},
                  rows |-> [n \in Ids |-> NoRow], todoNodes |-> {},
                  todoEdges |-> {} ]

EnrichTypeOK == en \in EnrichState

EnrichInit == en = IdleEnricher

EnrichOpen(p) ==
  /\ en.pc = "idle"
  /\ OpenStore(Enricher)
  /\ en' = [IdleEnricher EXCEPT !.pc = "read", !.profile = p]
  /\ UNCHANGED dbVars

EnrichReadNodes ==
  /\ en.pc = "read"
  /\ en' = [en EXCEPT !.pc = "nodes",
                      !.ids = stored,
                      !.rows = row,
                      !.todoNodes = Attributed(en.profile, stored)]
  /\ UNCHANGED <<dbVars, lock>>

\* CpuProfile.parse throws on a file that is no CPU profile; the finally closes.
EnrichRejects ==
  /\ en.pc = "read"
  /\ CloseStore(Enricher)
  /\ en' = IdleEnricher
  /\ UNCHANGED dbVars

\* Mutant of EnrichWriteNode: the spread of node.metadata is forgotten.
EnrichOverwriteNode ==
  /\ en.pc = "nodes"
  /\ \E n \in en.todoNodes :
       /\ WriteNodeMetadata(n, [NoRow EXCEPT !.runtime = en.profile])
       /\ en' = [en EXCEPT !.todoNodes = @ \ {n}]
  /\ UNCHANGED lock

EnrichWriteNode ==
  /\ en.pc = "nodes"
  /\ \E n \in en.todoNodes :
       /\ WriteNodeMetadata(n, [en.rows[n] EXCEPT !.runtime = en.profile])
       /\ en' = [en EXCEPT !.todoNodes = @ \ {n}]
  /\ UNCHANGED lock

EnrichManifest ==
  /\ en.pc = "nodes"
  /\ en.todoNodes = {}
  /\ WriteGraphMeta("runtime", en.profile)
  /\ en' = [en EXCEPT !.pc = "clear"]
  /\ UNCHANGED lock

\* Mutant of EnrichClearEdges: the edges of the previous profile stay.
EnrichKeepEdges ==
  /\ en.pc = "clear"
  /\ UNCHANGED dbVars
  /\ en' = [en EXCEPT !.pc = "edges", !.todoEdges = RuntimeEdges(en.profile, en.ids)]
  /\ UNCHANGED lock

EnrichClearEdges ==
  /\ en.pc = "clear"
  /\ ClearEdgesByKind(RuntimeKind)
  /\ en' = [en EXCEPT !.pc = "edges", !.todoEdges = RuntimeEdges(en.profile, en.ids)]
  /\ UNCHANGED lock

EnrichWriteEdge ==
  /\ en.pc = "edges"
  /\ \E e \in en.todoEdges :
       /\ MergeEdge(e)
       /\ en' = [en EXCEPT !.todoEdges = @ \ {e}]
  /\ UNCHANGED lock

\* Everything is written; only close remains.
EnrichDone == en.pc = "edges" /\ en.todoEdges = {}

EnrichClose ==
  /\ EnrichDone
  /\ CloseStore(Enricher)
  /\ en' = IdleEnricher
  /\ UNCHANGED dbVars

EnrichCrash ==
  /\ en.pc # "idle"
  /\ en' = IdleEnricher
  /\ lock' = None
  /\ UNCHANGED dbVars

EnrichWork ==
  \/ EnrichReadNodes
  \/ EnrichRejects
  \/ EnrichWriteNode
  \/ EnrichManifest
  \/ EnrichClearEdges
  \/ EnrichWriteEdge
  \/ EnrichClose
==============================================================================
