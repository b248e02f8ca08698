------------------------------ MODULE KuzuStore ------------------------------
(***************************************************************************)
(* The embedded Kuzu database behind every codespine command: the GraphNode *)
(* and Edge tables, the GraphMeta rows and the file lock of the process     *)
(* that has the database open.  One operator per Cypher statement: each     *)
(* statement commits by itself, so a command is interruptible between any   *)
(* two of them.                                                             *)
(***************************************************************************)
EXTENDS GraphModel

CONSTANT Clients  \* processes that open the database

ASSUME StoreAssumption == None \notin Clients

VARIABLES
  stored,         \* ids with a row in GraphNode
  row,            \* the row of each id (meaningless outside stored)
  edges,          \* the Edge table
  meta,           \* the GraphMeta rows
  lock            \* the client that has the database open

dbVars == <<stored, row, edges, meta>>

DbTypeOK ==
  /\ stored \subseteq Ids
  /\ row \in [Ids -> Row]
  /\ edges \subseteq Edge
  /\ meta \in Meta

StoreTypeOK ==
  /\ DbTypeOK
  /\ lock \in Clients \cup {None}

StoreInit ==
  /\ stored = {}
  /\ row = [n \in Ids |-> NoRow]
  /\ edges = {}
  /\ meta = NoMeta
  /\ lock = None

(***************************************************************************)
(* Opening takes the lock Kuzu keeps on the database directory; a second    *)
(* opener gets an exception, which ends its command.  Closing releases it,  *)
(* and so does the death of the process.                                    *)
(***************************************************************************)
OpenStore(c) == lock = None /\ lock' = c

CloseStore(c) == lock = c /\ lock' = None

\* MERGE (n:GraphNode {id}) SET every column, the whole metadata included.
MergeNode(n, r) ==
  /\ stored' = stored \cup {n}
  /\ row' = [row EXCEPT ![n] = FreshRow(r)]
  /\ UNCHANGED <<edges, meta>>

\* MATCH both endpoints, MERGE the relation, SET its metadata.
MergeEdge(e) ==
  /\ edges' = IF {e.from, e.to} \subseteq stored
              THEN {f \in edges : ~SameRelation(e, f)} \cup {e}
              ELSE edges
  /\ UNCHANGED <<stored, row, meta>>

ClearEdgesByKind(k) ==
  /\ edges' = {e \in edges : e.kind # k}
  /\ UNCHANGED <<stored, row, meta>>

\* Overwrites the metadata column: the caller passes every key it wants kept.
WriteNodeMetadata(n, m) ==
  /\ row' = IF n \in stored
            THEN [row EXCEPT ![n] = [m EXCEPT !.rev = row[n].rev]]
            ELSE row
  /\ UNCHANGED <<stored, edges, meta>>

WriteGraphMeta(key, value) ==
  /\ meta' = [meta EXCEPT ![key] = value]
  /\ UNCHANGED <<stored, row, edges>>

ClearGraphMeta(key) == WriteGraphMeta(key, None)
==============================================================================
