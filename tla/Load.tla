-------------------------------- MODULE Load --------------------------------
(***************************************************************************)
(* The load command: JsonlReader.read takes the three files in turn before  *)
(* the database is opened; then nodes and edges are merged one statement at *)
(* a time, the source manifest is replaced and the runtime manifest         *)
(* cleared.  What an earlier load, enrich or cluster left and this input    *)
(* does not name stays in the database.                                     *)
(***************************************************************************)
EXTENDS Extract

CONSTANT Loaders  \* processes running load, a subset of Clients

ASSUME LoadAssumption == Loaders \subseteq Clients

VARIABLE ld       \* the loaders

LoadPc == {Idle, "readEdges", "readSource", "open", "merge", "runtime", "close"}

(***************************************************************************)
(* nodes and links are what was read, nodeRev and linkRev the revisions     *)
(* they came from; todoNodes and todoLinks are the statements still to run. *)
(***************************************************************************)
Loader == [ pc        : LoadPc,
            nodes     : SUBSET Ids,
            links     : SUBSET Relation,
            nodeRev   : Revs \cup {None},
            linkRev   : Revs \cup {None},
            source    : Revs \cup {None},
            todoNodes : SUBSET Ids,
            todoLinks : SUBSET Relation ]

IdleLoader == [ pc |-> Idle, nodes |-> {}, links |-> {}, nodeRev |-> None,
                linkRev |-> None, source |-> None, todoNodes |-> {},
                todoLinks |-> {} ]

LoadTypeOK == ld \in [Loaders -> Loader]

LoadInit == ld = [l \in Loaders |-> IdleLoader]

\* An absent or malformed nodes.jsonl throws, and the command is over.
LoadReadNodes(l) ==
  /\ ld[l].pc = Idle
  /\ nodesFile.ok
  /\ ld' = [ld EXCEPT ![l] = [IdleLoader EXCEPT !.pc = "readEdges",
                                                !.nodes = nodesFile.lines,
                                                !.nodeRev = nodesFile.rev]]
  /\ UNCHANGED <<dbVars, lock>>

LoadReadEdges(l) ==
  /\ ld[l].pc = "readEdges"
  /\ ld' = [ld EXCEPT ![l] = IF edgesFile.ok
                             THEN [@ EXCEPT !.pc = "readSource",
                                            !.links = edgesFile.lines,
                                            !.linkRev = edgesFile.rev]
                             ELSE IdleLoader]
  /\ UNCHANGED <<dbVars, lock>>

LoadReadSource(l) ==
  /\ ld[l].pc = "readSource"
  /\ ld' = [ld EXCEPT ![l].pc = "open", ![l].source = sourceFile]
  /\ UNCHANGED <<dbVars, lock>>

LoadOpen(l) ==
  /\ ld[l].pc = "open"
  /\ OpenStore(l)
  /\ ld' = [ld EXCEPT ![l].pc = "merge",
                      ![l].todoNodes = ld[l].nodes,
                      ![l].todoLinks = Insertable(ld[l].links, ld[l].nodes)]
  /\ UNCHANGED dbVars

\* Another process has the database open: Kuzu throws.
LoadOpenFails(l) ==
  /\ ld[l].pc = "open"
  /\ lock # None
  /\ ld' = [ld EXCEPT ![l] = IdleLoader]
  /\ UNCHANGED <<dbVars, lock>>

LoadMergeNode(l) ==
  /\ ld[l].pc = "merge"
  /\ \E n \in ld[l].todoNodes :
       /\ MergeNode(n, ld[l].nodeRev)
       /\ ld' = [ld EXCEPT ![l].todoNodes = @ \ {n}]
  /\ UNCHANGED lock

LoadMergeEdge(l) ==
  /\ ld[l].pc = "merge"
  /\ ld[l].todoNodes = {}
  /\ \E e \in ld[l].todoLinks :
       /\ MergeEdge(Stamped(e, ld[l].linkRev))
       /\ ld' = [ld EXCEPT ![l].todoLinks = @ \ {e}]
  /\ UNCHANGED lock

\* Mutant of LoadSourceManifest: clearGraphMeta is not called without a source.
LoadSourceManifestKept(l) ==
  /\ ld[l].pc = "merge"
  /\ ld[l].todoNodes = {}
  /\ ld[l].todoLinks = {}
  /\ IF ld[l].source # None THEN WriteGraphMeta("source", ld[l].source) ELSE UNCHANGED dbVars
  /\ ld' = [ld EXCEPT ![l].pc = "runtime"]
  /\ UNCHANGED lock

\* writeGraphMeta when a source was read, clearGraphMeta when it was undefined.
LoadSourceManifest(l) ==
  /\ ld[l].pc = "merge"
  /\ ld[l].todoNodes = {}
  /\ ld[l].todoLinks = {}
  /\ WriteGraphMeta("source", ld[l].source)
  /\ ld' = [ld EXCEPT ![l].pc = "runtime"]
  /\ UNCHANGED lock

\* Mutant of LoadClearRuntime: the runtime manifest survives the reload.
LoadKeepRuntime(l) ==
  /\ ld[l].pc = "runtime"
  /\ UNCHANGED dbVars
  /\ ld' = [ld EXCEPT ![l].pc = "close"]
  /\ UNCHANGED lock

LoadClearRuntime(l) ==
  /\ ld[l].pc = "runtime"
  /\ ClearGraphMeta("runtime")
  /\ ld' = [ld EXCEPT ![l].pc = "close"]
  /\ UNCHANGED lock

LoadClose(l) ==
  /\ ld[l].pc = "close"
  /\ CloseStore(l)
  /\ ld' = [ld EXCEPT ![l] = IdleLoader]
  /\ UNCHANGED dbVars

\* The process dies: the statements already run stay, the lock is released.
LoadCrash(l) ==
  /\ ld[l].pc # Idle
  /\ ld' = [ld EXCEPT ![l] = IdleLoader]
  /\ lock' = IF lock = l THEN None ELSE lock
  /\ UNCHANGED dbVars

LoadWork(l) ==
  \/ LoadReadEdges(l)
  \/ LoadReadSource(l)
  \/ LoadOpen(l)
  \/ LoadOpenFails(l)
  \/ LoadMergeNode(l)
  \/ LoadMergeEdge(l)
  \/ LoadSourceManifest(l)
  \/ LoadClearRuntime(l)
  \/ LoadClose(l)
==============================================================================
