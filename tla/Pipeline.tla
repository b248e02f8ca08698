------------------------------ MODULE Pipeline ------------------------------
(***************************************************************************)
(* The codespine command line at work on one output folder: the user edits  *)
(* the analysed project and starts extract, load, enrich, cluster and       *)
(* cluster rename in any order and at any time, and any of them can be      *)
(* killed between two of its steps.                                         *)
(***************************************************************************)
EXTENDS Load, Enrich, Cluster

CONSTANTS
  Budgets,        \* bounds on how often each command is started, and on edits;
                  \* a behaviour keeps to one of them
  Crashes         \* whether commands can be killed

Commands == {"edit", "extract", "load", "enrich", "cluster", "rename"}

ASSUME PipelineAssumption ==
  /\ Budgets \subseteq [Commands -> Nat]
  /\ Crashes \in BOOLEAN
  /\ Loaders \cap {Enricher, Clusterer, Renamer} = {}
  /\ Enricher \notin {Clusterer, Renamer}

VARIABLE starts   \* how often each command may still be started

vars == <<dbVars, lock, extractVars, ld, en, cl, rn, starts>>

TypeOK ==
  /\ StoreTypeOK
  /\ ExtractTypeOK
  /\ LoadTypeOK
  /\ EnrichTypeOK
  /\ ClusterTypeOK
  /\ starts \in [Commands -> Nat]

\* An empty output folder.
ColdInit == StoreInit /\ ExtractInit

\* An output folder that holds one extraction of r and its load.
WarmInit(r) ==
  /\ stored = NodeLines[r]
  /\ row = [n \in Ids |-> IF n \in NodeLines[r] THEN FreshRow(r) ELSE NoRow]
  /\ edges = {Stamped(e, r) : e \in Insertable(EdgeLines[r], NodeLines[r])}
  /\ meta = [NoMeta EXCEPT !.source = SourceOf(r)]
  /\ lock = None
  /\ tree \in Revs
  /\ nodesFile = [rev |-> r, lines |-> NodeLines[r], ok |-> TRUE]
  /\ edgesFile = [rev |-> r, lines |-> EdgeLines[r], ok |-> TRUE]
  /\ sourceFile = SourceOf(r)
  /\ ex = IdleExtractor

Init ==
  /\ ColdInit \/ \E r \in Warm : WarmInit(r)
  /\ LoadInit
  /\ EnrichInit
  /\ ClusterInit
  /\ starts \in Budgets

Start(c) == starts[c] > 0 /\ starts' = [starts EXCEPT ![c] = @ - 1]

\* The steps of each process, and what the other processes keep.
ExtractNext ==
  /\ \/ ExtractWork /\ UNCHANGED starts
     \/ ExtractParse /\ Start("extract")
     \/ (\E r \in Revs : Checkout(r)) /\ Start("edit")
     \/ Crashes /\ ExtractCrash /\ UNCHANGED starts
  /\ UNCHANGED <<dbVars, lock, ld, en, cl, rn>>

LoadNext(l) ==
  /\ \/ LoadWork(l) /\ UNCHANGED starts
     \/ LoadReadNodes(l) /\ Start("load")
     \/ Crashes /\ LoadCrash(l) /\ UNCHANGED starts
  /\ UNCHANGED <<extractVars, en, cl, rn>>

EnrichNext ==
  /\ \/ EnrichWork /\ UNCHANGED starts
     \/ (\E p \in Profiles : EnrichOpen(p)) /\ Start("enrich")
     \/ Crashes /\ EnrichCrash /\ UNCHANGED starts
  /\ UNCHANGED <<extractVars, ld, cl, rn>>

ClusterNext ==
  /\ \/ ClusterWork /\ UNCHANGED starts
     \/ ClusterOpen /\ Start("cluster")
     \/ (\E file \in LabelsFile : RenameOpen(file)) /\ Start("rename")
     \/ Crashes /\ (ClusterCrash \/ RenameCrash) /\ UNCHANGED starts
  /\ UNCHANGED <<extractVars, ld, en>>

Next ==
  \/ ExtractNext
  \/ \E l \in Loaders : LoadNext(l)
  \/ EnrichNext
  \/ ClusterNext

Spec == Init /\ [][Next]_vars
=============================================================================
