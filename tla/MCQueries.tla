------------------------------- MODULE MCQueries ----------------------------
(***************************************************************************)
(* The queries that read the whole graph and rank its symbols, the cost     *)
(* model with what is made of it and the campaign worklist, and the         *)
(* benchmark that measures one of them.  Each reads the graph by itself, so *)
(* a behaviour has one.                                                     *)
(***************************************************************************)
EXTENDS Report, Benchmark, Campaign

VARIABLE query

\* A profile of the target alone, and one of it and what it calls.
TwoMeasurements ==
  LET Own(time, count) == ("self-time" :> time) @@ ("samples" :> count)
  IN  {Own(1, 4), Own(9, 5) @@ ("below" :> 2)}

\* The last node is a page of an application, the others are no entry points.
QueriedPaths ==
  [v \in Node |-> IF v = N - 1 THEN [dirs |-> <<"src", "app", "users">>, stem |-> "page", script |-> TRUE]
                 ELSE [dirs |-> <<"src">>, stem |-> "page", script |-> TRUE]]

\* Methods of two classes in one file that have one name.
QueriedKeys == [v \in Node |-> IF v = 0 THEN 0 ELSE 1]

NoRows == [v \in {} |-> 0]

PlanIdle ==
  /\ calls = NoRows /\ used = {} /\ selfTime = NoRows /\ by = "self-time"
  /\ limit = 0 /\ maxBlast = 0 /\ planned = FALSE /\ items = <<>>

CostIdle ==
  /\ succ = NoRows /\ componentOf = [v \in Node |-> -1] /\ componentCount = 0 /\ weight = NoRows
  /\ self = NoRows /\ inclusive = NoRows /\ priced = 0
  /\ recursive = {} /\ option = 0 /\ report = <<>>

BenchIdle == BenchInit /\ matches = <<>>

\* Bounds: of the graphs whose costs are checked the calls have all weights and
\* the self costs are at most one; of those a report is made of the calls are made
\* once and the self costs are all there are; and of the nodes that are called none
\* is used otherwise in a campaign, which asks for any reference. What is bounded
\* comes first, for TLC takes the conjuncts in turn.
MCInit ==
  \/ /\ query = "cost" /\ PlanIdle /\ BenchIdle
     /\ recursive = {} /\ option = 0 /\ self \in [Node -> SelfCosts \cap 0 .. 1]
     /\ ReportInit
  \/ /\ query = "report" /\ PlanIdle /\ BenchIdle
     /\ succ \in Graph /\ weight = [e \in Edges(succ) |-> 1]
     /\ ReportInit
  \/ /\ query = "campaign" /\ CostIdle /\ BenchIdle
     /\ calls \in [Node -> SUBSET Node] /\ used \in SUBSET {v \in Node : Callers(calls, {v}) = {}}
     /\ PlanInit
  \/ query = "benchmark" /\ BenchInit /\ CostIdle /\ PlanIdle

MCNext ==
  /\ UNCHANGED query
  /\ \/ query = "campaign" /\ Plan /\ UNCHANGED <<reportVars, benchVars>>
     \/ query = "cost" /\ Next /\ UNCHANGED <<recursive, option, report, planVars, benchVars>>
     \/ query = "report" /\ ReportNext /\ UNCHANGED <<planVars, benchVars>>
     \/ query = "benchmark" /\ BenchNext /\ UNCHANGED <<reportVars, planVars>>

MCSpec == MCInit /\ [][MCNext]_<<query, reportVars, planVars, benchVars>>
=============================================================================
