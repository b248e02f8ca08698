------------------------------ MODULE Benchmark -----------------------------
(***************************************************************************)
(* `benchmark`: resolve a target name against the current graph, profile    *)
(* the workload a number of times, enrich the graph with every profile and  *)
(* read the target's metric back after each, reduce the readings to a       *)
(* median and a spread, compare them with a saved baseline and save them as *)
(* the next one.  Between benchmarks the user edits and rebuilds the graph, *)
(* which keeps the baseline files.                                          *)
(*                                                                          *)
(* matches is what `find` would return for the target name, without its     *)
(* limit: in file order, whether each match has exactly the name asked for  *)
(* or merely contains it.                                                   *)
(***************************************************************************)
EXTENDS Integers, Sequences, FiniteSets, SequencesExt

CONSTANTS
  None,
  RunCounts,      \* the --runs a benchmark may be given, clamped to 1..50
  FindLimit,      \* the LIMIT of `find`: 50 in the program
  MaxMatches,     \* bound on the matches in the graph
  Measurements,   \* what a profile can measure: a number for each of some of Costs
  MaxBenchmarks   \* bound on how many benchmarks are started

\* The target's own time and samples, which a profile measures together or not at
\* all, and what the cost query passes on to it of the time of those it calls.
Costs == {"self-time", "samples", "below"}

IsReading(r) == DOMAIN r \subseteq Costs /\ r \in [DOMAIN r -> Nat]

Unsampled == [c \in {} |-> 0]

ASSUME BenchmarkAssumption ==
  /\ RunCounts \subseteq 1 .. 50
  /\ FindLimit \in Nat \ {0}
  /\ MaxMatches \in Nat
  /\ \A m \in Measurements : IsReading(m)
  /\ None \notin {"improved", "regressed"}
  /\ MaxBenchmarks \in Nat

Metrics == {"self-time", "inclusive-time", "samples"}

VARIABLES
  matches,     \* the matches of the target name
  runtime,     \* metadata.runtime of each match and what it calls
  baseline,    \* the baseline file of the target, None while there is none
  bm,          \* the benchmark being run
  measured,    \* what each of its profiles measured of the target
  benchmarks

benchVars == <<matches, runtime, baseline, bm, measured, benchmarks>>

Graphs == UNION {[1 .. k -> {"exact", "partial"}] : k \in 0 .. MaxMatches}

IdleBench == [pc |-> "idle", by |-> "self-time", runs |-> 0, save |-> FALSE, against |-> None,
              target |-> None, values |-> <<>>, report |-> None]

BenchInit ==
  /\ matches \in Graphs
  /\ runtime = [n \in DOMAIN matches |-> Unsampled]
  /\ baseline = None
  /\ bm = IdleBench
  /\ measured = <<>>
  /\ benchmarks = MaxBenchmarks

\* The mean: one slow run is enough to move it.
Mean2(values) == (2 * FoldSeq(+, 0, values)) \div Len(values)

\* What stands at place k of the sorted values.
IsKth(values, k, v) ==
  /\ Cardinality({i \in DOMAIN values : values[i] < v}) < k
  /\ Cardinality({i \in DOMAIN values : values[i] <= v}) >= k

Kth(values, k) == CHOOSE v \in Range(values) : IsKth(values, k, v)

\* Twice the median, so that the mean of the two middle values is an integer.
Median2(values) ==
  LET mid == Len(values) \div 2
  IN  IF Len(values) % 2 = 1 THEN 2 * Kth(values, mid + 1)
      ELSE Kth(values, mid) + Kth(values, mid + 1)

Spread(values) == Max(Range(values)) - Min(Range(values))

Summarize(values) == [median2 |-> Median2(values), spread |-> Spread(values)]

\* Any change of the median counts.
Sign(delta2, spread) ==
  IF delta2 = 0 THEN "unchanged" ELSE IF delta2 < 0 THEN "improved" ELSE "regressed"

Direction(delta2, spread) ==
  IF -2 * spread <= delta2 /\ delta2 <= 2 * spread THEN "unchanged"
  ELSE IF delta2 < 0 THEN "improved" ELSE "regressed"

\* The rows `find` returns.
Found == {n \in DOMAIN matches : n <= FindLimit}

Exact(S) == {n \in S : matches[n] = "exact"}

\* The node resolveTarget chooses among the matches S, None when it throws.
Resolved(S) ==
  IF Cardinality(Exact(S)) = 1 THEN CHOOSE n \in Exact(S) : TRUE
  ELSE IF Cardinality(S) = 1 THEN CHOOSE n \in S : TRUE
  ELSE None

\* --baseline reads the saved median first, and fails when there is none.
Start(by, runs, compare, save) ==
  /\ bm.pc = "idle" /\ benchmarks > 0
  /\ benchmarks' = benchmarks - 1
  /\ bm' = [IdleBench EXCEPT !.pc = IF compare /\ baseline = None THEN "close" ELSE "resolve",
                             !.by = by, !.runs = runs, !.save = save,
                             !.against = IF compare THEN baseline ELSE None]
  /\ measured' = <<>>
  /\ UNCHANGED <<matches, runtime, baseline>>

ResolveTarget ==
  /\ bm.pc = "resolve"
  /\ bm' = [bm EXCEPT !.target = Resolved(Found),
                      !.pc = IF Resolved(Found) = None THEN "close" ELSE "profile"]
  /\ UNCHANGED <<matches, runtime, baseline, measured, benchmarks>>

Cost(r, c) == IF c \in DOMAIN r THEN r[c] ELSE 0

\* The target's metric as the cost query reads it: 0 when it carries none.
ReadMetric(r, by) ==
  IF by = "inclusive-time" THEN Cost(r, "self-time") + Cost(r, "below") ELSE Cost(r, by)

\* enrich writes what the profile m sampled, and leaves the rest.
Remeasured(r, m) == [c \in DOMAIN r \cup DOMAIN m |-> IF c \in DOMAIN m THEN m[c] ELSE r[c]]

\* One profiling run: the graph is enriched and read back.
ProfileRun(m) ==
  /\ bm.pc = "profile" /\ Len(bm.values) < bm.runs
  /\ runtime' = [runtime EXCEPT ![bm.target] = Remeasured(@, m)]
  /\ bm' = [bm EXCEPT !.values = Append(@, ReadMetric(runtime'[bm.target], bm.by))]
  /\ measured' = Append(measured, m)
  /\ UNCHANGED <<matches, baseline, benchmarks>>

\* A failing workload is counted as a run that took no time.
WorkloadFailsCounted ==
  /\ bm.pc = "profile" /\ Len(bm.values) < bm.runs
  /\ bm' = [bm EXCEPT !.values = <<0>>, !.pc = "report"]
  /\ UNCHANGED <<matches, runtime, baseline, measured, benchmarks>>

\* The workload exits with an error: the benchmark is abandoned.
WorkloadFails ==
  /\ bm.pc = "profile" /\ Len(bm.values) < bm.runs
  /\ bm' = [bm EXCEPT !.pc = "close"]
  /\ UNCHANGED <<matches, runtime, baseline, measured, benchmarks>>

Report ==
  /\ bm.pc = "profile" /\ Len(bm.values) = bm.runs
  /\ LET stats == Summarize(bm.values)
     IN  bm' = [bm EXCEPT !.pc = "report",
                          !.report = [stats |-> stats,
                                      verdict |-> IF bm.against = None THEN None
                                                  ELSE Direction(stats.median2 - bm.against.median2,
                                                                 stats.spread)]]
  /\ UNCHANGED <<matches, runtime, baseline, measured, benchmarks>>

SaveBaseline ==
  /\ bm.pc = "report"
  /\ baseline' = IF bm.save
                 THEN [by |-> bm.by, median2 |-> Median2(bm.values), runs |-> Len(bm.values)]
                 ELSE baseline
  /\ bm' = [bm EXCEPT !.pc = "close"]
  /\ UNCHANGED <<matches, runtime, measured, benchmarks>>

Close ==
  /\ bm.pc = "close"
  /\ bm' = [bm EXCEPT !.pc = "idle"]
  /\ UNCHANGED <<matches, runtime, baseline, measured, benchmarks>>

\* The documented edit and rebuild between two benchmarks.
Rebuild ==
  /\ bm.pc = "idle" /\ benchmarks > 0
  /\ matches' \in Graphs
  /\ runtime' = [n \in DOMAIN matches' |-> Unsampled]
  /\ UNCHANGED <<baseline, bm, measured, benchmarks>>

BenchNext ==
  \/ \E by \in Metrics, runs \in RunCounts, compare, save \in BOOLEAN :
       Start(by, runs, compare, save)
  \/ ResolveTarget
  \/ \E m \in Measurements \cup {Unsampled} : ProfileRun(m)
  \/ WorkloadFails
  \/ Report
  \/ SaveBaseline
  \/ Close
  \/ Rebuild

BenchSpec == BenchInit /\ [][BenchNext]_benchVars

-----------------------------------------------------------------------------
(***************************************************************************)
(* Whatever was run before, a baseline is a median of one metric over one   *)
(* of the numbers of runs, and the target is a row of the graph.            *)
(***************************************************************************)
Baseline == [by : Metrics, median2 : Nat, runs : RunCounts]

BenchTypeOK ==
  /\ matches \in Graphs
  /\ DOMAIN runtime = DOMAIN matches /\ \A n \in DOMAIN matches : IsReading(runtime[n])
  /\ baseline \in Baseline \cup {None}
  /\ bm \in [pc : {"idle", "resolve", "profile", "report", "close"},
             by : Metrics, runs : RunCounts \cup {0}, save : BOOLEAN,
             against : Baseline \cup {None}, target : Nat \cup {None}, values : Seq(Nat),
             report : [stats : [median2 : Nat, spread : Nat],
                       verdict : {"unchanged", "improved", "regressed", None}] \cup {None}]
  /\ bm.pc \in {"profile", "report"} => bm.target \in DOMAIN matches
  /\ measured \in Seq(Measurements \cup {Unsampled})

(***************************************************************************)
(* benchmark.md: the median is "robust to the odd slow run in a way the     *)
(* mean is not": with three runs or more, no single reading can take it     *)
(* outside the range of the others.                                         *)
(***************************************************************************)
Robust ==
  bm.pc = "report" /\ bm.report # None /\ bm.runs >= 3 =>
    \A i \in 1 .. bm.runs :
      \E j, k \in (1 .. bm.runs) \ {i} :
        /\ 2 * bm.values[j] <= bm.report.stats.median2
        /\ bm.report.stats.median2 <= 2 * bm.values[k]

(***************************************************************************)
(* "improved" and "regressed" are not noise: when the report says so, every *)
(* single run was on that side of the baseline's median.                    *)
(***************************************************************************)
VerdictIsUnanimous ==
  bm.pc = "report" /\ bm.report # None =>
    \A i \in 1 .. bm.runs :
      /\ bm.report.verdict = "regressed" => 2 * bm.values[i] > bm.against.median2
      /\ bm.report.verdict = "improved" => 2 * bm.values[i] < bm.against.median2

(***************************************************************************)
(* The baseline a later --baseline compares with is only replaced by the    *)
(* median of a benchmark whose runs all completed: a workload that fails,   *)
(* or a name that does not resolve, leaves the old one.                     *)
(***************************************************************************)
BaselineOnlyFromFullRun ==
  [][baseline' # baseline => /\ bm.save /\ Len(measured) = bm.runs
                             /\ baseline'.median2 = bm.report.stats.median2]_benchVars

-----------------------------------------------------------------------------
(* The inductive invariant: there is a value at each place of the readings   *)
(* when sorted, and what is reported is made of all of them.                 *)

Sortable(values) == \A k \in DOMAIN values : \E v \in Range(values) : IsKth(values, k, v)

BenchIInv ==
  /\ BenchTypeOK
  /\ Sortable(bm.values)
  /\ bm.pc = "resolve" => bm.values = <<>> /\ measured = <<>>
  /\ bm.pc # "idle" => bm.runs \in RunCounts
  /\ bm.pc \in {"profile", "report"} => Len(measured) = Len(bm.values)
  /\ bm.pc = "report" =>
       /\ Len(bm.values) = bm.runs
       /\ bm.report.stats = Summarize(bm.values)
       /\ bm.report.verdict =
            IF bm.against = None THEN None
            ELSE Direction(bm.report.stats.median2 - bm.against.median2, bm.report.stats.spread)

-----------------------------------------------------------------------------
(***************************************************************************)
(* node_benchmark.ts: one profiling run must "leave a fresh                 *)
(* metadata.runtime on the graph": each reading is what its own profile     *)
(* measured, 0 when that profile never sampled the target.                  *)
(***************************************************************************)
ReadingsAreFresh ==
  \A i \in 1 .. Len(bm.values) : bm.values[i] = ReadMetric(measured[i], bm.by)

(***************************************************************************)
(* node_benchmark.ts: resolveTarget resolves the name "to exactly one node  *)
(* in the current graph, or throws": never to one of two nodes of that      *)
(* very name.                                                               *)
(***************************************************************************)
TargetIsUnambiguous ==
  bm.pc = "profile" => Cardinality(Exact(DOMAIN matches)) <= 1

(***************************************************************************)
(* benchmark.md: a delta is negative "when the metric went down": the two    *)
(* medians it compares are medians of one metric.                           *)
(***************************************************************************)
DeltaComparesOneMetric ==
  bm.report # None /\ bm.report.verdict # None => bm.against.by = bm.by
=============================================================================
