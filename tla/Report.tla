-------------------------------- MODULE Report ------------------------------
(***************************************************************************)
(* What `cost` and `report` make of a priced graph: the breakdown of one    *)
(* node's cost to its callees and callers, and the brief with its rankings, *)
(* the three reads of structure against runtime, and the key findings.      *)
(***************************************************************************)
EXTENDS CostModel, Ranking

CONSTANTS
  MaxRows,       \* the limit GraphQuery clamps every ranking to: 1000 in the program
  MaxLimit,      \* the limit ReportCommand clamps --limit to: 100
  DefaultLimit,
  Options,       \* what --limit may be
  KeyOf,         \* node -> symbolKey: its file and name, which other nodes may have too
  Few            \* how many symbols a read or a finding names at most

ASSUME ReportAssumption ==
  /\ {MaxRows, MaxLimit, DefaultLimit, Few} \subseteq Nat \ {0} /\ Options \subseteq Int
  /\ {MaxLimit, DefaultLimit} \subseteq 1 .. MaxRows
  /\ DOMAIN KeyOf = Node

VARIABLES
  recursive,     \* the nodes that call themselves
  option,        \* --limit
  report         \* <<>> before it is gathered

reportVars == <<vars, recursive, option, report>>

ReportInit ==
  /\ Init
  /\ recursive \in SUBSET Node
  /\ option \in Options
  /\ report = <<>>

-----------------------------------------------------------------------------
Incl(v) == inclusive[componentOf[v]]

\* costAttribution: what the subtree of each callee outside of v's cycle costs v,
\* and what v costs each caller outside of its cycle.
CalleeAmount(v, w) ==
  IF ExternalInbound(w) > 0 THEN (Incl(w) * weight[<<v, w>>]) \div ExternalInbound(w) ELSE 0

\* The share of a caller is taken of all calls, those within the cycle included.
CallerAmountOfAll(v, u) ==
  IF ExternalInbound(v) > 0 THEN (Incl(v) * weight[<<u, v>>]) \div AnyInbound(v) ELSE 0

CallerAmount(v, u) ==
  IF ExternalInbound(v) > 0 THEN (Incl(v) * weight[<<u, v>>]) \div ExternalInbound(v) ELSE 0

Callees(v) == {e[2] : e \in {c \in Crossing : c[1] = v}}
CallersOf(v) == {e[1] : e \in {c \in Crossing : c[2] = v}}

-----------------------------------------------------------------------------
ClampLimit(n) == IF n < 1 THEN DefaultLimit ELSE IF n > MaxLimit THEN MaxLimit ELSE n

Calls == [v \in Node |-> succ[v] \cup (IF v \in recursive THEN {v} ELSE {})]

Enriched == \E v \in Node : self[v] > 0

\* Every ranking the report asks for, "unbounded", is clamped by GraphQuery.
ByCallers == Ranked([v \in Node |-> FanIn(Calls, v)], MaxRows)
ByBlastRadius == Ranked([v \in Node |-> ReachableCount(Calls, v)], MaxRows)
BySelfTime == Ranked(self, MaxRows)
ByCost == Ranked([v \in Node |-> Incl(v)], MaxRows)

\* fanIn: the symbols that are missing from the ranking have no callers.
KnownFanIn(v) == IF v \in ToSet(ByCallers) THEN FanIn(Calls, v) ELSE 0

\* synthesize, where a hidden hotspot has no caller at all.
SynthesizeUncalled ==
  [ orchestrators |-> Cut(Kept(ByCost, {v \in Node : self[v] = 0}), Few),
    hidden |-> Cut(Kept(BySelfTime, {v \in Node : KnownFanIn(v) < 1}), Few),
    aligned |-> Cut(Kept(BySelfTime, {v \in Node : KnownFanIn(v) >= 1}), Few) ]

\* HIDDEN_HOTSPOT_MAX_CALLERS is 1.
Synthesize ==
  [ orchestrators |-> Cut(Kept(ByCost, {v \in Node : self[v] = 0}), Few),
    hidden |-> Cut(Kept(BySelfTime, {v \in Node : KnownFanIn(v) <= 1}), Few),
    aligned |-> Cut(Kept(BySelfTime, {v \in Node : KnownFanIn(v) > 1}), Few) ]

\* changeRiskFinding: the hubs that are hot, going by their keys, or else the
\* largest hubs.
ChangeRisk(hubs, hot) ==
  LET hotKeys == {KeyOf[v] : v \in ToSet(hot)}
      both == Kept(hubs, {v \in Node : KeyOf[v] \in hotKeys})
  IN  IF both # <<>> THEN [tone |-> "hot", symbols |-> Cut(both, Few)]
      ELSE [tone |-> "large", symbols |-> Cut(hubs, Few)]

\* toCostRef: the share of all cost a node is responsible for, as a fraction.
Share(v) == IF Total > 0 THEN <<Incl(v), Total>> ELSE <<0, 1>>

\* verdictOf: the hottest function, with the share of the first row of the cost
\* ranking that has its key.
VerdictOf(hot, cost) ==
  IF hot = <<>> THEN <<>>
  ELSE LET same == Kept(cost, {v \in Node : KeyOf[v] = KeyOf[Head(hot)]})
       IN  <<[hottest |-> Head(hot), share |-> IF same = <<>> THEN <<>> ELSE Share(Head(same))]>>

SumOf(f) == MapThenSumSet(LAMBDA x : f[x], DOMAIN f)

SelfOf(s, k) == SumOf([i \in 1 .. k |-> self[s[i]]])

TotalSelf == SumOf(self)

\* runtimeConcentrationFinding over the ranking by inclusive cost.
ConcentrationByCost(hot) ==
  LET half == {k \in DOMAIN hot : 2 * SumOf([i \in 1 .. k |-> Incl(hot[i])]) >= TotalSelf * Unit}
  IN  IF half = {} THEN 0 ELSE Min(half)

\* How many of the hottest it takes to reach half of the self time; 0 is no finding.
Concentration(hot) ==
  LET half == {k \in DOMAIN hot : 2 * SelfOf(hot, k) >= TotalSelf}
  IN  IF half = {} THEN 0 ELSE Min(half)

Gathered ==
  LET limit == ClampLimit(option)
      hubs == Cut(ByBlastRadius, limit)
      hot == Cut(BySelfTime, limit)
      cost == Cut(ByCost, limit)
  IN  [ hubs |-> hubs, hot |-> hot, cost |-> cost, verdict |-> VerdictOf(hot, cost),
        reads |-> Synthesize,
        cycles |-> {Members(c) : c \in 0 .. componentCount - 1} \ {{v} : v \in Node},
        dead |-> DeadExports(Calls, {}),    \* of which none is used but by calls
        risk |-> ChangeRisk(hubs, hot),
        concentration |-> Concentration(hot) ]

Gather ==
  /\ Priced /\ report = <<>> /\ report' = Gathered
  /\ UNCHANGED <<vars, recursive, option>>

ReportNext == (Next /\ UNCHANGED <<recursive, option, report>>) \/ Gather

ReportSpec == ReportInit /\ [][ReportNext]_reportVars

-----------------------------------------------------------------------------
(***************************************************************************)
(* The breakdown of `cost --node` adds up: the callees of a node outside of *)
(* cycles and its own cost make its inclusive cost, its callers from        *)
(* outside of its cycle are charged all of that between them, and what u is *)
(* told it pays for v is what v is told it costs u.                         *)
(***************************************************************************)
AttributionAdds ==
  Priced /\ NoRemainder =>
    \A v \in Node :
      /\ SccOf(succ, v) = {v} =>
           Incl(v) = self[v] * Unit + SumOf([w \in Callees(v) |-> CalleeAmount(v, w)])
      /\ ExternalInbound(v) > 0 =>
           SumOf([u \in CallersOf(v) |-> CallerAmount(v, u)]) = Incl(v)
      /\ \A u \in CallersOf(v) : CallerAmount(v, u) = CalleeAmount(u, v)

\* Some chain of calls leads from v to a symbol with measured time.
ReachesWork(v) == \E w \in Node : self[w] > 0 /\ Reaches(succ, v, w)

(***************************************************************************)
(* The three reads: an orchestrator spends nothing itself and reaches       *)
(* something that does, and unless the list is full every such symbol is on *)
(* it; every symbol with measured time is a hidden hotspot when at most one *)
(* symbol calls it and of the aligned core otherwise, as far as the lists   *)
(* go.  No list leaves out a symbol for one that is less hot.  The verdict  *)
(* names a symbol nothing is hotter than, and a share that is its own when  *)
(* no other symbol has its key.                                             *)
(***************************************************************************)
ReadsSound ==
  report # <<>> =>
    LET reads == report.reads
        listed == ToSet(reads.hidden) \cup ToSet(reads.aligned)
        callers(v) == {u \in Node : v \in Calls[u]}
        work == {v \in Node : self[v] > 0}
        few == {v \in work : Cardinality(callers(v)) <= 1}
    IN  /\ \A v \in ToSet(reads.orchestrators) : self[v] = 0 /\ ReachesWork(v)
        /\ Len(reads.orchestrators) < Few =>
             \A v \in Node : self[v] = 0 /\ ReachesWork(v) => v \in ToSet(reads.orchestrators)
        /\ ToSet(reads.hidden) \subseteq few /\ ToSet(reads.aligned) \subseteq work \ few
        /\ \A v \in work \ listed :
             LET list == IF v \in few THEN reads.hidden ELSE reads.aligned
             IN  Len(list) = Few /\ \A w \in ToSet(list) : self[w] >= self[v]
        /\ (report.verdict # <<>>) = (work # {})
        /\ \A i \in DOMAIN report.verdict :
             LET said == report.verdict[i]
             IN  /\ \A w \in Node : self[said.hottest] >= self[w]
                 /\ said.share # <<>> /\ (\A w \in Node \ {said.hottest} : KeyOf[w] # KeyOf[said.hottest]) =>
                      said.share[1] * Total = Incl(said.hottest) * said.share[2]

(***************************************************************************)
(* "Runtime is concentrated": the number is that of the fewest functions    *)
(* whose self time makes half of the total, no choice of fewer does; and    *)
(* where the finding is missing no choice within --limit makes half.        *)
(***************************************************************************)
ConcentrationTrue ==
  report # <<>> /\ Enriched =>
    LET half == {S \in SUBSET Node : 2 * SumOf([v \in S |-> self[v]]) >= TotalSelf}
        fewest == Min({Cardinality(S) : S \in half})
    IN  report.concentration = IF fewest <= ClampLimit(option) THEN fewest ELSE 0

(***************************************************************************)
(* report_data.ts: symbolKey is "a stable cross-ranking identity", so that  *)
(* what is to be changed "with the most care" is "high impact *and*         *)
(* expensive": every such symbol is among the hottest itself.               *)
(***************************************************************************)
CareIsHot ==
  report # <<>> /\ report.risk.tone = "hot" => ToSet(report.risk.symbols) \subseteq ToSet(report.hot)

(***************************************************************************)
(* report_data.ts: "A large bound used to read whole rankings", so that a   *)
(* hidden hotspot is "hot yet [has] few callers": at most one.              *)
(***************************************************************************)
HiddenHaveFewCallers ==
  report # <<>> => \A v \in ToSet(report.reads.hidden) : Cardinality({u \in Node : v \in Calls[u]}) <= 1
=============================================================================
