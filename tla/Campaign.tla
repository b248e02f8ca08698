------------------------------- MODULE Campaign -----------------------------
(***************************************************************************)
(* The campaign worklist: the dead exports, to be removed, and the best     *)
(* hotspots, each tagged by whether its blast radius stays within a         *)
(* ceiling; sorted, and cut off at a limit.                                 *)
(***************************************************************************)
EXTENDS Ranking

CONSTANTS
  Depth,       \* how many calls up blastRadius looks: 10 in the program
  SelfTimes,   \* the measured self times
  Limits,      \* the --limit
  Ceilings     \* the --max-blast

ASSUME CampaignAssumption ==
  /\ Depth \in Nat \ {0}
  /\ SelfTimes \cup Ceilings \subseteq Nat
  /\ Limits \subseteq Nat \ {0}

VARIABLES
  calls,       \* CALLS, calls of oneself included
  used,        \* the nodes with a reference that is not a call
  selfTime,
  by,          \* the metric hotspots are ranked by: a measured or a static one
  limit, maxBlast,
  planned,
  items        \* the worklist

planVars == <<calls, used, selfTime, by, limit, maxBlast, planned, items>>

PlanInit ==
  /\ calls \in [Node -> SUBSET Node]
  /\ used \in SUBSET Node
  /\ by \in {"self-time", "blast-radius"}
  /\ IF by = "self-time" THEN selfTime \in [Node -> SelfTimes] ELSE selfTime = [v \in Node |-> 0]
  /\ limit \in Limits /\ maxBlast \in Ceilings
  /\ planned = FALSE /\ items = <<>>

-----------------------------------------------------------------------------
Dead == DeadExports(calls, used)

DirectCallers(v) == Callers(calls, {v})

\* blastRadius: all that reach v by one to Depth calls, v itself if it is on a cycle.
Within(v) ==
  LET within[d \in 0 .. Depth] == IF d = 0 THEN {} ELSE Callers(calls, {v} \cup within[d - 1])
  IN  within

BlastRadius(v) == Within(v)[Depth]

Score(v) == IF by = "blast-radius" THEN ReachableCount(calls, v) ELSE selfTime[v]

Hotspots(count) == Ranked([v \in Node |-> Score(v)], count)

Readiness(v) == IF Cardinality(BlastRadius(v)) <= maxBlast THEN "needs-workload" ELSE "manual"

Removal(v) == [node |-> v, readiness |-> "auto-applicable", score |-> 0]
Hotspot(v) == [node |-> v, readiness |-> Readiness(v), score |-> Score(v)]

Rank ==
  [tag \in {"auto-applicable", "needs-workload", "manual"} |->
     CASE tag = "auto-applicable" -> 0 [] tag = "needs-workload" -> 1 [] OTHER -> 2]

Before(a, b) ==
  \/ Rank[a.readiness] < Rank[b.readiness]
  \/ /\ Rank[a.readiness] = Rank[b.readiness]
     /\ a.score > b.score \/ (a.score = b.score /\ a.node < b.node)

\* The worklist for a limit, before it is cut.
Candidates(count) ==
  LET both == {Removal(v) : v \in Dead} \cup {Hotspot(v) : v \in ToSet(Hotspots(count))}
  IN  InOrder(both, {e \in both \X both : Before(e[1], e[2])})

Plan ==
  /\ ~planned /\ planned' = TRUE
  /\ LET all == Candidates(limit)
     IN  items' = Cut(all, limit)
  /\ UNCHANGED <<calls, used, selfTime, by, limit, maxBlast>>

PlanSpec == PlanInit /\ [][Plan]_planVars

-----------------------------------------------------------------------------
Items(readiness) == {items[i].node : i \in {j \in DOMAIN items : items[j].readiness = readiness}}

ScoreIn(v) == (CHOOSE item \in ToSet(items) : item.node = v /\ item.readiness # "auto-applicable").score

Impact(v) == {u \in Node \ {v} : Reaches(calls, u, v)}

\* All that reach v by one call or more, v itself if it is on a cycle.
Above(v) == {u \in Node : \E w \in calls[u] : Reaches(calls, w, v)}

(***************************************************************************)
(* rankedHotspots of campaign_planner.ts, "its transitive inbound CALLS     *)
(* size bounds the change: within the ceiling it stays needs-workload;      *)
(* above it [...] manual": no symbol is kept from the agents that few       *)
(* reach, and none is given to them that more reach than the ceiling says,  *)
(* although blastRadius looks only so far: each call it looks up finds one  *)
(* more at least or there is none, so a ceiling below that depth is exact.  *)
(***************************************************************************)
CeilingHolds ==
  planned =>
    /\ \A v \in Items("manual") : Cardinality(Above(v)) > maxBlast
    /\ maxBlast < Depth =>
         \A v \in Items("needs-workload") : Cardinality(Above(v)) <= maxBlast

(***************************************************************************)
(* campaign.md: a hotspot "whose transitive inbound reach exceeds [the      *)
(* ceiling] is tagged manual", whatever the ceiling is.  It does not hold:  *)
(* a ceiling the depth does not exceed, as the default does not, is one on  *)
(* the symbols that many calls away.                                        *)
(***************************************************************************)
CeilingBoundsReach ==
  planned => \A v \in Items("needs-workload") : Cardinality(Above(v)) <= maxBlast

(***************************************************************************)
(* campaign.md: "--limit truncates the combined list": the worklist is the  *)
(* head of the worklist without a limit.                                    *)
(***************************************************************************)
LimitTruncates == planned => IsPrefix(items, Candidates(N))

(***************************************************************************)
(* hotspots --by blast-radius: the score of a hotspot is the number of      *)
(* other symbols that can reach it by any chain of calls, whatever cycles   *)
(* and calls of themselves there are, and nothing that is reached is left   *)
(* out but for the limit.                                                   *)
(***************************************************************************)
ImpactCounted ==
  planned /\ by = "blast-radius" =>
    /\ \A v \in Items("needs-workload") \cup Items("manual") :
         ScoreIn(v) = Cardinality(Impact(v))
    /\ Len(items) < limit =>
         \A v \in Node : Impact(v) # {} => v \in Items("needs-workload") \cup Items("manual")
=============================================================================
