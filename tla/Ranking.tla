-------------------------------- MODULE Ranking -----------------------------
(***************************************************************************)
(* What graph_query.ts works out in memory from the rows of CALLS, calls of *)
(* oneself included, for the commands that rank symbols: campaign and       *)
(* report.  The numbers of the nodes are their places in the source, and    *)
(* every symbol counts as exported.                                         *)
(***************************************************************************)
EXTENDS CallGraph, Sequences, SequencesExt

CONSTANT PathOf     \* node -> [dirs, stem, script]: where its file is, its name, its kind

ASSUME PathAssumption == DOMAIN PathOf = Node

AppRouterStems ==
  {"page", "layout", "loading", "error", "not-found", "global-error", "template", "default",
   "route", "sitemap", "robots", "manifest", "opengraph-image", "twitter-image", "icon", "apple-icon"}

\* What next, tailwind, playwright and jest find by its path and name.
IsFrameworkEntryPoint(path) ==
  /\ path.script
  /\ \/ path.stem \in {"next.config", "tailwind.config", "playwright.config",
                        "global-setup", "global-teardown"}
     \/ path.stem \in {"middleware", "instrumentation"} /\ path.dirs \in {<<>>, <<"src">>}
     \/ path.stem \in AppRouterStems /\ ToSet(path.dirs) \cap {"app", "pages"} # {}

\* The members of S one after the other, u before v where the pair is in ahead, which
\* orders all of them. (SetToSortSeq says as much, but rests on an operator of TLC's
\* that proofs cannot look into.)
InOrder(S, ahead) ==
  LET place == [v \in S |-> Cardinality({u \in S : <<u, v>> \in ahead})]
  IN  [k \in 1 .. Cardinality(S) |-> CHOOSE v \in S : place[v] = k - 1]

Callers(calls, S) == {u \in Node : calls[u] \cap S # {}}

\* deadExports, given the nodes with a reference that is not a call: CALLS is a
\* reference, CALLS_RUNTIME is not.
DeadExports(calls, used) ==
  {v \in Node \ used : Callers(calls, {v}) = {} /\ ~IsFrameworkEntryPoint(PathOf[v])}

\* sumInbound with weight 1: each caller has one row.
FanIn(calls, v) == Cardinality(Callers(calls, {v}))

(***************************************************************************)
(* blastRadiusSizes: the worklist of each node starts with its callers; a   *)
(* popped node that was not visited before pushes its own.                  *)
(***************************************************************************)
Earlier == {e \in Node \X Node : e[1] < e[2]}

CallersList(calls, v, seen) == InOrder(Callers(calls, {v}) \ seen, Earlier)

Visited(calls) ==
  LET visit[at \in [stack : Seq(Node), visited : SUBSET Node]] ==
        IF at.stack = <<>> THEN at.visited
        ELSE LET v == Last(at.stack)
                 seen == at.visited \cup {v}
                 more == IF v \in at.visited THEN <<>> ELSE CallersList(calls, v, seen)
             IN  visit[[stack |-> Front(at.stack) \o more, visited |-> seen]]
  IN  visit

\* All that reach v by at least one call.
Reachers(calls, v) == Visited(calls)[[stack |-> CallersList(calls, v, {}), visited |-> {}]]

\* A node on a cycle counted as its own caller.
ReachableCountWithSelf(calls, v) == Cardinality(Reachers(calls, v))

ReachableCount(calls, v) == Cardinality(Reachers(calls, v) \ {v})

Cut(s, count) == SubSeq(s, 1, IF Len(s) < count THEN Len(s) ELSE count)

\* filter: those of s that are in K, in the order of s.
Kept(s, K) ==
  LET at == InOrder({i \in DOMAIN s : s[i] \in K}, {e \in (DOMAIN s) \X (DOMAIN s) : e[1] < e[2]})
  IN  [k \in DOMAIN at |-> s[at[k]]]

Higher(score) ==
  {e \in Node \X Node : \/ score[e[1]] > score[e[2]]
                        \/ score[e[1]] = score[e[2]] /\ e[1] < e[2]}

\* Highest score first, then by place; what scores nothing is left out.
Ranked(score, count) == Cut(InOrder({v \in Node : score[v] > 0}, Higher(score)), count)
=============================================================================
