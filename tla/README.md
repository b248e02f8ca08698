# codespine in TLA+

codespine turns a TypeScript project into a graph: `extract` parses the project
into JSONL files, `load` puts them into an embedded Kùzu database, `enrich` and
`cluster` annotate the rows, and a family of commands answers questions about
them. This folder models that system, checks the models with TLC and proves the
most important results with TLAPS. Every definition is a translation of the code
under `src/`; `PROJECT.json` maps each one to the lines it stands for.

Paths below are relative to `src/src` unless they start with `src/`.

## 1. The system

| component | state it keeps | operations | what makes it correct |
|---|---|---|---|
| Kùzu store (`store/kuzu_store.ts`) | tables GraphNode, Edge, GraphMeta; the lock on the directory | one Cypher statement per operation, each its own commit | no command loses another's data |
| JSONL hand-off (`store/jsonl_*.ts`) | `nodes.jsonl`, `edges.jsonl`, `source.json` | extract truncates and fills them in turn; load reads them in turn | a load stores what it read |
| extract (`commands/extract_command.ts`, `extract/`) | the parsed project, in memory | parse, ask git, write | nodes, scopes and targets agree; the commit is the one parsed |
| load (`commands/load_command.ts`) | what it read | merge nodes, merge edges, source manifest, runtime manifest | repairs what an interrupted load left |
| enrich (`commands/enrich_command.ts`, `enrich/`) | a copy of the rows, the joined profile | write metrics, manifest, clear and write `CALLS_RUNTIME` | manifest, metrics and edges describe one profile |
| cluster, cluster rename (`cluster/`, `commands/cluster_command.ts`) | a copy of the rows, partition, labels, plan | write index and label, write manifest | rows and manifest agree |
| graph queries (`query/graph_query.ts`) | nodes and call edges in memory | call cycles, cost, blast radius, dead exports, hotspots | each answer is what its documentation defines |
| campaign (`query/campaign_planner.ts`) | none | rank removals and hotspots | what it offers for autonomous work is safe |
| benchmark (`benchmark/`, `commands/benchmark_command.ts`) | target, readings, baseline files | resolve, profile n times, compare, save | a verdict means something |
| workload (`commands/workload_command.ts`, `src/scripts/loadtest/loadtest_driver.ts`) | container image, one volume per lockfile; a folder of profiles per command; a server, its port, the steps of a sweep | build, provision, run; profile, pick, enrich; boot, sweep, report, clean up | the workload runs with its dependencies; the profile is the driver's; the capacity is the server's |
| verify (`verify/`, `commands/verify_command.ts`) | the plan and the results of the gates | type-check, test, summarize | the verdict is true of the tree it is about |
| report (`report/`, `commands/report_command.ts`) | what it gathered | rankings, three reads, key findings | each statement holds of the graph |
| webview page (`src/contribs/webview/web/js/`) | the loaded graph, the canvas, filters, encoding, trail, tooltip; preferences in local storage | fetch, drop, toggle, select, search, hover, fold | what is on the page agrees with the loaded graph |
| webview server, install | none of their own | read-only or one-shot | not modelled, see section 8 |

**How they interact.** The commands are separate operating system processes that
meet in one output folder: three files and one database. The files are written
and read without any lock; the database is locked from open to close and the
second opener fails. Inside the database there are no transactions longer than a
statement, and the whole `metadata` column of a row is overwritten from a copy
read earlier in the session. Within a process everything is sequential;
`benchmark` calls the enricher once per run; `campaign` and `hotspots` call the
graph queries; container commands share volumes through the container engine;
`workload` and `benchmark` get profiles from the processes they start through a
folder; drivers of load tests share a port; `verify` shares the working tree with
whoever edits it. The webview page is single-threaded, but its handlers
interleave at two awaits (a fetch and the reading of a dropped file) and with
timers, and its tabs share local storage.

**What is hard.** A command killed between two statements; a load that reads
files while they are being rewritten; metadata of one command overwritten by
another; manifests that outlive the rows they describe; a commit read after the
parse; the numbering of call cycles with an explicit stack, and the cost pass
that relies on its order; the ways in which a syntax tree can nest; samples of
recursive calls; frames whose file, name and line point to different
declarations; a volume that exists but is not provisioned; children that write
profiles of their own; a server that outlives its driver or answers for another
one; page state that outlives the graph it is about. `PROJECT.json` lists
these under "hazards", each at its line.

## 2. The modules

### The pipeline

* `GraphModel`: rows, edges and manifests, and the pure functions from what a
  command read to what it writes: which nodes a profile resolves to
  (`Attributed`), the runtime edges, the partitions the detector may return, the
  automatic labels with the two passes that set equal ones apart (`WithHub`,
  `WithIndex`), the plan of a rename. A row keeps the revision its columns come from
  and the three metadata keys `runtime`, `community` and `label`; a metrics value is
  the profile it comes from, a label is the texts it is joined of, with the index of
  its community where that was appended, or a name a user chose. An edge keeps the
  revision or profile its metadata comes from.
* `KuzuStore`: the tables and the lock, one operator per statement.
* `Extract`: parse, git, and for each file a truncation and a flush. A file read
  in between is cut within a line (`ok = FALSE`, the reader throws) or between two.
* `Load`, `Enrich`, `Cluster`: the commands, one action per statement. The
  variables `ld`, `en`, `cl`, `rn` hold the place in the code and the locals.
  The order of statements inside one loop over nodes or edges is any order.
* `Pipeline`: all of them together with an editing user. `Budgets` bounds how
  often each command is started; `Crashes` says whether commands can be killed,
  which they then can between any two of their steps.
* `PipelineProps`: what the commands promise one another.
* `AtomicCommands`: the abstract specification: load, enrich, cluster and rename
  each change the database in one step, computed from the database found there.
* `PipelineAtomic`: the pipeline with two history variables. `before` is the
  database as the present holder of the lock found it; under the refinement mapping
  the abstract database is `before` while the lock is held, and the database
  otherwise. `leftover` says whether the last clustering passed over a node that an
  earlier one had put into a community (section 7, `ClusterResetsLabels`).
* `MCPipeline`, `MCAtomic`: the instance that is checked.
* `PipelineProofs`: proofs.

### Questions about the graph

* `CallGraph`: graphs, reachability, strongly connected components, by definition.
* `SccOrder`: what `stronglyConnectedComponents` promises: whole components are
  numbered one by one, callees first.
* `Tarjan`: the iterative search, step by step, with its three stacks. It refines
  `SccOrder` with the identity mapping. `TarjanProofs`: proofs.
* `CostModel`: the pricing of the numbered components. It builds on `SccOrder` and
  not on `Tarjan`: it holds for any order the promise allows. Costs are integers
  in units small enough that no division leaves a remainder.
* `Ranking`: what is worked out of the rows of CALLS for every command that ranks:
  dead exports with the allowlist of framework entry points, fan-in,
  `blastRadiusSizes` (a recursive function over the worklist), cutting at a limit.
  `InOrder` and `Kept` stand for the sorting and the filtering of lists and not
  `SortSeq` and `SelectSeq`, which are built in and which no prover can look into.
* `Report`: on top of the priced graph, the breakdown of `cost --node`, and the
  brief: rankings with both clamps, the three reads, the verdict, change risk and
  concentration.
* `Campaign`: removals, hotspots, the depth-bounded blast radius, readiness,
  ranking and limit.
* `SourceTree`, `SemanticGraph`: a syntax tree cut down to the nodes that can be
  scopes; which of them become graph nodes; and for each use (call, construction,
  read, write, update, type, registered handler, external or configuration read)
  the scope and the target the extractors give it, the builder's counts, the load
  and dead-exports.
* `Heritage`: classes and interfaces at the top of project files or away from
  them, and the EXTENDS, IMPLEMENTS and OVERRIDES edges they lead to.
* `MCQueries` extends `Report`, `Benchmark` and `Campaign`, `MCExtraction` extends
  `SemanticGraph` and `Heritage`; a behaviour has one of the parts, since each reads
  the graph by itself.
* `QueryProofs`, `ExtractionProofs`: proofs.
* `Induction`: induction, recursion and sums as facts about sets and functions, with
  which the proofs reason about what is computed from data (section 4).

### Measurements

* `RuntimeJoin`: the frames of a profile taken one by one: the url to a file, the
  name or else the line to a declaration, what is dropped and why, the manifest.
  Sources can be plain, transpiled, collapsed onto one line, or elsewhere.
* `CallTree`: the walk that sums the samples of subtrees, and the edges and
  weights that are left once frames are joined onto graph nodes.
* `ProfileRun`: the commands that profile: each makes a folder, runs a driver that
  may fork, takes the newest profile, enriches and removes the folder; a benchmark
  does so several times with the database open.
* `LoadTest`: drivers that boot a server, wait for its port, sweep rates, write a
  report or fail to, and clean up; servers that boot, fail, crash and are terminated; kills.
* `Benchmark`, `MCBenchmark`: target resolution, profiling runs, the metric as read
  back from what this and earlier profiles measured of the target and passed on to it,
  median, spread, verdict and baseline file, with rebuilds in between. The code sorts
  the readings to find the median; `Kth` says what stands at a place of the sorted
  array by how many readings are smaller, which has the same value and can be reasoned
  about. Its proofs are in `QueryProofs`, because `MCQueries` runs it.
* `DepsVolume`: image and volume of `workload --docker`, several shells, failing
  builds and installs, kills, and edits of the lockfile.
* `Verify`: the gates and the keep-or-revert loop around them, with edits and
  killed gates.
* `MCRuntime`, `MCWorkload`: the modules side by side, as above.
* `RuntimeProofs` (of `RuntimeJoin` and `CallTree`) and `WorkloadProofs`: proofs.
  `ProfileRun`, `Verify`, `LoadTest`, `CallTree`, `Benchmark`, `Campaign`, `Report` and
  `Heritage` name their parts `ProfileInit`, `VerifyInit` and so on, because MC modules
  and proofs extend them beside other modules.

### The viewer

* `ViewerPage`: one open page: embedded, fetched and dropped files, `setData`,
  legends and the filters they drive, encodings, selection with its trail, search
  and tooltips, with the order of the calls inside each handler.
* `ViewerPrefs`: folds, sidebar, width and theme of several tabs over one local
  storage that may not work at all.
* `MCViewer`: both, one group of controls in a behaviour. `ViewerProofs`: proofs.

Definitions commented as a dropped check or a wrong order (`LoadKeepRuntime`,
`PendingUnguarded`, ...) are faulty variants that no specification uses. Each
property was seen to fail when one of them takes the place of the original.

## 3. The runs

| run | states | what it shows |
|---|---|---|
| `PipelineKilled` | 1.4 M | Commands race and are killed anywhere. `LoadRepairs`, `EnrichRepairs`, `ClusterRepairs`: a command that completes leaves exactly what it computed, whatever an interrupted one left; labels that would be equal are told apart. `KeyOwnership`: nobody changes a key of another. `SessionsFresh`, `TypeOK`: why. |
| `PipelineCalm` | 380 k | Without kills. `CommandsAreAtomic`: the refinement of `AtomicCommands`. `ManifestCurrent`, `LabelAgreement`: whenever the database is closed, its manifests describe its rows. |
| `TarjanCycles` | 190 k | All 4096 graphs of four nodes, every order of successors: `CyclesFound` and the refinement `NumbersComponents`. |
| `GraphQueries` | 3.1 M | All graphs of three nodes. `Conserved`: what the components cost and pass on, under every order they may be numbered in. `AttributionAdds`: the breakdown agrees from both ends of a call. `ReadsSound`, `ConcentrationTrue`: what the report says. `CeilingHolds`, `ImpactCounted`: what the campaign leaves to agents, and how it scores. `Robust`, `VerdictIsUnanimous`, `BaselineOnlyFromFullRun`: what a benchmark concludes. |
| `SemanticCalls` | 2.0 M | All files of three scopes with one or two uses: `InvocationsCounted`, `AccessesCounted`, `DeadExportsTrue`; all hierarchies of four types: `OverridesReach`. |
| `RuntimeGraph` | 1.1 M | All layouts of three declarations and kinds of profile: `SamplesOwned`. All call trees of four frames joined in any way onto two symbols: `InflowCountsOnce`; all graphs of three frames: `WalkEnds`. |
| `Workloads` | 725 k | `DepsComplete`: two shells, two kills, two edits. `CapacityMeasured`, `ServersEnd`: two drivers on one port, a crash and a kill. `ProfileOfDriver`: two shells, children, a kill. `VerdictHolds`: edits and a killed gate. |
| `ViewerPage` | 350 k | `BoxesTell`, `ColoursCurrent`, `TrailSound`, `TooltipFresh`, `WholeDropShown`: the page agrees with its graph however graphs are replaced. `ViewKept`: two tabs keep the view their users chose. |
| `FindRenameRerun`, `FindCycleShare`, `FindStaleReading`, `FindForeignFrame` | | documented promises the code does not keep, section 7 |

To run one: `tlc -config PipelineKilled.cfg MCPipeline.tla`; the module of each
run is in `PROJECT.json`. Deadlock is not checked: in every model the system
stops when the user starts nothing more, or the algorithm has ended.

### Bounds and why they are enough

*Pipeline.* The project has a function `f` that moves to another file, and so to
another id, between the revisions `r1` and `r2`, a function `g`, and a dangling
edge. After a re-extraction the database therefore holds a row that is gone from
the source, two rows of one name (an ambiguous frame), edges of two revisions,
and nodes that only a profile connects: all the ways in which rows, edges and
manifests can come from different generations. Profile `p1` sees `f` call `g`,
`p2` sees `f` only, so that a second enrichment finds metrics and edges it must
not keep. Kills need no bound. The budgets cover the pairs of commands that can
disturb each other: two loads with a re-extraction (`Ingest`); two enrichments, a
clustering, a rename and a load (`Annotate`); enrichments around a reload
(`Enrichments`); a clustering and a rename, or two clusterings, around a reload
(`Naming`, `Reclustering`); one of each (`Mixed`); two enrichments, two clusterings
and a rename without a reload (`Leftovers`); a clustering after a load of whatever an
extraction got through with (`Regroup`). `Leftovers` matters at `r2`, where the
node of the moved function is connected by the profile `p1` alone: an enrichment
with `p2` takes its edge, and the next clustering passes it over. The output folder
starts empty or loaded at a revision of `Warm`.
Both files of `f` have one base name, so that the labels composed for the communities
of two revisions collide and are made distinct by their suffix.
`MaxIndex` lets a labels file name a community that does not exist.

*Graphs.* Three and four nodes contain every shape the algorithms tell apart:
cycles of two to four, nested cycles, a cycle with an exit, two cycles one
calling the other, two paths to one callee, nodes not connected at all. Weights
0, 1 and 2 make shares unequal and also zero. For cost the self costs are at most
one; for a report each call has weight 1 and self costs are 0, 1 and 3, so that
one symbol can be half of the time and ties occur. A cost is counted in units of
1/144, so that every division of these graphs comes out even. `MaxRows` and `Few` stand for
the program's 1000 rows and 5 or 3 symbols; one ranking is longer than `Few`.
`--limit` is 0 (clamped) or 9 (clamped to `MaxLimit`). One file is a page of an
application, an entry point by name; two nodes share a `symbolKey`. In `Campaign`
blast radius looks two calls up, which a cycle of three exceeds; there are ceilings
below the depth and at it, limits on both sides of the sizes, and of the nodes that
are called none is used otherwise.

*Syntax trees.* Three nested scopes reach all parent-child-grandchild
combinations the resolvers distinguish, two uses give one edge counted twice. Four
types make chains with one class in between that does not declare the method, two
interfaces, and one type away from the project or local; one method name, since
names do not interact.

*Benchmark.* Three and four runs are the shortest odd and even series in which
one run can stand out; `find` returns one of two matches, or two of three in
`FindStaleReading`. A profile samples the target, or what it calls as well, or
neither; in `FindStaleReading` also what it calls alone.

*Profiles.* Three declarations in two files nest twice; each begins on a line of
its own and one-line declarations inside others are left out, since nothing in a
profile without columns could tell them apart. Each frame has its own power of two
of samples, in both halves, so that every sum says which frames are in it. Profiles
that qualify names are those that collapse lines. `Tangled` bounds the malformed profiles to
graphs over three of the four frames; `StackLimit`, twice the number of frames,
stands for memory, and the correct walk never comes near it.

*Workloads.* `MaxStarts`, `MaxKills`, `MaxEdits`, `MaxCrashes`, `MaxDriverKills`,
`MaxProfiled`, `MaxForked`, `MaxStopped`, `MaxTreeEdits` and `MaxGateKills` bound
the runs: two commands at a time is what interference needs, and one fault of each
kind can come at any step. Rates are 1 and 2 with capacities 0, 1 and 2, so a
server keeps none, some or all of them. A child inherits the standard error the
command waits on; Ctrl-C and kills take the process group of a command, which is
why its driver goes with it.

*Viewer.* Two extractions, one without measurements, communities, a node and some
edge kinds; drops of any order and mixture of halves, with broken and empty files;
two drops that overlap only in the group of controls called `loading`.

### Fairness

`Tarjan` and `CallTree` assume weak fairness of their single loop, which nothing
else shares a thread with. `LoadTest` assumes it of the steps of a driver that was
not killed and of the end of a server that was sent SIGTERM, but not of a server's
boot: that a driver does not wait for ever is due to its deadline. Nothing else
assumes fairness; nothing makes a user start, edit or kill.

## 4. What is proved

`PipelineProofs` proves, for any sets of ids, revisions, profiles and loaders,
any project, any budgets and kills at any point, from the assumptions stated
beside the constants (finitely many ids, runtime kind not a static kind, distinct
names for the commands):

* `TypeCorrect`: `Spec => []TypeOK`;
* `SessionsStayFresh`: `Spec => []SessionsFresh`;
* `KeysStayOwned`: `Spec => KeyOwnership`.

The invariant is `IInv == TypeOK /\ SessionsFresh`. `KeyOwnership` says of a step
that a row changes only in the keys of the command that writes it, but the step
writes a whole row computed from a copy; so the copy must agree with the table on
all other keys (`RowsFresh`), which holds because nobody else could write since it
was read, which is the lock (`LockHeld`). `TypeOK` in turn needs `WorkKnown`: a
value is known for each row still to be written. The proof has one lemma per
command: what it preserves of types, of its own session, and why it leaves those
of the others alone; `EnrichMerges`, `ClusterMerges` and `RenameMerges` say that
a written row is the row in the table but for the owned keys.

`WorkloadProofs` proves what the commands that provision, load and verify promise.
For any number of shells and lockfiles:

* `DepsTypeCorrect`: `Spec => []TypeOK`;
* `WorkloadFindsDeps`: `Spec => []DepsComplete`.

`DepsComplete` is about one moment; it becomes inductive with `Settled` (a
command past provisioning has its whole volume, also before it mounts it),
`Alone` (whoever provisions has the volume to itself), `Fresh` (the lockfile is
the one hashed until it is copied) and `Whole` (a volume is whole or absent
unless somebody is at work on it), each for volumes that no kill, second command
or edit interfered with. The history variable `disturbed` records those.

For any number of load tests on one port, any rates and capacity, with servers that
fail, crash or outlive a killed driver:

* `CapacityIsMeasured`: `LoadTestSpec => []CapacityMeasured`.

The report is written from the steps of the sweep, whose number is not known; so
the invariant says of each of them at which rate it was taken and, unless the driver
was misled, that it kept the SLO exactly if the server keeps that rate
(`KeptBefore`), that a sweep goes on only after steps that kept it (`Sweeping`), and
that one that stopped early stopped at a breach (`Breached`). `Summary` is then about
sets of steps, and the maximum and the minimum in `CapacityMeasured` are those sets'.

For the gates of `verify`, whatever is edited and killed:

* `VerdictIsTrue`: `VerifySpec => []VerdictHolds`.

The invariant adds `StatusesTrue`: of each gate the command is through with, its
status says what the tree would say.

It proves, too, from the same assumptions and with kills anywhere:

* `LoadCompletes`, `EnrichCompletes`, `ClusterCompletes`: `Spec => []LoadRepairs`,
  `[]EnrichRepairs` and `[]ClusterRepairs`.

Each of these speaks of the moment before a command closes the database only. The
invariant is `IInv /\ Progress`: of every earlier moment `Progress` says that the
part of the work that is no longer to be done has been done (`LoadProgress`,
`EnrichProgress`, `ClusterProgress`), and that edges of the table join rows of it
(`EdgesAnchored`). `SessionsFresh` is what carries it through the steps of others:
nobody writes while the command has the database open. That the labels differ, for any
names, files and hubs, is a lemma about the two passes of the dedupe (`AutoLabelsType`):
the composed labels may well be equal.

The second half of `PipelineProofs` proves, from the same assumptions, and with kills
excluded (`Crashes = FALSE`) where a killed command really breaks the promise:

* `SessionsHold`: `AtomicSpec => [](IInv /\ Progress /\ Sessions)`, kills included;
* `CommandsAtomic`: `AtomicSpec => CommandsAreAtomic`, without kills;
* `ManifestStaysCurrent`: `Spec => []ManifestCurrent`, without kills;
* `LabelsStayInAgreement`: `AtomicSpec => []LabelAgreement`, without kills.

`Sessions` says at every place of every command what the database is in terms of
`before`: the rows not in the to-do set are those of the result, the others those
that were found, and each manifest is old or new by the place in the code. A step
inside a command then maps to a stutter, as the lock is held before and after it, and
closing maps to the command's one abstract step, since nothing is left to do.
`ManifestCurrent` follows from an invariant about the moments in between
(`RuntimeTrue`); `LabelAgreement` is shown of the abstract steps only (`LabelsTrue`),
to which the refinement reduces it. It needs two things a small instance does not
show. `None` must not be a labels array (`ManifestAssumption`). And it cannot be said
of every node: one that lost its last weighted edge keeps index and label of an
earlier clustering, which the new numbering gives another meaning; hence `leftover`.

`TarjanProofs` proves, for any number of nodes, any graph and any order of rows:

* `SearchIsSound`: `Spec => []TarjanInv`;
* `CyclesFoundAlways`: `Spec => []CyclesFound`;
* `NumbersInOrder`: initial states and steps of `Tarjan` are those of `SccOrder`,
  the safety half of `NumbersComponents`.

A node with a frame is open. The invariant says what the stacks stand for: an open
node reaches every node found after it that has no number yet (`BelowReaches`);
every such node reaches an open one found no later than itself (`AboveReaches`); a
lowlink is the discovery number of a node without a number that the frame's node
reaches (`LowlinksTrue`); and an edge already followed leads to a node no older than
the lowlink of some frame above (`Bounded`). When a frame closes with its own
discovery number as lowlink, `Bounded` makes what it pops, together with the
numbered nodes, closed under calls (`MembersAreComponent`), and that with the two
reachability parts makes it a strongly connected component. When it closes with a
smaller one, `AboveReaches` gives the older open node that takes its place.

For the commands that profile, `EnrichesWithOwnProfile`: `ProfileSpec =>
[]ProfileOfDriver` for any shells, folders (enough of them for the commands) and
bounds. `ProfileIInv` adds who owns a folder (`Own`), where there can be profiles
(`Tidy`), whose they are (`Filled`), that the driver's is the last of those written
before it closed (`Written`), and who has the database open (`Locked`).

`QueryProofs` proves of a benchmark, for any graph, measurements, numbers of runs and
limit:

* `MedianIsRobust`: `BenchSpec => []Robust`;
* `VerdictUnanimous`: `BenchSpec => []VerdictIsUnanimous`;
* `BaselineIsMeasured`: `BenchSpec => BaselineOnlyFromFullRun`.

All of it rests on there being a reading at every place of the sorted order, which
for an arbitrary sequence would be an induction over its length. The readings arrive
one by one, so it is part of the inductive invariant instead (`Sortable`), and
`AppendSortable` is its step: the new reading stands at its place, and what stood
behind it moves up by one. `MedianMiddle` counts how many readings lie on either side
of the median, `MedianRobust` finds among them two that are not the one left out,
and `SummaryIs` bounds the distance of a reading from the median by the spread, which
is why a delta beyond the spread is one for every reading. An assumption on the
constants came out of it: `None` is no verdict.

`ViewerProofs` proves, for any extractions, files, drops and number of loads:

* `BoxesTellAlways`, `ColoursStayCurrent`, `TrailStaysSound`, `TooltipsStayFresh`:
  `Spec => []BoxesTell`, `[]ColoursCurrent`, `[]TrailSound` and `[]TooltipFresh`;
* `WholeDropsShow`: `Spec => WholeDropShown`;
* `ChoicesSurviveReloads`: `PrefsSpec => []ViewKept` for any tabs, sections and
  widths, provided `Absent` is not the name of a theme.

`PageInv` has a part for each group of panels: the filters stand for the boxes and
what is veiled follows from them (`FiltersAgree`), the encoding can tell nodes of the
loaded graph apart and the canvas is drawn by it (`ColoursAgree`), the trail names
nodes of the loaded graph (`TrailInv`), and a drop that nobody disturbed has sorted
away the files it has read (`DropsTrue`). `setData` must establish each of them anew,
and the proof of each part has that as a case of its own. The proof showed that an
encoding cannot tell nodes of a graph that has none apart; `ColoursCurrent` says so.
For the preferences the invariant adds `Synced`: what is stored is what the tabs that
nobody has written over show.

### What is computed from data

The remaining results are about recursion, sums and orders over graphs, trees and
profiles of any size. The induction theorems of the library take a predicate as
their parameter, which the provers cannot instantiate. `Induction` has what is
needed in terms of sets and functions:

* a non-empty set of numbers has a least one (`LeastOf`, from the library's
  theorem about minimal elements), and so a set that holds each number up to `n` when it
  holds the smaller ones holds all (`SetInduction`); the set plays the predicate;
* a recursive definition whose rank goes down has a solution (`Recursion`): the
  definition is given as a function `Phi` from functions to functions, and `Descends`
  says that it looks at smaller arguments only;
* `SumOver(f, S)`, which is such a recursion: it does not depend on the order
  (`SumsAgree`), adds up over disjoint sets (`SumUnion`), over the values of another
  function (`SumFibres`), and what adds nothing can be left out (`SumZeros`).

`ExtractionProofs`, for syntax trees and hierarchies of any size:

* `InvocationsAreCounted`, `AccessesAreCounted`, `DeadExportsAreTrue`: `Spec =>
  []InvocationsCounted`, `[]AccessesCounted` and `[]DeadExportsTrue`;
* `OverridesLeadThere`: `HeritageSpec => []OverridesReach`.

`SemanticIInv` says of each edge that its count is the number of uses merged so far
that have its kind, scope and target (`EdgesCounted`). What remains is about the
scopes: `Around`, the nodes around one, is a recursion over the tree, nested and in
the order of the numbers (`AroundNested`), so that of the nodes around a use which satisfy a
condition the nearest is the one with the largest number, and the two resolvers,
which climb from parent to parent, find it. For heritage the base classes of a class
have smaller numbers, and that the chain of OVERRIDES edges from a method is the one of
the base classes declaring it is an induction on the number of the class.

`RuntimeProofs`, for any sources, profiles and ticks:

* `SamplesAreOwned`: `Spec => []SamplesOwned`;
* `InflowIsCounted`: `TreeSpec => []InflowCountsOnce`.

`JoinIInv` accounts for the frames the join has come to: what a declaration has is the
samples of the frames that resolved to it, and matched and dropped samples are all of
them. `SamplesOwned` is then about `Resolution` alone: declarations that cover a
line are nested (`Nesting`), so one is the narrowest (`EnclosingOne`), and a line on which a
declaration begins is covered by nothing narrower (`EnclosingOwn`); `HomeFile` and
`ElsewhereFile` say which file a url leads to. The proof showed that a profile taken
in a folder below the root can lead to another file of the project; hence
`Elsewhere`. For the calls, `TreeIInv` says that no frame on the stack is below one
that is to be summed before it, so that when a frame is summed its callees are summed or,
in a malformed profile only, still waiting; in a forest the frames below two are nested
or have none in common (`NestedOrApart`), which makes the total of a frame its own
samples and the totals of its callees (`WholeSplits`). Without indirect recursion the frames
entered from another graph node are not below each other (`EnteredApart`), and
each is entered by one call.

`QueryProofs`, for any graph, weights and measured times:

* `CostIsConserved`, `AttributionAlwaysAdds`: `Spec => []Conserved` and
  `[]AttributionAdds`. `CostIInv` says of each component priced so far that its
  inclusive cost is its own cost and what its callees pass on to it, with the numbering of
  `SccOrder` (`SccIInv`): callees have smaller numbers. Cut the components in two by
  their numbers: what nobody pays for above the cut is what the upper part spends
  itself and what the lower one charges it (`CutAt`); with everything above it, that is
  the claim. That no remainder is lost (`NoRemainder`) is a hypothesis of the
  properties: the program divides floating point numbers, the model integers.
* `ConcentrationIsTrue`: `ReportSpec => []ConcentrationTrue`; `ReadsAreSound`: `N <= MaxRows
  => (ReportSpec => [](EveryCallCounts /\ NoRemainder => ReadsSound))`. No `k` nodes
  spend more than the first `k` of the ranking (`TopSums`); and a node has an
  inclusive cost exactly if something that does work can be reached from it
  (`CostIsWork`), by induction on the numbers of components. The hypotheses are
  needed: a ranking longer than `MaxRows` is cut, which `HiddenHaveFewCallers` of
  section 7 shows, and a call made no times passes no cost on. TLC confirms that every
  report of the run satisfies them, and every priced graph `NoRemainder`.
* `ImpactIsCounted`: `PlanSpec => []ImpactCounted`. The traversal with a worklist ends
  because a weight of unvisited nodes and stack goes down (`Weight`), and it collects
  the least set that is closed under callers (`Collects`), which are the nodes that
  reach the one asked for.
* `CeilingAlwaysHolds`: `PlanSpec => []CeilingHolds`, for graphs of any size and any
  depth. What blast radius finds reaches the node (`RadiusIsAbove`), so a hotspot
  tagged manual is above the ceiling whatever was left out. Each call it looks up
  finds another node or there is none left (`RadiusSettles`); so if it found fewer
  nodes than the depth it found all (`RadiusReachesAll`), and a ceiling below the depth
  is exact. For a ceiling of the depth or more, as the default is, `CeilingBoundsReach`
  of section 7 shows what happens.

## 5. What is only checked

Liveness: `WalkEnds`, `ServersEnd`, and that every node gets a
number in the end, the fair half of `NumbersComponents` (its safety half is
`NumbersInOrder`). Temporal reasoning under fairness is beyond the prover. All other
properties of the runs that are to hold are stated by theorems, with the
hypotheses given above for `LabelAgreement` and `ManifestCurrent` (no kills) and
`ReadsSound`.

## 6. Abstractions worth knowing

* The community detector returns any partition of the nodes that weighted edges
  touch, numbered by falling size. Any member may be the hub of its community, as edge
  weights are left out. A label is the list of its texts: no text contains the dot or
  the hash they are joined with.
* In `GraphModel` frames carry names only, as in a transpiled profile: a name that
  several rows carry is ambiguous and dropped. Lines, ranges and path suffixes are
  `RuntimeJoin`'s, for one graph; a path there is a sequence of folders.
* A load-test step below the capacity keeps the SLO; above it, it breaches in one
  of the ways the driver tests, any of them. Latencies are not numbers.
* A gate that is killed has no exit code; what a gate answers depends on the tree
  as it is when the gate ends.
* A label or metrics value is its origin, not its text or number.
* In `SemanticGraph` every top-level declaration counts as exported.
* In `Ranking` the places of nodes in the source are their numbers, so ties in
  the ranking are broken as in the code.

## 7. Promises the code does not keep

Four are listed as findings with their runs:

* `FindRenameRerun`: a rename killed half-way is not finished by running it again;
  the plan looks at the first member only and finds nothing to do.
* `FindCycleShare`: a caller of two members of one cycle is charged the whole
  cycle twice, so `shareOfTotal` exceeds 1 (`a` calls `b` and `c`, which call each
  other).
* `FindStaleReading`: a profiling run that never samples the target repeats the
  reading of the run before.
* `FindForeignFrame`: a frame of a dependency whose path ends like that of a
  project file (`node_modules/dep/src/a.ts` and `src/a.ts`) is attached to the
  project instead of being dropped.

The modules state further promises of comments and documentation that do not
hold. They are in no run; add the formula to the configuration named to see how
it fails (`M!F` is the formula `F` of module `M`).

| formula | configuration | what happens |
|---|---|---|
| `PipelineProps!SourceIsParsedCommit` | PipelineKilled | git is asked for HEAD after the parse; a checkout in between is recorded |
| `PipelineProps!UndetectedSourceIsAbsent` | PipelineKilled, with `Warm = {r1}` | an extraction without an origin leaves the old `source.json` |
| `PipelineProps!MetricsMatchManifest` | PipelineCalm | metrics of the first profile stay on nodes the second does not sample |
| `PipelineProps!ClusterResetsLabels` | PipelineCalm | a node whose only weighted edges came from an earlier profile is passed over and keeps index and label, a user's too |
| `PipelineProps!UnknownIndexIgnored` | PipelineCalm | after a reload stripped the members, a rename still edits the manifest |
| `PipelineProps!LoadCountsTheDatabase` | PipelineKilled | older edges are not counted |
| `Campaign!LimitTruncates` | GraphQueries | hotspots are cut by score before they are ranked by readiness |
| `Campaign!CeilingBoundsReach` | GraphQueries | callers beyond the depth (10 in the code) do not count, so a ceiling of that depth or more (25 is the default) does not bound what reaches a hotspot (`src/docs/commands/campaign.md`, line 31) |
| `Benchmark!TargetIsUnambiguous` | FindStaleReading | the second exact match is beyond the limit of `find` |
| `Benchmark!DeltaComparesOneMetric` | FindStaleReading | a baseline in milliseconds is compared with samples |
| `SemanticGraph!ReadKeepsAlive` | SemanticCalls | a read at the top level of a module is not recorded |
| `SemanticGraph!ScopeAlwaysExists` | SemanticCalls | a configuration read in a method of an object literal is dropped at load |
| `SemanticGraph!InvocationsNeverDangle` | SemanticCalls | calls in the methods of a local class are dropped at load |
| `SemanticGraph!TypeKeepsAlive` | SemanticCalls | a type that only annotates a local variable or an arrow function has no reference, and dead-exports offers it |
| `Heritage!InheritedMembersOverridden` | SemanticCalls | OVERRIDES stops at the interface that is named and does not follow what it extends |
| `Report!HiddenHaveFewCallers` | GraphQueries, with `MaxRows = 1` | fan-in is read through a limit, and a symbol beyond it counts as having no callers |
| `Report!CareIsHot` | GraphQueries | two symbols of one name in one file have one identity, and the cold one is listed as expensive |
| `Verify!VerdictOfOneTree` | Workloads | an edit between the gates is kept without having passed the first one |
| `CallTree!FlowWithinProfile` | RuntimeGraph | under mutual recursion samples are counted once per level |
| `ViewerPage!PanelOfLoadedGraph` | ViewerPage | setData refreshes "every sidebar panel" (`src/contribs/webview/web/js/graph/graph.js`, line 27) but not the details, which stay those of the replaced graph until the user selects or taps |
| `DepsVolume!MountedIsProvisioned` | Workloads | a killed install, a second command or an edited lockfile leaves a volume that is taken for provisioned |

`deadExports` also ignores `CALLS_RUNTIME` edges, so a symbol that only a profile
saw being called is offered for removal; the models have no formula for it.

## 8. Not modelled

* Reading TypeScript: imports and re-exports, parameters, JSDoc, overload
  signatures and the spelling of ids; the patterns by which endpoints and external
  clients are recognised. They are matching on single expressions; their scopes are
  in `SemanticGraph`.
* Single Cypher queries (`who-calls`, `neighbors`, ...): they are their own
  specification.
* The layout of the report and its PDF; the text of panels, tooltips and hints.
* The webview server (constant after two reads), `install` and `workload scaffold`
  (files copied one by one), argument parsing, schemas: no state and no interaction
  beyond reading.
* The template of the load-test driver under `src/dotclaude_folder`, a copy for
  other projects of the script that `LoadTest` models.
* Cytoscape and the layout of the canvas: the elements are added, removed, hidden
  and styled as the page asks.
* Rounding: costs are exact.
* agent prompts, scripts, sample projects, documentation site.

## 9. Plan

Done in this order: the store and its commands (the data everything else rests
on), their composition and its first theorems; the algorithms on the call graph;
measurements; extraction; provisioning; then the frame join, profiling and load
tests, verify, report, uses and heritage in extraction, the viewer page with its
preferences; and the proofs: of the repairs, of profiling, verify and preferences;
then of the refinement and the manifests, of the viewer page, of the call cycles, of
the load test and of the benchmark; then of what is computed from data: extraction,
heritage, the frame join and the calls, cost, campaign and report.

Left, models:
1. readers of the pipeline: a webview server that opens the database twice, a
   benchmark as a client that enriches;
2. structural extraction: imports, re-exports and the nodes load invents;
3. `GraphModel!Resolves` replaced by the join of `RuntimeJoin`.

Left, proofs: what liveness rests on as far as it is safety, namely that each step of
`Tarjan` and `CallTree` lowers a number and that a step is possible until they are
done; and that the walk of `CallTree` never needs more of its stack than the profile
has frames.
