CONSTANTS
  f1 = f1  f2 = f2  g = g
  r1 = r1  r2 = r2
  p1 = p1  p2 = p2
  None = None
  Ids = {f1, f2, g}
  Revs = {r1, r2}
  GitRevs = {r1}
  RuntimeKind = "CALLS_RUNTIME"
  StaticKinds <- MCStaticKinds
  WeightedKinds <- MCWeightedKinds
  Names <- MCNames
  NameOf <- MCNameOf
  Words <- MCWords
  DisplayOf <- MCNameOf
  FileOf <- MCFileOf
  Within <- MCWithin
  Frames <- MCFrames
  CallTree <- MCCallTree
  NodeLines <- MCNodeLines
  EdgeLines <- MCEdgeLines
  Enricher = "enrich"
  Clusterer = "cluster"
  Renamer = "rename"
  Profiles = {p1, p2}
  UserLabels = {"u"}
  MaxIndex = 2
  Loaders = {"l1", "l2"}
  Clients = {"l1", "l2", "enrich", "cluster", "rename"}
  Budgets <- KilledBudgets
  Crashes = TRUE
  Warm = {r1, r2}
CHECK_DEADLOCK FALSE
SPECIFICATION Spec
INVARIANTS TypeOK SessionsFresh LoadRepairs EnrichRepairs ClusterRepairs
PROPERTIES KeyOwnership
