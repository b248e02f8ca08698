CONSTANTS
  N = 3
  PathOf <- QueriedPaths
  Counts = {0, 1, 2}
  SelfCosts = {0, 1, 3}
  Unit = 144
  MaxRows = 3
  MaxLimit = 2
  DefaultLimit = 1
  Options = {0, 9}
  Few = 2
  KeyOf <- QueriedKeys
  Depth = 2
  SelfTimes = {0, 1, 2}
  Limits = {1, 2, 6}
  Ceilings = {0, 1, 2}
  None = None
  RunCounts = {3, 4}
  FindLimit = 1
  MaxMatches = 2
  Measurements <- TwoMeasurements
  MaxBenchmarks = 2
SPECIFICATION MCSpec
INVARIANTS Conserved AttributionAdds ReadsSound ConcentrationTrue CeilingHolds ImpactCounted Robust VerdictIsUnanimous
PROPERTIES BaselineOnlyFromFullRun
CHECK_DEADLOCK FALSE
