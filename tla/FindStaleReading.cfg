CONSTANTS
  None = None
  RunCounts = {3, 4}
  FindLimit = 2
  MaxMatches = 3
  MaxBenchmarks = 2
  Measurements <- MCMeasurements
SPECIFICATION BenchSpec
CHECK_DEADLOCK FALSE
INVARIANT ReadingsAreFresh
