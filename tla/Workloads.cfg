CONSTANTS
  Runner = {r1, r2}
  Lock = {l1, l2}
  NoDeps = NoDeps
  MaxStarts = 3
  MaxKills = 2
  MaxEdits = 2
  Driver = {d1, d2}
  Nobody = Nobody
  StartRate = 1
  StepRate = 1
  MaxRate = 2
  MaxPolls = 1
  Capacities = {0, 1, 2}
  MaxCrashes = 1
  MaxDriverKills = 1
  Shell = {r1, r2}
  Folder = {p1, p2}
  NoFolder = NoFolder
  MaxProfiled = 2
  Repeats = 2
  MaxForked = 1
  MaxStopped = 1
  MaxTreeEdits = 3
  MaxGateKills = 1
SPECIFICATION MCSpec
INVARIANTS DepsComplete CapacityMeasured ProfileOfDriver VerdictHolds
PROPERTIES ServersEnd
CHECK_DEADLOCK FALSE
