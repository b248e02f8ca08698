CONSTANTS
  Size = 3
  MaxUses = 2
  K = 4
  Method = {m}
  MaxAway = 1
SPECIFICATION MCSpec
INVARIANTS InvocationsCounted AccessesCounted DeadExportsTrue OverridesReach
CHECK_DEADLOCK FALSE
