CONSTANTS
  N = 3
  Counts = {0, 1, 2}
  SelfCosts = {0, 1}
  Unit = 144
SPECIFICATION Spec
INVARIANT ShareIsFraction
CHECK_DEADLOCK FALSE
