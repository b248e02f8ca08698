CONSTANT N = 4
SPECIFICATION Spec
INVARIANTS CyclesFound
PROPERTIES NumbersComponents
CHECK_DEADLOCK FALSE
