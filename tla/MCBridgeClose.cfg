SPECIFICATION Spec
CONSTANTS
  Callers = {c1, c2, c3}
  MaxLaunches = 2
SYMMETRY CallerSymmetry
INVARIANTS
  CloseStopsBridge
CHECK_DEADLOCK FALSE
