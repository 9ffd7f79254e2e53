SPECIFICATION FairSpec
CONSTANTS
  Callers = {c1, c2, c3}
  MaxLaunches = 2
INVARIANTS
  NoBridgeLeftBehind
  GracefulCloseIsFinal
  OpenClientKeepsItsBridge
  Inv
PROPERTIES
  CallsReturn
  SharedBridgeSpec
CHECK_DEADLOCK FALSE
