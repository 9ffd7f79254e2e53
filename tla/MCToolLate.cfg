SPECIFICATION Spec
CONSTANTS
  Tools = {t1, t2}
  InitialTools <- NoEarlyTool
  Agents = {a1, a2}
  Modes <- Spawned
  Stores <- WithoutStore
INVARIANTS
  RegisteredToolIsReachable
CHECK_DEADLOCK FALSE
