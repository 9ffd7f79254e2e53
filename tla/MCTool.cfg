SPECIFICATION Spec
CONSTANTS
  Tools = {t1, t2}
  InitialTools <- AnyEarlyTools
  Agents = {a1, a2}
  Modes <- AnyMode
  Stores <- AnyStore
INVARIANTS
  Inv
  EarlyToolIsReachable
PROPERTIES
  DeclaredToolsAreKnown
SYMMETRY Symmetry
CHECK_DEADLOCK FALSE
