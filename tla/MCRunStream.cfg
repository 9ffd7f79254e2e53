SPECIFICATION Spec
CONSTANTS
  None = None
  ObserveAfter <- OpenAnywhere
  MaxLog = 4
  MaxDeltas = 1
  MaxDrops = 2
  WireCap = 2
INVARIANTS
  NoEventSkipped
  SentOffsetIsDurable
  OutcomeTellsLastStatus
  WaitKeepsSeenOutcome
  Inv
CHECK_DEADLOCK FALSE
