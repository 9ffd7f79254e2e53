SPECIFICATION FairSpec
CONSTANTS
  None = None
  ObserveAfter <- OpenAtStart
  MaxLog = 3
  MaxDeltas = 1
  MaxDrops = 2
  WireCap = 2
PROPERTIES
  WaitReturns
  ReaderSpec
  PatientCallerSeesOutcome
CHECK_DEADLOCK FALSE
