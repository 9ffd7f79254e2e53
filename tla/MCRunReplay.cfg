SPECIFICATION Spec
CONSTANTS
  None = None
  ObserveAfter <- OpenAnywhere
  MaxLog = 3
  MaxDeltas = 1
  MaxDrops = 1
  WireCap = 2
PROPERTIES
  ReaderSpec
CHECK_DEADLOCK FALSE
