SPECIFICATION AllSpec
CONSTANTS
  None = None
  Attempts = {d1, d2, d3}
  ToMemory = {d3}
  Versions <- TwoVersions
  Size <- Sizes
  MaxSize = 2
  Tasks = {t1}
  MaxTries = 3
  Attached = {TRUE, FALSE}
  Failures <- Answers
  Names = {n1}
  Used <- SomeFields
  Durations <- HalfSeconds
  MaxSettings = 2
  MaxCalls = 3
CONSTRAINT OnePart
INVARIANTS
  Inv
  OkDownloadIsWhole
  NoAgentLeaked
  KeyedCreateIsOne
  NoFutileRetry
PROPERTIES
  GuardReleases
  RefusedForCause
  CarriesWhatWasAsked
CHECK_DEADLOCK FALSE
