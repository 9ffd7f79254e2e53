SPECIFICATION StoreSpec
CONSTANTS
  None = None
  Limits <- SmallPages
  AgentIds <- ThreeIds
  RunIds <- TwoIds
  BlobIds <- TwoIds
  Cwds = {w1, w2}
  Turns <- OneTurnOrTwo
  Data = {d1}
  AgentFilters <- EitherFilter
  MaxTime = 1
  Runs = {r1, r2}
  Keys = {k1, k2}
  MaxSeq = 3
  MaxDeletes = 1
SYMMETRY CwdSymmetry
CONSTRAINT OneSubstore
INVARIANTS
  Inv
  UntouchedListedOnce
  AgentsListedAtMostOnce
  ReaderSeesPrefix
PROPERTIES
  CursorMeansAnotherPage
  EventLogSpec
