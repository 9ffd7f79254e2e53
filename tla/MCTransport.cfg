SPECIFICATION FairSpec
CONSTANTS
  Done = Done
  Failed = Failed
  Garbage = Garbage
  MaxFrames = 3
  MaxAsked = 4
INVARIANTS
  Inv
  ErrorMeansFault
PROPERTIES
  PromisedStream
  PendingReadAnswers
