SPECIFICATION FairSpec
CONSTANTS
  Done = Done
  Failed = Failed
  Garbage = Garbage
  MaxFrames = 1
  MaxAsked = 1
PROPERTY UnaryMeetsDeadline
