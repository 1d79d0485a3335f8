SPECIFICATION FairSpec
CONSTANTS
  Writers = {w1, w2}
  MaxAttempts = 2
  MaxSends = 3
INVARIANTS
  TypeOK
  FramesAreContiguous
  ReturnTellsTheTruth
PROPERTIES
  ImplementsFrameChannel
CHECK_DEADLOCK FALSE
