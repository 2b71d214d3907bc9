CONSTANTS
  Calls <- MCCalls
  Frames <- MCFewFrames
  MaxFrames = 3
  MaxRetries = 1
  ServerFilters = TRUE
SPECIFICATION FairSpec
INVARIANT
  OnlyOwnType
PROPERTIES
  CancelReturns
  FrameSettles
CHECK_DEADLOCK FALSE
