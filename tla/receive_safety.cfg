CONSTANTS
  Calls <- MCCalls
  Frames <- MCFrames
  MaxFrames = 2
  MaxRetries = 1
  ServerFilters = FALSE
SPECIFICATION Spec
INVARIANTS
  TypeOK
  OneFate
  BodiesAccounted
  FetchDecides
PROPERTY
  ImplementsDelivery
CHECK_DEADLOCK FALSE
