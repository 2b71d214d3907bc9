CONSTANTS
  d1 = d1  d2 = d2  m1 = m1  s1 = s1  s2 = s2
  Calls = {d1, d2, m1}
  OpOf <- MCOpOf
  Streams = {s1, s2}
  Leavers = {s2}
  Capacity = 1
SPECIFICATION FairSpec
INVARIANTS
  TypeOK
  OnePlace
  QueueOrder
  PayloadReachable
PROPERTY
  CallsReturn
CHECK_DEADLOCK FALSE
