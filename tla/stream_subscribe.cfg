CONSTANTS
  d1 = d1  d2 = d2  m1 = m1  s1 = s1  s2 = s2
  Calls = {d1}
  OpOf <- MCOpOf
  Streams = {s1}
  Leavers = {}
  Capacity = 1
SPECIFICATION FairSpec
PROPERTY
  DeletionSeen
CHECK_DEADLOCK FALSE
