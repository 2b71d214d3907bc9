CONSTANTS
  p1 = p1  d1 = d1  d2 = d2  m1 = m1  x = x  y = y  s1 = s1
  Calls = {p1, d1, d2, m1}
  OpOf <- MCOpOf
  Streams = {s1}
  Leavers = {}
  Capacity = 1
  Data = {x, y}
  DataOf <- MCDataOf
SPECIFICATION FairSpec
INVARIANTS
  TypeOK
  InStep
PROPERTIES
  ExpectationsMet
  ImplementsTestEvents
CHECK_DEADLOCK FALSE
