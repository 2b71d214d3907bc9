CONSTANTS
  a = a
  b = b
  h1 = h1
  h2 = h2
  p1 = p1
  own = own
  default = default
  e1 = e1
  e2 = e2
  ga = ga
  ga1 = ga1
  ga2 = ga2
  gb = gb
  gb1 = gb1
  Client = {a, b}
  Doer = {h1, h2, p1, own, default}
  Editor = {e1, e2}
  Goroutine = {ga, ga1, ga2, gb, gb1}
  ClientOf <- MCClientOf
  Job <- MCJob
  Options <- MCOptions
  Segment = {"dev-test", "operation", "events", "payload"}
  Base <- MCBase
  OwnDoer <- MCOwnDoer
  DefaultClient = default
  SerialSetup = TRUE
SPECIFICATION Spec
INVARIANTS
  TypeOK
  ApiCallsAsConfigured
  StreamsUseOwnClient
  PayloadsApart
CHECK_DEADLOCK FALSE
