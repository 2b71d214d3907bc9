CONSTANTS
  Letter = {"a", "b"}
  MaxLen = 3
  Longest = 6
SPECIFICATION Spec
INVARIANTS
  TypeOK
  Accepted
  Stable
  AsDocumented
  RefusedIfBlank
CHECK_DEADLOCK FALSE
