CONSTANTS
  Calls = {c1, c2, c3}
SYMMETRY Symmetry
SPECIFICATION Spec
INVARIANTS
  TypeOK
  WriteIsVisible
PROPERTY
  ImplementsAtomicCalls
CHECK_DEADLOCK FALSE
