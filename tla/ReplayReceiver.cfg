SPECIFICATION Spec
CONSTANTS
  WordBits = 2
  Words = 3
  MaxInt64 = 10
  MaxUint64 = 21
  MaxAuthentic = 10
INVARIANTS
  AcceptedOnce
  WindowExact
  NoPanic
PROPERTY
  ImplementsFilter
