SPECIFICATION Spec
CONSTANTS
  Programs <- MainPrograms
CHECK_DEADLOCK FALSE
INVARIANTS
  FiredAsDenoted
  HeardAsDenoted
  Settled
