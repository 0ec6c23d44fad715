SPECIFICATION Spec
CONSTANTS
  Programs <- SplitPrograms
CHECK_DEADLOCK FALSE
INVARIANTS
  StatePerFrame
