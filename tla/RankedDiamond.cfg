SPECIFICATION Spec
CONSTANTS
  Programs <- DiamondPrograms
  Values <- Sent
  NullRank = 99
CHECK_DEADLOCK FALSE
INVARIANTS
  CombinedIntoOne
