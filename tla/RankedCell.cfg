SPECIFICATION Spec
CONSTANTS
  Programs <- CellPrograms
  Values <- Sent
  NullRank = 99
CHECK_DEADLOCK FALSE
INVARIANTS
  CellKeepsUpdate
