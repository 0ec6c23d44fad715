SPECIFICATION Spec
CONSTANTS
  Programs <- MainPrograms
  Values <- Sent
  NullRank = 99
CHECK_DEADLOCK FALSE
INVARIANTS
  OutputsAsDenoted
  HeardAsDenoted
  CellsAsDenoted
  UpstreamFirst
  NothingLeft
PROPERTIES
  TransactionsEnd
