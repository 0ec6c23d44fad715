SPECIFICATION Spec
CONSTANTS
  Workers = {w1, w2}
  Nodes <- RacingNodes
  Kind <- RacingKind
  Links <- RacingLinks
  CellOf <- RacingCells
  ApplyOf <- None
  Chain <- None
  Values = {v1, v2}
  InitValue = InitValue
  NoValue = NoValue
  MaxSends = 1
  MaxTxns = 2
SYMMETRY Symmetry
INVARIANTS
  SnapshotsAsDenoted
  CoalesceEntryHasValue
  NothingLeft
