SPECIFICATION Spec
CONSTANTS
  Workers = {w1, w2}
  Nodes <- MergeNodes
  Kind <- MergeKind
  Links <- MergeLinks
  CellOf <- None
  ApplyOf <- None
  Chain <- None
  Values = {v1, v2}
  InitValue = InitValue
  NoValue = NoValue
  MaxSends = 2
  MaxTxns = 1
SYMMETRY Symmetry
INVARIANT
  NoFiringLost
