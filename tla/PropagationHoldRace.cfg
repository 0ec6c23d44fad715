SPECIFICATION Spec
CONSTANTS
  Workers = {w1, w2}
  Nodes <- HoldNodes
  Kind <- HoldKind
  Links <- HoldLinks
  CellOf <- None
  ApplyOf <- None
  Chain <- None
  Values = {v1, v2}
  InitValue = InitValue
  NoValue = NoValue
  MaxSends = 2
  MaxTxns = 1
SYMMETRY Symmetry
INVARIANT
  CellsHaveValue
