SPECIFICATION Spec
CONSTANTS
  Workers = {w1}
  Nodes <- PathsNodes
  Kind <- PathsKind
  Links <- PathsLinks
  CellOf <- None
  ApplyOf <- None
  Chain <- None
  Values = {v1}
  InitValue = InitValue
  NoValue = NoValue
  MaxSends = 1
  MaxTxns = 1
INVARIANT
  OneFiringPerTransaction
