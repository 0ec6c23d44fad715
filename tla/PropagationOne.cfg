SPECIFICATION Spec
CONSTANTS
  Workers = {w1}
  Nodes <- MixedNodes
  Kind <- MixedKind
  Links <- MixedLinks
  CellOf <- MixedCells
  ApplyOf <- MixedApply
  Chain <- MixedChain
  Values = {v1, v2, v3, v4}
  InitValue = InitValue
  NoValue = NoValue
  MaxSends = 3
  MaxTxns = 2
SYMMETRY Symmetry
INVARIANTS
  TypeOK
  OutputsAsDenoted
  CellsAsDenoted
  OrderKept
