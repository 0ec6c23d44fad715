SPECIFICATION FairSpec
CONSTANTS
  Workers = {w1, w2, w3}
  Entries = {e1, e2, e3}
  NoThread = NoThread
  NoEntry = NoEntry
INVARIANTS
  QueueIsFifo
  DrainedAtJoin
  NoSleeperAfterFinish
  WorkConserving
PROPERTIES
  CloseReturns
  ImplementsDrain
