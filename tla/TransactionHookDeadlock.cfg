SPECIFICATION FairSpec
CONSTANTS
  Users = {u1}
  Workers = {w1}
  NThreads = 1
  Entries = {e1}
  Posts = {p1}
  Hooks = {h1}
  Nesting = {"txn", "hook"}
  CallbackSends = FALSE
  MaxOpens = 4
  NoThread = NoThread
PROPERTY
  EveryTransactionCloses
CHECK_DEADLOCK FALSE
