SPECIFICATION FairSpec
CONSTANTS
  Users = {u1}
  Workers = {w1}
  NThreads = 1
  Entries = {e1, e2}
  Posts = {p1, p2}
  Hooks = {h1}
  Nesting = {"txn", "handler", "action"}
  CallbackSends = FALSE
  MaxOpens = 4
  NoThread = NoThread
INVARIANTS
  TypeOK
  RestState
  NoDanglingImpl
  LockOnlyInLibrary
PROPERTIES
  PostsOutsideTransactions
  EveryTransactionCloses
