SPECIFICATION Spec
CONSTANTS
  Users = {u1, u2}
  Workers = {w1, w2}
  NThreads = 1
  Entries = {e1}
  Posts = {p1, p2}
  Hooks = {}
  Nesting = {"txn"}
  CallbackSends = FALSE
  MaxOpens = 3
  NoThread = NoThread
SYMMETRY Symmetry
INVARIANT
  PostRunnerExclusive
