SPECIFICATION Spec
CONSTANTS
  Users = {u1}
  Workers = {w1, w2}
  NThreads = 2
  Entries = {e1, e2}
  Posts = {}
  Hooks = {h1, h2}
  Nesting = {"txn", "hook"}
  CallbackSends = FALSE
  MaxOpens = 6
  NoThread = NoThread
SYMMETRY Symmetry
INVARIANTS
  HookRunnerExclusive
