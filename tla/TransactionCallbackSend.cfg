SPECIFICATION Spec
CONSTANTS
  Users = {u1}
  Workers = {w1}
  NThreads = 1
  Entries = {e1, e2}
  Posts = {}
  Hooks = {}
  Nesting = {"handler"}
  CallbackSends = TRUE
  MaxOpens = 2
  NoThread = NoThread
SYMMETRY Symmetry
INVARIANT
  NoSendInHandler
