SPECIFICATION Spec
CONSTANTS
  t1 = t1
  t2 = t2
  t3 = t3
  h1 = h1
  h2 = h2
  h3 = h3
  h4 = h4
  o1 = o1
  o2 = o2
  o3 = o3
  l1 = l1
  l2 = l2
  Threads = {t1, t2, t3}
  Handles = {h1, h2, h3, h4}
  Objects = {o1, o2, o3}
  Locks = {l1, l2}
  LockOf <- SharedLocks
  Null = Null
  Unmade = Unmade
  NoThread = NoThread
SYMMETRY Symmetry
INVARIANTS
  NoUseAfterFree
  CountsArePointers
