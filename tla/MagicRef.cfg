SPECIFICATION Spec
CONSTANTS
  h1 = h1
  h2 = h2
  Handle = {h1, h2}
  Object = {1, 2, 3}
  Nobody = 0
  MaxContents = 2
SYMMETRY HandleSymmetry
CHECK_DEADLOCK FALSE
INVARIANTS
  CountsAreReferences
  GarbageHasRoot
  CollectsGarbage
PROPERTIES
  KeepsPromise
