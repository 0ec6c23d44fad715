SPECIFICATION Spec
CONSTANTS
  Threads = {t1, t2}
  Streams <- ChainStreams
  Listeners <- ChainListeners
  Sources <- ChainSources
  NoThread = NoThread
  Openers = {t1, t2}
  MaxDrift = 0
  SmallMax <- FewBits
  LargeMax = 7
SYMMETRY Symmetry
CONSTRAINT OwnAlone
INVARIANTS
  CountsAreReferences
  NoUseAfterFree
  CleanedOnce
  WiredWhileNeeded
  NothingLeftBehind
