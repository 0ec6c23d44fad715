SPECIFICATION Spec
CONSTANTS
  Threads = {t1, t2}
  Streams <- PairStreams
  Listeners <- PairListeners
  Sources <- PairSources
  NoThread = NoThread
  Openers = {t1, t2}
  MaxDrift = 1
  SmallMax <- FewBits
  LargeMax = 7
SYMMETRY Symmetry
INVARIANTS
  NoPostStays
