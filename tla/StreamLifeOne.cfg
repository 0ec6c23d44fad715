SPECIFICATION Spec
CONSTANTS
  Threads = {t1}
  Streams <- ChainStreams
  Listeners <- ChainListeners
  Sources <- ChainSources
  NoThread = NoThread
  Openers = {t1}
  MaxDrift = 1
  SmallMax <- FewBits
  LargeMax = 7
INVARIANTS
  NoPostStays
