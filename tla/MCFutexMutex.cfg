CONSTANTS
  NThreads = 3
  N = 2
SPECIFICATION FairSpec
INVARIANTS TypeOK MutualExclusion NoLostWakeup
PROPERTIES Termination ImplementsCounter
