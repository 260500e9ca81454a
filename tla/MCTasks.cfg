CONSTANTS
  NThreads = 3
  Rounds <- Differing
  Iters = 2
  N = 4
  NPages = 4
  MaxSignals = 4
SPECIFICATION Spec
CHECK_DEADLOCK FALSE
INVARIANTS CountsAreRight NoLeak FaultIsServed LastSignal ReportsAreTrue
PROPERTIES SignalsAreNoticed DaemonDetached GetsThrough
