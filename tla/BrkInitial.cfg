CONSTANTS
  Large = 3
  BrkPages = 3
  MapPages = 7
  StackFrames = 3
  Sizes = {1, 4, 5}
  MaxIters = 30
  BigSize = 4
SPECIFICATION MCSpec
CHECK_DEADLOCK FALSE
INVARIANT BreakIsInitial
