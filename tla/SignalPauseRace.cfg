CONSTANT MaxSignals = 1
SPECIFICATION Spec
CHECK_DEADLOCK FALSE
PROPERTIES MainLoopNotices
