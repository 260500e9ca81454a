CONSTANTS
  NWrites = 5
  NMsg = 6
  mq_maxmsg = 3
  prio <- MixedPrio
  Words = 3
  NRec = 5
  Capacity = 3
  BufRecs = 2
SPECIFICATION Spec
CHECK_DEADLOCK FALSE
INVARIANTS NoWakeupLost SentIsReceived NothingLeft
PROPERTIES ReturnsUnlessMerged BothSidesExit
