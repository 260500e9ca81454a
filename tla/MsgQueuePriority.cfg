CONSTANTS
  NMsg = 3
  mq_maxmsg = 8
  prio <- MCprio
SPECIFICATION Spec
CHECK_DEADLOCK FALSE
INVARIANTS HighPrioFirst
