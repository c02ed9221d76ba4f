SPECIFICATION CSpec
CONSTANTS
  Calls = {c1, c2, c3}
  NCALL = 7
  Delays = {0, 1, 2, 3}
  NotPending = NotPending
PROPERTY ImplementsTimers
CHECK_DEADLOCK FALSE
