SPECIFICATION Spec
CONSTANTS
  Procs = {p1, p2, p3}
  PIPSIZ = 2
  Msgs <- LongMsgs
  Counts = {1, 3}
  IOErrors = FALSE
SYMMETRY Symmetry
INVARIANTS NoLostWakeup SizeBound RefCounts OneHolder
PROPERTY ImplementsFifo
CHECK_DEADLOCK FALSE
