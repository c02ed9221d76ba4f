SPECIFICATION FairSpec
CONSTANTS
  Procs = {p1, p2}
  PIPSIZ = 1
  Msgs <- ShortMsgs
  Counts = {0, 1}
  IOErrors = TRUE
PROPERTIES  HangupSeen
CHECK_DEADLOCK FALSE
