SPECIFICATION Spec
CONSTANTS
  MOD = 4
  WINDOWS = 2
  GETRIES = 2
  CONBAD = 1
  Burst <- Four
  Messages <- ByNumber
  PAYLOADS = 8
  MaxFaults = 2
  LINECAP = 2
INVARIANTS BuffersOK Aligned
PROPERTY ImplementsReliableLine
CHECK_DEADLOCK FALSE
