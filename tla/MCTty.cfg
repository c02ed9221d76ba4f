SPECIFICATION Spec
CONSTANTS
  Readers = {r1}
  Writers = {w1, w2}
  None = None
  Keys = {"c", "nl", "eot", "stop", "start", "intr"}
  TTHIWAT = 0
  TTLOWAT = 0
  TTYHOG = 1
  CANBSIZ = 4
  WIDTH = 3
  NCLIST = 3
  FIFO = 1
  LEVEL = 0
  Counts = {1}
  MaxCalls = 1
SYMMETRY Symmetry
INVARIANTS OutputMoves DelctRight 
