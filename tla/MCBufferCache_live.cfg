SPECIFICATION FairSpec
CONSTANTS
  Procs = {p1, p2}
  NBUF = 1
  Blocks = {x1}
  BadBlocks = {}
  Vals = {Zero}
  Zero = Zero
  NODEV = NODEV
  Nobody = Nobody
  Nil = Nil
  FreeList = FreeList
  Faults = {"finish"}
PROPERTIES IowaitEnds SleepersWake
