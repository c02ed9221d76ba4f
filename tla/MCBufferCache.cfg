SPECIFICATION Spec
CONSTANTS
  Procs = {p1, p2}
  NBUF = 3
  Blocks = {x1, x2}
  BadBlocks = {}
  Vals = {Zero}
  Zero = Zero
  NODEV = NODEV
  Nobody = Nobody
  Nil = Nil
  FreeList = FreeList
  Faults = {"finish"}
SYMMETRY Symmetry
INVARIANTS  Accounted NoLostWakeup RightBlock NotHungUp
