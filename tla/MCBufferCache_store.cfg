SPECIFICATION Spec
CONSTANTS
  Procs = {p1, p2}
  NBUF = 2
  Blocks = {x1, x2}
  BadBlocks = {}
  Vals = {Zero, v1}
  Zero = Zero
  NODEV = NODEV
  Nobody = Nobody
  Nil = Nil
  FreeList = FreeList
  Faults = {"split"}
SYMMETRY Symmetry
INVARIANTS NoAlias 
PROPERTY ImplementsBlockStore
CHECK_DEADLOCK FALSE
