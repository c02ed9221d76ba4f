SPECIFICATION Spec
CONSTANTS
  Procs = {p1, p2}
  Nobody = Nobody
  Names = {n1, n2}
  NINODE = 2
  NINO = 2
  NICINOD = 1
  Faults = {"search", "iget", "iupdat", "wdir"}
INVARIANTS OneSlot RefCounts OneHolder NoLostWakeup LinkedIsLive
SYMMETRY Symmetry
CHECK_DEADLOCK FALSE
