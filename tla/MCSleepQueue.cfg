SPECIFICATION Spec
CONSTANTS
  Procs = {p1, p2, p3}
  Sched = Sched
  c1 = c1
  c2 = c2
  Chans = {c1, c2}
  Runout = Runout
  Hash <- Apart
  Nil = Nil
SYMMETRY Symmetry
INVARIANTS   SwapperCalled
CHECK_DEADLOCK FALSE
