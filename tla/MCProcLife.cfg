SPECIFICATION Spec
CONSTANTS
  Slots = {s1, s2, s3, s4, s5}
  InitProc = s1
  None = None
  Sigs = {1}
  MaxSignalled = 2
  KernelTail = FALSE
SYMMETRY Symmetry
INVARIANTS Heard  StoppedHasTracer
PROPERTY ImplementsProcesses
