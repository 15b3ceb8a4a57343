CONSTANTS
  Wakers = {t1}
  Keepers = {t1, t2}
  MaxRows = 1
  MaxVMs = 2
  MaxProcs = 2
SPECIFICATION Spec
INVARIANTS OneAtATime NoVMForgotten CanWake
CHECK_DEADLOCK FALSE
