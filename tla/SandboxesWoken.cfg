CONSTANTS
  Wakers = {t1, t2}
  Keepers = {t1, t2}
  MaxRows = 1
  MaxVMs = 2
  MaxProcs = 2
SPECIFICATION Spec
PROPERTY WokenIsUp
CHECK_DEADLOCK FALSE
