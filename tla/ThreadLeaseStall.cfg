CONSTANTS
  Replicas = {a, b}
  Nobody = Nobody
  Exposed = {a}
  Upsets = {"evict", "stall"}
  Modes = {"reassign", "stop"}
  MaxVersion = 4
  MaxInvocations = 1
  MaxOutbox = 1
SPECIFICATION Spec
INVARIANTS RefusalIsHeeded
CHECK_DEADLOCK FALSE
