CONSTANTS
  Replicas = {a, b}
  Nobody = Nobody
  Exposed = {a}
  Upsets = {"partition"}
  Modes = {"reassign", "stop"}
  MaxVersion = 4
  MaxInvocations = 2
  MaxOutbox = 1
SPECIFICATION Spec
INVARIANTS OneExecutor
CHECK_DEADLOCK FALSE
