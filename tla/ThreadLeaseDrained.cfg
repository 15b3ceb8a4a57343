CONSTANTS
  Replicas = {a, b}
  Nobody = Nobody
  Exposed = {a}
  Upsets = {"drain"}
  Modes = {"reassign", "stop"}
  MaxVersion = 4
  MaxInvocations = 1
  MaxOutbox = 1
SPECIFICATION Spec
INVARIANTS LeasedIfLive
CHECK_DEADLOCK FALSE
