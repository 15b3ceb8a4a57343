CONSTANTS
  Replicas = {a, b}
  Nobody = Nobody
  Exposed = {a}
  Upsets = {"crash", "drain"}
  Modes = {"reassign", "stop"}
  MaxVersion = 4
  MaxInvocations = 2
  MaxOutbox = 1
SPECIFICATION FairSpec
INVARIANTS OnlyHolderExecutes
PROPERTIES KeepsExclusion DeadHolderIsReplaced InterruptedRestarts
CHECK_DEADLOCK FALSE
