CONSTANTS
  Replicas = {a, b}
  Nobody = Nobody
  Exposed = {a}
  Upsets = {"partition", "drain"}
  Modes = {"reassign", "stop"}
  MaxVersion = 4
  MaxInvocations = 1
  MaxOutbox = 1
SPECIFICATION Spec
INVARIANTS TypeOK VersionsAgree
CHECK_DEADLOCK FALSE
