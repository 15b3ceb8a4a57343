CONSTANTS
  Replicas = {a, b}
  Nobody = Nobody
  Exposed = {a}
  Upsets = {"partition"}
  Modes = {"reassign", "stop"}
  MaxVersion = 2
  MaxInvocations = 1
  MaxOutbox = 1
SPECIFICATION FairSpec
PROPERTIES RecordedIsExecuted
CHECK_DEADLOCK FALSE
