CONSTANTS
  Replicas = {a, b}
  Nobody = Nobody
  Exposed = {a}
  Upsets = {"evict"}
  Modes = {"reassign", "stop"}
  MaxVersion = 4
  MaxInvocations = 2
  MaxOutbox = 1
SPECIFICATION FairSpec
PROPERTIES StrayWorkEnds
CHECK_DEADLOCK FALSE
