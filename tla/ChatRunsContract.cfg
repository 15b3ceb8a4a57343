CONSTANTS
  Requests = {q1}
  Messages = {}
  Steers = {s1}
  Senders = {}
  Access <- Admissions
  Policies = {"queue", "queue_and_batch", "interrupt"}
  Deployables = {TRUE}
  MaxRuns = 2
  MaxInvocations = 3
  MaxReads = 1
SPECIFICATION Spec
PROPERTIES HeldOnlyBySuspension KeepsConversation
CHECK_DEADLOCK FALSE
