CONSTANTS
  Requests = {q1}
  Messages = {m1}
  Steers = {s1}
  Senders = {m1}
  Access <- PublicOrLost
  Policies = {"queue", "queue_and_batch", "interrupt"}
  Deployables = {TRUE}
  MaxRuns = 3
  MaxInvocations = 2
  MaxReads = 0
SPECIFICATION Spec
INVARIANTS RevokedAgentRunsNothing
PROPERTIES OldestFirst NothingDropped HeldOnlyBySuspension KeepsConversation
CHECK_DEADLOCK FALSE
