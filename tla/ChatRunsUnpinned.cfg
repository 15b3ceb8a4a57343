CONSTANTS
  Requests = {}
  Messages = {m1}
  Steers = {s1}
  Senders = {}
  Access <- Admissions
  Policies = {"queue", "queue_and_batch", "interrupt"}
  Deployables = {TRUE, FALSE}
  MaxRuns = 2
  MaxInvocations = 2
  MaxReads = 0
SPECIFICATION FairSpec
PROPERTIES PendingStarts
CHECK_DEADLOCK FALSE
