CONSTANTS
  Requests = {q1}
  Messages = {}
  Steers = {}
  Senders = {}
  Access <- Admissions
  Policies = {"queue"}
  Deployables = {TRUE}
  MaxRuns = 1
  MaxInvocations = 3
  MaxReads = 1
SPECIFICATION Spec
INVARIANT LatestIsNewest
CHECK_DEADLOCK FALSE
