CONSTANTS
  Requests = {q1}
  Messages = {}
  Steers = {s1}
  Senders = {}
  Access <- Admissions
  Policies = {"queue"}
  Deployables = {TRUE}
  MaxRuns = 2
  MaxInvocations = 4
  MaxReads = 1
SPECIFICATION Spec
INVARIANT ResumeCarriesInput
CHECK_DEADLOCK FALSE
