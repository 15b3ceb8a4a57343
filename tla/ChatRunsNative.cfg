CONSTANTS
  Requests = {q1}
  Messages = {m1}
  Steers = {s1}
  Senders = {m1}
  Access = {{m1}}
  Policies = {"queue", "queue_and_batch", "interrupt"}
  Deployables = {TRUE}
  MaxRuns = 3
  MaxInvocations = 2
  MaxReads = 0
SPECIFICATION Spec
INVARIANT ProviderRunsCarrySender
CHECK_DEADLOCK FALSE
