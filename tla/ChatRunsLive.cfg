CONSTANTS
  Requests = {}
  Messages = {m1, m2}
  Steers = {}
  Senders = {m1, m2}
  Access = {{m1,m2}, {m2}}
  Policies = {"queue", "queue_and_batch", "interrupt"}
  Deployables = {TRUE, FALSE}
  MaxRuns = 2
  MaxInvocations = 2
  MaxReads = 0
SPECIFICATION FairSpec
PROPERTIES RunningEnds QueuedIsServed
CHECK_DEADLOCK FALSE
