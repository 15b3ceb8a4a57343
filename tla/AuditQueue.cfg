CONSTANTS
  Gateways = {g1, g2}
  Exposed = {g1}
  Callers = {g2}
  SlowCommits = FALSE
  MaxTransactions = 2
  MaxSequence = 2
  Capacity = 2
  MaxUpsets = 2
  Nobody = Nobody
SPECIFICATION FairSpec
INVARIANTS OnlyWhatHappened FlushDrains MissingAfterGone
PROPERTIES GrowsAtItsEnd KeepsHistory EventsSettle
CHECK_DEADLOCK FALSE
