CONSTANTS
  Gateways = {g1, g2}
  Exposed = {}
  Callers = {}
  SlowCommits = TRUE
  MaxTransactions = 3
  MaxSequence = 3
  Capacity = 3
  MaxUpsets = 0
  Nobody = Nobody
SPECIFICATION Spec
INVARIANTS MissingAfterGone
CHECK_DEADLOCK FALSE
