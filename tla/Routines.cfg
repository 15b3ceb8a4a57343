CONSTANTS
  Replicas = {r1, r2}
  Deliveries = {r2}
  Events = {e1}
  Schedules <- MCSchedules
  Horizon = 2
  Skew = 1
  MaxEdits = 2
SPECIFICATION FairSpec
INVARIANTS StartedOnce NextOnlyForCron
PROPERTIES KeepsPromise DueFires
CHECK_DEADLOCK FALSE
