CONSTANTS
  Calls = {b}
  Attempts = {1, 2}
  Streams = {s1, s2}
  MaxRotations = 1
  MaxRestarts = 1
SPECIFICATION FairSpec
INVARIANTS TypeOK CompletedIsAnswered ToldIsRecorded
PROPERTIES KeepsPromise RecordsClose QueueDrains
CHECK_DEADLOCK FALSE
