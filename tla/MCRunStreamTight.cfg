SPECIFICATION FairSpec
CONSTANTS
  Clients = {a}
  MaxEvents = 3
  Buffer = 2
  QueueCap = 2
INVARIANTS TypeOK LosesOnly
PROPERTIES ClientLearns AbortStops
CHECK_DEADLOCK FALSE
