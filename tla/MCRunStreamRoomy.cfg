SPECIFICATION Spec
CONSTANTS
  Clients = {a, b}
  MaxEvents = 3
  Buffer = 8
  QueueCap = 8
INVARIANTS TrueOutcome NothingForgotten ToldTruth
PROPERTY ImplementsFeed
SYMMETRY Symmetry
CHECK_DEADLOCK FALSE
