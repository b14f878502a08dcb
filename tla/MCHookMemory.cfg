SPECIFICATION LiveSpec
CONSTANTS
    e1 = e1  yes = yes  no = no  t1 = t1  i1 = i1  i2 = i2
    None = None
    Calls = {e1, yes, no, t1}
    Items = {i1, i2}
    Kind <- MCDecisions
    Hears = {"memory.confirmed"}
    MaxActions = 1
    MaxDepth = 2
    MaxClock = 1
    MaxCrashes = 1
INVARIANTS TypeOK LastDecisionShown LogsAgree MemoryKept
PROPERTY CallsEnd
CHECK_DEADLOCK FALSE
