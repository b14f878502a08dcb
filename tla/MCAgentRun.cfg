SPECIFICATION Spec
CONSTANTS
    MaxRequests = 2
    MaxToolCalls = 1
    RetryLimit = 2
    MaxContinuations = 2
    MaxFailovers = 1
INVARIANTS TypeOK ShownIsStored OneVerdict
PROPERTY RunEnds
CHECK_DEADLOCK FALSE
