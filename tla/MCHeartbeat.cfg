SPECIFICATION FairSpec
CONSTANTS
    a1 = a1  a2 = a2  c1 = c1  u1 = u1  u2 = u2
    AgentJobs = {a1, a2}
    ChannelJobs = {c1}
    Owner <- MCOwner
    Every = 1
    Backoff <- MCBackoff
    MaxDelay = 2
    DegradedAt = 2
    FailureCap = 2
    MaxConcurrent = 1
    Faults = TRUE
    TornSave = TRUE
    MaxCrashes = 1
INVARIANTS TypeOK NotBeforeItsTime
PROPERTIES ChecksGoOn TruthInTheEnd
CHECK_DEADLOCK FALSE
