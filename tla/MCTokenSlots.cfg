SPECIFICATION LiveSpec
CONSTANTS
    r1 = r1  r2 = r2  r3 = r3  r4 = r4  s1 = s1  s2 = s2  t1 = t1  t2 = t2  t3 = t3
    None = None
    Runs = {r1, r2, r3, r4}
    Sessions = {s1, s2}
    Tokens = {t1, t2, t3}
    MaxConcurrent = 1
    Primary = t1
    Rank <- MCRank
    SessionOf <- MCSessionOf
    Eligible <- MCEligible
    Caller <- MCMixed
INVARIANTS TypeOK NoSlotLost SurplusExplained RetryElsewhere
PROPERTY RunsEnd
CHECK_DEADLOCK FALSE
