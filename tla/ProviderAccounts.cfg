SPECIFICATION FairSpec
CONSTANTS
    Accounts = {p1, p2}
    Callers = {c1, c2}
    Timers = {t1, t2}
    ErrorLimit = 1
    MaxCalls = 2
    NoAccount = NoAccount
    NoTimer = NoTimer
CHECK_DEADLOCK FALSE
INVARIANTS
    
    TimersTracked
PROPERTIES
    RateLimitEnds
