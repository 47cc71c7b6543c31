SPECIFICATION MCSpec
CONSTANTS
    Passwords = {p1, p2}
    Public = public
    Orgs = {acme}
    Callers = {c1, c2}
    MaxCalls = 2
    MaxSpends = 1
    MaxFailed = 1
    MaxCounted = 1
CHECK_DEADLOCK FALSE
SYMMETRY MCSymmetry
INVARIANTS
    SessionTypeOK
    UserKept
    
PROPERTIES
    SessionEnds
