SPECIFICATION Spec
CONSTANTS
    Org = Org
    ann = ann
    r1 = r1
    r2 = r2
    Users <- MCUsers
    Requests <- MCRequests
    Cost <- MCCost
    Tokens <- MCTokens
    Callers = {c1, c2}
    MaxCalls = 3
    MaxApps = 2
    Cycles = {"threshold"}
    Limits = {3}
    TokenLimits = {1}
    Amounts = {1}
    Threshold = 2
    MemberTokens = 2
    MemberCost = 3
    Start <- MCStart
CHECK_DEADLOCK FALSE
SYMMETRY MCSymmetry
INVARIANTS
    TypeOK
    
    NotForgiven
    CreditNeedsGrant
    
