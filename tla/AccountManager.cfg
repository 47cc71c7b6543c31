SPECIFICATION Spec
CONSTANTS
    a1 = a1
    own = own
    u1 = u1
    t1 = t1
    Accounts <- MCAccounts
    Rank <- MCRank
    Owner <- MCOwner
    Users = {u1}
    TenantOf <- MCTenantOf
    Public = Public
    NoAccount = NoAccount
    NoUser = NoUser
    Callers = {c1, c2}
    Strategies = {"priority", "least_connections"}
    ErrorLimit = 2
    MaxCalls = 2
    MaxChanges = 1
CHECK_DEADLOCK FALSE
SYMMETRY MCSymmetry
INVARIANTS
    TypeOK
    RefreshTakesEffect
    CooldownKept
