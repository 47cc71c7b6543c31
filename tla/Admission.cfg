SPECIFICATION Spec
CONSTANTS
    Callers = {c1, c2}
    MaxConns = 1
    MaxAttempts = 2
    MaxViolations = 2
    MaxCalls = 3
CHECK_DEADLOCK FALSE
SYMMETRY MCSymmetry
INVARIANTS
    
    PermissionsCurrent
PROPERTIES
    ShutOutForGood
