SPECIFICATION Spec
CONSTANTS
    Users = {u1}
    Ids = {q1, q2}
    Callers = {c1, c2}
    Limits = {1, 2}
    MaxUsed = 4
    MaxPaid = 2
    None = None
SYMMETRY MCSymmetry
INVARIANTS
    Linked
    UsageKept
    OvershootBounded
