\* Two administrators, two requests at a time.
SPECIFICATION Spec
CONSTANTS
    Admins = {a1, a2}
    Handlers = {h1, h2}
    None = None
SYMMETRY MCSymmetry
INVARIANTS
    
    CacheCurrent
