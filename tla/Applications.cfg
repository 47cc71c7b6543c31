\* One tenant with one seat, two people, two requests at a time, one fault.
SPECIFICATION AppSpec
CONSTANTS
    Slugs = {s1}
    Contacts = {c1}
    Emails = {e1, e2}
    Ids = {a1, a2}
    Handlers = {h1, h2}
    MaxUsers = 1
    MaxFaults = 1
    None = None
SYMMETRY MCSymmetry
INVARIANTS
    AppTypeOK
    StrandedByFaults
    
PROPERTIES
    DecisionStands
CHECK_DEADLOCK FALSE
