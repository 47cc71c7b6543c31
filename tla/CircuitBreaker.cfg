\* Four callers, more than a trial lets through, and the tightest settings for
\* which a trial must end.
SPECIFICATION FairBreakerSpec
CONSTANTS
    Clients = {c1, c2, c3, c4}
    FailureThreshold = 2
    SuccessThreshold = 2
    HalfOpenMaxRequests = 1
INVARIANTS
    ProbesBounded
PROPERTIES
    TrialEnds
