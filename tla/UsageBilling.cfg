\* Two workers, a channel of two events: full channel, racing workers, crashes,
\* and the handler without a queue.
SPECIFICATION FairSpec
CONSTANTS
    alice = alice
    bob = bob
    r1 = r1
    r2 = r2
    r3 = r3
    NoJob = NoJob
    Requests <- MCRequests
    Users <- MCUsers
    UserOf <- MCUserOf
    TotalCost <- MCTotalCost
    InitialBalance <- MCInitialBalance
    Workers = {w1, w2}
    QueueSize = 2
INVARIANTS
    Conservation
    Solvent
PROPERTIES
    ImplementsLedger
    AcceptedSettles
    StopReturns
