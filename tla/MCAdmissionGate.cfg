SPECIFICATION FairSpec
CONSTANTS
    r1 = r1
    r2 = r2
    r3 = r3
    r4 = r4
    r5 = r5
    Request <- MCRequest
    MaxConcurrent = 2
    MaxWaiters = 2
INVARIANTS
    TypeOK
    PermitConservation
    NoStrandedPermit
    QueueConsistent
    CountersExact
PROPERTIES
    Answered
    ImplementsBoundedGate
CHECK_DEADLOCK FALSE
