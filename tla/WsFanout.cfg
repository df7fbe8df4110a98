SPECIFICATION Spec
CONSTANTS
    w1 = w1
    w2 = w2
    g1 = g1
    e1 = e1
    Client <- TwoClients
    Ghat <- OneGhat
    Event <- OneEvent
    Outside = Outside
    Left = Left
    Max = 1
    MaxFaults = 1
INVARIANTS
    IndexesAgree
    HealthyStayRegistered
    NothingMissed
    AtMostOnce
PROPERTIES
    ClosedIsPruned
    ImplementsGroups
CHECK_DEADLOCK FALSE
