SPECIFICATION Spec
CONSTANTS
    api1 = api1
    Instance <- OneInstance
    MaxRequests = 3
    Nobody = Nobody
    Limit = 1
    Window = 3
    MaxDelay = 1
    MaxTime = 4
    MaxFaults = 1
INVARIANTS
    AdmittedWithinLimit
PROPERTIES
    Reconnects
