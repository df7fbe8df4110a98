SPECIFICATION Spec
CONSTANTS
    api1 = api1
    api2 = api2
    q1 = q1
    q2 = q2
    v1 = v1
    Instance = {api1, api2}
    Request = {q1, q2}
    Volunteer = {v1}
    Nobody = Nobody
    NoRec = NoRec
    Kind = {"sos", "issue", "lost"}
    MaxKinds = 1
    MaxOf <- TwoLost
    MaxRecords = 2
    ListMax = 1
    PruneTarget = 1
    HydrateLimit = 1
    MaxRequests = 3
    MaxFaults = 1
SYMMETRY Symmetry
VIEW View
INVARIANTS
    SettledReplicasAgree
    NoDuplicateRecords
    IndexMatchesLists
PROPERTIES
    ClosedSosStaysClosed
CHECK_DEADLOCK FALSE
