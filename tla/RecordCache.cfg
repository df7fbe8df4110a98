SPECIFICATION Spec
CONSTANTS
    api1 = api1
    api2 = api2
    r1 = r1
    r2 = r2
    c1 = c1
    c2 = c2
    Instance = {api1, api2}
    Reader = {r1, r2}
    Change = {c1, c2}
    Kinds = {"sos", "lost"}
    Nobody = Nobody
    Nothing = Nothing
    TTL = 1
    WarmTTL = 2
    LockTTL = 1
    LockWait = 1
    MaxLag = 1
    MaxFaults = 1
SYMMETRY Symmetry
INVARIANTS
    BoundedStaleness
    FreshOnceInvalidated
    LoadersBounded
CHECK_DEADLOCK FALSE
