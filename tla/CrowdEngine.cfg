SPECIFICATION FairSpec
CONSTANTS
    api1 = api1
    api2 = api2
    u1 = u1
    low = low
    high = high
    Instance = {api1, api2}
    Request = {u1}
    Level = {low}
    InitLevel = low
    Nobody = Nobody
    LeaderTTL = 4
    Interval = 1
    MaxLag = 1
    OverrideTTL = 2
    InboxMax = 1
    MaxFaults = 2
PROPERTIES
    EngineTakesOver
