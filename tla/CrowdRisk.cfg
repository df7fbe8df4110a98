SPECIFICATION RiskSpec
CONSTANTS
    a = a
    b = b
    Replica <- TwoInstances
    Vision = {900}
    Telecom = {900}
    Reported = {100}
    Stale = Stale
    InitCount = 100
    FirstLevel = "low"
    Wanted = {"low", "high"}
    MaxHist = 3
    ForecastHist = 4
    ListMax = 4
    SpikeWindow = 2
    Horizon = 4
    MaxRounds = 4
    MaxFailures = 1
SYMMETRY Instances
CHECK_DEADLOCK FALSE
INVARIANTS
    WarningIsAlerted
    SurgeLastsItsWindow
    SteadyCrowdHasNoTrend
    ForecastFollowsTrend
