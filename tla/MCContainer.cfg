\* A run every two ticks, a check in every one; crashes, stops and outages for ever.
SPECIFICATION FairSpec
CONSTANTS
    Configs <- MCConfigs
    ApiInterval = 1
    ApiMaxAge = 3
    CheckMax = 1
    RunInterval = 1
    Jitter = 0
    MaxAge = 3
    RunMax = 1
    MaxReports = 2
    Grace = 1
    Horizon = 5
INVARIANTS
    TypeOK
    OutageShows
    StaleByFailure
    StopHeeded
PROPERTIES
    LoopGoesOn
    SilentLoopShows
