SPECIFICATION FairSpec
CONSTANTS
    Alerts = {1, 2}
    Poison = {1}
    Limits = {1, 2}
    EventsEnabled = TRUE
    MaxCopies = 2
INVARIANTS
    TypeOK
    DuplicatesNeedFault
PROPERTIES
    HeartbeatVouches
    Exported
    StopEnds
