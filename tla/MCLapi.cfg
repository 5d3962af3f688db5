\* Every ban may come and go at any moment of a fetch.
SPECIFICATION FairSpec
CONSTANTS
    b1 = b1
    b2 = b2
    b3 = b3
    c2 = c2
    i1 = i1
    i2 = i2
    i3 = i3
    Alerts <- MCAlerts
    Bans = {b1, b2, b3, c2}
    Ips = {i1, i2, i3}
    None = None
    AlertOf <- MCAlertOf
    Community = {c2}
    Value <- MCValue
    SourceIp <- MCSourceIp
    EventIp <- MCEventIp
    Embedded = {}
    Details = TRUE
    DetailLimit = 1
    ListLimit = 2
    MaxAttempts = 2
INVARIANTS
    TypeOK
    NothingMissed
    NoGhost
    HiccupsForgiven
    KeyStable
PROPERTIES
    SessionEnds
