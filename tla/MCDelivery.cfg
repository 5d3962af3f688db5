\* Two overlapping runs on one report, every fault twice, crashes for ever. The
\* safety properties are theorems for any number of runs and reports.
SPECIFICATION FairSpec
CONSTANTS
    Runs = {r1, r2}
    Keys = {k1}
    NoKey = NoKey
    MaxRetries = 2
    ReapAge = 1
    RetentionAge = 1
    MaxAge = 2
    MaxUnproven = 2
    MaxPurged = 2
INVARIANTS
    TypeOK
    DuplicatesExplained
    OneHolder
    ClaimOnRecord
    SentWasMailed
PROPERTIES
    TerminalStays
    ImplementsTickets
    ClaimsResolve
    RunsEnd
