\* Two processes, two releases of each database, one step of the clock back.
SPECIFICATION FairSpec
CONSTANTS
    Procs = {p1, p2}
    NoProc = NoProc
    MaxRelease = 2
    MaxAttempts = 2
    CheckInterval = 1
    MaxSkew = 1
INVARIANTS
    TypeOK
    RunsEnriched
    StampHonest
PROPERTIES
    NeverBackwards
    CatchesUp
