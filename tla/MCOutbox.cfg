\* Two overlapping runs, two points, one of which the backend refuses, an
\* outbox that holds one and batches of one. Crashes for ever.
SPECIFICATION FairSpec
CONSTANTS
    Runs = {r1, r2}
    Points = {p1, p2}
    Poison = {p1}
    Backend = "questdb"
    MaxRows = 1
    MaxAge = 1
    BatchLimit = 1
    WriteRetries = 1
    MaxCopies = 1
INVARIANTS
    TypeOK
    Accounted
PROPERTIES
    ImplementsLedger
    RowsLeave
