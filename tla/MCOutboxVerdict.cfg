\* One serial run, nothing pruned.
SPECIFICATION Spec
CONSTANTS
    Runs = {r1}
    Points = {p1}
    Poison = {}
    Backend = "influxdb2"
    MaxRows = 0
    MaxAge = 0
    BatchLimit = 2
    WriteRetries = 1
    MaxCopies = 2
INVARIANT
    DeferredMeansSpooled
