\* The documented contract: one serial run, one lost SMTP acknowledgement,
\* nothing purged.
SPECIFICATION Spec
CONSTANTS
    Runs = {r1}
    Keys = {k1}
    NoKey = NoKey
    MaxRetries = 3
    ReapAge = 1
    RetentionAge = 0
    MaxAge = 2
    MaxUnproven = 1
    MaxPurged = 0
INVARIANT
    AtMostOnce
