SPECIFICATION LiveSpec
CONSTANTS
    Paths = {a, b, c}
    NoPath = NoPath
    Clients = {c1, c2}
    Faults <- AllFaults
    MaxBirths = 3
    MaxRefs = 2
    MaxTwice = 1
CHECK_DEADLOCK FALSE
INVARIANTS
    RefcountIsExact
    SourceOutlivesForks
PROPERTIES
    SoftDeletedIsCollected
