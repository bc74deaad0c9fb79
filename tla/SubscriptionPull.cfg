\* Pull-wake dispatch: claims, heartbeats, takeovers, two incarnations.
CONSTANTS
    PullWake = TRUE
    LeaseTTL = 2
    MaxLag = 1
    MaxGen = 2
    MaxInc = 2
    MaxTail = 1
    MaxEpoch = 1
    MaxTasks = 2
    MaxFaults = 0
SPECIFICATION Spec
CHECK_DEADLOCK FALSE
INVARIANTS
    FenceInvariant
PROPERTIES
    GrantsAreFresh
    LeaseIsHonoured
    ImplementsFencedCursor
