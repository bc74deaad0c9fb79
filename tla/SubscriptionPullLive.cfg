\* Pull-wake dispatch under fairness, one fault.
CONSTANTS
    PullWake = TRUE
    LeaseTTL = 1
    MaxLag = 0
    MaxGen = 3
    MaxInc = 1
    MaxTail = 1
    MaxEpoch = 0
    MaxTasks = 2
    MaxFaults = 1
SPECIFICATION FairSpec
CHECK_DEADLOCK FALSE
PROPERTIES
    PendingWorkIsServed
