\* Webhook dispatch: deliveries, retries, auto-acks, two slot owners, one fault.
CONSTANTS
    PullWake = FALSE
    LeaseTTL = 1
    MaxLag = 0
    MaxGen = 2
    MaxInc = 1
    MaxTail = 1
    MaxEpoch = 2
    MaxTasks = 2
    MaxFaults = 1
SPECIFICATION FairSpec
CHECK_DEADLOCK FALSE
INVARIANTS
    InFlightIsRecoverable
PROPERTIES
    PendingWorkIsServed
    
