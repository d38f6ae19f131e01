SPECIFICATION Spec
CONSTANTS
    w1 = w1
    w2 = w2
    NoWorker = NoWorker
    Workers = {w1, w2}
    Hold = 2
    Cost = 1
    OtherFrozen = 2
    MaxRetries = 2
    MaxFaults = 0
    MaxCrashes = 0
    MaxStalls = 0
    MaxCancels = 1
    MaxReady = 2
    MaxTrouble = 2
CHECK_DEADLOCK FALSE
INVARIANT CapacityUntilStopped

