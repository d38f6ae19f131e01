SPECIFICATION BoundedSpec
CONSTANTS
    w1 = w1
    w2 = w2
    NoWorker = NoWorker
    Workers = {w1, w2}
    Hold = 2
    Cost = 1
    OtherFrozen = 2
    MaxRetries = 2
    MaxFaults = 1
    MaxCrashes = 1
    MaxStalls = 2
    MaxCancels = 1
    MaxReady = 2
    MaxTrouble = 2
CHECK_DEADLOCK FALSE
INVARIANTS HoldAccounted CompletedIsCharged RefundedIsStopped CapacityHeld NotStranded
PROPERTIES QueuedSettles StaleSubmissionRefunded
