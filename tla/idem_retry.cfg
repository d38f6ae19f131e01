SPECIFICATION FairSpec
CONSTANTS
    c1 = c1
    c2 = c2
    c3 = c3
    f1 = f1
    NoRow = NoRow
    Calls = {c1, c2, c3}
    Detached = {c1}
    Fingerprint <- OneRequest
    ProcessingTimeout = 3
    RecordTTL = 4
    FailedRetryBackoff = 1
    MaxLag = 1
CHECK_DEADLOCK FALSE
INVARIANTS
    TypeOK
    SingleOwner
    ReplayIsLatest
PROPERTIES
    RetrySafe
    OrphanFreed
