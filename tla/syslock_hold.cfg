SPECIFICATION ShortSpec
CONSTANTS
    c1 = c1
    c2 = c2
    c3 = c3
    op = op
    NoRow = NoRow
    Calls = {c1, c2, c3}
    Fingerprint <- SomeRetries
    ProcessingTimeout = 3
    RecordTTL = 4
    MaxLag = 1
CHECK_DEADLOCK FALSE
INVARIANTS
    OneSystemOperation
    HeldLockIsLocked
