SPECIFICATION Spec
CONSTANTS
    c1 = c1
    c2 = c2
    c3 = c3
    f1 = f1
    NoRow = NoRow
    Calls = {c1, c2, c3}
    Detached = {}
    Fingerprint <- OneRequest
    ProcessingTimeout = 2
    RecordTTL = 4
    FailedRetryBackoff = 1
    MaxLag = 1
SYMMETRY Symmetry
CHECK_DEADLOCK FALSE
PROPERTIES
    SingleSideEffect
