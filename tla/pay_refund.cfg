SPECIFICATION FreshSpec
CONSTANTS
    c1 = c1
    c2 = c2
    a1 = a1
    a2 = a2
    Calls = {c1}
    Admins = {a1, a2}
    LeaseDuration = 1
    Grace = 0
    Amount = 2
    PayAmount = 3
    OtherFunds = 1
    MaxFaults = 2
    MaxSpent = 1
    MaxRefunds = 2
VIEW Relevant
SYMMETRY AnyAdmin
CHECK_DEADLOCK FALSE
INVARIANTS TypeOK OneRefundInFlight RefundRecorded NoDoubleDeduction
PROPERTIES LedgerImplemented
