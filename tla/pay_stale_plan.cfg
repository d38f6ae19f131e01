SPECIFICATION Spec
CONSTANTS
    c1 = c1
    c2 = c2
    a1 = a1
    a2 = a2
    Calls = {c1}
    Admins = {a1, a2}
    LeaseDuration = 1
    Grace = 0
    Amount = 2
    PayAmount = 2
    OtherFunds = 0
    MaxFaults = 0
    MaxSpent = 0
    MaxRefunds = 2
CHECK_DEADLOCK FALSE
INVARIANTS CashWithinPayment
