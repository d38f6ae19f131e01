SPECIFICATION FairSpec
CONSTANTS
    c1 = c1
    c2 = c2
    a1 = a1
    a2 = a2
    Calls = {c1, c2}
    Admins = {}
    LeaseDuration = 1
    Grace = 0
    Amount = 2
    PayAmount = 3
    OtherFunds = 0
    MaxFaults = 1
    MaxSpent = 1
    MaxRefunds = 0
CHECK_DEADLOCK FALSE
INVARIANTS CreditedOnce CompletedIsCredited AckedIsSettled
PROPERTIES PaidSettles
