SPECIFICATION HealthySpec
CONSTANTS
    r1 = r1
    r2 = r2
    Reqs = {r1, r2}
    Estimate <- Ones
    Selected <- Ones
    Balance = 2
    TTL = 2
    MaxLate = 1
CHECK_DEADLOCK FALSE
INVARIANTS
    ChargesVisible
