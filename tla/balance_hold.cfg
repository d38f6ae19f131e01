SPECIFICATION HoldSpec
CONSTANTS
    r1 = r1
    r2 = r2
    Reqs = {r1, r2}
    Estimate <- Ones
    Selected <- Twos
    Balance = 2
    TTL = 2
    MaxLate = 2
CHECK_DEADLOCK FALSE
INVARIANTS
    ReservedWithinBalance
PROPERTIES
    ReservationsEnd HeldUntilBilled
    ReleasedForGood
