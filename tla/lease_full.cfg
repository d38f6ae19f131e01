CONSTANTS
    o1 = o1
    o2 = o2
    u = u
    i1 = i1
    None = None
    Owners = {o1, o2}
    Groups = {u}
    UserGroups = {u}
    Instances = {i1}
    Execs = {o1, o2}
    GroupOf <- AllInU
    InstOf <- AllOnI1
    ExecOf <- OwnExec
    Stalling = {}
    LimitValues = {0, 1}
    TTL = 2
    AcquireTimeout = 0
    RenewEvery = 1
    RenewTimeout = 0
    Capacity = 2
    Batch = 1
SYMMETRY OwnerSymmetry
SPECIFICATION FullSpec
INVARIANTS TypeOK PoolWithinLimit ExecutionHoldsSlot ExecutionsWithinLimit BusyHasOneRecoverer DisconnectedDomainEnds
PROPERTIES DrainKeepsCapacity NoResurrection
CHECK_DEADLOCK FALSE
