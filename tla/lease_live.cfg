CONSTANTS
    o1 = o1
    o2 = o2
    u = u
    i1 = i1
    None = None
    Owners = {o1, o2}
    Groups = {u}
    UserGroups = {u}
    Instances = {i1}
    Execs = {o1, o2}
    GroupOf <- AllInU
    InstOf <- AllOnI1
    ExecOf <- OwnExec
    Stalling = {o1}
    LimitValues = {1}
    TTL = 1
    AcquireTimeout = 0
    RenewEvery = 0
    RenewTimeout = 0
    Capacity = 1
    Batch = 1
SPECIFICATION NoWorkerSpec
INVARIANTS NoSilentLeak RecoverySpaceReserved
PROPERTIES AttemptsEnd SlotsReturn LostLeaseCancels
CHECK_DEADLOCK FALSE
