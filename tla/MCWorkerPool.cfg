INIT MCInit
NEXT MCNext
CONSTANTS
    Callers = {p1, p2}
    Conns = {c1, c2, c3}
    k1 = k1
    Keys = {k1, k2}
    AuthKeys = {k1}
    None = None
    MaxIdle = 1
    IdleTimeout = 1
    MaxTime = 2
    MaxAcquires = 3
    MaxAuth = 1
    w1 = w1
    e1 = e1
    e2 = e2
    Workers = {w1}
    Handlers = {p1, p2}
    Partitions = {k1, k2}
    Addresses = {1, 2, 3}
    WorkerOf <- MCWorkerOf
    ExecOf <- MCExecOf
    Inits <- MCInits
    HasMask = {2}
    SizeOf <- MCSizeOf
    MaxEntries = 1
    MaxBytes = 2
SYMMETRY Symmetry
INVARIANTS SoleOwner RightScope PoolBooks WindowSound WithinBudget
PROPERTY PrunesJustified
CHECK_DEADLOCK FALSE
