CONSTANTS
    None = None
    Nil = Nil
    Starters = {t1, t2}
    Threads = {t1, t2}
    Workers = {w1, w2}
    Backlog = 1
    ReProbes = 1
    t1 = t1
    t2 = t2
    MaxAttempts = 2
    MaxElapsed = 1
    BaseDelay = 1
    MaxDelay = 2
    RetryAfters = {0, 1}
    FlowTimeout = 2
    MaxCalls = 1
    MethodsOf <- MCMethodsOf
    MaxIssued = 1
SPECIFICATION MCSpec
INVARIANTS CalmLaunch AtMostOnce OneExchange
PROPERTY CallsReturn
CHECK_DEADLOCK FALSE
