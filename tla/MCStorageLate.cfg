CONSTANTS
    a = a  b = b
    Procs = {p1, p2}
    Values <- MCValues
    Inodes <- MCInodes
    MaxId = 2
    Ttl = 1
    MaxBatch = 2
    Clients = {p1, p2}
    MaxCalls = 2
    MaxTotal = 3
    MaxAttempts = 2
    IdemCap = 4
    MaxLate = 1
    Statements <- MCStatements
    LowerOf <- MCLower
    Catalogs <- MCCatalogs
    MaxSessions = 1
    MaxLog = 3
    None = None
    Nil = Nil
SPECIFICATION MCSpec
SYMMETRY MCSymmetry
INVARIANT AppliedOnce
CHECK_DEADLOCK FALSE
