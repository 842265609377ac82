CONSTANTS
    t1 = t1
    t2 = t2
    k1 = k1
    k2 = k2
    k3 = k3
    s1 = s1
    s2 = s2
    c1 = c1
    c2 = c2
    None = None
    Bad = Bad
    Threads = {t1, t2}
    Keys = {k1}
    ScopeOf <- MCScopeOf
    CatalogOf <- MCCatalogOf
    Controls <- MCFewControls
    Sizes = {1, 2}
    LimitsSet <- MCLimits
    MaxTime = 0
    p1 = p1
    Tombstone = Tombstone
    Procs <- MCProcs
    ordinary_on_failure = TRUE
    Homes <- MCHomes
    Margin = 1
    UrlTtl = 2
    Retention = 3
    MaxCached = 1
    MaxLoops = 2
    MaxTries = 2
    MaxRev = 2
    PublishTime = 1
    MaxUploads = 2
    MaxCalls = 3
    MaxFaults = 1
SPECIFICATION ResultsSpec
PROPERTIES SetLimitsReturns
CHECK_DEADLOCK FALSE
