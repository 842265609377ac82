CONSTANTS
    None = None
    Failed = Failed
    ScalarCallSets <- MCScalarCallSets
    DefaultName = "worker"
    Instances <- MCInstances
    Models <- MCModels
    Secondaries <- MCSecondaries
    Hideable <- MCHideable
    SchemaPaths <- MCSchemaPaths
    ReproApp = "projection_repro"
    ReproNames = {"proj_repro"}
    MaxListings = 1
    MaxFunctions = 3
    t1 = t1
    t2 = t2
    Threads = {t1, t2}
    Groups = {1, 2}
    Inputs <- MCInputs
    TextInputs <- MCTextInputs
    Target = Target
    Width = 3
    NA = NA
    Key = Key
    OrderedN = 3
    WideRows = 3
    SinkThreads = {k1, k2}
    Queries <- MCQueries
    Procs = {p1, p2}
    AccCalls <- MCAccCalls
    MaxAcc = 3
    MaxClock = 2
    Schemas = {"a", "b"}
    OutBatchRows = 1
    Overlaps = {TRUE, FALSE}
INIT MCInit
NEXT MCNext
CHECK_DEADLOCK FALSE
INVARIANTS
    NamesResolve
    BoundAsWritten
    RowsExact
    EvaluationsAgree
    BufferingExact
    CollectionSound
