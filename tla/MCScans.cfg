CONSTANTS
    Ids = {"r", "a", "b"}
    SnapshotIds <- MCSnapshotIds
    Required = {"r"}
    MaxIds = 3
    Streams = {"s1", "s2"}
    Primary = "s1"
    Batches = 3
    Chunks = 3
    ChunkLen = 2
    Inputs = 2
    Deltas <- MCDeltas
    MaxDeltas <- MCMaxDeltas
    Kinds = {"cursor", "oneshot", "queue", "flush", "exchange"}
    Hints = {"none"}
    Absent = Absent
    Null = Null
    Error = Error
    NaN = NaN
    Workers = {w1, w2}
    ProducerCalls <- MCProducerCalls
    Readers = {r1, r2}
    SplitCalls <- MCSplitCalls
    MaxPages = 4
    MaxSplits = 12
    MaxLosses = 1
    MaxLevel = 2
    Schema <- MCSchema
    Documents <- MCDocuments
    Values <- MCValues
    SnapshotPredicates <- MCSnapshotPredicates
    DeltaPredicates <- MCDeltaPredicates
    PrunedCounts = {0, 2}
    MaxDepth = 4
    MaxNodes = 12
    Substreams <- MCSubstreams
    InOutCalls <- MCInOutCalls
    InputBatches <- MCInputBatches
    MaxExchanges = 2
    MaxInputs = 2
SPECIFICATION MCSpec
CHECK_DEADLOCK FALSE
INVARIANTS
    StreamExactDelivery
    StreamFiltersSurvive
    ScanFaithful
    SplitsExact
    PruningSound
    RepliesExact
    FinalizeExact
PROPERTY
    StreamAllEnd
