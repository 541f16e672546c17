SPECIFICATION Spec
CONSTANTS
    Servers = {1, 2}
    Workers = {1, 2}
    MaxCacheSize = 2
    ChunkSize = 2
    NumBatches = 2
    MaxTurns = 2
    FreeCacheEngine = TRUE
    BuiltWith <- MCDummy
    None = None
    Requests <- MCRequests
    WorkerOf <- MCWorkerOf
    BatchOf <- MCBatchOf
INVARIANTS
    Balanced
    Sticky
    AnswersAreFresh
PROPERTIES
    AllGenerated
CHECK_DEADLOCK FALSE
