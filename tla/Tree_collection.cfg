CONSTANTS
    Trees = {"root", "a", "b", "c"}
    Root = "root"
    Kids <- Nested
    Commit = "commit"
    BatchSize = 1
    CompletionBatchSize = 2
    MaxRetries = 3
    MaxBatches = 2
    Shared = TRUE
    Faults = {"lean", "omits", "breaks", "evicts"}
    MaxCalls = 2
    MaxForeign = 1
SPECIFICATION FairSpec
INVARIANTS CollectionComplete FailsOnlyForCause BatchesProgress
PROPERTY Terminates
CHECK_DEADLOCK FALSE
