CONSTANTS
    Trees = {"root", "a", "b", "c"}
    Root = "root"
    Kids <- Nested
    Commit = "commit"
    BatchSize = 1
    CompletionBatchSize = 2
    MaxRetries = 3
    MaxBatches = 2
    Shared = TRUE
    Faults = {}
    MaxCalls = 1
    MaxForeign = 1
SPECIFICATION Spec
INVARIANT SharingHarmless
CHECK_DEADLOCK FALSE
