CONSTANTS
    Objects = {"small", "large"}
    Commits = {"c1"}
    NoCommit = NoCommit
    Size <- SmallAndLarge
    Modes = {"memory", "disk", "auto"}
    MemoryThreshold = 2
    MemoryBytesThreshold = 3
    Chunk = 3
    Faults = {"disk", "pipe"}
    MaxBytes = 5
SPECIFICATION Spec
INVARIANTS StreamIsStaged SentIsWhole MemoryBounded NoDuplicates
CHECK_DEADLOCK FALSE
