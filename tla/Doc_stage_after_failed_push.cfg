CONSTANTS
    Objects = {"small", "large", "tree"}
    Commits = {"c1", "c2"}
    NoCommit = NoCommit
    Size <- SmallAndLarge
    Modes = {"memory", "disk", "auto"}
    MemoryThreshold = 3
    MemoryBytesThreshold = 4
    Chunk = 3
    Faults = {"pipe"}
    MaxBytes = 6
SPECIFICATION Spec
INVARIANT AllObjectsWritten
CHECK_DEADLOCK FALSE
