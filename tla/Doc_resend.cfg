CONSTANTS
    Size = 2
    MaxAttempts = 2
    MaxCalls = 1
    Faults = {"429"}
SPECIFICATION Spec
INVARIANT RetriesAreWhole
CHECK_DEADLOCK FALSE
