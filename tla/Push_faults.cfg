CONSTANTS
    Size = 2
    MaxAttempts = 2
    MaxCalls = 2
    Faults = {"429", "timeout", "network", "disk", "silent"}
SPECIFICATION FairSpec
INVARIANTS SuccessIsTrue AppliedOnce QuietBetweenCalls
PROPERTY ComesToRest
CHECK_DEADLOCK FALSE
