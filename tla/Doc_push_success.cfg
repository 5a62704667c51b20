CONSTANTS
    Size = 2
    MaxAttempts = 1
    MaxCalls = 1
    Faults = {"silent"}
SPECIFICATION Spec
INVARIANT SuccessIsAcceptance
CHECK_DEADLOCK FALSE
