CONSTANTS
    PathOrder <- Order
    NoCommit = "none"
    Padded <- Blanks
    Calls <- SomeCalls
    DefaultPerPage = 2
    MaxPerPage = 3
    Faults = {}
SPECIFICATION Spec
INVARIANT CommitsByCreation
CHECK_DEADLOCK FALSE
