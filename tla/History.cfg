CONSTANTS
    PathOrder <- Order
    NoCommit = "none"
    Padded <- Blanks
    Calls <- SomeCalls
    DefaultPerPage = 2
    MaxPerPage = 3
    Faults = {"fetch", "lacks", "evict", "extra"}
SPECIFICATION FairSpec
INVARIANTS ReadsAreRight PagesAreTheLog ChangesAddUp
PROPERTIES EverythingEnds
CHECK_DEADLOCK FALSE
