CONSTANTS
    Calls <- SomeCalls
    Caches <- SomeCaches
    Disks <- SomeDisks
    Faults = {"lookup", "disk", "fetch", "lacks"}
SPECIFICATION FairSpec
INVARIANTS CloneFaithful
PROPERTIES Returns
CHECK_DEADLOCK FALSE
