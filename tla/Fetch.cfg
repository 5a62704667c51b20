CONSTANTS
    ZeroSize = 2
    Wrap = 16
    Packs <- SomePacks
    Wants <- SomeWants
    Cached <- SomeCaches
    Others <- SomeOthers
    Faults = {"http", "cut", "tooLarge"}
    MaxForeign = 1
SPECIFICATION Spec
INVARIANTS WantedServed PackResolved IterationsSuffice
CHECK_DEADLOCK FALSE
