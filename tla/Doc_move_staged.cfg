CONSTANTS
    Names = {"a", "b"}
    Paths <- Paths2
    Contents = {1, 2}
    Links = {"lib"}
    NoLink = NoLink
    Repos <- OneDirRepos
    Ops = {"CreateBlob", "MoveTree", "Commit"}
    Careful = {"plainParents", "blobUpdates", "freshNames", "noShadow", "pushCommits", "pushSettled", "pushEach"}
    Faults = {}
    MaxEdits = 2
    MaxCommits = 3
SPECIFICATION Spec
PROPERTY CommitHoldsWhatIsStaged
CHECK_DEADLOCK FALSE
