CONSTANTS
    Names = {"a", "b"}
    Paths <- Paths2
    Contents = {1, 2}
    Links = {"lib"}
    NoLink = NoLink
    Repos <- DirRepos
    Ops = {"CreateBlob", "Commit", "Push"}
    Careful = {"plainParents", "blobUpdates", "freshNames", "settledMoves", "noShadow", "pushCommits", "pushSettled", "pushEach"}
    Faults = {"lostReply"}
    MaxEdits = 1
    MaxCommits = 2
SPECIFICATION FairSpec
PROPERTY RetrySucceeds
CHECK_DEADLOCK FALSE
