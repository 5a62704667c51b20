CONSTANTS
    Names = {"a", "b"}
    Paths <- Paths2
    Contents = {1, 2}
    Links = {"lib"}
    NoLink = NoLink
    Repos <- MixedRepos
    Ops <- AllOps
    Careful = {"plainParents", "blobUpdates", "freshNames", "settledMoves", "noShadow", "pushCommits", "pushSettled"}
    Faults = {"signer", "lostReply", "foreign"}
    MaxEdits = 2
    MaxCommits = 3
SPECIFICATION Spec
INVARIANTS NothingMissing ServerConnected NothingToCommitIsTrue IndexSound
PROPERTIES ImplementsStagedChanges NoGitlinkRevival
CHECK_DEADLOCK FALSE
