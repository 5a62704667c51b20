CONSTANTS
    Names = {"a", "b"}
    Paths <- Paths2
    Contents = {1}
    Links = {"lib"}
    NoLink = NoLink
    Repos <- ModuleRepos
    Ops <- AllOps
    Careful = {"plainParents", "blobUpdates", "freshNames", "settledMoves", "pushEach"}
    Faults = {"signer", "lostReply"}
    MaxEdits = 3
    MaxCommits = 4
SPECIFICATION Spec
PROPERTIES NoGitlinkRevival
CHECK_DEADLOCK FALSE
