CONSTANTS
    Names = {"a", "b"}
    Paths <- Paths2
    Contents = {1}
    Links = {"lib"}
    NoLink = NoLink
    Repos <- ModuleRepos
    Ops <- AllOps
    Careful = {}
    Faults = {"disk", "signer", "lostReply", "foreign"}
    MaxEdits = 2
    MaxCommits = 3
SPECIFICATION Spec
INVARIANTS UnpushedRetained
PROPERTIES OnlyFastForward
CHECK_DEADLOCK FALSE
