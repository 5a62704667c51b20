CONSTANTS
    Procs = {p1}
    Nobody = nobody
    Names = {"main"}
    Hashes = {"h1", "h2"}
    None = "none-hash"
    Configurations <- Clients
    Advertisements <- Servers
    Default <- Defaults
    Faults = {"short"}
    MaxCalls = 1
    MaxForeign = 0
SPECIFICATION FairSpec
PROPERTY NotFoundIsTrue
CHECK_DEADLOCK FALSE
