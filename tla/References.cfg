CONSTANTS
    Procs = {p1, p2}
    Nobody = nobody
    Names = {"main"}
    Hashes = {"h1", "h2"}
    None = "none-hash"
    Configurations <- Clients
    Advertisements <- Servers
    Default <- Defaults
    Faults = {"lookup", "probe", "refuses", "lost", "short", "silent", "upgrades"}
    MaxCalls = 2
    MaxForeign = 1
SPECIFICATION FairSpec
INVARIANTS RequestsAgree OneNegotiation
PROPERTIES EveryCallEnds ImplementsAtomicRefs
CHECK_DEADLOCK FALSE
