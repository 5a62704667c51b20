CONSTANTS
    Calls = {"CanRead", "CanWrite", "Compatible", "Capabilities", "ListRefs"}
    Servers <- SomeServers
    Retriers = {0, 1, 2}
    Mishaps = {"400", "429", "500", "501", "timeout", "deadline", "network", "cancel",
              "eof", "unexpected", "reset", "tooLarge", "ERR"}
SPECIFICATION FairSpec
INVARIANTS AnswersAreTrue
PROPERTIES EndsClosed
CHECK_DEADLOCK FALSE
