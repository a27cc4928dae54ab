SPECIFICATION AuSpec
CONSTANTS
    AuUsers = {"a", "b"}
    AuProcs = {"p", "q"}
    AuFirst = "p"
    AuBootFirst = "a"
    AuBootOther = "b"
    AuTokens = {"t"}
    AuHandlers = {1, 2}
    AuPgs = {TRUE, FALSE}
    AuMaxOps = 4
    AuMaxMoves = 1
INVARIANTS AuNeverWithoutAdministrator
CHECK_DEADLOCK FALSE
