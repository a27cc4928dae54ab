SPECIFICATION H1Alone
CONSTANTS
    H1Requests = {"r", "s"}
    H1Origins = {"o", "p"}
    H1Max = 2
    H1PerOrigin = 2
    H1MaxOps = 4
    H1MaxFaults = 1
    H2Requests = {"r"}
    H2Streams = 1
    H2Max = 1
    H2MaxOps = 0
    H2MaxFaults = 0
PROPERTIES H1AssertionHolds
CHECK_DEADLOCK FALSE
