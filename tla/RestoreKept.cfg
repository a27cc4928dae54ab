SPECIFICATION RsSpec
CONSTANTS
    RsMaxRestores = 2
    RsMaxFaults = 2
    RsMaxBackups = 1
INVARIANTS RsCommittedStays
CHECK_DEADLOCK FALSE
