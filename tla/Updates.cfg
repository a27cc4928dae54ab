SPECIFICATION MCSpec
CONSTANTS
    RuActions = {"check", "apply"}
    RuLease = 1
    RuResume = 2
    RuMaxAttempts = 2
    RuMaxTasks = 2
    RuMaxFaults = 1
    SuProducts = {"client", "server"}
    SuVersions = {1, 2}
    SuMaxOps = 2
    SuMaxWrites = 2
    SuMaxFaults = 2
    SuRecoverRaces = FALSE
    MgVersions = {1, 2, 3}
    MgMaxOps = 2
    MgMaxFaults = 2
    RfClients = {1, 2}
    RfMaxReceipts = 2
    RfMaxKills = 2
    UsActors = {"command", "worker"}
    UsFeeds <- MCFeeds
    UsKeys <- MCKeys
    UsPre = {3}
    UsPolicy = "production"
    UsUpdater = 1
    UsFirst = 1
    UsMaxOps = 2
    UsMaxFaults = 1
INVARIANTS
    
    MCInstallationWhole
    RfReceiptsSafe
    UsPlanIsSigned
PROPERTIES
    RuDecidedWhileOpen
    RuSettles
    
CHECK_DEADLOCK FALSE
