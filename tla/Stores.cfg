SPECIFICATION MCSpec
CONSTANTS
    p1 = p1
    p2 = p2
    o1 = o1
    o2 = o2
    m1 = m1
    Process = {p1, p2}
    Operation = {o1, o2}
    ProcessOf <- MCSameProcess
    TimelyTimers = TRUE
    LeaseSeconds = 2
    MaxTerms = 1
    MaxLeases = 2
    TuMeters = {m1}
    TuCheckpoint = 2
    TuQuota = 1
    TuMaxBytes = 2
    TuMaxFaults = 1
    TcSettings <- MCControls
    TcSources = {"x", "y"}
    TcWindow = 3
    TcMinute = 2
    TcDay = 2
    TcMaxTime = 6
    TcMaxBack = 2
    TcMaxOps = 5
    TcQuota = 1
    RsMaxRestores = 2
    RsMaxFaults = 2
    RsMaxBackups = 1
    SmSources <- MCSources
    SmEvents = {"e1", "e2"}
    SmClients = {"k1", "k2"}
    SmMaxWrites = 3
    SmMaxKills = 1
    FbBundles <- MCBundles
    FbLocal <- MCLocals
    FbHandlers = {"h1", "h2"}
    FbShared = {TRUE, FALSE}
    FbMaxOps = 4
    FbMaxVal = 2
    FsServers = {"A", "B"}
    FsPorts = {1, 2}
    FsMaxEdits = 3
    FsMaxSyncs = 2
    AcAttempts = 2
    AcKinds = {"local", "shared", "dns"}
    CfIssues = 5
    CfRetained = 3
    CfMaxFaults = 1
    CfMaxKills = 2
    CeProcs = {"p", "q"}
    CeFirst = "p"
    CeRoutes = {"r", "s"}
    CeHosts = {"h", "g"}
    CePgs = {TRUE, FALSE}
    CeMaxEdits = 1
    CeMaxOrders = 2
    CeMaxTerms = 2
    CeMaxAge = 2
    CeExisting = "r"
    CeHost = "h"
    CeRedirecting = {TRUE}
    PcHandlers = {h1, h2}
    PcSpecs <- MCSpecs
    PcMaxIds = 2
    PcMaxOps = 3
INVARIANTS
    CoveredByLease
    MCTrafficHolds
    PcCatalogSound
    RsDataWhole
    SmNothingLost
    FbOwnershipExact
    
    AcChallengesTracked
    
CHECK_DEADLOCK FALSE
