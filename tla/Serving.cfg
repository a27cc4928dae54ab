SPECIFICATION MCSpec
SYMMETRY MCSymmetry
CONSTANTS
    p1 = p1
    p2 = p2
    Monitor = {m1, m2}
    CountMax = 3
    MaxAge = 2
    Config <- MCConfigs
    DefaultConfig <- MCDefault
    AuUsers = {"a", "b"}
    AuProcs = {"p", "q"}
    AuFirst = "p"
    AuBootFirst = "a"
    AuBootOther = "b"
    AuTokens = {"t"}
    AuHandlers = {1, 2}
    AuPgs = {TRUE, FALSE}
    AuMaxOps = 3
    AuMaxMoves = 1
    CrAgents = {"a"}
    CrMaxIds = 2
    CrMaxTokens = 3
    CrHandlers = {1, 2}
    CrPgs = {TRUE, FALSE}
    CrMaxOps = 3
    CrMaxFaults = 2
    TnKinds = {"tcp", "udp", "group", "socks5", "http_proxy", "http", "sni", "secret"}
    TnPolicies = {"p"}
    TnStored <- MCStored
    TnKeys = {"k1", "k2"}
    TnVals = {1}
    TnSessions = {p1, p2}
    TnMaxEvents = 2
    UsPorts = {1, 2}
    UsEndpoints <- MCEndpoints
    UsConns = {"c1", "c2"}
    UsPolicyLimit = 2
    UsGlobalLimit = 2
    UsSourceLimit = 1
    UsSourceEntries = 1
    UsActiveLimit = 2
    UsPendingLimit = 1
    UsWidth = 256
    UsMaxOffers = 2
    UsMaxSessions = 3
    UrFragments <- MCFragments
    UrTimeout = 1
    UrRetention = 2
    UrCleanup = 1
    UrMaxBytes = 4
    UrMaxPerSession = 1
    UrMaxIncomplete = 2
    UrMaxCompleted = 2
    UrMaxTime = 4
    UrMaxPushes = 6
    SxAssocs = {"a1", "a2", "a3"}
    SxRuntimeOf <- MCRuntimeOf
    SxPeer <- MCPeer
    SxEndpoints <- MCSxEndpoints
    SxFragments <- MCPieces
    SxEnvelope = 1
    SxGap = 0
    SxParts = 2
    SxDatagram = 4
    SxSession <- MCSession
    SxGlobal <- MCGlobal
    SxMaxPushes = 2
    PpPolicies = {"prefer_direct", "direct_only", "relay_only"}
    PpBytes = 2
    PpMaxFaults = 2
    UaIds = {p1, p2}
    UaQueue = 1
    UaBudget = 2
    UaMaxSends = 4
    UaMaxFaults = 3
    H1Requests = {p1, p2}
    H1Origins = {"o", "p"}
    H1Max = 2
    H1PerOrigin = 2
    H1MaxOps = 4
    H1MaxFaults = 1
    H2Requests = {p1, p2}
    H2Streams = 2
    H2Max = 2
    H2MaxOps = 3
    H2MaxFaults = 1
    HxClients = {p1, p2}
    HxBackends = {1, 2}
    HxMaxRequests = 2
    HxBodies = {0, 1}
    HxAhead = 1
    HxMaxSends = 2
INVARIANTS
    NewestProbeDecides
    MCOutboxSound
    AuAuthorityHolds
    CrServedIsStored
    TnRegistryCurrent
    UrDeliveredOnce
    PpGrantIsWinner
    HxNoDesync
    MCCountsExact
CHECK_DEADLOCK FALSE
