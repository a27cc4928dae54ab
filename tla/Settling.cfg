SPECIFICATION MCSpec
CONSTANTS
    p1 = p1
    Process = {p1}
    Subject = {"client"}
    Channel = {"webhook", "email"}
    Delivery = {1, 2}
    MaxAttempts = 2
    LeaseSeconds = 3
    SendTimeout = 1
    BackoffBase = 1
    BackoffMax = 1
    Cooldown = 1
    Retention = 1
    Capacity = 2
    ClaimLimit = 2
    TpKinds = {"tcp", "socks5", "http_proxy", "http", "sni", "secret"}
    TpConns = {1, 2}
    TpPolicyLimit = 2
    TpGlobalLimit = 3
    TpPendingLimit = 2
    TpChannel = 1
    McSpecs <- MCConfigs
    McLocal <- MCLocal
    McModes = {"managed", "local"}
    McMaxEdits = 2
    McMaxFaults = 1
INVARIANTS McValidCopyRemains
PROPERTIES DeliverySettles TpDrains MCConfigConverges
CHECK_DEADLOCK FALSE
