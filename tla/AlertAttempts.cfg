SPECIFICATION Spec
CONSTANTS
    Process = {p1}
    Subject = {"client"}
    Channel = {"webhook"}
    Delivery = {1}
    MaxAttempts = 10
    LeaseSeconds = 3
    SendTimeout = 1
    BackoffBase = 1
    BackoffMax = 1
    Cooldown = 1
    Retention = 1
    Capacity = 1
    ClaimLimit = 1
INVARIANTS AttemptLimit
