SPECIFICATION Spec
CONSTANTS
    wizzair = wizzair
    w1 = w1
    w2 = w2
    Provider = {wizzair}
    Worker = {w1, w2}
    Viewer = {v1}
    Admin = {a1}
    WizzAir = {wizzair}
    Rank <- MCRank
    MinPollInterval <- MCInterval
    Cooldown <- MCCooldown
    RateLimitCooldown <- MCRateLimit
    TypedTime <- MCTypedTime
    TypedCount = {0}
    MaxTime = 2
    MaxActs = 3
SYMMETRY Symmetry
INVARIANTS TypeOK BoundedLockout SuccessLeavesClean ExactFailureCount
PROPERTIES SlotSpacing CooldownSuppressesPolling WindowIsKept
CHECK_DEADLOCK FALSE
