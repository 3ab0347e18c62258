SPECIFICATION FairSpec
CONSTANTS
    r1 = r1
    r2 = r2
    m1 = m1
    m2 = m2
    Nobody = Nobody
    Orphan = Orphan
    Replicas <- OneReplica
    Members <- TwoMembers
    MaxDelay = 2
    RetryDelay = 1
    Grace = 0
    LockTTL = 2
    Concurrency = 1
    BatchSize = 2
    HandlersFail = TRUE
    RedisDrops = FALSE
    Crashes = FALSE
    CancelAllowed = TRUE
INVARIANTS
    NoTimerLost
PROPERTIES
    Delivered
