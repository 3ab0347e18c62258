SPECIFICATION Spec
CONSTANTS
    r1 = r1
    r2 = r2
    m1 = m1
    m2 = m2
    Nobody = Nobody
    Orphan = Orphan
    Replicas <- TwoReplicas
    Members <- OneMember
    MaxDelay = 2
    RetryDelay = 1
    Grace = 0
    LockTTL = 2
    Concurrency = 1
    BatchSize = 2
    HandlersFail = FALSE
    RedisDrops = FALSE
    Crashes = FALSE
    CancelAllowed = FALSE
INVARIANTS
    NoTimerLost
