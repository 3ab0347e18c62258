SPECIFICATION Spec
CONSTANTS
    r1 = r1
    r2 = r2
    m1 = m1
    m2 = m2
    Nobody = Nobody
    Orphan = Orphan
    Replicas <- TwoReplicas
    Members <- OneMember
    MaxDelay = 1
    RetryDelay = 1
    Grace = 0
    LockTTL = 1
    Concurrency = 1
    BatchSize = 2
    HandlersFail = TRUE
    RedisDrops = TRUE
    Crashes = TRUE
    CancelAllowed = TRUE
SYMMETRY Symmetry
INVARIANTS
    NeverDisarmed
    TypeOK
    HandlersExcluded
    LockHeldUntilExpiry
