SPECIFICATION FairSpec
CONSTANTS
    t1 = t1
    t2 = t2
    k1 = k1
    k2 = k2
    Threads = {t1, t2}
    Keys = {k1, k2}
    NoKey = NoKey
    NoThread = NoThread
    Rotation <- OneRotation
    FirstKey = k1
    StaticKey = k2
    HasUrl = TRUE
    TTL = 0
    MaxLatency = 1
    TokenLife = 3
    Shapes <- PlainTokens
    Orderly = FALSE
    MaxTime = 2
INVARIANTS BoundedStaleness RetiredKeyRejected StaticKeySafetyNet
PROPERTIES BurstAnswered
