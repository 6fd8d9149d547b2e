SPECIFICATION Spec
CONSTANTS
    t1 = t1
    t2 = t2
    k1 = k1
    k2 = k2
    Threads = {t1, t2}
    Keys = {k1, k2}
    NoKey = NoKey
    NoThread = NoThread
    Rotation <- OneRotation
    FirstKey = k1
    StaticKey = NoKey
    HasUrl = TRUE
    TTL = 1
    MaxLatency = 1
    TokenLife = 1
    Shapes <- GoodTokens
    Orderly = TRUE
    MaxTime = 2
INVARIANTS TypeOK ZeroDowntime
PROPERTIES CacheNeverRegresses RegisterSpec
SYMMETRY ThreadSymmetry
