SPECIFICATION PSpec
CONSTANTS
    t1 = t1
    t2 = t2
    k1 = k1
    k2 = k2
    Threads = {t1, t2}
    Keys = {k1, k2}
    NoKey = NoKey
    NoThread = NoThread
    Rotation <- NextKey
    FirstKey = k1
    StaticKey = NoKey
    HasUrl = TRUE
    TTL = 1
    MaxLatency = 1
    TokenLife = 1
    Shapes <- PlainTokens
    Orderly = TRUE
    MaxTime = 1
    Ids = {1, 2}
    NoObject = NoObject
    OtherRoles = {}
    OtherGroups = {}
    Calls <- MixedCalls
INVARIANTS ReadOnlyGroupsGrantNoWrite AuditorWriteNeedsFailedFetch
SYMMETRY ThreadSymmetry
