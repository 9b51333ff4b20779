SPECIFICATION FairSpec
CONSTANTS
    w1 = w1  w2 = w2  r1 = r1  r2 = r2  k1 = k1  u1 = u1  u2 = u2  u3 = u3
    NoCounter = NoCounter  Never = Never  NoKey = NoKey
    Home <- MCHome
    Replicas = {r1, r2}
    Workers = {w1, w2}
    Keys = {k1}
    Users = {}
    Limit = 1
    Minute = 2
    Burst = 1
    UserLimit = 1
    UserBurst = 1
    CacheCap = 1
    Faults = {"redis"}
    Horizon = 2
    MaxRecent = 3
INVARIANTS
    AtMostTwoWindows
    BurstUnlessRotated
PROPERTIES
    NeverLockedOut
