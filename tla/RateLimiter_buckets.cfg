SPECIFICATION Spec
CONSTANTS
    w1 = w1  w2 = w2  r1 = r1  r2 = r2  k1 = k1  u1 = u1  u2 = u2  u3 = u3
    NoCounter = NoCounter  Never = Never  NoKey = NoKey
    Home <- MCHome
    Replicas = {r1}
    Workers = {}
    Keys = {}
    Users = {u1, u2, u3}
    Limit = 1
    Minute = 3
    Burst = 1
    UserLimit = 2
    UserBurst = 2
    CacheCap = 2
    Faults = {}
    Horizon = 3
    MaxRecent = 5
INVARIANTS
    TypeOK
    BurstUnlessRotated
    RetryAfterIsEnough
