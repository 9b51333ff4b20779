SPECIFICATION Spec
CONSTANTS
    c1 = c1  c2 = c2  u1 = u1  u2 = u2  e1 = e1  e2 = e2  e3 = e3
    NoUser = NoUser  NoEventId = NoEventId  Unread = Unread  NoRow = NoRow
    NoCursor = NoCursor  NoSecret = NoSecret  KYCSecret = KYCSecret
    CommsEnabled = TRUE
    EventIds = {e1, e2, e3}
    Consumers = {c1, c2}
    Users = {u1, u2}
    Ids = {1, 2, 3}
    Messages <- SharedEvent
    Limits = {}
    MaxLimit = 2
    DefaultLimit = 1
    Zone = 0
    QueueSize = 1
    Retention = 1
    MaxStall = 1
    Faults = {"db", "redis", "restart"}
    MaxPublished = 3
    MaxTime = 3
SYMMETRY ConsumerSymmetry
INVARIANTS
    TypeOK
    ArrivalsAreSpaced
    OnlyOwnerReads
PROPERTIES
    ReadIsFinal
