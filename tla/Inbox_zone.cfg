SPECIFICATION Spec
CONSTANTS
    c1 = c1  c2 = c2  u1 = u1  u2 = u2  e1 = e1  e2 = e2  e3 = e3
    NoUser = NoUser  NoEventId = NoEventId  Unread = Unread  NoRow = NoRow
    NoCursor = NoCursor  NoSecret = NoSecret  KYCSecret = KYCSecret
    CommsEnabled = TRUE
    EventIds = {e1, e2, e3}
    Consumers = {c1}
    Users = {u1}
    Ids = {1, 2}
    Messages <- ThreeEvents
    Limits = {0}
    MaxLimit = 2
    DefaultLimit = 1
    Zone = 8
    QueueSize = 1
    Retention = 2
    MaxStall = 1
    Faults = {}
    MaxPublished = 2
    MaxTime = 0
INVARIANTS
    OrderingIsStable
