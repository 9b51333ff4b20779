SPECIFICATION FairSpec
CONSTANTS
    c1 = c1  c2 = c2  u1 = u1  u2 = u2  e1 = e1  e2 = e2  e3 = e3
    NoUser = NoUser  NoEventId = NoEventId  Unread = Unread  NoRow = NoRow
    NoCursor = NoCursor  NoSecret = NoSecret  KYCSecret = KYCSecret
    CommsEnabled = TRUE
    EventIds = {e1, e2, e3}
    Consumers = {c1}
    Users = {u1}
    Ids = {1, 2, 3}
    Messages <- EventsAndRejects
    Limits = {2}
    MaxLimit = 2
    DefaultLimit = 1
    Zone = 0
    QueueSize = 1
    Retention = 1
    MaxStall = 1
    Faults = {}
    MaxPublished = 3
    MaxTime = 2
INVARIANTS
    WalkMissesNothing
    WalkGoesDown
PROPERTIES
    QueueDrains
    NotificationAppears
