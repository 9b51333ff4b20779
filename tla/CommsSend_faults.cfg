SPECIFICATION Spec
CONSTANTS
    h1 = h1  h2 = h2  c1 = c1  c2 = c2  r1 = r1  r2 = r2  k1 = k1  u1 = u1
    NoKey = NoKey  NoEvent = NoEvent  NoJob = NoJob  NoRow = NoRow
    NoTemplate = NoTemplate  Secret = Secret
    CallerKeys = {}
    EventIds <- MCEventIds
    DefaultLocale = "en"
    Templates <- MCTemplates
    TemplateIds <- MCTemplateIds
    VarNames <- MCVarNames
    Handlers = {h1}
    Consumers = {c1}
    Replicas = {r1, r2}
    Home <- MCHome
    Requests <- ClashingMail
    Events <- OneEvent
    Faults = {"db", "cancel", "crash"}
    EmailProvider = "smtp"
    SMSProvider = "stub"
    MaxEventAge = 1
    EventClockSkew = 0
    MaxStall = 0
    Retention = 1
    MaxTime = 4
INVARIANTS
    TypeOK
    OneCallPerRow
    EventSentOnce
    CallsOfAKeyAreSpaced
    SentMeansAccepted
    PendingIsAccountedFor
    SentReplyIsTrue
PROPERTIES
    KeepsPromise
    TerminalIsFinal
