SPECIFICATION Spec
CONSTANTS
    h1 = h1  h2 = h2  c1 = c1  c2 = c2  r1 = r1  r2 = r2  k1 = k1  u1 = u1
    NoKey = NoKey  NoEvent = NoEvent  NoJob = NoJob  NoRow = NoRow
    NoTemplate = NoTemplate  Secret = Secret
    CallerKeys = {k1}
    EventIds <- MCEventIds
    DefaultLocale = "en"
    Templates <- MCTemplates
    TemplateIds <- MCTemplateIds
    VarNames <- MCVarNames
    Handlers = {h1}
    Consumers = {}
    Replicas = {r1}
    Home <- MCHome
    Requests <- OneMail
    Events <- NoEvents
    Faults = {"cancel"}
    EmailProvider = "smtp"
    SMSProvider = "stub"
    MaxEventAge = 0
    EventClockSkew = 0
    MaxStall = 0
    Retention = 0
    MaxTime = 0
INVARIANTS FailureRecorded
