SPECIFICATION FairSpec
CONSTANTS
    w1 = w1  w2 = w2  r1 = r1  u1 = u1  n1 = n1
    NoUser = NoUser  BadUser = BadUser  NilUser = NilUser  NoTier = NoTier
    NoService = NoService  NoRequestId = NoRequestId
    NoConfig = NoConfig  NoRequest = NoRequest
    MinHMACSecretLen = 3
    MinS2STokenLen = 2
    DevEventHMACSecret = "dev"
    MaxEmailLen = 9
    MaxFieldLen = 4
    Replicas = {r1}
    Workers = {w1, w2}
    Home <- MCHome
    Environments <- MCEnvironments
    Requests <- MCRequests
    DefaultTemplates <- MCTemplates
    Faults = {"db", "redis", "listen", "crash"}
INVARIANTS
    TypeOK
    InboxOnlyForSigned
    CallersAreTheListed
    BudgetsOfTheVerified
    SeededBeforeServing
    OneRowPerSignup
PROPERTIES
    StopsOnSigterm
