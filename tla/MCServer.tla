------------------------------ MODULE MCServer ------------------------------
(* Small instances of Server for TLC. *)
EXTENDS Server

CONSTANTS w1, w2, r1, u1, n1

MCHome == [w \in Workers |-> r1]

Text(t, n) == [text |-> t, len |-> n, padded |-> FALSE]
Padded(v) == [v EXCEPT !.padded = TRUE]

GatewaySecret == Text("gateway", MinHMACSecretLen)
TokenA == Text("a", MinS2STokenLen)
TokenB == Text("b", MinS2STokenLen)

Entry(id, token) == [blank |-> FALSE, colon |-> TRUE, id |-> id, token |-> token]
BlankEntry == [blank |-> TRUE, colon |-> FALSE, id |-> Empty, token |-> Empty]

(* A production environment; "user: a,,market:b " *)
Production ==
    [env |-> "production", postgresDSN |-> TRUE, port |-> 8084, logLevelOK |-> TRUE,
     schemaOK |-> TRUE, dbMaxConns |-> 10, dbMinConns |-> 2, redisURL |-> "valid",
     eventSecret |-> Padded(Text("events", MinHMACSecretLen)),
     gatewaySecret |-> GatewaySecret, gatewayCIDR |-> "narrow",
     userPerMin |-> 120, userBurst |-> 20, commsEnabled |-> TRUE,
     tokens |-> <<Entry(Text("user", 4), Padded(TokenA)), BlankEntry,
                  Entry(Text("market", 6), TokenB)>>,
     emailProvider |-> "smtp", smtpHost |-> Text("mail", 4), smtpPort |-> 587,
     emailFrom |-> Text("from", 4), smsProvider |-> "aws-sns", smsRegion |-> TRUE,
     smsKeys |-> FALSE]

(* A developer's machine: no secrets, no Redis, stubs. *)
Development ==
    [Production EXCEPT !.env = "Development", !.redisURL = "", !.eventSecret = Empty,
                       !.gatewaySecret = Empty, !.gatewayCIDR = "", !.userPerMin = 0,
                       !.tokens = <<Entry(Text("user", 4), Text("d", 1))>>,
                       !.emailProvider = "", !.smsProvider = "stub"]

(* Accepted by Load, but not by what follows it. *)
BlankHost == [Production EXCEPT !.smtpHost = Padded(Empty)]
BadRedis == [Production EXCEPT !.redisURL = "malformed"]

(* Refused by Load. *)
Refused ==
    {[Production EXCEPT !.env = "test", !.gatewaySecret = Empty],
     [Production EXCEPT !.env = "staging"],
     [Production EXCEPT !.eventSecret = Padded(Text(DevEventHMACSecret, MinHMACSecretLen))],
     [Production EXCEPT !.gatewayCIDR = "wildcard"],
     [Production EXCEPT !.dbMaxConns = 1],
     [Production EXCEPT !.userBurst = 0],
     [Production EXCEPT !.smsProvider = "stub"],
     [Production EXCEPT !.tokens = <<Entry(Text("user", 4), TokenA),
                                     Entry(Padded(Text("user", 4)), TokenB)>>]}

MCEnvironments ==
    {Production, Development, BlankHost, BadRedis,
     [Production EXCEPT !.commsEnabled = FALSE]} \cup Refused

Blank == [text |-> "", len |-> 0, control |-> FALSE]
Company == [text |-> "Acme", len |-> 4, control |-> FALSE]
Email(t) == [text |-> t, lower |-> "ann@x.org", len |-> 9, control |-> FALSE,
             containsAt |-> TRUE]
Signup(t) == [body |-> TRUE, email |-> Email(t), company |-> Company, interestedIn |-> Blank]

Req(route) ==
    [route |-> route, signedWith |-> Empty, user |-> NoUser, tier |-> NoTier,
     id |-> NoRequestId, service |-> NoService, token |-> Empty, entry |-> Signup("ann@x.org")]

Signed == [Req("inbox") EXCEPT !.signedWith = GatewaySecret, !.user = u1, !.tier = 1, !.id = n1]
Send == [Req("comms") EXCEPT !.service = "user", !.token = TokenA]

MCRequests ==
    {Signed,
     [Signed EXCEPT !.signedWith = Empty],
     [Signed EXCEPT !.user = BadUser],
     [Signed EXCEPT !.tier = -1],
     [Signed EXCEPT !.user = NilUser, !.id = NoRequestId],
     Send,
     [Send EXCEPT !.token = TokenB],
     [Send EXCEPT !.service = NoService],
     Req("waitlist"),
     [Req("waitlist") EXCEPT !.entry = Signup("Ann@x.org")],
     [Req("waitlist") EXCEPT !.entry.email.containsAt = FALSE, !.entry.email.text = "ann"],
     Req("healthz"), Req("readyz")}

MCTemplates == <<"email_verify", "phone_otp">>
=============================================================================
