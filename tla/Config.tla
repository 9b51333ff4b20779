------------------------------- MODULE Config -------------------------------
(***************************************************************************)
(* config.Load: what an environment e must satisfy before the process goes *)
(* on.  The validators return the set of the errors they report.           *)
(*                                                                         *)
(* Data abstraction.  A secret, token or name is [text, len, padded]: its  *)
(* trimmed text, the length of that, and whether blanks surround it; two   *)
(* values are equal when all three are.  Log level and database schema are *)
(* well-formed or not.  The token list is the sequence of its              *)
(* comma-separated entries, each already cut at its first colon.           *)
(***************************************************************************)
EXTENDS Integers, Sequences

CONSTANTS
    MinHMACSecretLen,   \* minHMACSecretLen, 32
    MinS2STokenLen,     \* minS2STokenLen, 24
    DevEventHMACSecret  \* text of the published development secret

ASSUME ConfigAssumption == MinHMACSecretLen \in Nat /\ MinS2STokenLen \in Nat

Value == [text : STRING, len : Nat, padded : BOOLEAN]

Empty == [text |-> "", len |-> 0, padded |-> FALSE]

(* strings.TrimSpace *)
Trim(v) == [v EXCEPT !.padded = FALSE]

IsEmpty(v) == v.len = 0 /\ ~v.padded

(* len(v) without trimming: surrounding blanks count. *)
RawLen(v) == IF v.padded THEN v.len + 1 ELSE v.len

(* strings.ToLower of the environment's name *)
ToLower(name) == IF name = "Development" THEN "development" ELSE name

IsDev(e) == ToLower(e.env) = "development"

Error(condition, name) == IF condition THEN {name} ELSE {}

-----------------------------------------------------------------------------
(* The secret is trimmed for the checks; the process uses it untrimmed. *)
validateEventHMAC(e) ==
    LET secret == Trim(e.eventSecret)
    IN  IF IsDev(e) THEN {}
        ELSE Error(\/ IsEmpty(secret)
                   \/ secret.len < MinHMACSecretLen
                   \/ secret.text = DevEventHMACSecret, "event secret")

(* A mutant: required in production only, not in test. *)
GatewayHMACInProductionOnly(e) ==
    IF e.env # "production" THEN {}
    ELSE Error(RawLen(e.gatewaySecret) < MinHMACSecretLen, "gateway secret")

validateGatewayHMAC(e) ==
    IF IsDev(e) THEN {}
    ELSE Error(\/ IsEmpty(e.gatewaySecret)
               \/ RawLen(e.gatewaySecret) < MinHMACSecretLen, "gateway secret")

(* No CIDR at all is fine; one that covers every peer is not. *)
validateGatewayCIDR(e) == Error(e.gatewayCIDR \in {"malformed", "wildcard"}, "gateway CIDR")

validateUserRateLimit(e) ==
    Error(\/ e.userPerMin < 0
          \/ e.userPerMin > 0 /\ e.userBurst <= 0, "user rate limit")

-----------------------------------------------------------------------------
(* An entry of NOTIFICATION_S2S_TOKENS. *)
TokenEntry == [blank : BOOLEAN, colon : BOOLEAN, id : Value, token : Value]

(* Blank entries are skipped. *)
Entries(e) == {i \in DOMAIN e.tokens : ~e.tokens[i].blank}

ServiceId(e, i) == Trim(e.tokens[i].id).text

(* A mutant: the token is stored as it was written. *)
TokenUntrimmed(e, i) == e.tokens[i].token

Token(e, i) == Trim(e.tokens[i].token)

ValidEntry(e, i) ==
    /\ e.tokens[i].colon
    /\ ServiceId(e, i) # ""
    /\ Token(e, i).len > 0
    /\ IsDev(e) \/ Token(e, i).len >= MinS2STokenLen

(* One bad entry, or a service named twice, refuses the whole list, and so *)
(* does a list without entries.                                            *)
parseAndValidateS2STokens(e) ==
    Error(\/ Entries(e) = {}
          \/ \E i \in Entries(e) : ~ValidEntry(e, i)
          \/ \E i, j \in Entries(e) : i < j /\ ServiceId(e, i) = ServiceId(e, j),
          "tokens")

(* The map it leaves behind: service id to token. *)
S2STokenMap(e) ==
    IF ~e.commsEnabled THEN << >>
    ELSE [s \in {ServiceId(e, i) : i \in Entries(e)} |->
            Token(e, CHOOSE i \in Entries(e) : ServiceId(e, i) = s)]

ValidEmailProviders == {"smtp", "ses", "sendgrid", "stub", ""}
ValidSMSProviders == {"stub", "aws-sns", "huawei", "chunghwa", ""}

(* Outside development stubs are refused, and so are real providers        *)
(* without their settings.                                                 *)
validateCommsNonDev(e) ==
    Error(\/ e.emailProvider \in {"", "stub"}
          \/ e.smsProvider \in {"", "stub"}
          \/ e.emailProvider = "smtp" /\ (IsEmpty(e.smtpHost) \/ IsEmpty(e.emailFrom))
          \/ e.smsProvider \in {"aws-sns", "huawei", "chunghwa"} /\ ~e.smsRegion
          \/ e.smsProvider \in {"huawei", "chunghwa"} /\ ~e.smsKeys, "provider")

(* A dormant comms module is not validated. *)
validateComms(e) ==
    IF ~e.commsEnabled THEN {}
    ELSE Error(e.emailProvider \notin ValidEmailProviders, "email provider")
            \cup Error(e.smsProvider \notin ValidSMSProviders, "sms provider")
            \cup parseAndValidateS2STokens(e)
            \cup (IF IsDev(e) THEN {} ELSE validateCommsNonDev(e))

(* What validate looks at itself. *)
validateBasics(e) ==
    Error(~e.postgresDSN, "dsn")
        \cup Error(e.port <= 0 \/ e.port > 65535, "port")
        \cup Error(~e.logLevelOK, "log level")
        \cup Error(ToLower(e.env) \notin {"development", "production", "test"}, "env")
        \cup Error(~e.schemaOK, "schema")
        \cup Error(e.dbMaxConns < 0 \/ e.dbMinConns < 0, "connections")
        \cup Error(/\ e.dbMaxConns > 0 /\ e.dbMinConns > 0
                   /\ e.dbMinConns > e.dbMaxConns, "connections")

validate(e) ==
    validateBasics(e)
        \cup validateEventHMAC(e)
        \cup validateGatewayHMAC(e)
        \cup validateGatewayCIDR(e)
        \cup validateUserRateLimit(e)
        \cup validateComms(e)

-----------------------------------------------------------------------------
(* The factories buildCommsService calls check again, in development too:  *)
(* the SMTP sender trims its host and sender and needs a port.             *)
SendersBuild(e) ==
    /\ e.emailProvider = "smtp" =>
          Trim(e.smtpHost) # Empty /\ Trim(e.emailFrom) # Empty /\ e.smtpPort > 0
    /\ e.smsProvider \in {"aws-sns", "huawei", "chunghwa"} => e.smsRegion
    /\ e.smsProvider \in {"huawei", "chunghwa"} => e.smsKeys
=============================================================================
