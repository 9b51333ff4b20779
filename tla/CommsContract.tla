---------------------------- MODULE CommsContract ----------------------------
(***************************************************************************)
(* The pure part of the comms module: what a send request and a signed     *)
(* comms.send_requested event are, and the checks and look-ups             *)
(* Service.Send makes between its database steps.                          *)
(*                                                                         *)
(* Data abstraction.  A request keeps its channel, template id, locale,    *)
(* the SET of variable names it supplies, its idempotency key, and one     *)
(* Boolean "fieldsOK" for the length limits on recipient, template id, key *)
(* and variable count.  A template keeps the set of variable names it      *)
(* references, whether it parses and whether its rendering fits the        *)
(* channel's size cap.  Recipients, texts and message versions are not     *)
(* modelled: no branch of the send path depends on more of them.           *)
(***************************************************************************)
EXTENDS Integers, FiniteSets

CONSTANTS
    NoKey,            \* the empty idempotency key
    CallerKeys,       \* keys callers put in requests and events
    EventIds,         \* event ids (UUIDs)
    Secret,           \* the shared EVENT_HMAC_SECRET
    MaxEventAge,      \* comms.maxEventAge
    EventClockSkew,   \* comms.eventClockSkew
    DefaultLocale,    \* template.defaultLocale
    NoTemplate,       \* "no row" in comms_templates
    Templates,        \* the rows of comms_templates
    EmailProvider,    \* cfg.Comms.EmailProvider
    SMSProvider       \* cfg.Comms.SMSProvider

(* Channel.Valid: the five known channels; the last three have no sender. *)
ReservedChannels == {"PUSH", "INAPP", "LINE"}
ValidChannels == {"EMAIL", "SMS"} \cup ReservedChannels

(* The key ToSendRequest derives from an event id: the string "evt:" + id. *)
EventKey(id) == <<"evt:", id>>

(* Every value the idempotency_key column can hold. *)
IdemKeys == CallerKeys \cup {EventKey(id) : id \in EventIds}

ASSUME ContractAssumption ==
    /\ MaxEventAge \in Nat
    /\ EventClockSkew \in Nat
    /\ NoKey \notin IdemKeys
    /\ EmailProvider \in {"", "stub", "smtp", "ses", "sendgrid"}
    /\ SMSProvider \in {"", "stub", "aws-sns", "huawei", "chunghwa"}

-----------------------------------------------------------------------------
(* validateRequest: the checks made before any database work. *)
validateRequest(req) ==
    /\ req.channel \in ValidChannels
    /\ req.fieldsOK
    /\ req.key # NoKey

-----------------------------------------------------------------------------
(***************************************************************************)
(* The signed event.  Its data travels as JSON text; "spelling" is         *)
(* whatever of that text is lost by parsing it (field order, spaces,       *)
(* explicit nulls).  json.Marshal always writes the same spelling.  The    *)
(* HMAC is modelled by the tuple of its inputs: equal signatures, equal    *)
(* inputs.                                                                 *)
(***************************************************************************)
CanonicalSpelling == "go"

Marshal(data) == [data |-> data, spelling |-> CanonicalSpelling]

NoSignature == <<>>

computeSendRequestedSignature(id, occurredAt, raw, secret) ==
    <<secret, id, occurredAt, raw>>

(* A missing signature is rejected; the data is marshalled again, so what  *)
(* is compared is the signature of the canonical spelling.                 *)
VerifySendRequested(evt) ==
    /\ evt.signature # NoSignature
    /\ evt.signature = computeSendRequestedSignature(
                           evt.id, evt.occurredAt, Marshal(evt.data), Secret)

(* A mutant: the upper half of the freshness window only. *)
FreshWithoutSkewBound(evt, now) == now - evt.occurredAt <= MaxEventAge

IsSendRequestedFresh(evt, now) ==
    LET age == now - evt.occurredAt
    IN  age <= MaxEventAge /\ age >= -EventClockSkew

ToSendRequest(evt) ==
    [evt.data EXCEPT !.key = IF evt.data.key = NoKey THEN EventKey(evt.id)
                                                     ELSE evt.data.key]

-----------------------------------------------------------------------------
(* template.Store: getExact, and Get with its fallback to the default locale. *)
getExact(channel, id, locale) ==
    LET rows == {t \in Templates : /\ t.channel = channel
                                   /\ t.id = id
                                   /\ t.locale = locale}
    IN  IF rows = {} THEN NoTemplate ELSE CHOOSE t \in rows : TRUE

GetTemplate(channel, id, locale) ==
    LET wanted == IF locale = "" THEN DefaultLocale ELSE locale
        exact  == getExact(channel, id, wanted)
    IN  IF exact # NoTemplate THEN exact
                              ELSE getExact(channel, id, DefaultLocale)

(* Renderer.Render: "" on success, otherwise the class of the error. *)
Render(tpl, vars) ==
    IF ~tpl.parses THEN "validation"
    ELSE IF ~(tpl.needs \subseteq vars) THEN "missingVar"
    ELSE IF ~tpl.fits THEN "renderTooLarge"
    ELSE ""

(* The two steps of Send between Reserve and dispatch, as one error class. *)
ComposeError(req) ==
    LET tpl == GetTemplate(req.channel, req.template, req.locale)
    IN  IF tpl = NoTemplate THEN "templateNotFound" ELSE Render(tpl, req.vars)

-----------------------------------------------------------------------------
(* The sender each factory builds: "dev" only logs, "smtp" delivers, the   *)
(* others return ErrProviderNotIntegrated.                                 *)
NewEmailSender(provider) ==
    CASE provider \in {"", "stub"} -> "dev"
      [] provider = "smtp"         -> "smtp"
      [] OTHER                     -> "notIntegrated"

NewSMSSender(provider) ==
    IF provider \in {"", "stub"} THEN "dev" ELSE "notIntegrated"

(* dispatch: the sender a channel is routed to. *)
SenderOf(channel) ==
    CASE channel = "EMAIL" -> NewEmailSender(EmailProvider)
      [] channel = "SMS"   -> NewSMSSender(SMSProvider)
      [] OTHER             -> "notIntegrated"

(* writeSendError: the API code of an error class. *)
writeSendError(class) ==
    IF class \in {"validation", "templateNotFound", "missingVar", "renderTooLarge"}
    THEN "VALIDATION_ERROR"
    ELSE IF class = "notIntegrated" THEN "PROVIDER_UNAVAILABLE"
    ELSE "INTERNAL_ERROR"
=============================================================================
