----------------------------- MODULE MCCommsSend -----------------------------
(* Small instances of CommsSend for TLC. *)
EXTENDS CommsSend

CONSTANTS h1, h2, c1, c2, r1, r2, k1, u1

MCHome == [w \in Workers |-> IF w \in {h1, h2, c2} THEN r1 ELSE r2]

MCEventIds == {u1}

(* One template with a variable, in the default locale only; one per       *)
(* failure of Render.                                                      *)
Tpl(channel, id, locale, parses, fits) ==
    [channel |-> channel, id |-> id, locale |-> locale, needs |-> {"name"},
     parses |-> parses, fits |-> fits]

MCTemplates ==
    {Tpl("EMAIL", "welcome", "en", TRUE, TRUE), Tpl("SMS", "welcome", "en", TRUE, TRUE),
     Tpl("PUSH", "welcome", "en", TRUE, TRUE),
     Tpl("EMAIL", "broken", "en", FALSE, TRUE), Tpl("EMAIL", "long", "en", TRUE, FALSE)}

MCTemplateIds == {"welcome", "broken", "long", "absent"}
MCVarNames == {"name"}

Req(channel, template, locale, names, key) ==
    [channel |-> channel, fieldsOK |-> TRUE, template |-> template,
     locale |-> locale, vars |-> names, key |-> key]

(* A caller's e-mail under key k1. *)
Mail == Req("EMAIL", "welcome", "fr", {"name"}, k1)

Signed(data, occurredAt, spelling) ==
    [wellFormed |-> TRUE, id |-> u1, occurredAt |-> occurredAt, data |-> data,
     spelling |-> spelling,
     signature |-> <<Secret, u1, occurredAt, [data |-> data, spelling |-> spelling]>>]

(* An event without a key of its own, signed as SignSendRequested does. *)
Event == Signed(Req("EMAIL", "welcome", "en", {"name"}, NoKey), 1, CanonicalSpelling)

(* Instance 1: one caller mail, and one event under its derived key. *)
OneMail == {Mail}
OneEvent == {Event}
NoEvents == {}

(* Instance 2: a caller who uses the event's derived key. *)
ClashingMail == {Req("EMAIL", "welcome", "en", {"name"}, EventKey(u1))}

(* Instance 3: every way a request or an event can end. *)
AllRequests ==
    {Mail,
     [Mail EXCEPT !.fieldsOK = FALSE],
     [Mail EXCEPT !.key = NoKey],
     Req("FAX", "welcome", "en", {"name"}, k1),
     Req("SMS", "welcome", "", {"name"}, k1),
     Req("PUSH", "welcome", "en", {"name"}, k1),
     Req("EMAIL", "welcome", "en", {}, k1),
     Req("EMAIL", "broken", "en", {"name"}, k1),
     Req("EMAIL", "long", "en", {"name"}, k1),
     Req("EMAIL", "absent", "fr", {"name"}, k1)}

AllEvents ==
    {Event,
     [Event EXCEPT !.wellFormed = FALSE],
     [Event EXCEPT !.signature = NoSignature],
     Signed(Event.data, 1, "reordered"),
     Signed([Event.data EXCEPT !.key = k1], 1, CanonicalSpelling),
     Signed([Event.data EXCEPT !.channel = "FAX"], 1, CanonicalSpelling)}
=============================================================================
