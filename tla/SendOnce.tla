------------------------------ MODULE SendOnce ------------------------------
(***************************************************************************)
(* What the comms module promises of idempotency keys, without goroutines, *)
(* database statements or faults.                                          *)
(*                                                                         *)
(* A key is claimed when nobody holds it.  A claim may be handed to a      *)
(* sender once, the sender may take the message, and while the claim holds *)
(* its key one outcome may be recorded, SENT only for a message that was   *)
(* taken.  A claim loses its key only after the retention period.  Nothing *)
(* forces a claim to be handed over or recorded: a claim may be abandoned  *)
(* at any point, and is then never taken up again.                         *)
(***************************************************************************)
EXTENDS Integers, Sequences

CONSTANTS Keys, Retention

VARIABLES
    now,
    claims,   \* every claim ever made, [key, at]; its index is its id
    holder,   \* the claim that holds each key, 0 if none
    outcome,  \* what is recorded for the holder: "", "SENT" or "FAILED"
    calls,    \* the claims handed to a sender, in order
    taken     \* the claims whose message a sender took

vars == <<now, claims, holder, outcome, calls, taken>>

Init ==
    /\ now = 0
    /\ claims = <<>>
    /\ holder = [k \in Keys |-> 0]
    /\ outcome = [k \in Keys |-> ""]
    /\ calls = <<>>
    /\ taken = {}

Called == {calls[n] : n \in DOMAIN calls}

Claim(k) ==
    /\ holder[k] = 0
    /\ claims' = Append(claims, [key |-> k, at |-> now])
    /\ holder' = [holder EXCEPT ![k] = Len(claims) + 1]
    /\ UNCHANGED <<now, outcome, calls, taken>>

(* A sender is called; one that only logs has taken the message with it. *)
Call(i) ==
    /\ i \notin Called
    /\ calls' = Append(calls, i)
    /\ taken' \in {taken, taken \cup {i}}
    /\ UNCHANGED <<now, claims, holder, outcome>>

Take(i) ==
    /\ i \in Called
    /\ taken' = taken \cup {i}
    /\ UNCHANGED <<now, claims, holder, outcome, calls>>

Record(k, s) ==
    /\ holder[k] # 0
    /\ outcome[k] = ""
    /\ s = "SENT" => holder[k] \in taken
    /\ outcome' = [outcome EXCEPT ![k] = s]
    /\ UNCHANGED <<now, claims, holder, calls, taken>>

(* Keys held for longer than the retention period become free. *)
Forget(K) ==
    /\ \A k \in K : holder[k] # 0 /\ claims[holder[k]].at + Retention < now
    /\ holder' = [k \in Keys |-> IF k \in K THEN 0 ELSE holder[k]]
    /\ outcome' = [k \in Keys |-> IF k \in K THEN "" ELSE outcome[k]]
    /\ UNCHANGED <<now, claims, calls, taken>>

Tick ==
    /\ now' = now + 1
    /\ UNCHANGED <<claims, holder, outcome, calls, taken>>

Next ==
    \/ \E k \in Keys : Claim(k)
    \/ \E i \in DOMAIN claims : Call(i) \/ Take(i)
    \/ \E k \in Keys, s \in {"SENT", "FAILED"} : Record(k, s)
    \/ \E K \in SUBSET Keys : Forget(K)
    \/ Tick

Spec == Init /\ [][Next]_vars
=============================================================================
