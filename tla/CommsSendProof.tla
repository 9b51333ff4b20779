---------------------------- MODULE CommsSendProof ----------------------------
(* Theorems about CommsSend, for every value of its constants. *)
EXTENDS CommsSend, SequenceTheorems, TLAPS

(* The request an event is turned into is a request. *)
LEMMA EventRequest ==
    ASSUME NEW e \in Events
    PROVE  /\ ToSendRequest(e) \in SendRequest
           /\ ToSendRequest(e).key \in IdemKeys
           /\ e \in Events \cup {NoEvent}
<1>1. /\ e.data \in SendRequest
      /\ e.id \in EventIds
  BY CommsSendAssumption
<1>2. EventKey(e.id) \in IdemKeys
  BY <1>1 DEF IdemKeys
<1>3. (IF e.data.key = NoKey THEN EventKey(e.id) ELSE e.data.key) \in IdemKeys
  BY <1>1, <1>2 DEF SendRequest
<1> QED
  BY <1>1, <1>3 DEF ToSendRequest, SendRequest

(* Every error class has an API code, and composing a message ends in one. *)
LEMMA ErrorTypes ==
    /\ \A e : Result(writeSendError(e), 0, "", FALSE) \in Results
    /\ \A r : ComposeError(r) \in ErrorClasses
  BY DEF writeSendError, ComposeError, Render, ErrorClasses, Result, Results

Points == {"idle", "reserve", "existing", "compose", "dispatch", "sending", "mark",
           "reply"}

(* Returning a result, and entering Send, respect the types. *)
LEMMA ReturnTypes ==
    ASSUME TypeOK, NEW w \in Workers, NEW r \in Results, Return(w, r)
    PROVE  /\ pc' \in [Workers -> Points]
           /\ \A v \in Workers : v # w => pc'[v] = pc[v]
           /\ res' \in [Workers -> Results]
  BY DEF TypeOK, Return, Points

LEMMA EnterTypes ==
    ASSUME TypeOK, NEW w \in Workers, NEW r, EnterSend(w, r)
    PROVE  /\ pc' \in [Workers -> Points]
           /\ \A v \in Workers : v # w => pc'[v] = pc[v]
           /\ res' \in [Workers -> Results]
<1>1. CASE validateRequest(r)
  BY <1>1 DEF TypeOK, EnterSend, Points
<1>2. CASE ~validateRequest(r)
  <2>1. Return(w, Result(writeSendError("validation"), 0, "", FALSE))
    BY <1>2 DEF EnterSend
  <2> QED
    BY <2>1, ErrorTypes, ReturnTypes
<1> QED
  BY <1>1, <1>2

(* A worker inside Send has a job, and a key once it is past validation. *)
KeyTyped ==
    \A w \in Workers : pc[w] \notin {"idle", "reply"} => KeyOf(w) \in IdemKeys

(* An insertion yields a table and a ledger. *)
LEMMA InsertTypes ==
    ASSUME TypeOK, KeyTyped, NEW w \in Workers, pc[w] = "reserve", Insert(w)
    PROVE  /\ sendLog' \in [IdemKeys -> Row \cup {NoRow}]
           /\ ledger' \in Seq(Claim)
<1> DEFINE row == [id |-> Len(ledger) + 1, status |-> "PENDING", attempts |-> 0,
                   createdAt |-> now]
           claim == [key |-> KeyOf(w), src |-> job[w].src, at |-> now]
<1>1. row \in Row
  BY DEF TypeOK, Row
<1>2. claim \in Claim
  <2>1. job[w] \in Jobs /\ KeyOf(w) \in IdemKeys
    BY DEF TypeOK, KeyTyped
  <2> QED
    BY <2>1 DEF TypeOK, Claim, Jobs
<1>3. sendLog' = [sendLog EXCEPT ![KeyOf(w)] = row] /\ ledger' = Append(ledger, claim)
  BY DEF Insert
<1> HIDE DEF row, claim
<1>4. Append(ledger, claim) \in Seq(Claim)
  BY <1>2 DEF TypeOK
<1> QED
  BY <1>1, <1>3, <1>4 DEF TypeOK

(* An update by MarkResult yields a table, and Send's answer is a result. *)
LEMMA MarkTypes ==
    ASSUME TypeOK, NEW w \in Workers
    PROVE  /\ UpdateRow(w) => sendLog' \in [IdemKeys -> Row \cup {NoRow}]
           /\ ReturnOutcome(w) => /\ pc' = [pc EXCEPT ![w] = "reply"]
                                  /\ res' \in [Workers -> Results]
                                  /\ rowId' \in [Workers -> Nat]
                                  /\ err' \in [Workers -> ErrorClasses]
<1>1. FinalStatus(w) \in {"SENT", "FAILED"}
  BY DEF FinalStatus
<1>2. ASSUME UpdateRow(w) PROVE sendLog' \in [IdemKeys -> Row \cup {NoRow}]
  <2>1. \A r \in Row : Marked(r, FinalStatus(w)) \in Row
    BY <1>1 DEF Row, Marked
  <2> QED
    BY <1>2, <2>1 DEF UpdateRow, TypeOK
<1>3. ASSUME ReturnOutcome(w)
      PROVE  /\ pc' = [pc EXCEPT ![w] = "reply"]
             /\ res' \in [Workers -> Results]
             /\ rowId' \in [Workers -> Nat]
             /\ err' \in [Workers -> ErrorClasses]
  <2> DEFINE r == Outcome(w)
  <2>1. r \in Results
    BY <1>1 DEF Outcome, Result, Results, writeSendError, TypeOK
  <2>2. res' = [res EXCEPT ![w] = r] /\ pc' = [pc EXCEPT ![w] = "reply"]
    BY <1>3 DEF ReturnOutcome, Return
  <2> QED
    BY <1>3, <2>1, <2>2 DEF ReturnOutcome, TypeOK, ErrorClasses
<1> QED
  BY <1>2, <1>3

LEMMA AddId ==
    ASSUME NEW S \in SUBSET Nat, NEW i \in Nat
    PROVE  S \cup {i} \in SUBSET Nat
  OBVIOUS

LEMMA OwnIds ==
    ASSUME TypeOK, NEW w \in Workers
    PROVE  /\ accepted \cup {rowId[w]} \in SUBSET Nat
           /\ faulted \cup {rowId[w]} \in SUBSET Nat
<1>1. rowId[w] \in Nat /\ accepted \in SUBSET Nat /\ faulted \in SUBSET Nat
  BY DEF TypeOK
<1> QED
  BY <1>1, AddId

(* Every step keeps the state in its types. *)
LEMMA TypeStep ==
    ASSUME TypeOK, KeyTyped, Next
    PROVE  TypeOK'
<1> USE CommsSendAssumption DEF TypeOK, history, Points
<1>1. ASSUME NEW w \in Handlers, NEW r \in Requests, HTTPSend(w, r) PROVE TypeOK'
  <2>1. [req |-> r, src |-> NoEvent, since |-> 0] \in Jobs
    BY DEF Jobs
  <2>2. w \in Workers /\ EnterSend(w, r)
    BY <1>1 DEF Workers, HTTPSend
  <2> QED
    BY <1>1, <2>1, <2>2, EnterTypes DEF HTTPSend
<1>2. ASSUME NEW w \in Consumers, NEW e \in Events, Deliver(w, e) PROVE TypeOK'
  <2>1. [req |-> ToSendRequest(e), src |-> e, since |-> now] \in Jobs
    BY EventRequest DEF Jobs
  <2>2. w \in Workers
    BY DEF Workers
  <2>3. Result(DropReason(e), 0, "", FALSE) \in Results
    BY DEF DropReason, Result, Results
  <2>4. /\ pc' \in [Workers -> Points]
        /\ \A v \in Workers : v # w => pc'[v] = pc[v]
        /\ res' \in [Workers -> Results]
    BY <1>2, <2>2, <2>3, EnterTypes, ReturnTypes DEF Deliver
  <2> QED
    BY <1>2, <2>1, <2>2, <2>4 DEF Deliver
<1>3. ASSUME NEW w \in Workers, Step(w) PROVE TypeOK'
  <2>1. CASE ReserveClaims(w)
    BY <2>1, InsertTypes DEF ReserveClaims
  <2>2. CASE ReserveConflicts(w)
    BY <2>2 DEF ReserveConflicts
  <2>3. CASE ReserveFails(w)
    <3>1. Result(writeSendError("db"), 0, "", FALSE) \in Results
      BY ErrorTypes
    <3>2. /\ sendLog' \in [IdemKeys -> Row \cup {NoRow}]
          /\ ledger' \in Seq(Claim)
          /\ faulted' \in SUBSET Nat
      <4>1. Len(ledger) + 1 \in Nat
        OBVIOUS
      <4>2. faulted \cup {Len(ledger) + 1} \in SUBSET Nat
        BY <4>1, AddId
      <4>3. ASSUME Insert(w) PROVE /\ sendLog' \in [IdemKeys -> Row \cup {NoRow}]
                                   /\ ledger' \in Seq(Claim)
        BY <2>3, <4>3, InsertTypes DEF ReserveFails
      <4> QED
        BY <2>3, <4>2, <4>3 DEF ReserveFails
    <3> QED
      BY <2>3, <3>1, <3>2, ReturnTypes DEF ReserveFails
  <2>4. CASE LoadExisting(w)
    <3> DEFINE row == sendLog[KeyOf(w)]
               r == IF row = NoRow THEN Result(writeSendError("rowNotFound"), 0, "", FALSE)
                                   ELSE Result("ACCEPTED", row.id, row.status, TRUE)
    <3>1. row \in Row \cup {NoRow}
      BY <2>4 DEF LoadExisting, KeyTyped
    <3>2. r \in Results
      BY <3>1, ErrorTypes DEF Result, Results, Row
    <3>3. Return(w, r)
      BY <2>4 DEF LoadExisting
    <3> QED
      BY <2>4, <3>2, <3>3, ReturnTypes DEF LoadExisting
  <2>5. CASE LoadExistingFails(w)
    BY <2>5, ErrorTypes, ReturnTypes DEF LoadExistingFails
  <2>6. CASE Compose(w)
    BY <2>6, ErrorTypes DEF Compose
  <2>7. CASE ComposeFails(w)
    BY <2>7 DEF ComposeFails, ErrorClasses
  <2>8. CASE DispatchUnavailable(w)
    <3>1. /\ pc' = [pc EXCEPT ![w] = "mark"] /\ pc[w] = "dispatch"
          /\ err' = [err EXCEPT ![w] = "notIntegrated"]
          /\ UNCHANGED <<now, sendLog, history, job, rowId, ctx, res>>
      BY <2>8 DEF DispatchUnavailable
    <3> QED
      BY <3>1 DEF ErrorClasses
  <2>9. CASE DispatchDev(w)
    <3>1. accepted \cup {rowId[w]} \in SUBSET Nat
      BY OwnIds
    <3>2. Append(outbox, rowId[w]) \in Seq(Nat)
      OBVIOUS
    <3> QED
      BY <2>9, <3>1, <3>2 DEF DispatchDev
  <2>10. CASE DispatchSMTP(w)
    BY <2>10 DEF DispatchSMTP
  <2>11. CASE MarkResult(w)
    <3>1. /\ sendLog' \in [IdemKeys -> Row \cup {NoRow}]
          /\ pc' = [pc EXCEPT ![w] = "reply"]
          /\ res' \in [Workers -> Results]
          /\ rowId' \in [Workers -> Nat]
          /\ err' \in [Workers -> ErrorClasses]
      BY <2>11, MarkTypes DEF MarkResult
    <3>2. UNCHANGED <<now, history, job, ctx>> /\ pc[w] = "mark"
      BY <2>11 DEF MarkResult
    <3> QED
      BY <3>1, <3>2
  <2>12. CASE MarkResultFails(w)
    <3>1. faulted \cup {rowId[w]} \in SUBSET Nat
      BY OwnIds
    <3>2. /\ sendLog' \in [IdemKeys -> Row \cup {NoRow}]
          /\ faulted' \in SUBSET Nat
      BY <2>12, <3>1, MarkTypes DEF MarkResultFails
    <3>3. /\ pc' = [pc EXCEPT ![w] = "reply"]
          /\ res' \in [Workers -> Results]
          /\ rowId' \in [Workers -> Nat]
          /\ err' \in [Workers -> ErrorClasses]
      BY <2>12, MarkTypes DEF MarkResultFails
    <3>4. UNCHANGED <<now, ledger, outbox, accepted, job, ctx>> /\ pc[w] = "mark"
      BY <2>12 DEF MarkResultFails
    <3> QED
      BY <3>2, <3>3, <3>4
  <2>13. CASE Reply(w)
    BY <2>13 DEF Reply, NoResult, Result, Results
  <2> QED
    BY <1>3, <2>1, <2>2, <2>3, <2>4, <2>5, <2>6, <2>7, <2>8, <2>9, <2>10, <2>11,
       <2>12, <2>13 DEF Step
<1>4. ASSUME NEW w \in Workers, ProviderAccepts(w) \/ ProviderFails(w) PROVE TypeOK'
  <2>1. accepted \cup {rowId[w]} \in SUBSET Nat
    BY OwnIds
  <2>2. /\ pc' = [pc EXCEPT ![w] = "mark"] /\ pc[w] = "sending"
        /\ accepted' \in SUBSET Nat
        /\ UNCHANGED <<now, sendLog, ledger, outbox, faulted, job, rowId, ctx, res>>
    BY <1>4, <2>1 DEF ProviderAccepts, ProviderFails
  <2>3. err' \in [Workers -> ErrorClasses]
    BY <1>4 DEF ProviderAccepts, ProviderFails, ErrorClasses
  <2> QED
    BY <2>2, <2>3
<1>5. ASSUME NEW w \in Workers, Cancel(w) PROVE TypeOK'
  BY <1>5 DEF Cancel
<1>6. ASSUME NEW r \in Replicas, Crash(r) PROVE TypeOK'
  <2>1. NoResult \in Results /\ "" \in ErrorClasses
    BY DEF NoResult, Result, Results, ErrorClasses
  <2>2. /\ pc' \in [Workers -> Points]
        /\ job' \in [Workers -> Jobs \cup {NoJob}]
        /\ \A w \in Workers : pc'[w] # "idle" => job'[w] \in Jobs
    BY <1>6 DEF Crash
  <2>3. /\ rowId' \in [Workers -> Nat]
        /\ err' \in [Workers -> ErrorClasses]
        /\ ctx' \in [Workers -> {"live", "done"}]
        /\ res' \in [Workers -> Results]
    BY <1>6, <2>1 DEF Crash
  <2>4. faulted' \in SUBSET Nat
    <3>1. PICK lost \in SUBSET Workers : faulted' = faulted \cup {rowId[w] : w \in lost}
      BY <1>6 DEF Crash
    <3>2. {rowId[w] : w \in lost} \in SUBSET Nat
      OBVIOUS
    <3> QED
      BY <3>1, <3>2
  <2>5. UNCHANGED <<now, sendLog, ledger, outbox, accepted>>
    BY <1>6 DEF Crash
  <2> QED
    BY <2>2, <2>3, <2>4, <2>5
<1>7. CASE Purge
  BY <1>7 DEF Purge
<1>8. CASE Tick
  BY <1>8 DEF Tick
<1> QED
  BY <1>1, <1>2, <1>3, <1>4, <1>5, <1>6, <1>7, <1>8 DEF Next

-----------------------------------------------------------------------------
(***************************************************************************)
(* The inductive invariant.  It says who answers for which row             *)
(* (Ownership), how table and ledger agree (RowsMatchLedger), that a       *)
(* ledger entry outlives its row only after the retention period           *)
(* (LedgerSpaced), and within which times an event's row was claimed       *)
(* (EventClaims).                                                          *)
(***************************************************************************)

(* A worker past Reserve answers for a row of its own key, alone. *)
Ownership ==
    \A w \in Workers : Owns(w) =>
        /\ rowId[w] \in 1..Len(ledger)
        /\ ledger[rowId[w]].key = KeyOf(w)
        /\ \A v \in Workers : (Owns(v) /\ rowId[v] = rowId[w]) => v = w

(* While a worker answers for a row, the row is PENDING; its message has   *)
(* not been handed over before dispatch, and was taken if dispatch         *)
(* reported no error.                                                      *)
OwnedRow ==
    \A w \in Workers : Owns(w) =>
        /\ \A k \in IdemKeys : (sendLog[k] # NoRow /\ sendLog[k].id = rowId[w])
                                  => sendLog[k].status = "PENDING"
        /\ pc[w] \in {"compose", "dispatch"}
              => \A n \in 1..Len(outbox) : outbox[n] # rowId[w]
        /\ (pc[w] = "mark" /\ err[w] = "") => rowId[w] \in accepted

(* Every row has its ledger entry. *)
RowsMatchLedger ==
    \A k \in IdemKeys : sendLog[k] # NoRow =>
        /\ sendLog[k].id \in 1..Len(ledger)
        /\ ledger[sendLog[k].id].key = k
        /\ ledger[sendLog[k].id].at = sendLog[k].createdAt

(* An entry whose row is gone is older than the retention period, and a    *)
(* later entry of the same key is younger by more than that.               *)
LedgerSpaced ==
    \A i \in 1..Len(ledger) :
        /\ \/ sendLog[ledger[i].key] # NoRow /\ sendLog[ledger[i].key].id = i
           \/ now > ledger[i].at + Retention
        /\ \A j \in 1..Len(ledger) :
              (i < j /\ ledger[i].key = ledger[j].key)
                  => ledger[j].at > ledger[i].at + Retention

(* A row still PENDING has an owner, or a fault took it. *)
PendingHeld ==
    \A k \in IdemKeys :
        (sendLog[k] # NoRow /\ sendLog[k].status = "PENDING")
            => \/ sendLog[k].id \in faulted
               \/ \E w \in Workers : Owns(w) /\ rowId[w] = sendLog[k].id

(* Messages are handed over for rows that were claimed, once each. *)
OutboxOnce ==
    /\ \A n \in 1..Len(outbox) : outbox[n] \in 1..Len(ledger)
    /\ \A m, n \in 1..Len(outbox) : outbox[m] = outbox[n] => m = n

(* When an event can be claimed: within MaxStall of passing the freshness  *)
(* check, under the key it determines.                                     *)
ClaimWindow(e, t) ==
    /\ t >= e.occurredAt - EventClockSkew
    /\ t <= e.occurredAt + MaxEventAge + MaxStall

EventClaims ==
    /\ \A i \in 1..Len(ledger) : ledger[i].src # NoEvent =>
          /\ ledger[i].key = ToSendRequest(ledger[i].src).key
          /\ ClaimWindow(ledger[i].src, ledger[i].at)
    /\ \A w \in Workers : (pc[w] = "reserve" /\ job[w].src # NoEvent) =>
          /\ w \in Consumers
          /\ job[w].req = ToSendRequest(job[w].src)
          /\ IsSendRequestedFresh(job[w].src, job[w].since)
          /\ job[w].since <= now
          /\ now <= job[w].since + MaxStall

IInv ==
    /\ TypeOK
    /\ KeyTyped
    /\ Ownership
    /\ OwnedRow
    /\ RowsMatchLedger
    /\ LedgerSpaced
    /\ PendingHeld
    /\ OutboxOnce
    /\ EventClaims
    /\ SentMeansAccepted
    /\ SentReplyIsTrue


(***************************************************************************)
(* What a step can do to the parts of the state, whoever takes it.         *)
(***************************************************************************)

(* The ledger only ever grows. *)
LEMMA AppendClaim ==
    ASSUME NEW S, NEW l \in Seq(S), NEW x \in S
    PROVE  /\ Len(l) \in Nat
           /\ DOMAIN l = 1..Len(l)
           /\ Len(Append(l, x)) = Len(l) + 1
           /\ \A i \in 1..Len(l) : l[i] \in S /\ Append(l, x)[i] = l[i]
           /\ Append(l, x)[Len(l) + 1] = x
  OBVIOUS

(* The table changes by an insertion under a free key, by MarkResult on    *)
(* the worker's row, or by a purge; otherwise only time passes.            *)
Inserting(w) == /\ pc[w] = "reserve" /\ sendLog[KeyOf(w)] = NoRow
                /\ Insert(w) /\ now' = now /\ job' = job
                /\ ReserveClaims(w) \/ Len(ledger) + 1 \in faulted'

Updating(w) == /\ pc[w] = "mark" /\ UpdateRow(w) /\ ReturnOutcome(w)
               /\ UNCHANGED <<now, ledger>>

LEMMA TableFrame ==
    ASSUME Next
    PROVE  \/ \E w \in Workers : Inserting(w) \/ Updating(w)
           \/ Purge
           \/ Tick
           \/ UNCHANGED <<now, sendLog, ledger>>
<1> USE DEF history
<1>1. ASSUME NEW w \in Handlers, NEW r \in Requests, HTTPSend(w, r)
      PROVE  UNCHANGED <<now, sendLog, ledger>>
  BY <1>1 DEF HTTPSend
<1>2. ASSUME NEW w \in Consumers, NEW e \in Events, Deliver(w, e)
      PROVE  UNCHANGED <<now, sendLog, ledger>>
  BY <1>2 DEF Deliver
<1>3. ASSUME NEW w \in Workers, Step(w)
      PROVE  Inserting(w) \/ Updating(w) \/ UNCHANGED <<now, sendLog, ledger>>
  <2>1. CASE ReserveClaims(w)
    BY <2>1 DEF ReserveClaims, Inserting
  <2>2. CASE ReserveFails(w)
    BY <2>2 DEF ReserveFails, Inserting
  <2>3. CASE MarkResult(w)
    BY <2>3 DEF MarkResult, Updating
  <2>4. CASE MarkResultFails(w)
    BY <2>4 DEF MarkResultFails, Updating
  <2> QED
    BY <1>3, <2>1, <2>2, <2>3, <2>4 DEF Step, ReserveConflicts, LoadExisting,
       LoadExistingFails, Compose, ComposeFails, DispatchUnavailable, DispatchDev,
       DispatchSMTP, Reply
<1>4. ASSUME NEW w \in Workers, ProviderAccepts(w) \/ ProviderFails(w) \/ Cancel(w)
      PROVE  UNCHANGED <<now, sendLog, ledger>>
  BY <1>4 DEF ProviderAccepts, ProviderFails, Cancel
<1>5. ASSUME NEW r \in Replicas, Crash(r) PROVE UNCHANGED <<now, sendLog, ledger>>
  BY <1>5 DEF Crash
<1> QED
  BY <1>1, <1>2, <1>3, <1>4, <1>5 DEF Next

(* Answering for a row starts with claiming it; nobody changes rows or     *)
(* jobs on the way.                                                        *)
LEMMA OwnsFrame ==
    ASSUME TypeOK, Next, NEW v \in Workers, Owns(v)'
    PROVE  \/ ReserveClaims(v)
           \/ Owns(v) /\ rowId'[v] = rowId[v] /\ job'[v] = job[v]
<1> USE DEF history, TypeOK
<1>1. ASSUME NEW w \in Handlers, NEW r \in Requests, HTTPSend(w, r)
      PROVE  Owns(v) /\ rowId'[v] = rowId[v] /\ job'[v] = job[v]
  BY <1>1 DEF HTTPSend, EnterSend, Return, Owns, Workers
<1>2. ASSUME NEW w \in Consumers, NEW e \in Events, Deliver(w, e)
      PROVE  Owns(v) /\ rowId'[v] = rowId[v] /\ job'[v] = job[v]
  BY <1>2 DEF Deliver, EnterSend, Return, Owns, Workers
<1>3. ASSUME NEW w \in Workers, Step(w)
      PROVE  \/ ReserveClaims(v)
             \/ Owns(v) /\ rowId'[v] = rowId[v] /\ job'[v] = job[v]
  <2>1. CASE ReserveClaims(w)
    BY <2>1 DEF ReserveClaims, Owns
  <2>2. CASE ReserveConflicts(w) \/ ReserveFails(w)
    BY <2>2 DEF ReserveConflicts, ReserveFails, Return, Owns
  <2>3. CASE LoadExisting(w) \/ LoadExistingFails(w)
    BY <2>3 DEF LoadExisting, LoadExistingFails, Return, Owns
  <2>4. CASE Compose(w) \/ ComposeFails(w)
    BY <2>4 DEF Compose, ComposeFails, Owns
  <2>5. CASE DispatchUnavailable(w) \/ DispatchDev(w) \/ DispatchSMTP(w)
    BY <2>5 DEF DispatchUnavailable, DispatchDev, DispatchSMTP, Owns
  <2>6. CASE MarkResult(w) \/ MarkResultFails(w)
    BY <2>6 DEF MarkResult, MarkResultFails, ReturnOutcome, Return, Owns
  <2>7. CASE Reply(w)
    BY <2>7 DEF Reply, Owns
  <2> QED
    BY <1>3, <2>1, <2>2, <2>3, <2>4, <2>5, <2>6, <2>7 DEF Step
<1>4. ASSUME NEW w \in Workers, ProviderAccepts(w) \/ ProviderFails(w) \/ Cancel(w)
      PROVE  Owns(v) /\ rowId'[v] = rowId[v] /\ job'[v] = job[v]
  BY <1>4 DEF ProviderAccepts, ProviderFails, Cancel, Owns
<1>5. ASSUME NEW r \in Replicas, Crash(r)
      PROVE  Owns(v) /\ rowId'[v] = rowId[v] /\ job'[v] = job[v]
  BY <1>5 DEF Crash, Owns
<1>6. ASSUME Purge \/ Tick
      PROVE  Owns(v) /\ rowId'[v] = rowId[v] /\ job'[v] = job[v]
  BY <1>6 DEF Purge, Tick, Owns
<1> QED
  BY <1>1, <1>2, <1>3, <1>4, <1>5, <1>6 DEF Next

(* A worker stops answering for its row by recording the outcome, or a     *)
(* fault is on record.                                                     *)
LEMMA LossFrame ==
    ASSUME TypeOK, Next, NEW v \in Workers, Owns(v), ~Owns(v)'
    PROVE  Updating(v) \/ rowId[v] \in faulted'
<1> USE DEF history, TypeOK
<1>1. ASSUME NEW w \in Handlers, NEW r \in Requests, HTTPSend(w, r) PROVE FALSE
  BY <1>1 DEF HTTPSend, EnterSend, Return, Owns, Workers
<1>2. ASSUME NEW w \in Consumers, NEW e \in Events, Deliver(w, e) PROVE FALSE
  BY <1>2 DEF Deliver, EnterSend, Return, Owns, Workers
<1>3. ASSUME NEW w \in Workers, Step(w) PROVE Updating(v) \/ rowId[v] \in faulted'
  <2>1. CASE ReserveClaims(w) \/ ReserveConflicts(w) \/ ReserveFails(w)
    BY <2>1 DEF ReserveClaims, ReserveConflicts, ReserveFails, Return, Owns
  <2>2. CASE LoadExisting(w) \/ LoadExistingFails(w)
    BY <2>2 DEF LoadExisting, LoadExistingFails, Return, Owns
  <2>3. CASE Compose(w) \/ ComposeFails(w)
    BY <2>3 DEF Compose, ComposeFails, Owns
  <2>4. CASE DispatchUnavailable(w) \/ DispatchDev(w) \/ DispatchSMTP(w)
    BY <2>4 DEF DispatchUnavailable, DispatchDev, DispatchSMTP, Owns
  <2>5. CASE MarkResult(w) \/ MarkResultFails(w)
    <3>1. v = w
      BY <2>5 DEF MarkResult, MarkResultFails, ReturnOutcome, Return, Owns
    <3> QED
      BY <2>5, <3>1 DEF MarkResult, MarkResultFails, Updating
  <2>6. CASE Reply(w)
    BY <2>6 DEF Reply, Owns
  <2> QED
    BY <1>3, <2>1, <2>2, <2>3, <2>4, <2>5, <2>6 DEF Step
<1>4. ASSUME NEW w \in Workers, ProviderAccepts(w) \/ ProviderFails(w) \/ Cancel(w)
      PROVE  FALSE
  BY <1>4 DEF ProviderAccepts, ProviderFails, Cancel, Owns
<1>5. ASSUME NEW r \in Replicas, Crash(r) PROVE rowId[v] \in faulted'
  BY <1>5 DEF Crash, Owns
<1>6. ASSUME Purge \/ Tick PROVE FALSE
  BY <1>6 DEF Purge, Tick, Owns
<1> QED
  BY <1>1, <1>2, <1>3, <1>4, <1>5, <1>6 DEF Next

(* What was taken stays taken, what was lost stays lost. *)
LEMMA HistoryFrame ==
    ASSUME Next
    PROVE  accepted \subseteq accepted' /\ faulted \subseteq faulted'
<1> USE DEF history
<1>1. ASSUME NEW w \in Workers, Step(w)
      PROVE  accepted \subseteq accepted' /\ faulted \subseteq faulted'
  BY <1>1 DEF Step, ReserveClaims, ReserveConflicts, ReserveFails, LoadExisting,
     LoadExistingFails, Compose, ComposeFails, DispatchUnavailable, DispatchDev,
     DispatchSMTP, MarkResult, MarkResultFails, Reply
<1> QED
  BY <1>1 DEF Next, HTTPSend, Deliver, ProviderAccepts, ProviderFails, Cancel, Crash,
     Purge, Tick


-----------------------------------------------------------------------------
(* The invariant is preserved, part by part. *)

(* An insertion, spelled out: the new row and the new entry, all else as   *)
(* it was.                                                                 *)
Inserted(w) ==
    /\ Len(ledger) \in Nat
    /\ Len(ledger') = Len(ledger) + 1
    /\ \A i \in 1..Len(ledger) : ledger'[i] = ledger[i] /\ ledger[i] \in Claim
    /\ ledger'[Len(ledger) + 1] = [key |-> KeyOf(w), src |-> job[w].src, at |-> now]
    /\ KeyOf(w) \in IdemKeys
    /\ job[w] \in Jobs
    /\ sendLog'[KeyOf(w)] = [id |-> Len(ledger) + 1, status |-> "PENDING",
                             attempts |-> 0, createdAt |-> now]
    /\ sendLog'[KeyOf(w)] # NoRow
    /\ \A k \in IdemKeys : k # KeyOf(w) => sendLog'[k] = sendLog[k]

LEMMA InsertFacts ==
    ASSUME TypeOK, KeyTyped, NEW w \in Workers, pc[w] = "reserve", Insert(w)
    PROVE  Inserted(w)
<1> DEFINE row == [id |-> Len(ledger) + 1, status |-> "PENDING", attempts |-> 0,
                   createdAt |-> now]
           claim == [key |-> KeyOf(w), src |-> job[w].src, at |-> now]
<1>1. job[w] \in Jobs /\ KeyOf(w) \in IdemKeys
  BY DEF TypeOK, KeyTyped
<1>2. claim \in Claim
  BY <1>1 DEF TypeOK, Claim, Jobs
<1>3. row \in Row
  BY DEF TypeOK, Row
<1>4. row # NoRow
  BY <1>3, CommsSendAssumption
<1>5. sendLog' = [sendLog EXCEPT ![KeyOf(w)] = row] /\ ledger' = Append(ledger, claim)
  BY DEF Insert
<1> HIDE DEF row, claim
<1>6. /\ Len(ledger) \in Nat
      /\ Len(ledger') = Len(ledger) + 1
      /\ \A i \in 1..Len(ledger) : ledger'[i] = ledger[i] /\ ledger[i] \in Claim
      /\ ledger'[Len(ledger) + 1] = claim
  BY <1>2, <1>5, AppendClaim DEF TypeOK
<1>7. /\ sendLog'[KeyOf(w)] = row
      /\ \A k \in IdemKeys : k # KeyOf(w) => sendLog'[k] = sendLog[k]
  BY <1>1, <1>5 DEF TypeOK
<1> QED
  BY <1>1, <1>4, <1>6, <1>7 DEF row, claim, Inserted

(* An update, spelled out: only the worker's own row changes. *)
LEMMA UpdateFacts ==
    ASSUME TypeOK, NEW w \in Workers, UpdateRow(w), NEW k \in IdemKeys
    PROVE  /\ sendLog[k] = NoRow => sendLog'[k] = NoRow
           /\ sendLog[k] # NoRow =>
                 /\ sendLog'[k].id = sendLog[k].id
                 /\ sendLog'[k].createdAt = sendLog[k].createdAt
                 /\ sendLog[k].id # rowId[w] => sendLog'[k] = sendLog[k]
                 /\ sendLog[k].id = rowId[w] => sendLog'[k].status = FinalStatus(w)
  BY DEF UpdateRow, Marked, TypeOK

LEMMA TypeInvariance ==
    ASSUME IInv, Next
    PROVE  TypeOK'
  BY TypeStep DEF IInv

LEMMA KeyStep ==
    ASSUME IInv, Next
    PROVE  KeyTyped'
<1> USE DEF history, TypeOK, KeyTyped, KeyOf, IInv
<1>1. ASSUME NEW w \in Handlers, NEW r \in Requests, HTTPSend(w, r) PROVE KeyTyped'
  <2>1. w \in Workers /\ r \in SendRequest
    BY CommsSendAssumption DEF Workers
  <2>2. validateRequest(r) => r.key \in IdemKeys
    BY <2>1 DEF validateRequest, SendRequest
  <2> QED
    BY <1>1, <2>1, <2>2 DEF HTTPSend, EnterSend, Return
<1>2. ASSUME NEW w \in Consumers, NEW e \in Events, Deliver(w, e) PROVE KeyTyped'
  BY <1>2, EventRequest DEF Deliver, EnterSend, Return, Workers
<1>3. ASSUME NEW w \in Workers, Step(w) PROVE KeyTyped'
  <2>1. CASE ReserveClaims(w) \/ ReserveConflicts(w) \/ ReserveFails(w)
    BY <2>1 DEF ReserveClaims, ReserveConflicts, ReserveFails, Return
  <2>2. CASE LoadExisting(w) \/ LoadExistingFails(w)
    BY <2>2 DEF LoadExisting, LoadExistingFails, Return
  <2>3. CASE Compose(w) \/ ComposeFails(w)
    BY <2>3 DEF Compose, ComposeFails
  <2>4. CASE DispatchUnavailable(w) \/ DispatchDev(w) \/ DispatchSMTP(w)
    BY <2>4 DEF DispatchUnavailable, DispatchDev, DispatchSMTP
  <2>5. CASE MarkResult(w) \/ MarkResultFails(w)
    BY <2>5 DEF MarkResult, MarkResultFails, ReturnOutcome, Return
  <2>6. CASE Reply(w)
    BY <2>6 DEF Reply
  <2> QED
    BY <1>3, <2>1, <2>2, <2>3, <2>4, <2>5, <2>6 DEF Step
<1>4. ASSUME NEW w \in Workers, ProviderAccepts(w) \/ ProviderFails(w) \/ Cancel(w)
      PROVE  KeyTyped'
  BY <1>4 DEF ProviderAccepts, ProviderFails, Cancel
<1>5. ASSUME NEW r \in Replicas, Crash(r) PROVE KeyTyped'
  BY <1>5 DEF Crash
<1>6. ASSUME Purge \/ Tick PROVE KeyTyped'
  BY <1>6 DEF Purge, Tick
<1> QED
  BY <1>1, <1>2, <1>3, <1>4, <1>5, <1>6 DEF Next

(* The ledger keeps its entries. *)
LEMMA LedgerGrows ==
    ASSUME IInv, Next
    PROVE  /\ Len(ledger) \in Nat
           /\ Len(ledger') \in Nat
           /\ Len(ledger') >= Len(ledger)
           /\ \A i \in 1..Len(ledger) : ledger'[i] = ledger[i] /\ ledger[i] \in Claim
<1>1. ASSUME NEW w \in Workers, Inserting(w)
      PROVE  /\ Len(ledger) \in Nat
             /\ Len(ledger') = Len(ledger) + 1
             /\ \A i \in 1..Len(ledger) : ledger'[i] = ledger[i] /\ ledger[i] \in Claim
  BY <1>1, InsertFacts DEF Inserting, IInv, Inserted
<1>2. ASSUME ledger' = ledger
      PROVE  /\ Len(ledger) \in Nat
             /\ \A i \in 1..Len(ledger) : ledger'[i] = ledger[i] /\ ledger[i] \in Claim
  BY <1>2 DEF IInv, TypeOK
<1> QED
  BY <1>1, <1>2, TableFrame DEF Updating, Purge, Tick, history

LEMMA RowsMatchLedgerStep ==
    ASSUME IInv, Next
    PROVE  RowsMatchLedger'
<1> USE DEF RowsMatchLedger
<1>1. ASSUME NEW w \in Workers, Inserting(w) PROVE RowsMatchLedger'
  <2> SUFFICES ASSUME NEW k \in IdemKeys, sendLog'[k] # NoRow
               PROVE  /\ sendLog'[k].id \in 1..Len(ledger')
                      /\ ledger'[sendLog'[k].id].key = k
                      /\ ledger'[sendLog'[k].id].at = sendLog'[k].createdAt
    OBVIOUS
  <2>0. Inserted(w)
    BY <1>1, InsertFacts DEF Inserting, IInv
  <2>1. CASE k = KeyOf(w)
    BY <2>0, <2>1 DEF Inserted
  <2>2. CASE k # KeyOf(w)
    BY <2>0, <2>2 DEF Inserted, IInv
  <2> QED
    BY <2>1, <2>2
<1>2. ASSUME NEW w \in Workers, Updating(w) PROVE RowsMatchLedger'
  BY <1>2, UpdateFacts DEF Updating, IInv
<1>3. CASE Purge
  BY <1>3 DEF Purge, IInv, history
<1>4. CASE Tick
  BY <1>4 DEF Tick, IInv, history
<1>5. CASE UNCHANGED <<now, sendLog, ledger>>
  BY <1>5 DEF IInv
<1> QED
  BY <1>1, <1>2, <1>3, <1>4, <1>5, TableFrame

LEMMA LedgerSpacedStep ==
    ASSUME IInv, Next
    PROVE  LedgerSpaced'
<1> USE DEF LedgerSpaced
<1>0. now \in Nat /\ Retention \in Nat
  BY CommsSendAssumption DEF IInv, TypeOK
<1>1. ASSUME NEW w \in Workers, Inserting(w) PROVE LedgerSpaced'
  <2> SUFFICES ASSUME NEW i \in 1..Len(ledger')
               PROVE  /\ \/ /\ sendLog'[ledger'[i].key] # NoRow
                            /\ sendLog'[ledger'[i].key].id = i
                         \/ now' > ledger'[i].at + Retention
                      /\ \A j \in 1..Len(ledger') :
                            (i < j /\ ledger'[i].key = ledger'[j].key)
                                => ledger'[j].at > ledger'[i].at + Retention
    OBVIOUS
  <2>0. now' = now /\ sendLog[KeyOf(w)] = NoRow
    BY <1>1 DEF Inserting
  <2>3. Inserted(w)
    BY <1>1, InsertFacts DEF Inserting, IInv
  <2>1. CASE i = Len(ledger) + 1
    BY <2>3, <2>1 DEF Inserted
  <2>2. CASE i # Len(ledger) + 1
    <3>1. i \in 1..Len(ledger) /\ ledger'[i] = ledger[i] /\ ledger[i] \in Claim
      BY <2>3, <2>2 DEF Inserted
    <3>2. ledger[i].key = KeyOf(w) => now > ledger[i].at + Retention
      BY <3>1, <2>0 DEF IInv
    <3>3. \A j \in 1..Len(ledger') :
             (i < j /\ ledger'[i].key = ledger'[j].key)
                 => ledger'[j].at > ledger'[i].at + Retention
      <4> SUFFICES ASSUME NEW j \in 1..Len(ledger'), i < j,
                          ledger'[i].key = ledger'[j].key
                   PROVE  ledger'[j].at > ledger'[i].at + Retention
        OBVIOUS
      <4>1. CASE j = Len(ledger) + 1
        BY <2>3, <3>1, <3>2, <4>1 DEF Inserted
      <4>2. CASE j # Len(ledger) + 1
        BY <2>3, <3>1, <4>2 DEF Inserted, IInv
      <4> QED
        BY <4>1, <4>2
    <3>4. \/ sendLog'[ledger[i].key] # NoRow /\ sendLog'[ledger[i].key].id = i
          \/ now > ledger[i].at + Retention
      BY <2>3, <3>1, <3>2 DEF Inserted, IInv, Claim
    <3> QED
      BY <2>0, <3>1, <3>3, <3>4
  <2> QED
    BY <2>1, <2>2
<1>2. ASSUME NEW w \in Workers, Updating(w) PROVE LedgerSpaced'
  <2>1. \A i \in 1..Len(ledger) : ledger[i].key \in IdemKeys
    BY LedgerGrows DEF Claim
  <2>2. \A k \in IdemKeys : sendLog[k] # NoRow =>
           sendLog'[k] # NoRow /\ sendLog'[k].id = sendLog[k].id
    <3> SUFFICES ASSUME NEW k \in IdemKeys, sendLog[k] # NoRow
                 PROVE  sendLog'[k] # NoRow /\ sendLog'[k].id = sendLog[k].id
      OBVIOUS
    <3>1. sendLog'[k] \in {sendLog[k], Marked(sendLog[k], FinalStatus(w))}
      BY <1>2 DEF Updating, UpdateRow
    <3>2. Marked(sendLog[k], FinalStatus(w)) \in Row
      BY DEF Marked, Row, FinalStatus, IInv, TypeOK
    <3> QED
      BY <1>2, <3>1, <3>2, UpdateFacts, CommsSendAssumption DEF Updating, IInv
  <2> QED
    BY <1>2, <2>1, <2>2 DEF Updating, IInv
<1>3. CASE Purge
  <2> SUFFICES ASSUME NEW i \in 1..Len(ledger)
               PROVE  \/ /\ sendLog'[ledger[i].key] # NoRow
                         /\ sendLog'[ledger[i].key].id = i
                      \/ now > ledger[i].at + Retention
    BY <1>3 DEF Purge, IInv, history
  <2>1. ledger[i] \in Claim
    BY LedgerGrows
  <2>2. CASE sendLog[ledger[i].key] # NoRow /\ sendLog[ledger[i].key].id = i
    <3>1. ledger[i].at = sendLog[ledger[i].key].createdAt
      BY <2>1, <2>2 DEF IInv, RowsMatchLedger, Claim
    <3> QED
      BY <1>0, <1>3, <2>1, <2>2, <3>1 DEF Purge, Expired, Claim
  <2>3. CASE now > ledger[i].at + Retention
    BY <2>3
  <2> QED
    BY <2>2, <2>3 DEF IInv
<1>4. CASE Tick
  <2>1. \A i \in 1..Len(ledger) : ledger[i].at \in Nat
    BY LedgerGrows DEF Claim
  <2> QED
    BY <1>0, <1>4, <2>1 DEF Tick, IInv, history
<1>5. CASE UNCHANGED <<now, sendLog, ledger>>
  BY <1>5 DEF IInv
<1> QED
  BY <1>1, <1>2, <1>3, <1>4, <1>5, TableFrame


LEMMA OwnershipStep ==
    ASSUME IInv, Next
    PROVE  Ownership'
<1> SUFFICES ASSUME NEW w \in Workers, Owns(w)'
             PROVE  /\ rowId'[w] \in 1..Len(ledger')
                    /\ ledger'[rowId'[w]].key = KeyOf(w)'
                    /\ \A v \in Workers : (Owns(v)' /\ rowId'[v] = rowId'[w]) => v = w
  BY DEF Ownership
<1>1. \A v \in Workers : (Owns(v)' /\ ~ReserveClaims(v)) =>
         /\ Owns(v) /\ rowId'[v] = rowId[v] /\ KeyOf(v)' = KeyOf(v)
         /\ rowId'[v] \in 1..Len(ledger)
  BY OwnsFrame DEF IInv, Ownership, KeyOf
<1>2. \A v \in Workers : ReserveClaims(v) =>
         /\ Inserted(v) /\ rowId'[v] = Len(ledger) + 1 /\ KeyOf(v)' = KeyOf(v)
         /\ \A u \in Workers \ {v} : ~ReserveClaims(u)
  <2> SUFFICES ASSUME NEW v \in Workers, ReserveClaims(v)
               PROVE  /\ Inserted(v) /\ rowId'[v] = Len(ledger) + 1
                      /\ KeyOf(v)' = KeyOf(v)
                      /\ \A u \in Workers \ {v} : ~ReserveClaims(u)
    OBVIOUS
  <2>1. Inserted(v)
    BY InsertFacts DEF ReserveClaims, IInv
  <2>2. rowId'[v] = Len(ledger) + 1 /\ KeyOf(v)' = KeyOf(v)
    BY DEF ReserveClaims, IInv, TypeOK, KeyOf
  <2>3. \A u \in Workers \ {v} : ~ReserveClaims(u)
    BY DEF ReserveClaims, IInv, TypeOK
  <2> QED
    BY <2>1, <2>2, <2>3
<1>3. CASE ReserveClaims(w)
  <2>1. \A v \in Workers \ {w} : Owns(v)' => rowId'[v] # rowId'[w]
    BY <1>1, <1>2, <1>3, LedgerGrows
  <2>2. Inserted(w) /\ rowId'[w] = Len(ledger) + 1 /\ KeyOf(w)' = KeyOf(w)
    BY <1>2, <1>3
  <2> QED
    BY <2>1, <2>2 DEF Inserted
<1>4. CASE ~ReserveClaims(w)
  <2>1. Owns(w) /\ rowId'[w] = rowId[w] /\ KeyOf(w)' = KeyOf(w)
    BY <1>1, <1>4
  <2>2. rowId[w] \in 1..Len(ledger) /\ ledger[rowId[w]].key = KeyOf(w)
    BY <2>1 DEF IInv, Ownership
  <2>3. ASSUME NEW v \in Workers, Owns(v)', rowId'[v] = rowId'[w] PROVE v = w
    <3>1. ~ReserveClaims(v)
      BY <1>2, <2>1, <2>2, <2>3, LedgerGrows
    <3>2. Owns(v) /\ rowId[v] = rowId[w]
      BY <1>1, <2>1, <2>3, <3>1
    <3> QED
      BY <2>1, <3>2 DEF IInv, Ownership
  <2> QED
    BY <2>1, <2>2, <2>3, LedgerGrows
<1> QED
  BY <1>3, <1>4

(* Two owners never share a row, and an insertion creates a row no one     *)
(* else can own.                                                           *)
LEMMA PendingHeldStep ==
    ASSUME IInv, Next
    PROVE  PendingHeld'
<1> SUFFICES ASSUME NEW k \in IdemKeys, sendLog'[k] # NoRow,
                    sendLog'[k].status = "PENDING"
             PROVE  \/ sendLog'[k].id \in faulted'
                    \/ \E w \in Workers : Owns(w)' /\ rowId'[w] = sendLog'[k].id
  BY DEF PendingHeld
<1>1. ASSUME sendLog[k] # NoRow, sendLog[k].status = "PENDING",
             sendLog'[k].id = sendLog[k].id,
             \A w \in Workers : Updating(w) => rowId[w] # sendLog[k].id
      PROVE  \/ sendLog'[k].id \in faulted'
             \/ \E w \in Workers : Owns(w)' /\ rowId'[w] = sendLog'[k].id
  <2>1. CASE sendLog[k].id \in faulted
    BY <1>1, <2>1, HistoryFrame
  <2>2. CASE \E w \in Workers : Owns(w) /\ rowId[w] = sendLog[k].id
    <3>1. PICK w \in Workers : Owns(w) /\ rowId[w] = sendLog[k].id
      BY <2>2
    <3>2. CASE Owns(w)'
      <4>1. ~ReserveClaims(w)
        BY <3>1 DEF ReserveClaims, Owns
      <4> QED
        BY <1>1, <3>1, <3>2, <4>1, OwnsFrame DEF IInv
    <3>3. CASE ~Owns(w)'
      BY <1>1, <3>1, <3>3, LossFrame DEF IInv
    <3> QED
      BY <3>2, <3>3
  <2> QED
    BY <1>1, <2>1, <2>2 DEF IInv, PendingHeld
<1>2. ASSUME NEW w \in Workers, Inserting(w)
      PROVE  \/ sendLog'[k].id \in faulted'
             \/ \E v \in Workers : Owns(v)' /\ rowId'[v] = sendLog'[k].id
  <2>0. Inserted(w)
    BY <1>2, InsertFacts DEF Inserting, IInv
  <2>1. CASE k = KeyOf(w)
    <3>1. sendLog'[k].id = Len(ledger) + 1
      BY <2>0, <2>1 DEF Inserted
    <3>2. ReserveClaims(w) => Owns(w)' /\ rowId'[w] = Len(ledger) + 1
      BY DEF ReserveClaims, Owns, IInv, TypeOK
    <3> QED
      BY <1>2, <3>1, <3>2 DEF Inserting
  <2>2. CASE k # KeyOf(w)
    <3>1. sendLog'[k] = sendLog[k]
      BY <2>0, <2>2 DEF Inserted
    <3>2. \A v \in Workers : ~Updating(v)
      BY <2>0 DEF Updating, Inserted
    <3> QED
      BY <1>1, <3>1, <3>2
  <2> QED
    BY <2>1, <2>2
<1>3. ASSUME NEW w \in Workers, Updating(w)
      PROVE  \/ sendLog'[k].id \in faulted'
             \/ \E v \in Workers : Owns(v)' /\ rowId'[v] = sendLog'[k].id
  <2>1. sendLog[k] # NoRow /\ sendLog'[k].id = sendLog[k].id
    BY <1>3, UpdateFacts DEF Updating, IInv
  <2>2. ASSUME NEW v \in Workers, Updating(v) PROVE rowId[v] # sendLog[k].id
    <3>1. FinalStatus(v) # "PENDING"
      BY DEF FinalStatus
    <3> QED
      BY <2>1, <2>2, <3>1, UpdateFacts DEF Updating, IInv
  <2>3. sendLog[k].status = "PENDING"
    BY <1>3, <2>1, <2>2, UpdateFacts DEF Updating, IInv
  <2> QED
    BY <1>1, <2>1, <2>2, <2>3
<1>4. CASE Purge \/ Tick \/ UNCHANGED <<now, sendLog, ledger>>
  <2>1. sendLog'[k] = sendLog[k]
    BY <1>4 DEF Purge, Tick, IInv, TypeOK
  <2>2. ASSUME NEW v \in Workers, Updating(v) PROVE rowId[v] # sendLog[k].id
    <3>1. FinalStatus(v) # "PENDING"
      BY DEF FinalStatus
    <3> QED
      BY <2>1, <2>2, <3>1, UpdateFacts DEF Updating, IInv
  <2> QED
    BY <1>1, <2>1, <2>2
<1> QED
  BY <1>2, <1>3, <1>4, TableFrame


(* Messages are handed over from "dispatch" only, one at a time. *)
HandingOver(u) == /\ pc[u] = "dispatch"
                  /\ outbox' = Append(outbox, rowId[u])
                  /\ pc'[u] \in {"sending", "mark"}
                  /\ ledger' = ledger

LEMMA OutboxFrame ==
    ASSUME TypeOK, Next
    PROVE  outbox' = outbox \/ \E u \in Workers : HandingOver(u)
<1> USE DEF history, TypeOK
<1>1. ASSUME NEW w \in Workers, Step(w) PROVE outbox' = outbox \/ HandingOver(w)
  BY <1>1 DEF Step, ReserveClaims, ReserveConflicts, ReserveFails, LoadExisting,
     LoadExistingFails, Compose, ComposeFails, DispatchUnavailable, DispatchDev,
     DispatchSMTP, MarkResult, MarkResultFails, Reply, HandingOver
<1> QED
  BY <1>1 DEF Next, HTTPSend, Deliver, ProviderAccepts, ProviderFails, Cancel, Crash,
     Purge, Tick

(* Where a worker about to dispatch, or about to record a success, comes from. *)
LEMMA PathFrame ==
    ASSUME TypeOK, Next, NEW v \in Workers
    PROVE  /\ pc'[v] \in {"compose", "dispatch"}
                => ReserveClaims(v) \/ pc[v] \in {"compose", "dispatch"}
           /\ (pc'[v] = "mark" /\ err'[v] = "")
                => (pc[v] = "mark" /\ err[v] = "") \/ rowId[v] \in accepted'
<1> DEFINE Path == /\ pc'[v] \in {"compose", "dispatch"}
                        => ReserveClaims(v) \/ pc[v] \in {"compose", "dispatch"}
                   /\ (pc'[v] = "mark" /\ err'[v] = "")
                        => (pc[v] = "mark" /\ err[v] = "") \/ rowId[v] \in accepted'
<1> USE DEF history, TypeOK
<1>1. ASSUME NEW w \in Handlers, NEW r \in Requests, HTTPSend(w, r)
      PROVE  Path
  BY <1>1 DEF HTTPSend, EnterSend, Return, Workers
<1>2. ASSUME NEW w \in Consumers, NEW e \in Events, Deliver(w, e)
      PROVE  Path
  BY <1>2 DEF Deliver, EnterSend, Return, Workers
<1>3. ASSUME NEW w \in Workers, Step(w)
      PROVE  Path
  <2>1. CASE ReserveClaims(w) \/ ReserveConflicts(w) \/ ReserveFails(w)
    BY <2>1 DEF ReserveClaims, ReserveConflicts, ReserveFails, Return
  <2>2. CASE LoadExisting(w) \/ LoadExistingFails(w)
    BY <2>2 DEF LoadExisting, LoadExistingFails, Return
  <2>3. CASE Compose(w) \/ ComposeFails(w)
    BY <2>3 DEF Compose, ComposeFails
  <2>4. CASE DispatchUnavailable(w) \/ DispatchDev(w) \/ DispatchSMTP(w)
    BY <2>4 DEF DispatchUnavailable, DispatchDev, DispatchSMTP
  <2>5. CASE MarkResult(w) \/ MarkResultFails(w)
    BY <2>5 DEF MarkResult, MarkResultFails, ReturnOutcome, Return
  <2>6. CASE Reply(w)
    BY <2>6 DEF Reply
  <2> QED
    BY <1>3, <2>1, <2>2, <2>3, <2>4, <2>5, <2>6 DEF Step
<1>4. ASSUME NEW w \in Workers, ProviderAccepts(w) \/ ProviderFails(w) \/ Cancel(w)
      PROVE  Path
  BY <1>4 DEF ProviderAccepts, ProviderFails, Cancel
<1>5. ASSUME NEW r \in Replicas, Crash(r)
      PROVE  Path
  BY <1>5 DEF Crash
<1>6. ASSUME Purge \/ Tick
      PROVE  Path
  BY <1>6 DEF Purge, Tick
<1> QED
  BY <1>1, <1>2, <1>3, <1>4, <1>5, <1>6 DEF Next

(* Where a worker about to INSERT for an event comes from. *)
LEMMA ReserveFrame ==
    ASSUME TypeOK, Next, NEW v \in Workers, pc'[v] = "reserve", job'[v].src # NoEvent
    PROVE  \/ pc[v] = "reserve" /\ job'[v] = job[v] /\ (now' = now \/ Tick)
           \/ /\ v \in Consumers
              /\ now' = now
              /\ \E e \in Events : Deliver(v, e) /\ DropReason(e) = ""
<1> DEFINE Path == \/ pc[v] = "reserve" /\ job'[v] = job[v] /\ (now' = now \/ Tick)
                   \/ /\ v \in Consumers
                      /\ now' = now
                      /\ \E e \in Events : Deliver(v, e) /\ DropReason(e) = ""
<1> USE DEF history, TypeOK
<1>1. ASSUME NEW w \in Handlers, NEW r \in Requests, HTTPSend(w, r)
      PROVE  Path
  BY <1>1 DEF HTTPSend, EnterSend, Return, Workers
<1>2. ASSUME NEW w \in Consumers, NEW e \in Events, Deliver(w, e)
      PROVE  Path
  BY <1>2 DEF Deliver, EnterSend, Return, Workers
<1>3. ASSUME NEW w \in Workers, Step(w)
      PROVE  Path
  <2>1. CASE ReserveClaims(w) \/ ReserveConflicts(w) \/ ReserveFails(w)
    BY <2>1 DEF ReserveClaims, ReserveConflicts, ReserveFails, Return
  <2>2. CASE LoadExisting(w) \/ LoadExistingFails(w)
    BY <2>2 DEF LoadExisting, LoadExistingFails, Return
  <2>3. CASE Compose(w) \/ ComposeFails(w)
    BY <2>3 DEF Compose, ComposeFails
  <2>4. CASE DispatchUnavailable(w) \/ DispatchDev(w) \/ DispatchSMTP(w)
    BY <2>4 DEF DispatchUnavailable, DispatchDev, DispatchSMTP
  <2>5. CASE MarkResult(w) \/ MarkResultFails(w)
    BY <2>5 DEF MarkResult, MarkResultFails, ReturnOutcome, Return
  <2>6. CASE Reply(w)
    BY <2>6 DEF Reply
  <2> QED
    BY <1>3, <2>1, <2>2, <2>3, <2>4, <2>5, <2>6 DEF Step
<1>4. ASSUME NEW w \in Workers, ProviderAccepts(w) \/ ProviderFails(w) \/ Cancel(w)
      PROVE  Path
  BY <1>4 DEF ProviderAccepts, ProviderFails, Cancel
<1>5. ASSUME NEW r \in Replicas, Crash(r)
      PROVE  Path
  BY <1>5 DEF Crash
<1>6. ASSUME Purge \/ Tick
      PROVE  Path
  BY <1>6 DEF Purge, Tick
<1> QED
  BY <1>1, <1>2, <1>3, <1>4, <1>5, <1>6 DEF Next

(* A result without a status does not say SENT. *)
LEMMA NotSent ==
    ASSUME TypeOK, NEW w \in Workers, NEW c, NEW i, NEW d,
           Return(w, Result(c, i, "", d)),
           NEW v \in Workers, pc'[v] = "reply", res'[v].status = "SENT"
    PROVE  v # w /\ pc[v] = "reply" /\ res'[v] = res[v]
<1>1. Result(c, i, "", d).status = ""
  BY DEF Result
<1> QED
  BY <1>1 DEF Return, TypeOK

(* Where a worker that answers SENT comes from. *)
LEMMA ReplyFrame ==
    ASSUME TypeOK, Next, NEW v \in Workers, pc'[v] = "reply", res'[v].status = "SENT"
    PROVE  \/ pc[v] = "reply" /\ res'[v] = res[v] /\ job'[v] = job[v]
           \/ LoadExisting(v)
           \/ MarkResult(v) \/ MarkResultFails(v)
<1> DEFINE Path == \/ pc[v] = "reply" /\ res'[v] = res[v] /\ job'[v] = job[v]
                   \/ LoadExisting(v)
                   \/ MarkResult(v) \/ MarkResultFails(v)
<1> USE DEF history, TypeOK
<1>1. ASSUME NEW w \in Handlers, NEW r \in Requests, HTTPSend(w, r)
      PROVE  Path
  <2>1. w \in Workers
    BY DEF Workers
  <2>2. CASE validateRequest(r)
    BY <1>1, <2>1, <2>2 DEF HTTPSend, EnterSend
  <2>3. CASE ~validateRequest(r)
    <3>1. Return(w, Result(writeSendError("validation"), 0, "", FALSE))
      BY <1>1, <2>3 DEF HTTPSend, EnterSend
    <3> QED
      BY <1>1, <2>1, <3>1, NotSent DEF HTTPSend
  <2> QED
    BY <2>2, <2>3
<1>2. ASSUME NEW w \in Consumers, NEW e \in Events, Deliver(w, e)
      PROVE  Path
  <2>1. w \in Workers
    BY DEF Workers
  <2>2. CASE DropReason(e) = "" /\ validateRequest(ToSendRequest(e))
    BY <1>2, <2>1, <2>2 DEF Deliver, EnterSend
  <2>3. CASE ~(DropReason(e) = "" /\ validateRequest(ToSendRequest(e)))
    <3>1. \E c : Return(w, Result(c, 0, "", FALSE))
      BY <1>2, <2>3 DEF Deliver, EnterSend
    <3> QED
      BY <1>2, <2>1, <3>1, NotSent DEF Deliver
  <2> QED
    BY <2>2, <2>3
<1>3. ASSUME NEW w \in Workers, Step(w)
      PROVE  Path
  <2>1. CASE ReserveClaims(w) \/ ReserveConflicts(w) \/ ReserveFails(w)
    <3>1. ReserveFails(w) => Return(w, Result(writeSendError("db"), 0, "", FALSE))
      BY DEF ReserveFails
    <3> QED
      BY <2>1, <3>1, NotSent DEF ReserveClaims, ReserveConflicts, ReserveFails
  <2>2. CASE LoadExisting(w) \/ LoadExistingFails(w)
    <3>1. CASE v = w
      <4>1. LoadExistingFails(w) => Return(w, Result(writeSendError("db"), 0, "", FALSE))
        BY DEF LoadExistingFails
      <4> QED
        BY <2>2, <3>1, <4>1, NotSent
    <3>2. CASE v # w
      BY <2>2, <3>2 DEF LoadExisting, LoadExistingFails, Return
    <3> QED
      BY <3>1, <3>2
  <2>3. CASE Compose(w) \/ ComposeFails(w)
    BY <2>3 DEF Compose, ComposeFails
  <2>4. CASE DispatchUnavailable(w) \/ DispatchDev(w) \/ DispatchSMTP(w)
    BY <2>4 DEF DispatchUnavailable, DispatchDev, DispatchSMTP
  <2>5. CASE MarkResult(w) \/ MarkResultFails(w)
    BY <2>5 DEF MarkResult, MarkResultFails, ReturnOutcome, Return
  <2>6. CASE Reply(w)
    BY <2>6 DEF Reply
  <2> QED
    BY <1>3, <2>1, <2>2, <2>3, <2>4, <2>5, <2>6 DEF Step
<1>4. ASSUME NEW w \in Workers, ProviderAccepts(w) \/ ProviderFails(w) \/ Cancel(w)
      PROVE  Path
  BY <1>4 DEF ProviderAccepts, ProviderFails, Cancel
<1>5. ASSUME NEW r \in Replicas, Crash(r)
      PROVE  Path
  BY <1>5 DEF Crash
<1>6. ASSUME Purge \/ Tick
      PROVE  Path
  BY <1>6 DEF Purge, Tick
<1> QED
  BY <1>1, <1>2, <1>3, <1>4, <1>5, <1>6 DEF Next


LEMMA OutboxOnceStep ==
    ASSUME IInv, Next
    PROVE  OutboxOnce'
<1>0. OutboxOnce /\ outbox \in Seq(Nat)
  BY DEF IInv, TypeOK
<1>1. CASE outbox' = outbox
  BY <1>0, <1>1, LedgerGrows DEF OutboxOnce
<1>2. ASSUME NEW u \in Workers, HandingOver(u) PROVE OutboxOnce'
  <2>1. /\ outbox' = Append(outbox, rowId[u])
        /\ rowId[u] \in Nat
        /\ rowId[u] \in 1..Len(ledger)
        /\ \A n \in 1..Len(outbox) : outbox[n] # rowId[u]
    BY <1>2 DEF HandingOver, IInv, TypeOK, Ownership, OwnedRow, Owns
  <2>2. /\ Len(outbox) \in Nat
        /\ Len(outbox') = Len(outbox) + 1
        /\ \A n \in 1..Len(outbox) : outbox'[n] = outbox[n]
        /\ outbox'[Len(outbox) + 1] = rowId[u]
    BY <1>0, <2>1, AppendClaim
  <2>3. ledger' = ledger
    BY <1>2 DEF HandingOver
  <2> QED
    BY <1>0, <2>1, <2>2, <2>3 DEF OutboxOnce
<1> QED
  BY <1>1, <1>2, OutboxFrame DEF IInv

LEMMA OwnedRowStep ==
    ASSUME IInv, Next
    PROVE  OwnedRow'
<1> SUFFICES ASSUME NEW w \in Workers, Owns(w)'
             PROVE  /\ \A k \in IdemKeys :
                          (sendLog'[k] # NoRow /\ sendLog'[k].id = rowId'[w])
                              => sendLog'[k].status = "PENDING"
                    /\ pc'[w] \in {"compose", "dispatch"}
                          => \A n \in 1..Len(outbox') : outbox'[n] # rowId'[w]
                    /\ (pc'[w] = "mark" /\ err'[w] = "") => rowId'[w] \in accepted'
  BY DEF OwnedRow
<1>1. CASE ReserveClaims(w)
  <2>1. Inserted(w) /\ rowId'[w] = Len(ledger) + 1 /\ outbox' = outbox
        /\ pc'[w] = "compose"
    BY <1>1, InsertFacts DEF ReserveClaims, IInv, TypeOK
  <2>2. \A k \in IdemKeys : (k # KeyOf(w) /\ sendLog'[k] # NoRow)
                               => sendLog'[k].id # rowId'[w]
    BY <2>1 DEF Inserted, IInv, RowsMatchLedger
  <2>3. sendLog'[KeyOf(w)].status = "PENDING"
    BY <2>1 DEF Inserted
  <2>4. \A n \in 1..Len(outbox) : outbox[n] # rowId'[w]
    BY <2>1 DEF IInv, OutboxOnce, Inserted
  <2> QED
    BY <2>1, <2>2, <2>3, <2>4
<1>2. CASE ~ReserveClaims(w)
  <2>1. Owns(w) /\ rowId'[w] = rowId[w]
    BY <1>2, OwnsFrame DEF IInv
  <2>2. /\ rowId[w] \in 1..Len(ledger)
        /\ \A k \in IdemKeys : (sendLog[k] # NoRow /\ sendLog[k].id = rowId[w])
                                  => sendLog[k].status = "PENDING"
    BY <2>1 DEF IInv, Ownership, OwnedRow
  <2>3. ASSUME NEW k \in IdemKeys, sendLog'[k] # NoRow, sendLog'[k].id = rowId'[w]
        PROVE  sendLog'[k].status = "PENDING"
    <3>1. ASSUME NEW u \in Workers, Inserting(u) PROVE sendLog'[k].status = "PENDING"
      <4>1. Inserted(u)
        BY <3>1, InsertFacts DEF Inserting, IInv
      <4>2. CASE k = KeyOf(u)
        BY <4>1, <4>2 DEF Inserted
      <4>3. CASE k # KeyOf(u)
        BY <2>1, <2>2, <2>3, <4>1, <4>3 DEF Inserted
      <4> QED
        BY <4>2, <4>3
    <3>2. ASSUME NEW u \in Workers, Updating(u) PROVE sendLog'[k].status = "PENDING"
      <4>1. sendLog[k] # NoRow /\ sendLog'[k].id = sendLog[k].id
        BY <2>3, <3>2, UpdateFacts DEF Updating, IInv
      <4>2. u # w
        BY <3>2 DEF Updating, ReturnOutcome, Return, Owns, IInv, TypeOK
      <4>3. rowId[u] # rowId[w]
        BY <2>1, <3>2, <4>2 DEF Updating, Owns, IInv, Ownership
      <4>4. sendLog'[k] = sendLog[k]
        BY <2>1, <2>3, <3>2, <4>1, <4>3, UpdateFacts DEF Updating, IInv
      <4> QED
        BY <2>1, <2>2, <2>3, <4>1, <4>4
    <3>3. CASE Purge \/ Tick \/ UNCHANGED <<now, sendLog, ledger>>
      <4>1. sendLog'[k] = sendLog[k]
        BY <2>3, <3>3 DEF Purge, Tick, IInv, TypeOK
      <4> QED
        BY <2>1, <2>2, <2>3, <4>1
    <3> QED
      BY <3>1, <3>2, <3>3, TableFrame
  <2>4. ASSUME pc'[w] \in {"compose", "dispatch"}, NEW n \in 1..Len(outbox')
        PROVE  outbox'[n] # rowId'[w]
    <3>1. pc[w] \in {"compose", "dispatch"}
      BY <1>2, <2>4, PathFrame DEF IInv
    <3>2. \A m \in 1..Len(outbox) : outbox[m] # rowId[w]
      BY <2>1, <3>1 DEF IInv, OwnedRow
    <3>3. CASE outbox' = outbox
      BY <2>1, <3>2, <3>3, <2>4
    <3>4. ASSUME NEW u \in Workers, HandingOver(u) PROVE outbox'[n] # rowId'[w]
      <4>1. u # w
        BY <2>4, <3>4 DEF HandingOver
      <4>2. rowId[u] # rowId[w]
        BY <2>1, <3>4, <4>1 DEF HandingOver, Owns, IInv, Ownership
      <4>3. outbox \in Seq(Nat) /\ rowId[u] \in Nat /\ outbox' = Append(outbox, rowId[u])
        BY <3>4 DEF HandingOver, IInv, TypeOK
      <4>4. /\ Len(outbox) \in Nat
            /\ Len(outbox') = Len(outbox) + 1
            /\ \A m \in 1..Len(outbox) : outbox'[m] = outbox[m]
            /\ outbox'[Len(outbox) + 1] = rowId[u]
        BY <4>3, AppendClaim
      <4> QED
        BY <2>1, <3>2, <4>2, <4>4
    <3> QED
      BY <3>3, <3>4, OutboxFrame DEF IInv
  <2>5. ASSUME pc'[w] = "mark", err'[w] = "" PROVE rowId'[w] \in accepted'
    BY <2>1, <2>5, PathFrame, HistoryFrame DEF IInv, OwnedRow
  <2> QED
    BY <2>3, <2>4, <2>5
<1> QED
  BY <1>1, <1>2

LEMMA SentMeansAcceptedStep ==
    ASSUME IInv, Next
    PROVE  SentMeansAccepted'
<1> SUFFICES ASSUME NEW k \in IdemKeys, sendLog'[k] # NoRow, sendLog'[k].status = "SENT"
             PROVE  sendLog'[k].id \in accepted'
  BY DEF SentMeansAccepted
<1>1. ASSUME sendLog'[k] = sendLog[k] PROVE sendLog'[k].id \in accepted'
  BY <1>1, HistoryFrame DEF IInv, SentMeansAccepted
<1>2. ASSUME NEW w \in Workers, Inserting(w) PROVE sendLog'[k].id \in accepted'
  <2>1. Inserted(w)
    BY <1>2, InsertFacts DEF Inserting, IInv
  <2> QED
    BY <1>1, <2>1 DEF Inserted
<1>3. ASSUME NEW w \in Workers, Updating(w) PROVE sendLog'[k].id \in accepted'
  <2>1. sendLog[k] # NoRow /\ sendLog'[k].id = sendLog[k].id
    BY <1>3, UpdateFacts DEF Updating, IInv
  <2>2. CASE sendLog[k].id # rowId[w]
    BY <1>1, <1>3, <2>1, <2>2, UpdateFacts DEF Updating, IInv
  <2>3. CASE sendLog[k].id = rowId[w]
    <3>1. FinalStatus(w) = "SENT"
      BY <1>3, <2>1, <2>3, UpdateFacts DEF Updating, IInv
    <3>2. err[w] = ""
      BY <3>1 DEF FinalStatus
    <3>3. rowId[w] \in accepted
      BY <1>3, <3>2 DEF Updating, Owns, IInv, OwnedRow
    <3> QED
      BY <2>1, <2>3, <3>3, HistoryFrame
  <2> QED
    BY <2>2, <2>3
<1>4. CASE Purge \/ Tick \/ UNCHANGED <<now, sendLog, ledger>>
  BY <1>1, <1>4 DEF Purge, Tick, IInv, TypeOK
<1> QED
  BY <1>2, <1>3, <1>4, TableFrame

(* Send answers SENT for the row it claimed, and only without an error. *)
LEMMA OutcomeSent ==
    ASSUME NEW w \in Workers, NEW r, r = Outcome(w), r.status = "SENT"
    PROVE  r.id = rowId[w] /\ err[w] = ""
<1>1. CASE err[w] = ""
  <2>1. r = Result("ACCEPTED", rowId[w], FinalStatus(w), FALSE)
    BY <1>1 DEF Outcome
  <2>2. Result("ACCEPTED", rowId[w], FinalStatus(w), FALSE).id = rowId[w]
    BY DEF Result
  <2> QED
    BY <1>1, <2>1, <2>2
<1>2. CASE err[w] \in {"notIntegrated", "provider"}
  <2>1. r = Result(writeSendError(err[w]), rowId[w], FinalStatus(w), FALSE)
    BY <1>2 DEF Outcome
  <2>2. /\ Result(writeSendError(err[w]), rowId[w], FinalStatus(w), FALSE).status = FinalStatus(w)
        /\ FinalStatus(w) = "FAILED"
    BY <1>2 DEF FinalStatus, Result
  <2> QED
    BY <2>1, <2>2
<1>3. CASE err[w] \notin {"", "notIntegrated", "provider"}
  <2>1. r = Result(writeSendError(err[w]), 0, "", FALSE)
    BY <1>3 DEF Outcome
  <2>2. Result(writeSendError(err[w]), 0, "", FALSE).status = ""
    BY DEF Result
  <2> QED
    BY <2>1, <2>2
<1> QED
  BY <1>1, <1>2, <1>3

LEMMA SentReplyStep ==
    ASSUME IInv, Next
    PROVE  SentReplyIsTrue'
<1> DEFINE Good(i, k) == i \in 1..Len(ledger) /\ ledger[i].key = k /\ i \in accepted
           GoodAfter(i, k) == /\ i \in 1..Len(ledger')
                              /\ ledger'[i].key = k
                              /\ i \in accepted'
<1>1. \A i, k : Good(i, k) => GoodAfter(i, k)
  BY LedgerGrows, HistoryFrame
<1>2. \A i : i \in DOMAIN ledger <=> i \in 1..Len(ledger)
  BY DEF IInv, TypeOK
<1>3. \A i : i \in DOMAIN ledger' <=> i \in 1..Len(ledger')
  BY TypeInvariance DEF TypeOK
<1> SUFFICES ASSUME NEW w \in Workers, pc'[w] = "reply", res'[w].status = "SENT"
             PROVE  GoodAfter(res'[w].id, KeyOf(w)')
  BY <1>3 DEF SentReplyIsTrue
<1> HIDE DEF Good, GoodAfter
<1>4. CASE pc[w] = "reply" /\ res'[w] = res[w] /\ job'[w] = job[w]
  <2>1. Good(res[w].id, KeyOf(w))
    BY <1>2, <1>4 DEF Good, IInv, SentReplyIsTrue
  <2> QED
    BY <1>1, <1>4, <2>1 DEF KeyOf
<1>5. CASE LoadExisting(w)
  <2> DEFINE row == sendLog[KeyOf(w)]
  <2>1. KeyOf(w) \in IdemKeys /\ KeyOf(w)' = KeyOf(w)
    BY <1>5 DEF LoadExisting, IInv, KeyTyped, KeyOf
  <2>2. res'[w] = IF row = NoRow THEN Result(writeSendError("rowNotFound"), 0, "", FALSE)
                                 ELSE Result("ACCEPTED", row.id, row.status, TRUE)
    BY <1>5 DEF LoadExisting, Return, IInv, TypeOK
  <2> HIDE DEF row
  <2>3. row # NoRow
    <3> SUFFICES ASSUME row = NoRow PROVE FALSE
      OBVIOUS
    <3>1. res'[w] = Result(writeSendError("rowNotFound"), 0, "", FALSE)
      BY <2>2
    <3>2. Result(writeSendError("rowNotFound"), 0, "", FALSE).status = ""
      BY DEF Result
    <3> QED
      BY <3>1, <3>2
  <2>4. res'[w].id = row.id /\ row.status = "SENT"
    <3>1. res'[w] = Result("ACCEPTED", row.id, row.status, TRUE)
      BY <2>2, <2>3
    <3>2. /\ Result("ACCEPTED", row.id, row.status, TRUE).status = row.status
          /\ Result("ACCEPTED", row.id, row.status, TRUE).id = row.id
      BY DEF Result
    <3> QED
      BY <3>1, <3>2
  <2>5. Good(row.id, KeyOf(w))
    BY <2>1, <2>3, <2>4 DEF row, Good, IInv, RowsMatchLedger, SentMeansAccepted
  <2> QED
    BY <1>1, <2>1, <2>4, <2>5
<1>6. CASE MarkResult(w) \/ MarkResultFails(w)
  <2>1. pc[w] = "mark" /\ ReturnOutcome(w) /\ KeyOf(w)' = KeyOf(w)
    BY <1>6 DEF MarkResult, MarkResultFails, KeyOf
  <2>2. res'[w] = Outcome(w)
    BY <2>1 DEF ReturnOutcome, Return, IInv, TypeOK
  <2>3. res'[w].id = rowId[w] /\ err[w] = ""
    BY <2>2, OutcomeSent
  <2>5. Good(rowId[w], KeyOf(w))
    BY <2>1, <2>3 DEF Good, Owns, IInv, Ownership, OwnedRow
  <2> QED
    BY <1>1, <2>1, <2>3, <2>5
<1> QED
  BY <1>4, <1>5, <1>6, ReplyFrame DEF IInv


(* The arithmetic of the claim window. *)
LEMMA WindowOfClaim ==
    ASSUME NEW o \in Int, NEW s \in Nat, NEW t \in Nat, NEW age \in Nat, NEW skew \in Nat,
           NEW stall \in Nat, s - o <= age, o - s <= skew, s <= t, t <= s + stall
    PROVE  t >= o - skew /\ t <= o + age + stall
  OBVIOUS

LEMMA EventFacts ==
    ASSUME IInv
    PROVE  /\ MaxEventAge \in Nat /\ EventClockSkew \in Nat /\ MaxStall \in Nat
           /\ now \in Nat
           /\ \A e \in Events : e.occurredAt \in Int
  BY CommsSendAssumption, ContractAssumption DEF IInv, TypeOK

(* A verified event waits at most MaxStall for its INSERT. *)
Waiting(w) ==
    /\ w \in Consumers
    /\ job[w].req = ToSendRequest(job[w].src)
    /\ IsSendRequestedFresh(job[w].src, job[w].since)
    /\ job[w].since <= now
    /\ now <= job[w].since + MaxStall

Claimed(e, key, t) == key = ToSendRequest(e).key /\ ClaimWindow(e, t)

LEMMA EventClaimsStep ==
    ASSUME IInv, Next
    PROVE  EventClaims'
<1>1. ASSUME NEW w \in Workers, pc'[w] = "reserve", job'[w].src # NoEvent
      PROVE  Waiting(w)'
  <2>1. CASE pc[w] = "reserve" /\ job'[w] = job[w] /\ now' = now
    BY <1>1, <2>1 DEF IInv, EventClaims, Waiting
  <2>2. CASE pc[w] = "reserve" /\ job'[w] = job[w] /\ Tick
    <3>1. Waiting(w)
      BY <1>1, <2>2 DEF IInv, EventClaims, Waiting
    <3>2. job[w].since \in Nat
      BY <2>2 DEF IInv, TypeOK, Jobs
    <3>3. now' = now + 1 /\ now - job[w].since < MaxStall
      BY <2>2, <3>1 DEF Tick, Waiting
    <3>4. job[w].since <= now' /\ now' <= job[w].since + MaxStall
      <4> DEFINE s == job[w].since
      <4>1. s <= now /\ now - s < MaxStall /\ now' = now + 1 /\ s \in Nat
        BY <3>1, <3>2, <3>3 DEF Waiting
      <4> HIDE DEF s
      <4>2. s <= now' /\ now' <= s + MaxStall
        BY <4>1, EventFacts
      <4> QED
        BY <4>2 DEF s
    <3> QED
      BY <2>2, <3>1, <3>4 DEF Waiting
  <2>3. ASSUME w \in Consumers, now' = now,
               NEW e \in Events, Deliver(w, e), DropReason(e) = ""
        PROVE  Waiting(w)'
    <3>1. job'[w] = [req |-> ToSendRequest(e), src |-> e, since |-> now]
      BY <2>3 DEF Deliver, IInv, TypeOK
    <3>2. IsSendRequestedFresh(e, now)
      BY <2>3 DEF DropReason
    <3>3. /\ job'[w].req = ToSendRequest(e)
          /\ job'[w].src = e
          /\ job'[w].since = now
      BY <3>1
    <3>4. now <= now /\ now <= now + MaxStall
      BY EventFacts
    <3> QED
      BY <2>3, <3>2, <3>3, <3>4 DEF Waiting
  <2> QED
    BY <1>1, <2>1, <2>2, <2>3, ReserveFrame DEF IInv
<1>2. ASSUME NEW i \in 1..Len(ledger'), ledger'[i].src # NoEvent
      PROVE  Claimed(ledger'[i].src, ledger'[i].key, ledger'[i].at)
  <2>1. CASE i \in 1..Len(ledger)
    <3>1. ledger'[i] = ledger[i]
      BY <2>1, LedgerGrows
    <3> QED
      BY <1>2, <2>1, <3>1 DEF IInv, EventClaims, Claimed
  <2>2. ASSUME NEW w \in Workers, Inserting(w), i \notin 1..Len(ledger)
        PROVE  Claimed(ledger'[i].src, ledger'[i].key, ledger'[i].at)
    <3>1. Inserted(w) /\ pc[w] = "reserve"
      BY <2>2, InsertFacts DEF Inserting, IInv
    <3>2. i = Len(ledger) + 1
      <4>1. Len(ledger') = Len(ledger) + 1 /\ Len(ledger) \in Nat
        BY <3>1 DEF Inserted, IInv, TypeOK
      <4> QED
        BY <1>2, <2>2, <4>1
    <3>3. ledger'[i] = [key |-> KeyOf(w), src |-> job[w].src, at |-> now]
      BY <3>1, <3>2 DEF Inserted
    <3>4. ledger'[i].key = KeyOf(w) /\ ledger'[i].src = job[w].src /\ ledger'[i].at = now
      BY <3>3
    <3>5. Waiting(w)
      BY <1>2, <3>1, <3>4 DEF IInv, EventClaims, Waiting
    <3>6. job[w].since \in Nat /\ job[w].src \in Events
      BY <1>2, <3>1, <3>4 DEF IInv, TypeOK, Jobs
    <3>7. ClaimWindow(job[w].src, now)
      <4> DEFINE o == job[w].src.occurredAt
                 s == job[w].since
      <4>1. o \in Int /\ s \in Nat
        BY <3>6, EventFacts
      <4>2. s - o <= MaxEventAge /\ o - s <= EventClockSkew
        <5>1. s - o <= MaxEventAge /\ s - o >= -EventClockSkew
          BY <3>5 DEF Waiting, IsSendRequestedFresh
        <5> HIDE DEF o, s
        <5> QED
          BY <4>1, <5>1, EventFacts
      <4>3. s <= now /\ now <= s + MaxStall
        BY <3>5 DEF Waiting
      <4>4. ClaimWindow(job[w].src, now) <=> now >= o - EventClockSkew
                                              /\ now <= o + MaxEventAge + MaxStall
        BY DEF ClaimWindow
      <4> HIDE DEF o, s
      <4>5. now >= o - EventClockSkew /\ now <= o + MaxEventAge + MaxStall
        BY <4>1, <4>2, <4>3, EventFacts, WindowOfClaim
      <4> QED
        BY <4>4, <4>5
    <3>8. KeyOf(w) = ToSendRequest(job[w].src).key
      BY <3>5 DEF KeyOf, Waiting
    <3> QED
      BY <3>4, <3>7, <3>8 DEF Claimed
  <2>3. CASE ledger' = ledger
    BY <1>2, <2>1, <2>3
  <2> QED
    BY <1>2, <2>1, <2>2, <2>3, TableFrame DEF Updating, Purge, Tick, history
<1> QED
  BY <1>1, <1>2 DEF EventClaims, Waiting, Claimed

-----------------------------------------------------------------------------
LEMMA Initial == Init => IInv
<1> SUFFICES ASSUME Init PROVE IInv
  OBVIOUS
<1>1. NoResult \in Results /\ NoResult.status = ""
  BY DEF NoResult, Result, Results
<1>2. ledger = <<>> /\ outbox = <<>>
  BY DEF Init
<1>3. ledger \in Seq(Claim) /\ outbox \in Seq(Nat)
  BY <1>2, EmptySeq
<1>4. Len(ledger) = 0 /\ Len(outbox) = 0
  BY <1>2, EmptySeq
<1>5. \A i : i \notin 1..Len(ledger) /\ i \notin 1..Len(outbox)
  BY <1>4
<1>6. TypeOK
  BY <1>1, <1>3 DEF Init, TypeOK, ErrorClasses
<1>7. KeyTyped /\ Ownership /\ OwnedRow
  BY DEF Init, KeyTyped, Ownership, OwnedRow, Owns
<1>8. RowsMatchLedger /\ PendingHeld /\ SentMeansAccepted
  BY DEF Init, RowsMatchLedger, PendingHeld, SentMeansAccepted
<1>9. LedgerSpaced
  BY <1>5 DEF LedgerSpaced
<1>10. OutboxOnce
  BY <1>5 DEF OutboxOnce
<1>11. SentReplyIsTrue
  BY DEF Init, SentReplyIsTrue
<1>12. EventClaims
  <2>1. \A w \in Workers : pc[w] # "reserve"
    BY DEF Init
  <2> QED
    BY <1>5, <2>1 DEF EventClaims
<1> QED
  BY <1>6, <1>7, <1>8, <1>9, <1>10, <1>11, <1>12 DEF IInv

LEMMA Inductive == IInv /\ [Next]_vars => IInv'
<1> SUFFICES ASSUME IInv, [Next]_vars PROVE IInv'
  OBVIOUS
<1>1. CASE Next
  BY <1>1, TypeInvariance, KeyStep, OwnershipStep, OwnedRowStep, RowsMatchLedgerStep,
     LedgerSpacedStep, PendingHeldStep, OutboxOnceStep, EventClaimsStep,
     SentMeansAcceptedStep, SentReplyStep DEF IInv
<1>2. CASE UNCHANGED vars
  <2> USE <1>2 DEF vars, IInv
  <2>1. TypeOK' /\ KeyTyped'
    BY DEF TypeOK, KeyTyped, KeyOf
  <2>2. Ownership'
    BY DEF Ownership, Owns, KeyOf
  <2>3. OwnedRow'
    BY DEF OwnedRow, Owns
  <2>4. RowsMatchLedger' /\ LedgerSpaced'
    BY DEF RowsMatchLedger, LedgerSpaced
  <2>5. PendingHeld' /\ OutboxOnce' /\ SentMeansAccepted'
    BY DEF PendingHeld, Owns, OutboxOnce, SentMeansAccepted
  <2>6. EventClaims'
    BY DEF EventClaims
  <2>7. SentReplyIsTrue'
    BY DEF SentReplyIsTrue, KeyOf
  <2> QED
    BY <2>1, <2>2, <2>3, <2>4, <2>5, <2>6, <2>7
<1> QED
  BY <1>1, <1>2

(* The inductive invariant holds in every reachable state. *)
THEOREM Invariance == Spec => []IInv
  BY Initial, Inductive, PTL DEF Spec

(* Send and its stores keep the state in its types. *)
THEOREM TypeCorrect == Spec => []TypeOK
<1>1. IInv => TypeOK
  BY DEF IInv
<1> QED
  BY <1>1, Invariance, PTL

(* Reserve's claim makes the sender be called at most once per row, for    *)
(* any number of workers, replicas and faults.                             *)
THEOREM AtMostOneCall == Spec => []OneCallPerRow
<1>1. IInv => OneCallPerRow
  <2> SUFFICES ASSUME IInv PROVE OneCallPerRow
    OBVIOUS
  <2>1. DOMAIN outbox = 1..Len(outbox)
    BY DEF IInv, TypeOK
  <2> QED
    BY <2>1 DEF IInv, OutboxOnce, OneCallPerRow
<1> QED
  BY <1>1, Invariance, PTL

(* Two calls for one idempotency key are more than Retention apart. *)
THEOREM KeyIdempotent == Spec => []CallsOfAKeyAreSpaced
<1>1. IInv => CallsOfAKeyAreSpaced
  <2> SUFFICES ASSUME IInv PROVE CallsOfAKeyAreSpaced
    OBVIOUS
  <2>1. DOMAIN outbox = 1..Len(outbox)
    BY DEF IInv, TypeOK
  <2> QED
    BY <2>1 DEF IInv, OutboxOnce, LedgerSpaced, CallsOfAKeyAreSpaced
<1> QED
  BY <1>1, Invariance, PTL

(* The condition under which the freshness window closes before the purge  *)
(* can forget an event.  maxEventAge (5 min) + eventClockSkew (1 min) are  *)
(* far below the 30 days of retention; what the code leaves unbounded is   *)
(* the wait of a verified event for its INSERT.                            *)
WindowWithinRetention == MaxEventAge + EventClockSkew + MaxStall <= Retention

(* However often an event is delivered, it claims one row at most. *)
THEOREM EventOnce == ASSUME WindowWithinRetention PROVE Spec => []EventSentOnce
<1>1. IInv => EventSentOnce
  <2> SUFFICES ASSUME IInv, NEW i \in DOMAIN ledger, NEW j \in DOMAIN ledger,
                      ledger[i].src # NoEvent, ledger[i].src = ledger[j].src, i < j
               PROVE  FALSE
    <3>1. DOMAIN ledger \subseteq Nat
      BY DEF IInv, TypeOK
    <3> QED
      BY <3>1 DEF EventSentOnce
  <2>1. i \in 1..Len(ledger) /\ j \in 1..Len(ledger)
    BY DEF IInv, TypeOK
  <2>2. ledger[i].key = ledger[j].key
    BY <2>1 DEF IInv, EventClaims
  <2>3. ledger[j].at > ledger[i].at + Retention
    BY <2>1, <2>2 DEF IInv, LedgerSpaced
  <2>4. ledger[i] \in Claim /\ ledger[j] \in Claim
    BY <2>1 DEF IInv, TypeOK
  <2>5. ledger[i].src.occurredAt \in Int /\ ledger[i].at \in Nat /\ ledger[j].at \in Nat
    BY <2>4, CommsSendAssumption DEF Claim
  <2>6. ClaimWindow(ledger[i].src, ledger[i].at) /\ ClaimWindow(ledger[i].src, ledger[j].at)
    BY <2>1 DEF IInv, EventClaims
  <2> DEFINE o == ledger[i].src.occurredAt
             s == ledger[i].at
             t == ledger[j].at
  <2>7. /\ o \in Int /\ s \in Nat /\ t \in Nat
        /\ s >= o - EventClockSkew
        /\ t <= o + MaxEventAge + MaxStall
        /\ t > s + Retention
    BY <2>3, <2>5, <2>6 DEF ClaimWindow
  <2>8. Retention \in Nat /\ MaxEventAge + EventClockSkew + MaxStall <= Retention
    BY CommsSendAssumption DEF WindowWithinRetention
  <2> HIDE DEF o, s, t
  <2> QED
    BY <2>7, <2>8, EventFacts
<1> QED
  BY <1>1, Invariance, PTL

(* SENT in the table means that a sender took the message. *)
THEOREM SentIsTrue == Spec => []SentMeansAccepted
<1>1. IInv => SentMeansAccepted
  BY DEF IInv
<1> QED
  BY <1>1, Invariance, PTL

(* SENT in an answer, deduped or not, means the same of a row of the       *)
(* caller's own key.                                                       *)
THEOREM AnswerIsTrue == Spec => []SentReplyIsTrue
<1>1. IInv => SentReplyIsTrue
  BY DEF IInv
<1> QED
  BY <1>1, Invariance, PTL

(* No row is left PENDING without an owner or a fault on record. *)
THEOREM PendingAccounted == Spec => []PendingIsAccountedFor
<1>1. IInv => PendingIsAccountedFor
  <2> SUFFICES ASSUME IInv, NEW k \in IdemKeys, sendLog[k] # NoRow,
                      sendLog[k].status = "PENDING", sendLog[k].id \notin faulted
               PROVE  \E w \in Workers : /\ Owns(w)
                                         /\ rowId[w] = sendLog[k].id
                                         /\ \A v \in Workers \ {w} :
                                               Owns(v) => rowId[v] # rowId[w]
    BY DEF PendingIsAccountedFor
  <2>1. PICK w \in Workers : Owns(w) /\ rowId[w] = sendLog[k].id
    BY DEF IInv, PendingHeld
  <2>2. \A v \in Workers \ {w} : Owns(v) => rowId[v] # rowId[w]
    BY <2>1 DEF IInv, Ownership
  <2> QED
    BY <2>1, <2>2
<1> QED
  BY <1>1, Invariance, PTL

(* A recorded outcome is never overwritten. *)
THEOREM OutcomeFinal == Spec => TerminalIsFinal
<1>1. ASSUME IInv, Next, NEW k \in IdemKeys, sendLog[k] # NoRow,
             sendLog[k].status # "PENDING", sendLog'[k] # NoRow,
             sendLog'[k].id = sendLog[k].id
      PROVE  sendLog'[k] = sendLog[k]
  <2>1. ASSUME NEW w \in Workers, Inserting(w) PROVE sendLog'[k] = sendLog[k]
    <3>1. Inserted(w) /\ sendLog[KeyOf(w)] = NoRow
      BY <1>1, <2>1, InsertFacts DEF Inserting, IInv
    <3> QED
      BY <1>1, <3>1 DEF Inserted
  <2>2. ASSUME NEW w \in Workers, Updating(w) PROVE sendLog'[k] = sendLog[k]
    <3>1. sendLog[k].id # rowId[w]
      BY <1>1, <2>2 DEF Updating, Owns, IInv, OwnedRow
    <3> QED
      BY <1>1, <2>2, <3>1, UpdateFacts DEF Updating, IInv
  <2>3. CASE Purge \/ Tick \/ UNCHANGED <<now, sendLog, ledger>>
    BY <1>1, <2>3 DEF Purge, Tick, IInv, TypeOK
  <2> QED
    BY <1>1, <2>1, <2>2, <2>3, TableFrame
<1>2. IInv /\ [Next]_vars =>
        [\A k \in IdemKeys :
            (sendLog[k] # NoRow /\ sendLog[k].status # "PENDING"
               /\ sendLog'[k] # NoRow /\ sendLog'[k].id = sendLog[k].id)
                 => sendLog'[k] = sendLog[k]]_vars
  BY <1>1 DEF vars
<1> QED
  BY <1>2, Invariance, PTL DEF Spec, TerminalIsFinal
=============================================================================
