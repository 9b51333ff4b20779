------------------------- MODULE CommsSendRefinement -------------------------
(***************************************************************************)
(* Service.Send implements SendOnce, for every value of the constants.     *)
(*                                                                         *)
(* The invariant of CommsSendProof says almost all that the step           *)
(* simulation needs.  What it leaves out is that a worker in a             *)
(* conversation with the provider has put its row into the outbox.         *)
(***************************************************************************)
EXTENDS CommsSendProof

HandedOver ==
    \A w \in Workers : pc[w] = "sending" => \E n \in 1..Len(outbox) : outbox[n] = rowId[w]

(* A conversation starts by handing the row over and keeps it meanwhile. *)
LEMMA SendingFrame ==
    ASSUME TypeOK, Next, NEW v \in Workers, pc'[v] = "sending"
    PROVE  \/ DispatchSMTP(v)
           \/ pc[v] = "sending" /\ rowId'[v] = rowId[v]
<1> DEFINE Path == \/ DispatchSMTP(v)
                   \/ pc[v] = "sending" /\ rowId'[v] = rowId[v]
<1> USE DEF history, TypeOK
<1>1. ASSUME NEW w \in Handlers, NEW r \in Requests, HTTPSend(w, r) PROVE Path
  BY <1>1 DEF HTTPSend, EnterSend, Return, Workers
<1>2. ASSUME NEW w \in Consumers, NEW e \in Events, Deliver(w, e) PROVE Path
  BY <1>2 DEF Deliver, EnterSend, Return, Workers
<1>3. ASSUME NEW w \in Workers, Step(w) PROVE Path
  <2>1. CASE ReserveClaims(w) \/ ReserveConflicts(w) \/ ReserveFails(w)
    BY <2>1 DEF ReserveClaims, ReserveConflicts, ReserveFails, Return
  <2>2. CASE LoadExisting(w) \/ LoadExistingFails(w)
    BY <2>2 DEF LoadExisting, LoadExistingFails, Return
  <2>3. CASE Compose(w) \/ ComposeFails(w)
    BY <2>3 DEF Compose, ComposeFails
  <2>4. CASE DispatchUnavailable(w) \/ DispatchDev(w) \/ DispatchSMTP(w)
    BY <2>4 DEF DispatchUnavailable, DispatchDev, DispatchSMTP
  <2>5. CASE MarkResult(w) \/ MarkResultFails(w)
    BY <2>5 DEF MarkResult, MarkResultFails, ReturnOutcome, Return
  <2>6. CASE Reply(w)
    BY <2>6 DEF Reply
  <2> QED
    BY <1>3, <2>1, <2>2, <2>3, <2>4, <2>5, <2>6 DEF Step
<1>4. ASSUME NEW w \in Workers, ProviderAccepts(w) \/ ProviderFails(w) \/ Cancel(w)
      PROVE  Path
  BY <1>4 DEF ProviderAccepts, ProviderFails, Cancel
<1>5. ASSUME NEW r \in Replicas, Crash(r) PROVE Path
  BY <1>5 DEF Crash
<1>6. ASSUME Purge \/ Tick PROVE Path
  BY <1>6 DEF Purge, Tick
<1> QED
  BY <1>1, <1>2, <1>3, <1>4, <1>5, <1>6 DEF Next

LEMMA HandedOverStep ==
    ASSUME IInv, HandedOver, [Next]_vars
    PROVE  HandedOver'
<1>0. outbox \in Seq(Nat) /\ rowId \in [Workers -> Nat]
  BY DEF IInv, TypeOK
<1>1. CASE UNCHANGED vars
  BY <1>1 DEF vars, HandedOver
<1>2. CASE Next
  <2> SUFFICES ASSUME NEW v \in Workers, pc'[v] = "sending"
               PROVE  \E n \in 1..Len(outbox') : outbox'[n] = rowId'[v]
    BY DEF HandedOver
  <2>1. CASE DispatchSMTP(v)
    <3>1. outbox' = Append(outbox, rowId[v]) /\ rowId' = rowId /\ rowId[v] \in Nat
      BY <1>0, <2>1 DEF DispatchSMTP
    <3>2. /\ Len(outbox) \in Nat
          /\ Len(outbox') = Len(outbox) + 1
          /\ outbox'[Len(outbox) + 1] = rowId[v]
      BY <1>0, <3>1, AppendClaim
    <3> QED
      BY <3>1, <3>2
  <2>2. CASE pc[v] = "sending" /\ rowId'[v] = rowId[v]
    <3>1. PICK n \in 1..Len(outbox) : outbox[n] = rowId[v]
      BY <2>2 DEF HandedOver
    <3>2. CASE outbox' = outbox
      BY <2>2, <3>1, <3>2
    <3>3. ASSUME NEW u \in Workers, HandingOver(u)
          PROVE  \E m \in 1..Len(outbox') : outbox'[m] = rowId'[v]
      <4>1. outbox' = Append(outbox, rowId[u]) /\ rowId[u] \in Nat
        BY <1>0, <3>3 DEF HandingOver
      <4>2. /\ Len(outbox) \in Nat
            /\ Len(outbox') = Len(outbox) + 1
            /\ outbox'[n] = outbox[n]
        BY <1>0, <3>1, <4>1, AppendClaim
      <4> QED
        BY <2>2, <3>1, <4>2
    <3> QED
      BY <1>2, <3>2, <3>3, OutboxFrame DEF IInv
  <2> QED
    BY <1>2, <2>1, <2>2, SendingFrame DEF IInv
<1> QED
  BY <1>1, <1>2

-----------------------------------------------------------------------------
(* A step of CommsSend, seen through the mapping. *)

(* The claims are a sequence, their ids those of ledger entries. *)
AClaim == [key : IdemKeys, at : Nat]

Projected(l) == [i \in DOMAIN l |-> [key |-> l[i].key, at |-> l[i].at]]

LEMMA ClaimIds ==
    ASSUME NEW l \in Seq(Claim)
    PROVE  /\ DOMAIN Projected(l) = 1..Len(l)
           /\ \A i \in 1..Len(l) : Projected(l)[i] = [key |-> l[i].key, at |-> l[i].at]
           /\ Len(Projected(l)) = Len(l)
           /\ Len(l) \in Nat
           /\ Projected(l) \in Seq(AClaim)
<1>1. /\ DOMAIN Projected(l) = 1..Len(l)
      /\ \A i \in 1..Len(l) : Projected(l)[i] = [key |-> l[i].key, at |-> l[i].at]
      /\ Len(Projected(l)) = Len(l)
      /\ Len(l) \in Nat
  BY DEF Projected
<1>2. ASSUME NEW i \in 1..Len(l) PROVE [key |-> l[i].key, at |-> l[i].at] \in AClaim
  <2>1. l[i] \in Claim
    OBVIOUS
  <2> QED
    BY <2>1 DEF Claim, AClaim
<1>3. Projected(l) \in [1..Len(l) -> AClaim]
  BY <1>1, <1>2 DEF Projected
<1> QED
  BY <1>1, <1>3, SeqDef

(* The same of the claims of a state and of the next one. *)
LEMMA ClaimsTyped ==
    ASSUME TypeOK
    PROVE  ClaimsMade = Projected(ledger) /\ ledger \in Seq(Claim)
  BY DEF TypeOK, ClaimsMade, Projected

LEMMA ClaimsTypedNext ==
    ASSUME TypeOK'
    PROVE  ClaimsMade' = Projected(ledger') /\ ledger' \in Seq(Claim)
  BY DEF TypeOK, ClaimsMade, Projected

LEMMA InitSimulates == Init => Promise!Init
<1> SUFFICES ASSUME Init PROVE Promise!Init
  OBVIOUS
<1>1. ClaimsMade = <<>>
  <2>1. TypeOK /\ Len(ledger) = 0
    BY Initial DEF IInv, Init
  <2> QED
    BY <2>1, ClaimIds, ClaimsTyped, EmptySeq
<1>2. Holder = [k \in IdemKeys |-> 0] /\ Recorded = [k \in IdemKeys |-> ""]
  BY DEF Init, Holder, Recorded
<1> QED
  BY <1>1, <1>2 DEF Init, Promise!Init

(* What the mapping reads has not changed: a stuttering step. *)
LEMMA StutterSimulates ==
    ASSUME UNCHANGED <<now, sendLog, ledger, outbox, accepted>>
    PROVE  UNCHANGED Promise!vars
  BY DEF Promise!vars, ClaimsMade, Holder, Recorded

(* Reserve's INSERT is a Claim. *)
LEMMA InsertSimulates ==
    ASSUME IInv, IInv', NEW w \in Workers, pc[w] = "reserve", sendLog[KeyOf(w)] = NoRow,
           Insert(w), UNCHANGED <<now, outbox, accepted>>
    PROVE  Promise!Next
<1> DEFINE k == KeyOf(w)
<1>1. Inserted(w)
  BY InsertFacts DEF IInv
<1>2. k \in IdemKeys
  BY <1>1 DEF Inserted
<1>3. Holder[k] = 0
  BY <1>2 DEF Holder
<1>4. ClaimsMade' = Append(ClaimsMade, [key |-> k, at |-> now])
  <2> DEFINE c == [key |-> k, at |-> now]
  <2>1. c \in AClaim
    BY <1>2 DEF IInv, TypeOK, AClaim
  <2>2. c = [key |-> ledger'[Len(ledger) + 1].key, at |-> ledger'[Len(ledger) + 1].at]
    BY <1>1 DEF Inserted
  <2>3. /\ ClaimsMade' \in Seq(AClaim)
        /\ Len(ClaimsMade') = Len(ledger')
        /\ \A i \in 1..Len(ledger') :
              ClaimsMade'[i] = [key |-> ledger'[i].key, at |-> ledger'[i].at]
    BY ClaimsTypedNext, ClaimIds DEF IInv
  <2> HIDE DEF c
  <2>4. /\ Append(ClaimsMade, c) \in Seq(AClaim)
        /\ Len(Append(ClaimsMade, c)) = Len(ledger) + 1
        /\ \A i \in 1..Len(ledger) : Append(ClaimsMade, c)[i] = ClaimsMade[i]
        /\ Append(ClaimsMade, c)[Len(ledger) + 1] = c
    BY <2>1, AppendClaim, ClaimIds, ClaimsTyped DEF IInv
  <2>5. /\ Len(ledger') = Len(ledger) + 1
        /\ \A i \in 1..Len(ledger) : ledger'[i] = ledger[i]
    BY <1>1 DEF Inserted
  <2>6. \A i \in 1..Len(ledger) : ClaimsMade'[i] = Append(ClaimsMade, c)[i]
    BY <2>3, <2>4, <2>5, ClaimIds, ClaimsTyped DEF IInv
  <2>7. ClaimsMade'[Len(ledger) + 1] = Append(ClaimsMade, c)[Len(ledger) + 1]
    BY <2>2, <2>3, <2>4, <2>5, ClaimIds, ClaimsTyped DEF IInv
  <2>8. \A i \in 1..Len(ClaimsMade') : ClaimsMade'[i] = Append(ClaimsMade, c)[i]
    BY <2>3, <2>5, <2>6, <2>7, ClaimIds, ClaimsTyped DEF IInv
  <2> QED
    BY <2>3, <2>4, <2>5, <2>8, SeqEqual DEF c
<1>5. Holder' = [Holder EXCEPT ![k] = Len(ClaimsMade) + 1]
  <2>1. \A j \in IdemKeys : Holder'[j] = [Holder EXCEPT ![k] = Len(ClaimsMade) + 1][j]
    BY <1>1, <1>2, ClaimIds, ClaimsTyped DEF Inserted, Holder, IInv
  <2> QED
    BY <2>1 DEF Holder
<1>6. Recorded' = Recorded
  <2>1. \A j \in IdemKeys : Recorded'[j] = Recorded[j]
    <3>1. Recorded[k] = "" /\ Recorded'[k] = ""
      <4>1. sendLog'[k].status = "PENDING"
        BY <1>1 DEF Inserted
      <4> QED
        BY <1>2, <4>1 DEF Recorded
    <3>2. \A j \in IdemKeys : j # k => sendLog'[j] = sendLog[j]
      BY <1>1 DEF Inserted
    <3>3. \A j \in IdemKeys : j # k => Recorded'[j] = Recorded[j]
      BY <3>2 DEF Recorded
    <3> QED
      BY <3>1, <3>3
  <2> QED
    BY <2>1 DEF Recorded
<1>7. Promise!Claim(k)
  BY <1>3, <1>4, <1>5, <1>6 DEF Promise!Claim
<1> QED
  BY <1>2, <1>7 DEF Promise!Next

(* Calling a sender is a Call of the worker's row. *)
LEMMA HandOverSimulates ==
    ASSUME IInv, NEW w \in Workers, pc[w] = "dispatch",
           outbox' = Append(outbox, rowId[w]),
           accepted' \in {accepted, accepted \cup {rowId[w]}},
           UNCHANGED <<now, sendLog, ledger>>
    PROVE  Promise!Next
<1>1. rowId[w] \in 1..Len(ledger) /\ \A n \in 1..Len(outbox) : outbox[n] # rowId[w]
  BY DEF IInv, Ownership, OwnedRow, Owns
<1>2. rowId[w] \in DOMAIN ClaimsMade
  BY <1>1, ClaimIds, ClaimsTyped DEF IInv
<1>3. DOMAIN outbox = 1..Len(outbox)
  BY DEF IInv, TypeOK
<1>4. rowId[w] \notin Promise!Called
  BY <1>1, <1>3 DEF Promise!Called
<1>5. UNCHANGED <<ClaimsMade, Holder, Recorded>>
  BY DEF ClaimsMade, Holder, Recorded
<1>6. Promise!Call(rowId[w])
  BY <1>4, <1>5 DEF Promise!Call
<1> QED
  BY <1>2, <1>6 DEF Promise!Next

(* The end of an SMTP conversation is a Take, or nothing of the promise.   *)
LEMMA ConversationSimulates ==
    ASSUME IInv, HandedOver, NEW w \in Workers, pc[w] = "sending",
           accepted' \in {accepted, accepted \cup {rowId[w]}},
           UNCHANGED <<now, sendLog, ledger, outbox>>
    PROVE  [Promise!Next]_(Promise!vars)
<1>1. CASE accepted' = accepted
  BY <1>1, StutterSimulates
<1>2. CASE accepted' = accepted \cup {rowId[w]}
  <2>1. rowId[w] \in DOMAIN ClaimsMade
    BY ClaimIds, ClaimsTyped DEF IInv, Ownership, Owns
  <2>2. rowId[w] \in Promise!Called
    <3>1. DOMAIN outbox = 1..Len(outbox)
      BY DEF IInv, TypeOK
    <3> QED
      BY <3>1 DEF HandedOver, Promise!Called
  <2>3. UNCHANGED <<ClaimsMade, Holder, Recorded>>
    BY DEF ClaimsMade, Holder, Recorded
  <2>4. Promise!Take(rowId[w])
    BY <1>2, <2>2, <2>3 DEF Promise!Take
  <2> QED
    BY <2>1, <2>4 DEF Promise!Next
<1> QED
  BY <1>1, <1>2

(* MarkResult records the outcome of a row that still holds its key; on a  *)
(* row that was purged it has no effect.                                   *)
LEMMA MarkSimulates ==
    ASSUME IInv, NEW w \in Workers, pc[w] = "mark", UpdateRow(w),
           UNCHANGED <<now, ledger, outbox, accepted>>
    PROVE  [Promise!Next]_(Promise!vars)
<1> DEFINE Mine(k) == sendLog[k] # NoRow /\ sendLog[k].id = rowId[w]
<1>0. sendLog \in [IdemKeys -> Row \cup {NoRow}] /\ sendLog' \in [IdemKeys -> Row \cup {NoRow}]
  BY MarkTypes DEF IInv, TypeOK
<1>1. CASE \A k \in IdemKeys : ~Mine(k)
  <2>1. \A k \in IdemKeys : sendLog'[k] = sendLog[k]
    BY <1>1, UpdateFacts DEF IInv
  <2>2. sendLog' = sendLog
    BY <1>0, <2>1
  <2> QED
    BY <2>2, StutterSimulates
<1>2. ASSUME NEW k \in IdemKeys, Mine(k) PROVE Promise!Next
  <2>1. \A j \in IdemKeys : Mine(j) => j = k
    BY <1>2 DEF IInv, RowsMatchLedger
  <2>2. /\ sendLog[k].status = "PENDING"
        /\ (err[w] = "") => rowId[w] \in accepted
    BY <1>2 DEF IInv, OwnedRow, Owns
  <2>3. sendLog[k].id # 0 /\ Holder[k] = rowId[w] /\ Holder[k] # 0
    BY <1>2 DEF IInv, TypeOK, RowsMatchLedger, Holder
  <2>4. Recorded[k] = ""
    BY <2>2 DEF Recorded
  <2>5. \A j \in IdemKeys : j # k => sendLog'[j] = sendLog[j]
    BY <2>1, UpdateFacts DEF IInv
  <2>6. sendLog'[k] # NoRow /\ sendLog'[k].id = sendLog[k].id
        /\ sendLog'[k].status = FinalStatus(w)
    <3>1. FinalStatus(w) \in {"SENT", "FAILED"} /\ sendLog[k] \in Row
      BY <1>0, <1>2 DEF FinalStatus
    <3>2. Marked(sendLog[k], FinalStatus(w)) \in Row
      BY <3>1 DEF Row, Marked
    <3>3. sendLog'[k] # NoRow
      BY <1>2, <3>2, CommsSendAssumption DEF UpdateRow
    <3> QED
      BY <1>2, <3>3, UpdateFacts DEF IInv
  <2>7. FinalStatus(w) \in {"SENT", "FAILED"}
        /\ (FinalStatus(w) = "SENT" => rowId[w] \in accepted)
    BY <2>2 DEF FinalStatus
  <2>8. Holder' = Holder
    BY <1>2, <2>5, <2>6 DEF Holder
  <2>9. Recorded' = [Recorded EXCEPT ![k] = FinalStatus(w)]
    BY <2>5, <2>6, <2>7 DEF Recorded
  <2>10. ClaimsMade' = ClaimsMade
    BY DEF ClaimsMade
  <2>11. Promise!Record(k, FinalStatus(w))
    BY <2>3, <2>4, <2>7, <2>8, <2>9, <2>10 DEF Promise!Record
  <2> QED
    BY <2>7, <2>11 DEF Promise!Next
<1> QED
  BY <1>1, <1>2

(* The DELETE of the purge is a Forget of the keys whose rows it deletes. *)
LEMMA PurgeSimulates ==
    ASSUME IInv, Purge
    PROVE  Promise!Next
<1> DEFINE K == {k \in IdemKeys : sendLog[k] # NoRow /\ Expired(sendLog[k])}
<1>1. UNCHANGED <<now, ledger, outbox, accepted, ClaimsMade>>
  BY DEF Purge, history, ClaimsMade
<1>2. ASSUME NEW k \in K
      PROVE  Holder[k] # 0 /\ ClaimsMade[Holder[k]].at + Retention < now
  <2>1. /\ sendLog[k].id \in 1..Len(ledger)
        /\ ledger[sendLog[k].id].at = sendLog[k].createdAt
        /\ Holder[k] = sendLog[k].id
    BY DEF IInv, RowsMatchLedger, Holder
  <2>2. sendLog[k].createdAt < now - Retention
    BY DEF Expired
  <2>3. sendLog[k].createdAt \in Nat /\ now \in Nat /\ Retention \in Nat /\ Len(ledger) \in Nat
    BY CommsSendAssumption DEF IInv, TypeOK, Row
  <2>4. ClaimsMade[Holder[k]].at = sendLog[k].createdAt
    <3>1. \A i \in 1..Len(ledger) :
             ClaimsMade[i] = [key |-> ledger[i].key, at |-> ledger[i].at]
      BY ClaimIds, ClaimsTyped DEF IInv
    <3>2. ClaimsMade[sendLog[k].id] =
             [key |-> ledger[sendLog[k].id].key, at |-> ledger[sendLog[k].id].at]
      BY <2>1, <3>1
    <3>3. ClaimsMade[sendLog[k].id].at = ledger[sendLog[k].id].at
      BY <3>2
    <3> QED
      BY <2>1, <3>3
  <2> QED
    BY <2>1, <2>2, <2>3, <2>4
<1>3. Holder' = [k \in IdemKeys |-> IF k \in K THEN 0 ELSE Holder[k]]
  BY DEF Purge, Holder
<1>4. Recorded' = [k \in IdemKeys |-> IF k \in K THEN "" ELSE Recorded[k]]
  BY DEF Purge, Recorded
<1>5. Promise!Forget(K)
  BY <1>1, <1>2, <1>3, <1>4 DEF Promise!Forget
<1>6. K \in SUBSET IdemKeys
  OBVIOUS
<1> QED
  BY <1>5, <1>6 DEF Promise!Next

(* Every step of Service.Send and its environment is a step of the promise *)
(* or changes nothing of it.                                               *)
LEMMA StepSimulates ==
    ASSUME IInv, IInv', HandedOver, [Next]_vars
    PROVE  [Promise!Next]_(Promise!vars)
<1> USE DEF history
<1>1. CASE UNCHANGED vars
  BY <1>1, StutterSimulates DEF vars
<1>2. ASSUME NEW w \in Handlers, NEW r \in Requests, HTTPSend(w, r)
      PROVE  UNCHANGED Promise!vars
  BY <1>2, StutterSimulates DEF HTTPSend
<1>3. ASSUME NEW w \in Consumers, NEW e \in Events, Deliver(w, e)
      PROVE  UNCHANGED Promise!vars
  BY <1>3, StutterSimulates DEF Deliver
<1>4. ASSUME NEW w \in Workers, Step(w)
      PROVE  [Promise!Next]_(Promise!vars)
  <2>1. CASE ReserveClaims(w)
    BY <2>1, InsertSimulates DEF ReserveClaims
  <2>2. CASE ReserveFails(w)
    <3>1. UNCHANGED <<now, outbox, accepted>> /\ pc[w] = "reserve"
      BY <2>2 DEF ReserveFails
    <3>2. CASE UNCHANGED <<sendLog, ledger>>
      BY <3>1, <3>2, StutterSimulates
    <3>3. CASE sendLog[KeyOf(w)] = NoRow /\ Insert(w)
      BY <3>1, <3>3, InsertSimulates
    <3> QED
      BY <2>2, <3>2, <3>3 DEF ReserveFails
  <2>3. CASE DispatchDev(w) \/ DispatchSMTP(w)
    BY <2>3, HandOverSimulates DEF DispatchDev, DispatchSMTP
  <2>4. CASE MarkResult(w)
    BY <2>4, MarkSimulates DEF MarkResult
  <2>5. CASE MarkResultFails(w)
    <3>1. UNCHANGED <<now, ledger, outbox, accepted>> /\ pc[w] = "mark"
      BY <2>5 DEF MarkResultFails
    <3>2. CASE sendLog' = sendLog
      BY <3>1, <3>2, StutterSimulates
    <3>3. CASE UpdateRow(w)
      BY <3>1, <3>3, MarkSimulates
    <3> QED
      BY <2>5, <3>2, <3>3 DEF MarkResultFails
  <2>6. CASE \/ ReserveConflicts(w) \/ LoadExisting(w) \/ LoadExistingFails(w)
             \/ Compose(w) \/ ComposeFails(w) \/ DispatchUnavailable(w) \/ Reply(w)
    <3>1. UNCHANGED <<now, sendLog, ledger, outbox, accepted>>
      BY <2>6 DEF ReserveConflicts, LoadExisting, LoadExistingFails, Compose,
         ComposeFails, DispatchUnavailable, Reply
    <3> QED
      BY <3>1, StutterSimulates
  <2> QED
    BY <1>4, <2>1, <2>2, <2>3, <2>4, <2>5, <2>6 DEF Step
<1>5. ASSUME NEW w \in Workers, ProviderAccepts(w) \/ ProviderFails(w)
      PROVE  [Promise!Next]_(Promise!vars)
  <2>1. /\ pc[w] = "sending"
        /\ accepted' \in {accepted, accepted \cup {rowId[w]}}
        /\ UNCHANGED <<now, sendLog, ledger, outbox>>
    BY <1>5 DEF ProviderAccepts, ProviderFails
  <2> QED
    BY <2>1, ConversationSimulates
<1>6. ASSUME NEW w \in Workers, Cancel(w) PROVE UNCHANGED Promise!vars
  BY <1>6, StutterSimulates DEF Cancel
<1>7. ASSUME NEW r \in Replicas, Crash(r) PROVE UNCHANGED Promise!vars
  BY <1>7, StutterSimulates DEF Crash
<1>8. CASE Purge
  BY <1>8, PurgeSimulates
<1>9. CASE Tick
  <2>1. now' = now + 1 /\ UNCHANGED <<sendLog, ledger, outbox, accepted>>
    BY <1>9 DEF Tick
  <2>2. UNCHANGED <<ClaimsMade, Holder, Recorded>>
    BY <2>1 DEF ClaimsMade, Holder, Recorded
  <2>3. Promise!Tick
    BY <2>1, <2>2 DEF Promise!Tick
  <2> QED
    BY <2>3 DEF Promise!Next
<1> QED
  BY <1>1, <1>2, <1>3, <1>4, <1>5, <1>6, <1>7, <1>8, <1>9 DEF Next

(* Service.Send, run by any number of goroutines and replicas under        *)
(* database errors, canceled contexts, crashes and purges, implements the  *)
(* idempotent sending that SendOnce describes.                             *)
THEOREM ImplementsSendOnce == Spec => KeepsPromise
<1>1. Init => HandedOver
  BY DEF Init, HandedOver
<1>2. IInv /\ IInv' /\ HandedOver /\ [Next]_vars
        => HandedOver' /\ [Promise!Next]_(Promise!vars)
  BY HandedOverStep, StepSimulates
<1> QED
  BY <1>1, <1>2, InitSimulates, Invariance, PTL DEF Spec, KeepsPromise, Promise!Spec
=============================================================================
