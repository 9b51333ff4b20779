-------------------------- MODULE GatewayNonceProof --------------------------
(* Theorems about GatewayNonce, for every value of its constants. *)
EXTENDS GatewayNonce, TLAPS

(* A worker's request passed the window check at since[w], with a          *)
(* timestamp that was not too old then.                                    *)
InWindow ==
    \A w \in Workers : pc[w] # "idle" =>
        since[w] <= now /\ since[w] <= req[w].ts + MaxSkew

(* The nonce of an id that was let through lives for its full time. *)
NonceHeld ==
    \A i \in RequestIds : count[i] >= 1 => expiry[i] >= passed[i] + MaxSkew + Buffer

(* A stored nonce has an owner, or a Redis error hid it. *)
Stored == \A i \in RequestIds : expiry[i] >= 0 => count[i] >= 1 \/ i \in faulted

IInv ==
    /\ TypeOK
    /\ InWindow
    /\ NonceHeld
    /\ Stored
    /\ ReplayHasOriginal

-----------------------------------------------------------------------------
LEMMA Numbers ==
    /\ MaxSkew \in Nat /\ Buffer \in Nat
    /\ \A r \in Requests : r.ts \in Int /\ r.id \in RequestIds \cup {NoRequestId}
  BY GatewayAssumption

LEMMA Initial == Init => IInv
<1> SUFFICES ASSUME Init PROVE IInv
  OBVIOUS
<1>1. TypeOK
  BY DEF Init, TypeOK
<1>2. InWindow
  BY DEF Init, InWindow
<1>3. \A i \in RequestIds : count[i] = 0 /\ expiry[i] = -1
  BY DEF Init
<1>4. NonceHeld
  BY <1>3 DEF NonceHeld
<1>5. Stored
  BY <1>3 DEF Stored
<1>6. ReplayHasOriginal
  BY DEF Init, ReplayHasOriginal
<1> QED
  BY <1>1, <1>2, <1>4, <1>5, <1>6 DEF IInv

LEMMA FinishTypes ==
    ASSUME TypeOK, NEW w \in Workers, Finish(w)
    PROVE  /\ pc' \in [Workers -> {"idle", "body", "nonce"}]
           /\ req' \in [Workers -> Requests \cup {NoRequest}]
           /\ since' \in [Workers -> Nat]
           /\ pc'[w] = "idle"
           /\ \A v \in Workers \ {w} :
                 pc'[v] = pc[v] /\ req'[v] = req[v] /\ since'[v] = since[v]
  BY DEF TypeOK, Finish

(* SETNX writes one expiry, of now and a positive number. *)
LEMMA SetTypes ==
    ASSUME TypeOK, NEW i \in RequestIds, SetNonce(i)
    PROVE  /\ expiry' \in [RequestIds -> Int]
           /\ expiry'[i] = now + MaxSkew + Buffer
           /\ \A j \in RequestIds \ {i} : expiry'[j] = expiry[j]
  BY Numbers DEF TypeOK, SetNonce

LEMMA TypeStep ==
    ASSUME TypeOK, Next
    PROVE  TypeOK'
<1>1. ASSUME NEW w \in Workers, NEW r \in Requests, Arrive(w, r) PROVE TypeOK'
  BY <1>1 DEF Arrive, TypeOK
<1>2. ASSUME NEW w \in Workers, ReadBody(w) PROVE TypeOK'
  <2>1. CASE Finish(w)
    BY <1>2, <2>1, FinishTypes DEF ReadBody, TypeOK
  <2>2. CASE ~Finish(w)
    <3>1. /\ req[w].id # NoRequestId
          /\ pc[w] = "body"
          /\ pc' = [pc EXCEPT ![w] = "nonce"]
          /\ UNCHANGED <<now, expiry, count, passed, faulted, replayed, req, since>>
      BY <1>2, <2>2 DEF ReadBody
    <3>2. req[w].id \in RequestIds
      BY <3>1, Numbers DEF TypeOK
    <3> QED
      BY <3>1, <3>2 DEF TypeOK
  <2> QED
    BY <2>1, <2>2
<1>3. ASSUME NEW w \in Workers, LetThrough(w) \/ RejectReplay(w) \/ StoreNonceFails(w)
      PROVE  TypeOK'
  <2> DEFINE i == req[w].id
  <2>1. i \in RequestIds /\ Finish(w) /\ now' = now
    BY <1>3 DEF TypeOK, LetThrough, RejectReplay, StoreNonceFails
  <2>2. expiry' \in [RequestIds -> Int]
    <3>1. SetNonce(i) \/ UNCHANGED expiry
      BY <1>3 DEF LetThrough, RejectReplay, StoreNonceFails
    <3> HIDE DEF i
    <3> QED
      BY <2>1, <3>1, SetTypes DEF TypeOK
  <2>3. /\ count' \in [RequestIds -> Nat] /\ passed' \in [RequestIds -> Int]
        /\ faulted' \subseteq RequestIds /\ replayed' \subseteq RequestIds
    BY <1>3, <2>1 DEF TypeOK, LetThrough, RejectReplay, StoreNonceFails
  <2> QED
    BY <2>1, <2>2, <2>3, FinishTypes DEF TypeOK
<1>4. CASE Tick
  BY <1>4 DEF Tick, TypeOK
<1> QED
  BY <1>1, <1>2, <1>3, <1>4 DEF Next

LEMMA InWindowStep ==
    ASSUME TypeOK, InWindow, Next
    PROVE  InWindow'
<1>1. ASSUME NEW w \in Workers, NEW r \in Requests, Arrive(w, r) PROVE InWindow'
  <2> SUFFICES ASSUME NEW v \in Workers, pc'[v] # "idle"
               PROVE  since'[v] <= now' /\ since'[v] <= req'[v].ts + MaxSkew
    BY DEF InWindow
  <2>1. CASE v = w
    <3>1. req'[v] = r /\ since'[v] = now /\ now' = now
      BY <1>1, <2>1 DEF Arrive, TypeOK
    <3>2. now - r.ts <= MaxSkew
      BY <1>1 DEF Arrive, withinGatewaySkew
    <3>3. now <= r.ts + MaxSkew /\ now <= now
      BY <3>2, Numbers DEF TypeOK
    <3> QED
      BY <3>1, <3>3
  <2>2. CASE v # w
    <3>1. pc'[v] = pc[v] /\ req'[v] = req[v] /\ since'[v] = since[v] /\ now' = now
      BY <1>1, <2>2 DEF Arrive, TypeOK
    <3> QED
      BY <3>1 DEF InWindow
  <2> QED
    BY <2>1, <2>2
<1>2. ASSUME NEW w \in Workers, Finish(w), now' = now PROVE InWindow'
  BY <1>2, FinishTypes DEF InWindow
<1>3. ASSUME NEW w \in Workers, ReadBody(w), ~Finish(w) PROVE InWindow'
  <2>1. pc[w] = "body" /\ pc' = [pc EXCEPT ![w] = "nonce"] /\ UNCHANGED <<now, req, since>>
    BY <1>3 DEF ReadBody
  <2> QED
    BY <2>1 DEF InWindow, TypeOK
<1>4. CASE Tick
  <2> SUFFICES ASSUME NEW v \in Workers, pc[v] # "idle" PROVE since[v] <= now'
    BY <1>4 DEF Tick, InWindow
  <2>1. since[v] <= now /\ now' = now + 1 /\ since[v] \in Nat /\ now \in Nat
    BY <1>4 DEF Tick, InWindow, TypeOK
  <2> QED
    BY <2>1
<1> QED
  BY <1>1, <1>2, <1>3, <1>4 DEF Next, ReadBody, LetThrough, RejectReplay, StoreNonceFails

(* SETNX writes only what is not remembered, so no expiry moves back. *)
LEMMA ExpiryGrows ==
    ASSUME TypeOK, NEW i \in RequestIds, ~Remembered(i), SetNonce(i), NEW j \in RequestIds
    PROVE  expiry'[j] >= expiry[j]
<1>1. CASE j = i
  BY <1>1, SetTypes, Numbers DEF Remembered, TypeOK
<1>2. CASE j # i
  BY <1>2, SetTypes DEF TypeOK
<1> QED
  BY <1>1, <1>2

LEMMA HistoryStep ==
    ASSUME IInv, Next
    PROVE  NonceHeld' /\ Stored' /\ ReplayHasOriginal'
<1> USE DEF IInv
<1>1. CASE UNCHANGED <<expiry, count, passed, faulted, replayed>>
  BY <1>1 DEF NonceHeld, Stored, ReplayHasOriginal
<1>2. ASSUME NEW w \in Workers, LetThrough(w)
      PROVE  NonceHeld' /\ Stored' /\ ReplayHasOriginal'
  <2> DEFINE i == req[w].id
  <2>1. /\ i \in RequestIds /\ SetNonce(i)
        /\ UNCHANGED <<faulted, replayed>>
    BY <1>2 DEF LetThrough, TypeOK
  <2>2. /\ count' = [count EXCEPT ![i] = count[i] + 1]
        /\ passed' = [passed EXCEPT ![i] = now]
    BY <1>2 DEF LetThrough
  <2> HIDE DEF i
  <2>3. /\ count'[i] >= 1 /\ passed'[i] = now
        /\ expiry'[i] = now + MaxSkew + Buffer
        /\ \A j \in RequestIds \ {i} :
              count'[j] = count[j] /\ passed'[j] = passed[j] /\ expiry'[j] = expiry[j]
    BY <2>1, <2>2, SetTypes DEF TypeOK
  <2>4. NonceHeld'
    <3> SUFFICES ASSUME NEW j \in RequestIds, count'[j] >= 1
                 PROVE  expiry'[j] >= passed'[j] + MaxSkew + Buffer
      BY DEF NonceHeld
    <3>1. CASE j = i
      BY <2>3, <3>1, Numbers DEF TypeOK
    <3>2. CASE j # i
      BY <2>3, <3>2 DEF NonceHeld
    <3> QED
      BY <3>1, <3>2
  <2>5. Stored'
    BY <2>1, <2>3 DEF Stored
  <2>6. ReplayHasOriginal'
    BY <2>1, <2>3 DEF ReplayHasOriginal, TypeOK
  <2> QED
    BY <2>4, <2>5, <2>6
<1>3. ASSUME NEW w \in Workers, RejectReplay(w)
      PROVE  NonceHeld' /\ Stored' /\ ReplayHasOriginal'
  <2> DEFINE i == req[w].id
  <2>1. /\ i \in RequestIds /\ Remembered(i)
        /\ replayed' = replayed \cup {i}
        /\ UNCHANGED <<expiry, count, passed, faulted>>
    BY <1>3 DEF RejectReplay, TypeOK
  <2>2. expiry[i] >= 0
    BY <2>1 DEF Remembered, TypeOK
  <2>3. count[i] >= 1 \/ i \in faulted
    BY <2>1, <2>2 DEF Stored
  <2>4. ReplayHasOriginal'
    BY <2>1, <2>3 DEF ReplayHasOriginal
  <2>5. NonceHeld' /\ Stored'
    BY <2>1 DEF NonceHeld, Stored
  <2> QED
    BY <2>4, <2>5
<1>4. ASSUME NEW w \in Workers, StoreNonceFails(w)
      PROVE  NonceHeld' /\ Stored' /\ ReplayHasOriginal'
  <2> DEFINE i == req[w].id
  <2>1. /\ i \in RequestIds
        /\ UNCHANGED expiry \/ (~Remembered(i) /\ SetNonce(i))
        /\ faulted' = faulted \cup {i}
        /\ UNCHANGED <<count, passed, replayed>>
    BY <1>4 DEF StoreNonceFails, TypeOK
  <2> HIDE DEF i
  <2>2. NonceHeld'
    <3> SUFFICES ASSUME NEW j \in RequestIds, count[j] >= 1
                 PROVE  expiry'[j] >= passed[j] + MaxSkew + Buffer
      BY <2>1 DEF NonceHeld
    <3>1. expiry[j] >= passed[j] + MaxSkew + Buffer
      BY DEF NonceHeld
    <3>2. expiry'[j] \in Int /\ expiry'[j] >= expiry[j]
      BY <2>1, SetTypes, ExpiryGrows DEF TypeOK
    <3>3. expiry[j] \in Int /\ passed[j] \in Int
      BY DEF TypeOK
    <3> QED
      BY <3>1, <3>2, <3>3, Numbers
  <2>3. Stored'
    <3>1. \A j \in RequestIds \ {i} : expiry'[j] = expiry[j]
      BY <2>1, SetTypes
    <3> QED
      BY <2>1, <3>1 DEF Stored
  <2>4. ReplayHasOriginal'
    BY <2>1 DEF ReplayHasOriginal
  <2> QED
    BY <2>2, <2>3, <2>4
<1> QED
  BY <1>1, <1>2, <1>3, <1>4 DEF Next, Arrive, ReadBody, Tick

LEMMA Inductive == IInv /\ [Next]_vars => IInv'
<1> SUFFICES ASSUME IInv, [Next]_vars PROVE IInv'
  OBVIOUS
<1>1. CASE Next
  BY <1>1, TypeStep, InWindowStep, HistoryStep DEF IInv
<1>2. CASE UNCHANGED vars
  BY <1>2 DEF vars, IInv, TypeOK, InWindow, NonceHeld, Stored, ReplayHasOriginal
<1> QED
  BY <1>1, <1>2

(* A worker that finds no nonce, for an id that was let through, is past   *)
(* the nonce's expiry: its own stall and the lead of the clock then make   *)
(* up for the whole buffer.                                                *)
LEMMA NonceGone ==
    ASSUME IInv, NEW w \in Workers, pc[w] = "nonce",
           count[req[w].id] >= 1, ~Remembered(req[w].id)
    PROVE  (now - since[w]) + (req[w].ts - passed[req[w].id]) > Buffer
<1> USE DEF IInv
<1> DEFINE t == req[w].ts
           s == since[w]
           x == expiry[req[w].id]
           p == passed[req[w].id]
<1>1. req[w] \in Requests /\ req[w].id \in RequestIds
  BY DEF TypeOK
<1>2. s <= t + MaxSkew
  BY DEF InWindow
<1>3. x >= p + MaxSkew + Buffer
  BY <1>1 DEF NonceHeld
<1>4. ~(x >= now)
  BY DEF Remembered
<1>5. t \in Int /\ s \in Nat /\ x \in Int /\ p \in Int /\ now \in Nat
  BY <1>1, Numbers DEF TypeOK
<1> HIDE DEF t, s, x, p
<1>6. (now - s) + (t - p) > Buffer
  BY <1>2, <1>3, <1>4, <1>5, Numbers
<1> QED
  BY <1>6 DEF t, s, p

(* Whoever takes a step in which an id is let through again was at SETNX   *)
(* with it and found no nonce.                                             *)
LEMMA PassageStep ==
    ASSUME IInv, Next, NEW v \in Workers, SecondPassage(v)
    PROVE  ~Remembered(req[v].id)
<1> USE DEF IInv
<1>1. req[v].id \in RequestIds /\ count'[req[v].id] > count[req[v].id]
  BY DEF SecondPassage, TypeOK
<1>2. count' # count
  BY <1>1 DEF TypeOK
<1>3. PICK w \in Workers : LetThrough(w)
  BY <1>2 DEF Next, Arrive, ReadBody, RejectReplay, StoreNonceFails, Tick
<1>4. \A j \in RequestIds \ {req[w].id} : count'[j] = count[j]
  BY <1>3 DEF LetThrough, TypeOK
<1>5. req[v].id = req[w].id
  BY <1>1, <1>4 DEF TypeOK
<1> QED
  BY <1>3, <1>5 DEF LetThrough

(* A replay is let through only when the stall and the lead of the         *)
(* gateway's clock exceed the buffer: for any number of copies, workers    *)
(* and Redis errors, any lead and any time a body or Redis takes.          *)
THEOREM ReplayNeedsTime == Spec => ReplayExceedsBuffer
<1>1. ASSUME IInv, Next, NEW w \in Workers, SecondPassage(w)
      PROVE  (now - since[w]) + (req[w].ts - passed[req[w].id]) > Buffer
  <2>1. pc[w] = "nonce" /\ count[req[w].id] >= 1
    BY <1>1 DEF SecondPassage
  <2>2. ~Remembered(req[w].id)
    BY <1>1, PassageStep
  <2> QED
    BY <1>1, <2>1, <2>2, NonceGone
<1>2. IInv /\ [Next]_vars =>
        [\A w \in Workers : SecondPassage(w) =>
            LET stall == now - since[w]
                ahead == req[w].ts - passed[req[w].id]
            IN  stall + ahead > Buffer]_vars
  BY <1>1
<1> QED
  BY <1>2, Initial, Inductive, PTL DEF Spec, ReplayExceedsBuffer

(* A rejection as a replay is justified by a copy that was let through or  *)
(* by a Redis error.                                                       *)
THEOREM RejectionJustified == Spec => []ReplayHasOriginal
<1>1. IInv => ReplayHasOriginal
  BY DEF IInv
<1> QED
  BY <1>1, Initial, Inductive, PTL DEF Spec

(* The middleware keeps its state in its types. *)
THEOREM GatewayTypes == Spec => []TypeOK
<1>1. IInv => TypeOK
  BY DEF IInv
<1> QED
  BY <1>1, Initial, Inductive, PTL DEF Spec
=============================================================================
