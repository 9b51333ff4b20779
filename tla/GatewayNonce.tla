---------------------------- MODULE GatewayNonce ----------------------------
(***************************************************************************)
(* VerifyGatewaySignature on the notification routes: a request carries    *)
(* the gateway's timestamp and signature and a request id that Redis       *)
(* remembers for a while, so that a signed request is not let through      *)
(* again while its timestamp is in the window.                             *)
(*                                                                         *)
(* The time window is checked before the body is read and the id is stored *)
(* after it: a worker (handler goroutine of any replica) is "idle",        *)
(* reading the "body", or about to store the "nonce".  Copies of one       *)
(* request may be at all of these points at once.                          *)
(*                                                                         *)
(* The module is about replicas with a Redis client; without one (rdb nil) *)
(* the code skips the nonce check.  Time is in one unit throughout.  The   *)
(* gateway's clock may be ahead of the replicas' by at most Lead.          *)
(***************************************************************************)
EXTENDS Integers

CONSTANTS
    Workers,
    RequestIds, NoRequestId,
    Requests,       \* copies that may arrive, any number of times
    Secret,
    MaxSkew,        \* maxGatewaySkew, 30s
    Buffer,         \* what storeNonce adds to it, 5s
    Lead,           \* how far the gateway's clock may be ahead
    ReadTimeout,    \* of the http.Server, 10s: a body is read by then
    MaxSetNX,       \* bound on the time from there until Redis runs SETNX
    Faults,         \* subset of {"redis"}
    NoRequest,
    MaxTime         \* exploration bound

(* What the signature covers: id, timestamp and, as one value, the method, *)
(* path, body and identity headers.                                        *)
computeGatewaySignature(r) == <<Secret, r.id, r.ts, r.content>>

Signed(r) == r.signature = computeGatewaySignature(r)

(* The gateway signs one request per id. *)
ASSUME GatewayAssumption ==
    /\ \A r \in Requests : /\ r.id \in RequestIds \cup {NoRequestId}
                           /\ r.ts \in Int
    /\ \A r, s \in Requests : (Signed(r) /\ Signed(s) /\ r.id = s.id) => r.ts = s.ts
    /\ NoRequestId \notin RequestIds
    /\ NoRequest \notin Requests
    /\ MaxSkew \in Nat
    /\ Buffer \in Nat
    /\ Lead \in Nat
    /\ ReadTimeout \in Nat
    /\ MaxSetNX \in Nat
    /\ MaxTime \in Nat

VARIABLES
    now,
    expiry,    \* when the nonce of an id expires; -1 if it was never stored
    count,     \* history: how often each id was let through
    passed,    \* history: when it was the last time; -1 if never
    faulted,   \* history: ids whose SETNX reported an error
    replayed,  \* history: ids of requests rejected because of their nonce
    pc, req,   \* where each worker is, with which request
    since      \* when that request passed the window check

vars == <<now, expiry, count, passed, faulted, replayed, pc, req, since>>

Init ==
    /\ now = 0
    /\ expiry = [i \in RequestIds |-> -1]
    /\ count = [i \in RequestIds |-> 0]
    /\ passed = [i \in RequestIds |-> -1]
    /\ faulted = {}
    /\ replayed = {}
    /\ pc = [w \in Workers |-> "idle"]
    /\ req = [w \in Workers |-> NoRequest]
    /\ since = [w \in Workers |-> 0]

-----------------------------------------------------------------------------
(* The timestamp is within the skew of the replica's clock, either way. *)
withinGatewaySkew(ts) == now - ts <= MaxSkew /\ ts - now <= MaxSkew

(* A request reaches the middleware; not before the gateway sent it.  Too  *)
(* old or too new, it is answered 401 and nothing changes.                 *)
Arrive(w, r) ==
    /\ pc[w] = "idle"
    /\ r.ts <= now + Lead
    /\ withinGatewaySkew(r.ts)
    /\ pc' = [pc EXCEPT ![w] = "body"]
    /\ req' = [req EXCEPT ![w] = r]
    /\ since' = [since EXCEPT ![w] = now]
    /\ UNCHANGED <<now, expiry, count, passed, faulted, replayed>>

(* The worker answers, or hands the request on, and is free again. *)
Finish(w) ==
    /\ pc' = [pc EXCEPT ![w] = "idle"]
    /\ req' = [req EXCEPT ![w] = NoRequest]
    /\ since' = [since EXCEPT ![w] = 0]

(* A key is there until its expiry has passed. *)
Remembered(i) == expiry[i] >= now

(* A mutant: SET NX EX maxGatewaySkew. *)
NonceWithoutBuffer(i) == expiry' = [expiry EXCEPT ![i] = now + MaxSkew]

(* SET key NX EX maxGatewaySkew + 5s *)
SetNonce(i) == expiry' = [expiry EXCEPT ![i] = now + MaxSkew + Buffer]

(* The body of w's request can still be read. *)
InTime(w) == now - since[w] <= ReadTimeout

(* A mutant: the missing id is not looked for. *)
ReadBodyIgnoresId(w) ==
    /\ pc[w] = "body"
    /\ \/ /\ InTime(w)
          /\ Signed(req[w])
          /\ pc' = [pc EXCEPT ![w] = "nonce"]
          /\ UNCHANGED <<req, since>>
       \/ Finish(w)
    /\ UNCHANGED <<now, expiry, count, passed, faulted, replayed>>

(* A mutant: the nonce is stored before the signature is compared. *)
ReadBodyNonceFirst(w) ==
    /\ pc[w] = "body"
    /\ req[w].id # NoRequestId
    /\ \/ /\ InTime(w)
          /\ Signed(req[w])
          /\ pc' = [pc EXCEPT ![w] = "nonce"]
          /\ UNCHANGED <<req, since, expiry>>
       \/ ~Signed(req[w]) /\ SetNonce(req[w].id) /\ Finish(w)
    /\ UNCHANGED <<now, count, passed, faulted, replayed>>

(* The body has been read: the signature is compared.  A body that is too  *)
(* large, breaks off or takes longer than the read timeout, a wrong        *)
(* signature and, with Redis, a missing id end the request.                *)
ReadBody(w) ==
    /\ pc[w] = "body"
    /\ \/ /\ InTime(w)
          /\ Signed(req[w])
          /\ req[w].id # NoRequestId
          /\ pc' = [pc EXCEPT ![w] = "nonce"]
          /\ UNCHANGED <<req, since>>
       \/ Finish(w)
    /\ UNCHANGED <<now, expiry, count, passed, faulted, replayed>>

(* storeNonce set the key: c.Next(). *)
LetThrough(w) ==
    LET i == req[w].id
    IN  /\ pc[w] = "nonce"
        /\ ~Remembered(i)
        /\ SetNonce(i)
        /\ count' = [count EXCEPT ![i] = @ + 1]
        /\ passed' = [passed EXCEPT ![i] = now]
        /\ Finish(w)
        /\ UNCHANGED <<now, faulted, replayed>>

(* The key was there. *)
RejectReplay(w) ==
    LET i == req[w].id
    IN  /\ pc[w] = "nonce"
        /\ Remembered(i)
        /\ replayed' = replayed \cup {i}
        /\ Finish(w)
        /\ UNCHANGED <<now, expiry, count, passed, faulted>>

(* SETNX reports an error, applied or not: the request is rejected. *)
StoreNonceFails(w) ==
    LET i == req[w].id
    IN  /\ pc[w] = "nonce"
        /\ "redis" \in Faults
        /\ UNCHANGED expiry \/ (~Remembered(i) /\ SetNonce(i))
        /\ faulted' = faulted \cup {i}
        /\ Finish(w)
        /\ UNCHANGED <<now, count, passed, replayed>>

Tick ==
    /\ now < MaxTime
    /\ \A w \in Workers : pc[w] = "nonce" => now - since[w] < ReadTimeout + MaxSetNX
    /\ now' = now + 1
    /\ UNCHANGED <<expiry, count, passed, faulted, replayed, pc, req, since>>

Next ==
    \/ \E w \in Workers, r \in Requests : Arrive(w, r)
    \/ \E w \in Workers : ReadBody(w)
    \/ \E w \in Workers : LetThrough(w)
    \/ \E w \in Workers : RejectReplay(w)
    \/ \E w \in Workers : StoreNonceFails(w)
    \/ Tick

Spec == Init /\ [][Next]_vars

-----------------------------------------------------------------------------
(* The type invariant of the module's state. *)
TypeOK ==
    /\ now \in Nat
    /\ expiry \in [RequestIds -> Int]
    /\ count \in [RequestIds -> Nat]
    /\ passed \in [RequestIds -> Int]
    /\ faulted \subseteq RequestIds
    /\ replayed \subseteq RequestIds
    /\ pc \in [Workers -> {"idle", "body", "nonce"}]
    /\ req \in [Workers -> Requests \cup {NoRequest}]
    /\ \A w \in Workers : pc[w] # "idle" => req[w] \in Requests
    /\ \A w \in Workers : pc[w] = "nonce" => req[w].id \in RequestIds
    /\ since \in [Workers -> Nat]

(* w lets its request through although a copy of it was let through before. *)
SecondPassage(w) ==
    LET i == req[w].id
    IN  pc[w] = "nonce" /\ count[i] >= 1 /\ count'[i] > count[i]

(* A copy of a request gets through after the first only if the time it    *)
(* stalled behind the window check and the time by which the gateway's     *)
(* clock was ahead when the last one got through exceed, together, the     *)
(* nonce's 5s buffer (gateway_signature.go:197): no other interleaving of  *)
(* copies, Redis errors or expiries lets one slip through.                 *)
ReplayExceedsBuffer ==
    [][\A w \in Workers : SecondPassage(w) =>
          LET stall == now - since[w]
              ahead == req[w].ts - passed[req[w].id]
          IN  stall + ahead > Buffer]_vars

(* gateway_signature.go:59: "A second request with the same requestId      *)
(* within the window is rejected with 401 even if the signature is valid": *)
(* no id is let through twice.  The window is checked on arrival, the      *)
(* nonce after the body, for which the server waits twice the buffer.      *)
LetThroughOnce == \A i \in RequestIds : count[i] <= 1

(* A request is rejected as a replay only if a copy of it was let through, *)
(* or a Redis error hit a copy.                                            *)
ReplayHasOriginal == \A i \in replayed : count[i] >= 1 \/ i \in faulted

(* gateway_signature.go:194: "TTL is set to maxGatewaySkew + 5s so the     *)
(* nonce outlives the skew window": as long as a copy of a request that    *)
(* was let through would pass the window check, its id is remembered.      *)
(* True only while the gateway's clock is at most the 5s ahead; the window *)
(* itself admits 30s.                                                      *)
NonceOutlivesWindow ==
    \A r \in Requests :
        (r.id \in RequestIds /\ Signed(r) /\ withinGatewaySkew(r.ts) /\ count[r.id] >= 1)
            => Remembered(r.id)
=============================================================================
