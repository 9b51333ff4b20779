----------------------------- MODULE RateLimiter -----------------------------
(***************************************************************************)
(* One RateLimiter (the per-IP, waitlist or per-service limiter) of every  *)
(* replica, over one Redis, and the in-process UserRateLimiter.            *)
(*                                                                         *)
(* A request of a Redis-backed limiter is at one of these points (pc):     *)
(*   incr     the pipeline is sent; before INCR                            *)
(*   expire   INCR is applied; before EXPIRE NX                            *)
(*   decide   both are applied; before the answer is looked at             *)
(*   next     let through: the handlers behind the limiter run             *)
(* The pipeline is no transaction: commands of other replicas come between *)
(* the two, and a connection lost at any of the first three points makes   *)
(* the limiter fall back to the replica's own token buckets.  A replica    *)
(* without a Redis client is one whose pipelines all fail at "incr".       *)
(*                                                                         *)
(* Time is relative, so that behaviours need no horizon: a key carries the *)
(* time it has left, and "recent" remembers the last MaxRecent answers of  *)
(* the last Horizon units with their age.  A count stops at Limit + 2,     *)
(* since only count > limit is asked.  A bucket holds its tokens in parts  *)
(* of 1/Minute: a unit of time adds the limit per minute, a request takes  *)
(* Minute parts.                                                           *)
(***************************************************************************)
EXTENDS Integers, Sequences, FiniteSets

CONSTANTS
    Replicas,
    Workers, Home,     \* handler goroutines; Home[w] is the replica of w
    Keys,              \* limiter keys: prefix and client
    Users,             \* verified users
    Limit,             \* requests per minute and key
    Minute,            \* the window, and the user limiter's 60 seconds
    Burst,             \* fallbackBurst
    UserLimit, UserBurst,
    CacheCap,          \* fallbackLRUCap, userFallbackLRUCap
    NoCounter, Never, NoKey,
    Faults,            \* subset of {"redis"}
    Horizon, MaxRecent \* for how long, and how many, answers are remembered

(* The LRU caches of token buckets, two per replica. *)
Caches == Replicas \X {"fallback", "user"}

RateOf(c) == IF c[2] = "user" THEN UserLimit ELSE Limit
BurstOf(c) == IF c[2] = "user" THEN UserBurst ELSE Burst

Counter == [count : 1..(Limit + 2), ttl : (1..Minute) \cup {Never}]

(* An entry of an LRU cache: entries are kept least recently used first. *)
Bucket == [key : Keys \cup Users, level : Nat]

(* A mutant: the quotient is rounded down. *)
RetryAfterRoundedDown ==
    LET q == Minute \div UserLimit IN IF q < 1 THEN 1 ELSE q

(* The Retry-After of the user limiter: max(1, ceil(60 / limitPerMin)). *)
retryAfter ==
    LET q == (Minute + UserLimit - 1) \div UserLimit IN IF q < 1 THEN 1 ELSE q

ASSUME RateLimiterAssumption ==
    /\ Home \in [Workers -> Replicas]
    /\ {Limit, Minute, Burst, UserLimit, UserBurst, CacheCap} \subseteq Nat \ {0}
    /\ NoCounter \notin Counter
    /\ Never \notin Nat
    /\ NoKey \notin Keys
    /\ Faults \subseteq {"redis"}
    /\ Horizon \in Nat
    /\ MaxRecent \in Nat \ {0}

VARIABLES
    counter,  \* Redis: the counter of each key
    buckets,  \* each cache, a sequence of buckets
    pc,       \* where each goroutine is: "idle" or a point above
    job,      \* its key, and the count INCR answered
    recent    \* history: answers [by, key, ok, age], oldest first

vars == <<counter, buckets, pc, job, recent>>

NoJob == [key |-> NoKey, count |-> 0]

Init ==
    /\ counter = [k \in Keys |-> NoCounter]
    /\ buckets = [c \in Caches |-> <<>>]
    /\ pc = [w \in Workers |-> "idle"]
    /\ job = [w \in Workers |-> NoJob]
    /\ recent = <<>>

-----------------------------------------------------------------------------
(* rate.NewLimiter: a bucket starts full. *)
NewBucket(c, k) == [key |-> k, level |-> BurstOf(c) * Minute]

Position(c, k) == {i \in DOMAIN buckets[c] : buckets[c][i].key = k}

Without(s, i) == SubSeq(s, 1, i - 1) \o SubSeq(s, i + 1, Len(s))

(* lru.Cache.Get: the bucket of k, or a new full one. *)
Found(c, k) ==
    IF Position(c, k) = {} THEN NewBucket(c, k)
    ELSE buckets[c][CHOOSE i \in Position(c, k) : TRUE]

(* A mutant: an entry keeps its place when it is used, as in a FIFO cache. *)
StoredInPlace(c, b) ==
    IF Position(c, b.key) = {}
    THEN Append(IF Len(buckets[c]) = CacheCap THEN Tail(buckets[c]) ELSE buckets[c], b)
    ELSE [buckets[c] EXCEPT ![CHOOSE i \in Position(c, b.key) : TRUE] = b]

(* A mutant: the bucket is added without being looked for. *)
StoredAnew(c, b) ==
    Append(IF Len(buckets[c]) = CacheCap THEN Tail(buckets[c]) ELSE buckets[c], b)

(* The cache after bucket b is used: b is the most recent; a new key in a  *)
(* full cache evicts the least recent.                                     *)
Stored(c, b) ==
    LET held == IF Position(c, b.key) = {} THEN buckets[c]
                ELSE Without(buckets[c], CHOOSE i \in Position(c, b.key) : TRUE)
    IN  Append(IF Len(held) = CacheCap THEN Tail(held) ELSE held, b)

(* lim.Allow: there is a token to take. *)
HasToken(c, k) == Found(c, k).level >= Minute

Answered(by, k, ok) ==
    LET kept == IF Len(recent) = MaxRecent THEN Tail(recent) ELSE recent
    IN  recent' = Append(kept, [by |-> by, key |-> k, ok |-> ok, age |-> 0])

(* allow of cache c: under its mutex, so one step. *)
allow(c, k) ==
    LET b  == Found(c, k)
        ok == HasToken(c, k)
    IN  /\ buckets' = [buckets EXCEPT ![c] =
                         Stored(c, IF ok THEN [b EXCEPT !.level = @ - Minute] ELSE b)]
        /\ Answered(c, k, ok)

-----------------------------------------------------------------------------
(* The request goes on to the handlers behind the limiter, or gets 429. *)
Proceed(w, k, ok) ==
    /\ pc' = [pc EXCEPT ![w] = IF ok THEN "next" ELSE "idle"]
    /\ job' = [job EXCEPT ![w] = IF ok THEN [NoJob EXCEPT !.key = k] ELSE NoJob]

(* The limiter asks the fallback of its replica. *)
Fallback(w, k) ==
    /\ allow(<<Home[w], "fallback">>, k)
    /\ Proceed(w, k, HasToken(<<Home[w], "fallback">>, k))

(* A request arrives: the pipeline is sent. *)
Arrive(w, k) ==
    /\ pc[w] = "idle"
    /\ pc' = [pc EXCEPT ![w] = "incr"]
    /\ job' = [job EXCEPT ![w] = [NoJob EXCEPT !.key = k]]
    /\ UNCHANGED <<counter, buckets, recent>>

Incremented(k) ==
    IF counter[k] = NoCounter THEN [count |-> 1, ttl |-> Never]
    ELSE [counter[k] EXCEPT !.count = IF @ > Limit + 1 THEN @ ELSE @ + 1]

(* A mutant: count > limit + 1. *)
OverLimitByTwo(count) == count > Limit + 1

OverLimit(count) == count > Limit

(* The count decides; it is remembered here, when it is taken. *)
Incr(w) ==
    LET k == job[w].key
        n == Incremented(k)
    IN  /\ pc[w] = "incr"
        /\ counter' = [counter EXCEPT ![k] = n]
        /\ job' = [job EXCEPT ![w].count = n.count]
        /\ pc' = [pc EXCEPT ![w] = "expire"]
        /\ IF OverLimit(n.count) THEN UNCHANGED recent
                                 ELSE Answered(<<Home[w], "redis">>, k, TRUE)
        /\ UNCHANGED buckets

(* A mutant: EXPIRE without NX. *)
ExpireAlways(w) ==
    LET k == job[w].key
    IN  /\ pc[w] = "expire"
        /\ counter' = [counter EXCEPT ![k] =
                         IF @ = NoCounter THEN @ ELSE [@ EXCEPT !.ttl = Minute]]
        /\ pc' = [pc EXCEPT ![w] = "decide"]
        /\ UNCHANGED <<buckets, job, recent>>

(* EXPIRE NX sets an expiry only where there is none; the key may be gone. *)
ExpireNX(w) ==
    LET k == job[w].key
    IN  /\ pc[w] = "expire"
        /\ counter' = [counter EXCEPT ![k] =
                         IF @ # NoCounter /\ @.ttl = Never THEN [@ EXCEPT !.ttl = Minute]
                                                           ELSE @]
        /\ pc' = [pc EXCEPT ![w] = "decide"]
        /\ UNCHANGED <<buckets, job, recent>>

(* The pipeline succeeded: count > limit is answered 429. *)
Decide(w) ==
    /\ pc[w] = "decide"
    /\ Proceed(w, job[w].key, ~OverLimit(job[w].count))
    /\ UNCHANGED <<counter, buckets, recent>>

(* A mutant: a Redis error lets the request through. *)
PipelineFailsOpen(w) ==
    /\ "redis" \in Faults
    /\ pc[w] \in {"incr", "expire", "decide"}
    /\ Proceed(w, job[w].key, TRUE)
    /\ Answered(<<Home[w], "fallback">>, job[w].key, TRUE)
    /\ UNCHANGED <<counter, buckets>>

(* pipe.Exec reports an error, whatever of the pipeline was applied. *)
PipelineFails(w) ==
    /\ "redis" \in Faults
    /\ pc[w] \in {"incr", "expire", "decide"}
    /\ Fallback(w, job[w].key)
    /\ UNCHANGED counter

(* The handlers behind the limiter return. *)
Finish(w) ==
    /\ pc[w] = "next"
    /\ Proceed(w, NoKey, FALSE)
    /\ UNCHANGED <<counter, buckets, recent>>

(* UserRateLimiter.Handler for a verified user, at any replica. *)
UserRequest(r, u) ==
    /\ allow(<<r, "user">>, u)
    /\ UNCHANGED <<counter, pc, job>>

-----------------------------------------------------------------------------
(* A unit of time: keys expire, buckets fill, answers age. *)
Aged(k) ==
    IF counter[k] = NoCounter \/ counter[k].ttl = Never THEN counter[k]
    ELSE IF counter[k].ttl = 1 THEN NoCounter
    ELSE [counter[k] EXCEPT !.ttl = @ - 1]

Refilled(c, b) ==
    LET full == BurstOf(c) * Minute
    IN  [b EXCEPT !.level = IF @ + RateOf(c) > full THEN full ELSE @ + RateOf(c)]

Tick ==
    /\ counter' = [k \in Keys |-> Aged(k)]
    /\ buckets' = [c \in Caches |-> [i \in DOMAIN buckets[c] |-> Refilled(c, buckets[c][i])]]
    /\ LET old == {i \in DOMAIN recent : recent[i].age >= Horizon}  \* the first ones
           kept == SubSeq(recent, Cardinality(old) + 1, Len(recent))
       IN  recent' = [i \in DOMAIN kept |-> [kept[i] EXCEPT !.age = @ + 1]]
    /\ UNCHANGED <<pc, job>>

Next ==
    \/ \E w \in Workers, k \in Keys : Arrive(w, k)
    \/ \E w \in Workers : Incr(w)
    \/ \E w \in Workers : ExpireNX(w)
    \/ \E w \in Workers : Decide(w)
    \/ \E w \in Workers : PipelineFails(w)
    \/ \E w \in Workers : Finish(w)
    \/ \E r \in Replicas, u \in Users : UserRequest(r, u)
    \/ Tick

Spec == Init /\ [][Next]_vars

(* Goroutines are scheduled, the pipeline is answered or fails, the        *)
(* handlers return and time passes.  Nothing is assumed of the clients.    *)
Fairness ==
    /\ WF_vars(Tick)
    /\ \A w \in Workers :
          /\ WF_vars(Incr(w) \/ ExpireNX(w) \/ Decide(w) \/ PipelineFails(w))
          /\ WF_vars(Finish(w))

FairSpec == Spec /\ Fairness

-----------------------------------------------------------------------------
(* The type invariant of the module's state. *)
TypeOK ==
    /\ counter \in [Keys -> Counter \cup {NoCounter}]
    /\ buckets \in [Caches -> Seq(Bucket)]
    /\ \A c \in Caches : /\ Len(buckets[c]) <= CacheCap
                         /\ \A i, j \in DOMAIN buckets[c] :
                               buckets[c][i].key = buckets[c][j].key => i = j
    /\ pc \in [Workers -> {"idle", "incr", "expire", "decide", "next"}]
    /\ job \in [Workers -> [key : Keys \cup {NoKey}, count : Nat]]

(* The answers that let key k through. *)
Passed(k) == {i \in DOMAIN recent : recent[i].key = k /\ recent[i].ok}

(* A fixed window restarts at its first request, so two of them can meet   *)
(* in a minute: in any minute all replicas together let at most twice the  *)
(* limit of a key through on Redis' count, whatever of the pipelines gets  *)
(* lost, interleaves or is overtaken by an expiry.                         *)
AtMostTwoWindows ==
    \A k \in Keys :
        Cardinality({i \in Passed(k) : recent[i].by[2] = "redis" /\ recent[i].age < Minute})
            <= 2 * Limit

(* "fails safe, not open" (ratelimit.go:34), and what the LRU bound costs:  *)
(* between two uses of a key a replica lets no more through than a burst   *)
(* and the refill since, unless CacheCap other keys were used in between   *)
(* and the drained bucket was forgotten.                                   *)
BurstUnlessRotated ==
    \A i, j \in DOMAIN recent :
        LET c == recent[i].by
            k == recent[i].key
            used == {n \in i..j : recent[n].by = c}
        IN  (/\ i <= j /\ c \in Caches
             /\ recent[j].by = c /\ recent[j].key = k
             /\ Cardinality({recent[n].key : n \in used} \ {k}) < CacheCap)
                => Cardinality(Passed(k) \cap used) * Minute
                      <= BurstOf(c) * Minute + (recent[i].age - recent[j].age) * RateOf(c)

(* A client that obeys Retry-After is let in: if the user's last request   *)
(* was refused and retryAfter units have passed, the next one is not.      *)
RetryAfterIsEnough ==
    \A i, j \in DOMAIN recent :
        (/\ i < j /\ recent[i].by = recent[j].by /\ recent[i].by \in Replicas \X {"user"}
         /\ recent[i].key = recent[j].key
         /\ ~recent[i].ok /\ recent[i].age - recent[j].age >= retryAfter
         /\ \A n \in (i + 1)..(j - 1) : recent[n].by # recent[i].by \/ recent[n].key # recent[i].key)
            => recent[j].ok

(* A client that keeps asking is let through again and again: refused      *)
(* requests do not prolong the window, and a counter left without expiry   *)
(* by a broken pipeline does not lock the key for good.                    *)
NeverLockedOut ==
    \A k \in Keys :
        ([]<>(\E w \in Workers : job[w].key = k))
            => []<>(\E w \in Workers : pc[w] = "next" /\ job[w].key = k)
=============================================================================
