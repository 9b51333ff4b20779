-------------------------- MODULE RateLimiterProof --------------------------
(***************************************************************************)
(* Proofs about RateLimiter, for any number of replicas, goroutines, keys  *)
(* and users, and any limits: whatever the order of the requests and of    *)
(* the failures of Redis, what is let through stays within the budgets.    *)
(***************************************************************************)
EXTENDS RateLimiter, SequenceTheorems, FiniteSetTheorems, TLAPS

(* The names an answer may carry: a cache, or Redis at a replica. *)
Answer == [by : Replicas \X {"fallback", "user", "redis"}, key : Keys \cup Users,
           ok : BOOLEAN, age : Nat]

HistoryType == recent \in Seq(Answer)

(* A request that is under way, or let through, has a key. *)
KeyHeld == \A w \in Workers : pc[w] # "idle" => job[w].key \in Keys

(* A cache: at most CacheCap buckets, no two of the same key, none fuller  *)
(* than its burst.                                                         *)
Cache(c, s) ==
    /\ s \in Seq(Bucket)
    /\ Len(s) <= CacheCap
    /\ \A i, j \in DOMAIN s : s[i].key = s[j].key => i = j
    /\ \A i \in DOMAIN s : s[i].level <= BurstOf(c) * Minute

CachesOK == buckets \in [Caches -> Seq(Bucket)] /\ \A c \in Caches : Cache(c, buckets[c])

(***************************************************************************)
(* What the answers remembered in a history h say of a cache c and a key   *)
(* k, between two of its places.                                           *)
(***************************************************************************)

UsesOf(h, c, i, j) == {n \in i..j : h[n].by = c}

GrantsOf(h, c, k, i, j) == {n \in i..j : h[n].by = c /\ h[n].key = k /\ h[n].ok}

OthersOf(h, c, k, i, j) == {h[n].key : n \in UsesOf(h, c, i, j)} \ {k}

(* What Redis let through. *)
WindowOf(h, k, i, j) == {n \in i..j : h[n].key = k /\ h[n].ok /\ h[n].by[2] = "redis"}

YoungOf(h, k, i, j) == {n \in WindowOf(h, k, i, j) : h[n].age < Minute}

(* The LRU order: a key that was used is still in the cache, and the       *)
(* buckets behind its own are of keys used since, unless CacheCap others   *)
(* were.                                                                   *)
LruOrder ==
    \A c \in Caches, n \in DOMAIN recent :
        LET k == recent[n].key
            others == OthersOf(recent, c, k, n, Len(recent))
        IN  (recent[n].by = c /\ Cardinality(others) < CacheCap)
               => \E p \in DOMAIN buckets[c] :
                     /\ buckets[c][p].key = k
                     /\ \A q \in (p + 1)..Len(buckets[c]) : buckets[c][q].key \in others

(* What a bucket holds and what was taken from it since the i-th answer    *)
(* is no more than a full bucket and the refill since.                     *)
BucketBudget ==
    \A c \in Caches, k \in Keys \cup Users, i \in DOMAIN recent : \A p \in DOMAIN buckets[c] :
        (/\ buckets[c][p].key = k
         /\ Cardinality(OthersOf(recent, c, k, i, Len(recent))) < CacheCap)
        => Cardinality(GrantsOf(recent, c, k, i, Len(recent))) * Minute + buckets[c][p].level
              <= BurstOf(c) * Minute + recent[i].age * RateOf(c)

(* A bucket that refused its last request has been filling since. *)
RefusedRefills ==
    \A c \in Replicas \X {"user"}, i \in DOMAIN recent : \A p \in DOMAIN buckets[c] :
        LET b == buckets[c][p]
        IN  (/\ recent[i].by = c /\ recent[i].key = b.key /\ ~recent[i].ok
             /\ \A n \in (i + 1)..Len(recent) : recent[n].by # c \/ recent[n].key # b.key)
               => b.level >= BurstOf(c) * Minute \/ b.level >= recent[i].age * RateOf(c)

(* The answers of Redis fall into those before place s and those of the    *)
(* counter that runs: both within the limit, and once the counter has an   *)
(* expiry the former are at least as old as it.                            *)
SplitAt(k, s) ==
    /\ Cardinality(WindowOf(recent, k, s + 1, Len(recent))) <= Limit
    /\ counter[k] = NoCounter => WindowOf(recent, k, s + 1, Len(recent)) = {}
    /\ counter[k] # NoCounter =>
          Cardinality(WindowOf(recent, k, s + 1, Len(recent))) <= counter[k].count
    /\ Cardinality(YoungOf(recent, k, 1, s)) <= Limit
    /\ (counter[k] # NoCounter /\ counter[k].ttl # Never) =>
          \A n \in WindowOf(recent, k, 1, s) : recent[n].age >= Minute - counter[k].ttl

TwoWindows == \A k \in Keys : \E s \in 0..Len(recent) : SplitAt(k, s)

(***************************************************************************)
(* The inductive invariant.  BurstUnlessRotated and RetryAfterIsEnough are *)
(* about the answers given, and the next answer depends on the buckets:    *)
(* LruOrder says which buckets are still held, BucketBudget and            *)
(* RefusedRefills how full they are for what has been answered.            *)
(* AtMostTwoWindows follows from TwoWindows, which adds what the counter   *)
(* in Redis knows of the last window.                                      *)
(***************************************************************************)
IInv ==
    /\ TypeOK
    /\ KeyHeld
    /\ HistoryType
    /\ CachesOK
    /\ LruOrder
    /\ BucketBudget
    /\ BurstUnlessRotated
    /\ RefusedRefills
    /\ RetryAfterIsEnough
    /\ TwoWindows

-----------------------------------------------------------------------------
(***************************************************************************)
(* Facts about sequences, numbers and sizes.                               *)
(***************************************************************************)

(* The rates and bounds are positive. *)
LEMMA Rates ==
    ASSUME NEW c
    PROVE  /\ RateOf(c) \in Nat \ {0}
           /\ BurstOf(c) \in Nat \ {0}
           /\ BurstOf(c) * Minute \in Nat
           /\ BurstOf(c) * Minute >= Minute
           /\ Minute \in Nat \ {0} /\ CacheCap \in Nat \ {0} /\ Limit \in Nat \ {0}
<1>1. /\ Minute \in Nat \ {0} /\ CacheCap \in Nat \ {0} /\ Limit \in Nat \ {0}
      /\ RateOf(c) \in Nat \ {0} /\ BurstOf(c) \in Nat \ {0}
  BY RateLimiterAssumption DEF RateOf, BurstOf
<1>2. \A b \in Nat \ {0}, m \in Nat \ {0} : b * m \in Nat /\ b * m >= m
  OBVIOUS
<1> QED
  BY <1>1, <1>2

(* A place among n is the last or one before it. *)
LEMMA LastOrBefore ==
    ASSUME NEW n \in Nat, NEW i \in 1..n
    PROVE  i = n \/ i \in 1..(n - 1)
  OBVIOUS

(* A sequence built place by place. *)
LEMMA Mapped ==
    ASSUME NEW S, NEW n \in Nat, NEW t, DOMAIN t = 1..n, t = [i \in DOMAIN t |-> t[i]],
           \A i \in 1..n : t[i] \in S
    PROVE  t \in Seq(S) /\ Len(t) = n
<1>1. t \in [1..n -> S]
  BY Zenon
<1>2. t \in Seq(S)
  BY <1>1, SeqDef
<1> QED
  BY <1>2, LenProperties

(* A sequence without one of its entries. *)
LEMMA WithoutShape ==
    ASSUME NEW S, NEW s \in Seq(S), NEW x \in 1..Len(s)
    PROVE  /\ Without(s, x) \in Seq(S)
           /\ Len(Without(s, x)) = Len(s) - 1
           /\ \A i \in 1..(Len(s) - 1) : Without(s, x)[i] = IF i < x THEN s[i] ELSE s[i + 1]
<1> DEFINE a == SubSeq(s, 1, x - 1)
           b == SubSeq(s, x + 1, Len(s))
<1>1. /\ Len(s) \in Nat /\ x \in Nat /\ x >= 1 /\ x <= Len(s)
      /\ \A i \in 1..Len(s) : s[i] \in S
  OBVIOUS
<1>2. /\ a \in Seq(S) /\ Len(a) = x - 1
      /\ \A i \in 1..(x - 1) : a[i] = s[i]
  <2>1. 1 \in Int /\ x - 1 \in Int /\ \A i \in 1..(x - 1) : s[i] \in S
    BY <1>1
  <2>2. /\ a \in Seq(S) /\ Len(a) = IF 1 <= x - 1 THEN x - 1 - 1 + 1 ELSE 0
        /\ \A i \in 1..(x - 1 - 1 + 1) : a[i] = s[1 + i - 1]
    BY <2>1, SubSeqProperties
  <2> HIDE DEF a
  <2> QED
    BY <1>1, <2>2
<1>3. /\ b \in Seq(S) /\ Len(b) = Len(s) - x
      /\ \A i \in 1..(Len(s) - x) : b[i] = s[x + i]
  <2>1. x + 1 \in Int /\ Len(s) \in Int /\ \A i \in (x + 1)..Len(s) : s[i] \in S
    BY <1>1
  <2>2. /\ b \in Seq(S) /\ Len(b) = IF x + 1 <= Len(s) THEN Len(s) - (x + 1) + 1 ELSE 0
        /\ \A i \in 1..(Len(s) - (x + 1) + 1) : b[i] = s[x + 1 + i - 1]
    BY <2>1, SubSeqProperties
  <2> HIDE DEF b
  <2>3. Len(b) = Len(s) - x
    BY <1>1, <2>2
  <2>4. ASSUME NEW i \in 1..(Len(s) - x) PROVE b[i] = s[x + i]
    <3>1. i \in 1..(Len(s) - (x + 1) + 1) /\ x + 1 + i - 1 = x + i
      BY <1>1
    <3> QED
      BY <2>2, <3>1
  <2> QED
    BY <2>2, <2>3, <2>4
<1>4. Without(s, x) = a \o b
  BY DEF Without
<1> HIDE DEF a, b
<1>5. /\ a \o b \in Seq(S)
      /\ Len(a \o b) = Len(a) + Len(b)
      /\ \A i \in 1..(Len(a) + Len(b)) : (a \o b)[i] = IF i <= Len(a) THEN a[i] ELSE b[i - Len(a)]
  BY <1>2, <1>3, ConcatProperties
<1>6. Len(a) + Len(b) = Len(s) - 1
  BY <1>1, <1>2, <1>3
<1>7. ASSUME NEW i \in 1..(Len(s) - 1)
      PROVE  (a \o b)[i] = IF i < x THEN s[i] ELSE s[i + 1]
  <2>1. (a \o b)[i] = IF i <= x - 1 THEN a[i] ELSE b[i - (x - 1)]
    BY <1>2, <1>5, <1>6, <1>7
  <2>2. CASE i < x
    <3>1. i \in 1..(x - 1) /\ i <= x - 1
      BY <1>1, <2>2
    <3> QED
      BY <1>2, <2>1, <2>2, <3>1
  <2>3. CASE ~(i < x)
    <3>1. ~(i <= x - 1) /\ i - (x - 1) \in 1..(Len(s) - x) /\ x + (i - (x - 1)) = i + 1
      BY <1>1, <2>3
    <3>2. b[i - (x - 1)] = s[i + 1]
      BY <1>3, <3>1
    <3> QED
      BY <2>1, <2>3, <3>1, <3>2
  <2> QED
    BY <2>2, <2>3
<1> QED
  BY <1>4, <1>5, <1>6, <1>7

(* A sequence without its first entries. *)
LEMMA RestShape ==
    ASSUME NEW S, NEW s \in Seq(S), NEW m \in 0..Len(s)
    PROVE  LET t == SubSeq(s, m + 1, Len(s))
           IN  /\ t \in Seq(S)
               /\ Len(t) = Len(s) - m
               /\ \A i \in 1..(Len(s) - m) : t[i] = s[i + m]
<1> DEFINE t == SubSeq(s, m + 1, Len(s))
<1>1. Len(s) \in Nat /\ m \in Nat /\ m <= Len(s)
  OBVIOUS
<1>2. m + 1 \in Int /\ Len(s) \in Int /\ \A i \in (m + 1)..Len(s) : s[i] \in S
  BY <1>1
<1>3. /\ t \in Seq(S) /\ Len(t) = IF m + 1 <= Len(s) THEN Len(s) - (m + 1) + 1 ELSE 0
      /\ \A i \in 1..(Len(s) - (m + 1) + 1) : t[i] = s[m + 1 + i - 1]
  BY <1>2, SubSeqProperties
<1> HIDE DEF t
<1>4. Len(t) = Len(s) - m
  BY <1>1, <1>3
<1>5. ASSUME NEW i \in 1..(Len(s) - m) PROVE t[i] = s[i + m]
  <2>1. i \in 1..(Len(s) - (m + 1) + 1) /\ m + 1 + i - 1 = i + m
    BY <1>1
  <2> QED
    BY <1>3, <2>1
<1>6. t \in Seq(S) /\ Len(t) = Len(s) - m /\ \A i \in 1..(Len(s) - m) : t[i] = s[i + m]
  BY <1>3, <1>4, <1>5
<1> QED
  BY <1>6 DEF t

-----------------------------------------------------------------------------
(***************************************************************************)
(* The LRU caches.                                                         *)
(***************************************************************************)

(* The bucket lru.Cache.Get finds is the one of its key, and no fuller     *)
(* than its burst; a new one is full.                                      *)
LEMMA FoundFacts ==
    ASSUME CachesOK, NEW c \in Caches, NEW k \in Keys \cup Users
    PROVE  /\ Found(c, k) \in Bucket
           /\ Found(c, k).key = k
           /\ Found(c, k).level <= BurstOf(c) * Minute
           /\ Position(c, k) = {} => Found(c, k).level = BurstOf(c) * Minute
           /\ \A i \in DOMAIN buckets[c] : buckets[c][i].key = k => Found(c, k) = buckets[c][i]
<1>1. Cache(c, buckets[c])
  BY DEF CachesOK
<1>2. BurstOf(c) * Minute \in Nat
  BY Rates
<1>3. CASE Position(c, k) = {}
  <2>1. Found(c, k) = [key |-> k, level |-> BurstOf(c) * Minute]
    BY <1>3 DEF Found, NewBucket
  <2>2. \A i \in DOMAIN buckets[c] : buckets[c][i].key # k
    BY <1>3 DEF Position
  <2> QED
    BY <1>2, <2>1, <2>2 DEF Bucket
<1>4. CASE Position(c, k) # {}
  <2> DEFINE x == CHOOSE i \in Position(c, k) : TRUE
  <2>1. x \in Position(c, k)
    BY <1>4
  <2>2. x \in DOMAIN buckets[c] /\ buckets[c][x].key = k
    BY <2>1 DEF Position
  <2>3. Found(c, k) = buckets[c][x]
    BY <1>4 DEF Found
  <2> HIDE DEF x
  <2>4. buckets[c][x] \in Bucket /\ buckets[c][x].level <= BurstOf(c) * Minute
    BY <1>1, <2>2 DEF Cache
  <2>5. \A i \in DOMAIN buckets[c] : buckets[c][i].key = k => i = x
    BY <1>1, <2>2 DEF Cache
  <2> QED
    BY <1>4, <2>2, <2>3, <2>4, <2>5
<1> QED
  BY <1>3, <1>4

(* Before b is appended: s without the bucket at place x, b's own or, when *)
(* the cache is full without it, the least recent one.  x is Len(s) + 1    *)
(* when nothing is dropped.                                                *)
RestAt(s, b, rest, x) ==
    /\ x \in 1..(Len(s) + 1)
    /\ rest \in Seq(Bucket)
    /\ Len(rest) = IF x = Len(s) + 1 THEN Len(s) ELSE Len(s) - 1
    /\ Len(rest) < CacheCap
    /\ \A i \in 1..Len(rest) : rest[i] = IF i < x THEN s[i] ELSE s[i + 1]
    /\ \A i \in 1..Len(s) : i # x => s[i].key # b.key
    /\ x <= Len(s) => \/ s[x].key = b.key
                      \/ x = 1 /\ Len(s) = CacheCap /\ s[x].key # b.key

(* The cache t after b is stored in s. *)
StoredAt(s, b, t, x) ==
    /\ x \in 1..(Len(s) + 1)
    /\ t \in Seq(Bucket)
    /\ Len(t) = IF x = Len(s) + 1 THEN Len(s) + 1 ELSE Len(s)
    /\ Len(t) <= CacheCap
    /\ t[Len(t)] = b
    /\ \A i \in 1..(Len(t) - 1) : t[i] = IF i < x THEN s[i] ELSE s[i + 1]
    /\ \A i \in 1..Len(s) : i # x => s[i].key # b.key
    /\ x <= Len(s) => \/ s[x].key = b.key
                      \/ x = 1 /\ Len(s) = CacheCap /\ s[x].key # b.key

(* What Append leaves at each place. *)
LEMMA AppendAt ==
    ASSUME NEW s \in Seq(Bucket), NEW b \in Bucket, NEW rest, NEW x, RestAt(s, b, rest, x)
    PROVE  StoredAt(s, b, Append(rest, b), x)
<1> DEFINE t == Append(rest, b)
<1>1. rest \in Seq(Bucket) /\ Len(rest) \in Nat /\ Len(s) \in Nat /\ CacheCap \in Nat
  BY Rates, SMTT(30) DEF RestAt
<1>2. /\ t \in Seq(Bucket) /\ Len(t) = Len(rest) + 1 /\ t[Len(rest) + 1] = b
      /\ \A i \in 1..Len(rest) : t[i] = rest[i]
  BY <1>1, AppendProperties
<1> HIDE DEF t
<1>3. /\ Len(t) = (IF x = Len(s) + 1 THEN Len(s) + 1 ELSE Len(s))
      /\ Len(t) <= CacheCap /\ t[Len(t)] = b /\ Len(t) - 1 = Len(rest)
  BY <1>1, <1>2 DEF RestAt
<1>4. \A i \in 1..(Len(t) - 1) : t[i] = IF i < x THEN s[i] ELSE s[i + 1]
  BY <1>2, <1>3 DEF RestAt
<1>5. StoredAt(s, b, t, x)
  BY <1>2, <1>3, <1>4 DEF RestAt, StoredAt
<1> QED
  BY <1>5 DEF t

(* What storing a bucket makes of a cache: the others in their order, less *)
(* the one it replaces or the oldest of a full cache, and then it.         *)
LEMMA StoredShape ==
    ASSUME CachesOK, NEW c \in Caches, NEW b \in Bucket
    PROVE  \E x : StoredAt(buckets[c], b, Stored(c, b), x)
<1> DEFINE s == buckets[c]
           held == IF Position(c, b.key) = {} THEN s
                   ELSE Without(s, CHOOSE i \in Position(c, b.key) : TRUE)
           rest == IF Len(held) = CacheCap THEN Tail(held) ELSE held
<1>1. /\ s \in Seq(Bucket) /\ Len(s) \in Nat /\ Len(s) <= CacheCap
      /\ DOMAIN s = 1..Len(s)
      /\ \A i, j \in 1..Len(s) : s[i].key = s[j].key => i = j
  BY DEF CachesOK, Cache
<1>2. Len(s) \in Nat /\ Len(s) <= CacheCap
  BY <1>1
<1>3. Stored(c, b) = Append(rest, b)
  BY DEF Stored
<1>4. CacheCap \in Nat /\ CacheCap > 0
  BY Rates
<1>5. ASSUME Position(c, b.key) # {}
      PROVE  \E x : RestAt(s, b, rest, x)
  <2> DEFINE x == CHOOSE i \in Position(c, b.key) : TRUE
  <2>1. x \in Position(c, b.key)
    BY <1>5
  <2>2. x \in 1..Len(s) /\ s[x].key = b.key
    BY <1>1, <2>1 DEF Position
  <2>3. held = Without(s, x)
    BY <1>5
  <2> HIDE DEF x, held, s
  <2>4. /\ held \in Seq(Bucket) /\ Len(held) = Len(s) - 1
        /\ \A i \in 1..(Len(s) - 1) : held[i] = IF i < x THEN s[i] ELSE s[i + 1]
    BY <1>1, <2>2, <2>3, WithoutShape
  <2>5. rest = held
    <3>1. Len(held) # CacheCap
      BY <1>2, <1>4, <2>4
    <3> QED
      BY <3>1
  <2>6. \A i \in 1..Len(s) : i # x => s[i].key # b.key
    BY <1>1, <2>2
  <2>7. x \in 1..(Len(s) + 1) /\ x # Len(s) + 1 /\ Len(held) < CacheCap
    BY <1>1, <1>4, <2>2, <2>4
  <2>8. RestAt(s, b, rest, x)
    <3> HIDE DEF rest
    <3> QED
      BY <2>2, <2>4, <2>5, <2>6, <2>7 DEF RestAt
  <2> QED
    BY <2>8
<1>6. ASSUME Position(c, b.key) = {}
      PROVE  \E x : RestAt(s, b, rest, x)
  <2>1. \A i \in 1..Len(s) : s[i].key # b.key
    BY <1>1, <1>6 DEF Position
  <2>2. held = s
    BY <1>6
  <2> HIDE DEF held, s
  <2>3. CASE Len(s) = CacheCap
    <3>1. s # << >>
      BY <1>1, <1>4, <2>3, EmptySeq
    <3>2. rest = Tail(s)
      BY <2>2, <2>3
    <3> HIDE DEF rest
    <3>3. /\ rest \in Seq(Bucket) /\ Len(rest) = Len(s) - 1
          /\ \A i \in 1..Len(rest) : rest[i] = s[i + 1]
      BY <1>1, <3>1, <3>2, HeadTailProperties
    <3>4. 1 \in 1..(Len(s) + 1) /\ 1 # Len(s) + 1 /\ Len(rest) < CacheCap /\ 1 \in 1..Len(s)
      BY <1>1, <1>4, <2>3, <3>3
    <3>5. \A i \in 1..Len(rest) : ~(i < 1)
      OBVIOUS
    <3>6. RestAt(s, b, rest, 1)
      BY <2>1, <2>3, <3>3, <3>4, <3>5 DEF RestAt
    <3> QED
      BY <3>6
  <2>4. CASE Len(s) # CacheCap
    <3>1. rest = s
      BY <2>2, <2>4
    <3> HIDE DEF rest
    <3>2. Len(s) + 1 \in 1..(Len(s) + 1) /\ Len(s) < CacheCap /\ ~(Len(s) + 1 <= Len(s))
          /\ \A i \in 1..Len(s) : i < Len(s) + 1
      BY <1>2, <1>4, <2>4
    <3>3. RestAt(s, b, rest, Len(s) + 1)
      BY <1>1, <2>1, <3>1, <3>2 DEF RestAt
    <3> QED
      BY <3>3
  <2> QED
    BY <2>3, <2>4
<1>7. PICK x : RestAt(s, b, rest, x)
  BY <1>5, <1>6
<1> HIDE DEF rest
<1> QED
  BY <1>1, <1>3, <1>7, AppendAt

(* The bucket an answer leaves behind. *)
AfterUse(c, k) ==
    IF HasToken(c, k) THEN [Found(c, k) EXCEPT !.level = @ - Minute] ELSE Found(c, k)

(* The age after a use: a number, and 0 for the key used. *)
LEMMA AfterUseFacts ==
    ASSUME CachesOK, NEW c \in Caches, NEW k \in Keys \cup Users
    PROVE  /\ AfterUse(c, k) \in Bucket
           /\ AfterUse(c, k).key = k
           /\ AfterUse(c, k).level <= BurstOf(c) * Minute
           /\ AfterUse(c, k).level = IF HasToken(c, k) THEN Found(c, k).level - Minute
                                                      ELSE Found(c, k).level
           /\ AfterUse(c, k).level \in Nat
<1>1. /\ Found(c, k) \in Bucket /\ Found(c, k).key = k
      /\ Found(c, k).level <= BurstOf(c) * Minute
  BY FoundFacts
<1>2. Found(c, k).level \in Nat /\ Minute \in Nat /\ BurstOf(c) * Minute \in Nat
  BY <1>1, Rates DEF Bucket
<1>3. CASE HasToken(c, k)
  <2>1. Found(c, k).level >= Minute
    BY <1>3 DEF HasToken
  <2>2. AfterUse(c, k) = [Found(c, k) EXCEPT !.level = @ - Minute]
    BY <1>3 DEF AfterUse
  <2>3. AfterUse(c, k) \in Bucket /\ AfterUse(c, k).key = k
        /\ AfterUse(c, k).level = Found(c, k).level - Minute
    BY <1>1, <1>2, <2>1, <2>2 DEF Bucket
  <2> QED
    BY <1>1, <1>2, <1>3, <2>1, <2>3
<1>4. CASE ~HasToken(c, k)
  BY <1>1, <1>2, <1>4 DEF AfterUse
<1> QED
  BY <1>3, <1>4

(* A cache stays one when a bucket is stored. *)
LEMMA StoredCache ==
    ASSUME NEW c, NEW s, Cache(c, s), NEW b \in Bucket, b.level <= BurstOf(c) * Minute,
           NEW t, NEW x, StoredAt(s, b, t, x)
    PROVE  Cache(c, t)
<1> DEFINE From(i) == IF i < x THEN i ELSE i + 1
<1>1. /\ Len(s) \in Nat /\ Len(t) \in Nat /\ x \in 1..(Len(s) + 1)
      /\ DOMAIN t = 1..Len(t) /\ DOMAIN s = 1..Len(s)
  BY DEF Cache, StoredAt
<1>2. Len(t) = IF x = Len(s) + 1 THEN Len(s) + 1 ELSE Len(s)
  BY DEF StoredAt
<1>3. ASSUME NEW i \in 1..(Len(t) - 1)
      PROVE  From(i) \in 1..Len(s) /\ From(i) # x /\ t[i] = s[From(i)] /\ t[i].key # b.key
  <2>1. From(i) \in 1..Len(s) /\ From(i) # x
    BY <1>1, <1>2
  <2>2. t[i] = s[From(i)]
    BY DEF StoredAt
  <2> QED
    BY <2>1, <2>2 DEF StoredAt
<1>4. ASSUME NEW i \in 1..Len(t), NEW j \in 1..Len(t), t[i].key = t[j].key
      PROVE  i = j
  <2>1. CASE i = Len(t) /\ j = Len(t)
    BY <2>1
  <2>2. CASE i = Len(t) /\ j # Len(t)
    <3>1. j \in 1..(Len(t) - 1) /\ t[i] = b
      BY <1>1, <2>2, LastOrBefore, Zenon DEF StoredAt
    <3> QED
      BY <1>3, <1>4, <3>1
  <2>3. CASE i # Len(t) /\ j = Len(t)
    <3>1. i \in 1..(Len(t) - 1) /\ t[j] = b
      BY <1>1, <2>3, LastOrBefore, Zenon DEF StoredAt
    <3> QED
      BY <1>3, <1>4, <3>1
  <2>4. CASE i # Len(t) /\ j # Len(t)
    <3>1. i \in 1..(Len(t) - 1) /\ j \in 1..(Len(t) - 1)
      BY <1>1, <2>4, LastOrBefore, Zenon
    <3>2. From(i) = From(j)
      BY <1>1, <1>3, <1>4, <3>1 DEF Cache
    <3> QED
      BY <1>1, <3>1, <3>2
  <2> QED
    BY <2>1, <2>2, <2>3, <2>4
<1>5. ASSUME NEW i \in 1..Len(t)
      PROVE  t[i].level <= BurstOf(c) * Minute
  <2>1. CASE i = Len(t)
    BY <2>1 DEF StoredAt
  <2>2. CASE i # Len(t)
    <3>1. i \in 1..(Len(t) - 1)
      BY <1>1, <2>2, LastOrBefore, Zenon
    <3> HIDE DEF From
    <3> QED
      BY <1>1, <1>3, <3>1 DEF Cache
  <2> QED
    BY <2>1, <2>2
<1>6. t \in Seq(Bucket) /\ Len(t) <= CacheCap
  BY DEF StoredAt
<1> QED
  BY <1>1, <1>4, <1>5, <1>6 DEF Cache

(* A use of key k stores its bucket, in its own cache only. *)
LEMMA AllowFacts ==
    ASSUME CachesOK, NEW c \in Caches, NEW k \in Keys \cup Users, allow(c, k)
    PROVE  /\ CachesOK'
           /\ \A d \in Caches \ {c} : buckets'[d] = buckets[d]
           /\ \E x : StoredAt(buckets[c], AfterUse(c, k), buckets'[c], x)
<1>1. buckets' = [buckets EXCEPT ![c] = Stored(c, AfterUse(c, k))]
  BY DEF allow, AfterUse
<1>2. buckets \in [Caches -> Seq(Bucket)] /\ \A d \in Caches : Cache(d, buckets[d])
  BY DEF CachesOK
<1>3. buckets'[c] = Stored(c, AfterUse(c, k)) /\ \A d \in Caches \ {c} : buckets'[d] = buckets[d]
  BY <1>1, <1>2
<1>4. PICK x : StoredAt(buckets[c], AfterUse(c, k), buckets'[c], x)
  BY <1>3, AfterUseFacts, StoredShape
<1>5. Cache(c, buckets'[c])
  BY <1>2, <1>4, AfterUseFacts, StoredCache
<1>6. Stored(c, AfterUse(c, k)) \in Seq(Bucket)
  BY <1>3, <1>5 DEF Cache
<1>7. buckets' \in [Caches -> Seq(Bucket)]
  BY <1>1, <1>2, <1>6
<1> QED
  BY <1>2, <1>3, <1>4, <1>5, <1>7 DEF CachesOK

(* Time fills the buckets, none above its burst. *)
LEMMA RefilledFacts ==
    ASSUME NEW c, NEW b \in Bucket, b.level <= BurstOf(c) * Minute
    PROVE  /\ Refilled(c, b) \in Bucket
           /\ Refilled(c, b).key = b.key
           /\ Refilled(c, b).level <= BurstOf(c) * Minute
           /\ Refilled(c, b).level <= b.level + RateOf(c)
           /\ \/ Refilled(c, b).level = BurstOf(c) * Minute
              \/ Refilled(c, b).level = b.level + RateOf(c)
<1> DEFINE full == BurstOf(c) * Minute
<1>1. full \in Nat /\ RateOf(c) \in Nat /\ b.level \in Nat /\ b.key \in Keys \cup Users
  BY Rates DEF Bucket
<1>2. Refilled(c, b) = [b EXCEPT !.level = IF @ + RateOf(c) > full THEN full ELSE @ + RateOf(c)]
  BY DEF Refilled
<1> HIDE DEF full
<1>3. /\ Refilled(c, b) \in Bucket /\ Refilled(c, b).key = b.key
      /\ Refilled(c, b).level = IF b.level + RateOf(c) > full THEN full ELSE b.level + RateOf(c)
  BY <1>1, <1>2 DEF Bucket
<1>4. b.level <= full
  BY DEF full
<1>5. /\ Refilled(c, b).level <= full
      /\ Refilled(c, b).level <= b.level + RateOf(c)
      /\ Refilled(c, b).level = full \/ Refilled(c, b).level = b.level + RateOf(c)
  BY <1>1, <1>3, <1>4
<1> QED
  BY <1>3, <1>5 DEF full

(* What the passing of time does to the answers and the buckets. *)
LEMMA TickFacts ==
    ASSUME CachesOK, Tick
    PROVE  /\ CachesOK'
           /\ \A c \in Caches : /\ DOMAIN buckets'[c] = DOMAIN buckets[c]
                                /\ Len(buckets'[c]) = Len(buckets[c])
                                /\ \A i \in DOMAIN buckets[c] :
                                      buckets'[c][i] = Refilled(c, buckets[c][i])
<1>1. ASSUME NEW c \in Caches
      PROVE  /\ Cache(c, buckets'[c])
             /\ DOMAIN buckets'[c] = DOMAIN buckets[c] /\ Len(buckets'[c]) = Len(buckets[c])
             /\ \A i \in DOMAIN buckets[c] : buckets'[c][i] = Refilled(c, buckets[c][i])
  <2> DEFINE s == buckets[c]
             t == buckets'[c]
  <2>1. t = [i \in DOMAIN s |-> Refilled(c, s[i])]
    BY DEF Tick
  <2>2. Cache(c, s)
    BY DEF CachesOK
  <2> HIDE DEF s, t
  <2>3. s \in Seq(Bucket) /\ Len(s) \in Nat /\ DOMAIN s = 1..Len(s)
    BY <2>2 DEF Cache
  <2>4. DOMAIN t = 1..Len(s) /\ \A i \in 1..Len(s) : t[i] = Refilled(c, s[i])
    BY <2>1, <2>3
  <2>5. \A i \in 1..Len(s) : s[i] \in Bucket /\ s[i].level <= BurstOf(c) * Minute
    BY <2>2, <2>3 DEF Cache
  <2>6. \A i \in 1..Len(s) : /\ t[i] \in Bucket /\ t[i].key = s[i].key
                            /\ t[i].level <= BurstOf(c) * Minute
    BY <2>4, <2>5, RefilledFacts
  <2>7. t \in Seq(Bucket) /\ Len(t) = Len(s)
    <3>1. t = [i \in DOMAIN t |-> t[i]]
      BY <2>1
    <3> QED
      BY <2>3, <2>4, <2>6, <3>1, Mapped
  <2>8. Cache(c, t)
    BY <2>2, <2>3, <2>4, <2>6, <2>7 DEF Cache
  <2> QED
    BY <2>3, <2>4, <2>7, <2>8 DEF s, t
<1>2. buckets' \in [Caches -> Seq(Bucket)]
  <2>1. buckets' = [c \in Caches |-> buckets'[c]]
    BY DEF Tick
  <2>2. \A c \in Caches : buckets'[c] \in Seq(Bucket)
    BY <1>1 DEF Cache
  <2> QED
    BY <2>1, <2>2
<1> QED
  BY <1>1, <1>2 DEF CachesOK

-----------------------------------------------------------------------------
(***************************************************************************)
(* The history: a step forgets the first m answers, and the others move to *)
(* the front, d units older.                                               *)
(***************************************************************************)

Moved(h, h2, m, d) ==
    /\ h \in Seq(Answer) /\ h2 \in Seq(Answer)
    /\ m \in 0..Len(h)
    /\ Len(h2) \in {Len(h) - m, Len(h) - m + 1}
    /\ \A i \in 1..(Len(h) - m) :
          /\ h2[i].by = h[i + m].by
          /\ h2[i].key = h[i + m].key
          /\ h2[i].ok = h[i + m].ok
          /\ h2[i].age = h[i + m].age + d

(* An answer is remembered with age 0. *)
LEMMA AnsweredMoved ==
    ASSUME HistoryType, NEW by \in Replicas \X {"fallback", "user", "redis"},
           NEW k \in Keys \cup Users, NEW ok \in BOOLEAN, Answered(by, k, ok)
    PROVE  \E m \in Nat :
              /\ Moved(recent, recent', m, 0)
              /\ Len(recent') = Len(recent) - m + 1
              /\ recent'[Len(recent')] = [by |-> by, key |-> k, ok |-> ok, age |-> 0]
<1> DEFINE kept == IF Len(recent) = MaxRecent THEN Tail(recent) ELSE recent
           a == [by |-> by, key |-> k, ok |-> ok, age |-> 0]
           m == IF Len(recent) = MaxRecent THEN 1 ELSE 0
<1>1. recent \in Seq(Answer) /\ Len(recent) \in Nat /\ MaxRecent \in Nat \ {0}
  BY RateLimiterAssumption DEF HistoryType
<1>2. /\ kept \in Seq(Answer) /\ Len(kept) = Len(recent) - m /\ m \in 0..Len(recent)
      /\ \A i \in 1..(Len(recent) - m) : kept[i] = recent[i + m]
  <2>1. CASE Len(recent) = MaxRecent
    <3>1. recent # << >>
      BY <1>1, <2>1, EmptySeq
    <3>2. /\ Tail(recent) \in Seq(Answer) /\ Len(Tail(recent)) = Len(recent) - 1
          /\ \A i \in 1..Len(Tail(recent)) : Tail(recent)[i] = recent[i + 1]
      BY <1>1, <3>1, HeadTailProperties
    <3> QED
      BY <1>1, <2>1, <3>2
  <2>2. CASE Len(recent) # MaxRecent
    <3>1. kept = recent /\ m = 0
      BY <2>2
    <3> HIDE DEF kept, m
    <3>2. Len(recent) - m = Len(recent) /\ m \in 0..Len(recent)
      BY <1>1, <3>1
    <3>3. ASSUME NEW i \in 1..Len(recent) PROVE kept[i] = recent[i + m]
      <4>1. i + m = i
        BY <1>1, <3>1
      <4> QED
        BY <3>1, <4>1
    <3>4. kept \in Seq(Answer) /\ Len(kept) = Len(recent) - m
      BY <1>1, <3>1, <3>2
    <3>5. \A i \in 1..(Len(recent) - m) : kept[i] = recent[i + m]
      BY <3>2, <3>3
    <3> QED
      BY <3>2, <3>4, <3>5
  <2> QED
    BY <2>1, <2>2
<1>3. recent' = Append(kept, a)
  BY DEF Answered
<1>4. a \in Answer
  BY DEF Answer
<1> HIDE DEF kept, m
<1>5. /\ recent' \in Seq(Answer) /\ Len(recent') = Len(kept) + 1 /\ recent'[Len(kept) + 1] = a
      /\ \A i \in 1..Len(kept) : recent'[i] = kept[i]
  BY <1>2, <1>3, <1>4, AppendProperties
<1>6. \A i \in 1..(Len(recent) - m) : recent'[i] = recent[i + m]
  BY <1>2, <1>5
<1>7. \A i \in 1..(Len(recent) - m) : i + m \in 1..Len(recent) /\ recent[i + m].age + 0 = recent[i + m].age
  <2>1. \A i \in 1..(Len(recent) - m) : i + m \in 1..Len(recent)
    BY <1>1, <1>2
  <2>2. ASSUME NEW i \in 1..Len(recent) PROVE recent[i].age \in Nat
    <3>1. recent[i] \in Answer
      BY <1>1
    <3> QED
      BY <3>1 DEF Answer
  <2> QED
    BY <2>1, <2>2
<1>8. Moved(recent, recent', m, 0)
  BY <1>1, <1>2, <1>5, <1>6, <1>7 DEF Moved
<1> QED
  BY <1>2, <1>5, <1>8

(* A unit of time forgets some of the first answers and ages the others. *)
LEMMA TickMoved ==
    ASSUME HistoryType, Tick
    PROVE  \E m \in Nat : Moved(recent, recent', m, 1) /\ Len(recent') = Len(recent) - m
<1> DEFINE old == {i \in DOMAIN recent : recent[i].age >= Horizon}
           m == Cardinality(old)
           kept == SubSeq(recent, m + 1, Len(recent))
<1>1. recent \in Seq(Answer) /\ Len(recent) \in Nat /\ DOMAIN recent = 1..Len(recent)
  BY DEF HistoryType
<1>2. m \in 0..Len(recent)
  <2>1. IsFiniteSet(1..Len(recent)) /\ Cardinality(1..Len(recent)) = Len(recent)
    BY <1>1, FS_Interval, SMTT(30)
  <2>2. old \in SUBSET (1..Len(recent))
    BY <1>1
  <2>3. IsFiniteSet(old) /\ Cardinality(old) <= Len(recent)
    BY <2>1, <2>2, FS_Subset
  <2>4. Cardinality(old) \in Nat
    BY <2>3, FS_CardinalityType
  <2> HIDE DEF old
  <2> QED
    BY <1>1, <2>3, <2>4
<1>3. recent' = [i \in DOMAIN kept |-> [kept[i] EXCEPT !.age = @ + 1]]
  BY DEF Tick
<1> HIDE DEF m
<1>4. /\ kept \in Seq(Answer) /\ Len(kept) = Len(recent) - m
      /\ \A i \in 1..(Len(recent) - m) : kept[i] = recent[i + m]
  BY <1>1, <1>2, RestShape
<1> HIDE DEF kept
<1>5. /\ DOMAIN recent' = 1..(Len(recent) - m)
      /\ \A i \in 1..(Len(recent) - m) : recent'[i] = [recent[i + m] EXCEPT !.age = @ + 1]
  BY <1>3, <1>4
<1>6. ASSUME NEW i \in 1..(Len(recent) - m)
      PROVE  /\ recent'[i] \in Answer
             /\ recent'[i].by = recent[i + m].by /\ recent'[i].key = recent[i + m].key
             /\ recent'[i].ok = recent[i + m].ok /\ recent'[i].age = recent[i + m].age + 1
  <2>1. recent[i + m] \in Answer
    BY <1>4
  <2>2. recent'[i] = [recent[i + m] EXCEPT !.age = @ + 1]
    BY <1>5
  <2> QED
    BY <2>1, <2>2 DEF Answer
<1>7. recent' \in Seq(Answer) /\ Len(recent') = Len(recent) - m
  <2>1. recent' = [i \in DOMAIN recent' |-> recent'[i]]
    BY <1>3
  <2>2. Len(recent) - m \in Nat
    BY <1>1, <1>2
  <2> QED
    BY <1>5, <1>6, <2>1, <2>2, Mapped
<1>8. Moved(recent, recent', m, 1)
  BY <1>1, <1>2, <1>6, <1>7 DEF Moved
<1> QED
  BY <1>2, <1>7, <1>8

(* Nothing happens to the history. *)
LEMMA SameMoved ==
    ASSUME HistoryType
    PROVE  Moved(recent, recent, 0, 0)
<1>1. recent \in Seq(Answer) /\ Len(recent) \in Nat
  BY DEF HistoryType
<1>2. Len(recent) - 0 = Len(recent) /\ 0 \in 0..Len(recent)
  BY <1>1
<1>3. ASSUME NEW i \in 1..Len(recent)
      PROVE  i + 0 = i /\ recent[i].age + 0 = recent[i].age
  <2>1. recent[i] \in Answer
    BY <1>1
  <2> QED
    BY <1>1, <2>1 DEF Answer
<1> QED
  BY <1>1, <1>2, <1>3 DEF Moved

-----------------------------------------------------------------------------
(* A set of places that moves to the front gets no larger. *)
LEMMA ShiftCount ==
    ASSUME NEW m \in Nat, NEW A, IsFiniteSet(A), NEW B \in SUBSET Nat, \A x \in B : x + m \in A
    PROVE  IsFiniteSet(B) /\ Cardinality(B) \in Nat /\ Cardinality(B) <= Cardinality(A)
<1> DEFINE f == [x \in B |-> x + m]
<1>1. f \in [B -> A]
  OBVIOUS
<1>2. \A x, y \in B : f[x] = f[y] => x = y
  OBVIOUS
<1>3. f \in Injection(B, A)
  BY <1>1, <1>2 DEF Injection, IsInjective
<1>4. IsFiniteSet(B) /\ Cardinality(B) <= Cardinality(A)
  BY <1>3, FS_Injection
<1> QED
  BY <1>4, FS_CardinalityType

(* What is counted is finite, so the counts are numbers. *)
LEMMA GrantsFinite ==
    ASSUME NEW h, NEW c, NEW k, NEW i \in Nat, NEW j \in Nat
    PROVE  /\ IsFiniteSet(GrantsOf(h, c, k, i, j)) /\ Cardinality(GrantsOf(h, c, k, i, j)) \in Nat
           /\ IsFiniteSet(WindowOf(h, k, i, j)) /\ Cardinality(WindowOf(h, k, i, j)) \in Nat
           /\ IsFiniteSet(YoungOf(h, k, i, j)) /\ Cardinality(YoungOf(h, k, i, j)) \in Nat
           /\ IsFiniteSet(UsesOf(h, c, i, j))
<1>1. IsFiniteSet(i..j)
  BY FS_Interval
<1>2. /\ GrantsOf(h, c, k, i, j) \in SUBSET (i..j) /\ WindowOf(h, k, i, j) \in SUBSET (i..j)
      /\ YoungOf(h, k, i, j) \in SUBSET (i..j) /\ UsesOf(h, c, i, j) \in SUBSET (i..j)
  BY DEF GrantsOf, WindowOf, YoungOf, UsesOf
<1>3. \A S \in SUBSET (i..j) : IsFiniteSet(S) /\ Cardinality(S) \in Nat
  BY <1>1, FS_Subset, FS_CardinalityType
<1> QED
  BY <1>2, <1>3

(* The keys a cache was used for are finitely many. *)
LEMMA OthersFinite ==
    ASSUME NEW h, NEW c, NEW k, NEW i \in Nat, NEW j \in Nat
    PROVE  IsFiniteSet(OthersOf(h, c, k, i, j)) /\ Cardinality(OthersOf(h, c, k, i, j)) \in Nat
<1> DEFINE U == UsesOf(h, c, i, j)
           T == {h[n].key : n \in U}
           f == [n \in U |-> h[n].key]
<1>1. f \in Surjection(U, T)
  BY DEF Surjection
<1>2. IsFiniteSet(U)
  BY GrantsFinite
<1> HIDE DEF f, U
<1>3. IsFiniteSet(T)
  BY <1>1, <1>2, FS_Surjection
<1> HIDE DEF T
<1>4. T \ {k} \in SUBSET T
  OBVIOUS
<1>5. IsFiniteSet(T \ {k}) /\ Cardinality(T \ {k}) \in Nat
  BY <1>3, <1>4, FS_Subset, FS_CardinalityType
<1> QED
  BY <1>5 DEF OthersOf, T, U

-----------------------------------------------------------------------------
(***************************************************************************)
(* What a history says after a step, from what it said before.             *)
(***************************************************************************)

(* The step remembers a use of cache c. *)
NewUse(m, c) == Len(recent') = Len(recent) - m + 1 /\ recent'[Len(recent')].by = c

(* Between two places, moved by m. *)
LEMMA Places ==
    ASSUME NEW a \in Nat, NEW b \in Nat, NEW m \in 0..a, b = a - m \/ b = a - m + 1
    PROVE  /\ m \in Nat /\ m <= a
           /\ \A i \in 1..b : i \in 1..(a - m) \/ (i = b /\ b = a - m + 1)
           /\ \A i \in 1..(a - m) : i \in 1..b /\ i + m \in 1..a
  OBVIOUS

(* Where an answer was before the step. *)
LEMMA MovedPlace ==
    ASSUME NEW m, NEW d, Moved(recent, recent', m, d)
    PROVE  /\ Len(recent) \in Nat /\ Len(recent') \in Nat /\ m \in Nat /\ m <= Len(recent)
           /\ Len(recent') = Len(recent) - m \/ Len(recent') = Len(recent) - m + 1
           /\ \A i \in 1..Len(recent') : \/ i \in 1..(Len(recent) - m)
                                         \/ i = Len(recent') /\ Len(recent') = Len(recent) - m + 1
           /\ \A i \in 1..(Len(recent) - m) : i \in 1..Len(recent') /\ i + m \in 1..Len(recent)
           /\ DOMAIN recent = 1..Len(recent) /\ DOMAIN recent' = 1..Len(recent')
<1>1. /\ Len(recent) \in Nat /\ Len(recent') \in Nat /\ m \in 0..Len(recent)
      /\ Len(recent') = Len(recent) - m \/ Len(recent') = Len(recent) - m + 1
  BY DEF Moved
<1>2. DOMAIN recent = 1..Len(recent) /\ DOMAIN recent' = 1..Len(recent')
  BY DEF Moved
<1> DEFINE a == Len(recent)
           b == Len(recent')
<1>3. /\ m \in Nat /\ m <= a
      /\ \A i \in 1..b : i \in 1..(a - m) \/ (i = b /\ b = a - m + 1)
      /\ \A i \in 1..(a - m) : i \in 1..b /\ i + m \in 1..a
  <2>1. a \in Nat /\ b \in Nat /\ m \in 0..a /\ (b = a - m \/ b = a - m + 1)
    BY <1>1
  <2> HIDE DEF a, b
  <2> QED
    BY <2>1, Places
<1> QED
  BY <1>1, <1>2, <1>3

(* An answer that is moved keeps all but its age. *)
LEMMA MovedEntry ==
    ASSUME NEW m, NEW d \in {0, 1}, Moved(recent, recent', m, d),
           NEW i \in 1..(Len(recent) - m)
    PROVE  /\ recent'[i].by = recent[i + m].by /\ recent'[i].key = recent[i + m].key
           /\ recent'[i].ok = recent[i + m].ok /\ recent'[i].age = recent[i + m].age + d
           /\ recent[i + m].age \in Nat /\ recent'[i].age \in Nat
           /\ recent[i + m].key \in Keys \cup Users
           /\ recent[i + m].ok \in BOOLEAN
<1>1. /\ recent'[i].by = recent[i + m].by /\ recent'[i].key = recent[i + m].key
      /\ recent'[i].ok = recent[i + m].ok /\ recent'[i].age = recent[i + m].age + d
  BY DEF Moved
<1>2. recent[i + m] \in Answer
  <2>1. i + m \in 1..Len(recent)
    BY MovedPlace
  <2> QED
    BY <2>1 DEF Moved
<1>3. recent[i + m].age \in Nat /\ recent[i + m].key \in Keys \cup Users /\ recent[i + m].ok \in BOOLEAN
  BY <1>2 DEF Answer
<1> QED
  BY <1>1, <1>3

(* Moving the answers adds none to what is counted of them. *)
LEMMA MovedCounts ==
    ASSUME NEW m, NEW d \in {0, 1}, Moved(recent, recent', m, d),
           NEW i \in Nat, NEW j \in Nat, i >= 1, j <= Len(recent) - m, NEW c, NEW k
    PROVE  /\ Cardinality(GrantsOf(recent', c, k, i, j))
                 <= Cardinality(GrantsOf(recent, c, k, i + m, j + m))
           /\ Cardinality(WindowOf(recent', k, i, j))
                 <= Cardinality(WindowOf(recent, k, i + m, j + m))
           /\ Cardinality(YoungOf(recent', k, i, j))
                 <= Cardinality(YoungOf(recent, k, i + m, j + m))
<1>1. m \in Nat /\ Len(recent) \in Nat /\ i + m \in Nat /\ j + m \in Nat
  BY MovedPlace
<1>2. ASSUME NEW n \in i..j PROVE n \in 1..(Len(recent) - m) /\ n + m \in (i + m)..(j + m)
  BY <1>1
<1>3. /\ GrantsOf(recent', c, k, i, j) \in SUBSET Nat /\ WindowOf(recent', k, i, j) \in SUBSET Nat
      /\ YoungOf(recent', k, i, j) \in SUBSET Nat
  BY DEF GrantsOf, WindowOf, YoungOf
<1>4. ASSUME NEW n \in i..j
      PROVE  /\ recent'[n].by = recent[n + m].by /\ recent'[n].key = recent[n + m].key
             /\ recent'[n].ok = recent[n + m].ok
  BY <1>2, MovedEntry
<1>5. ASSUME NEW n \in GrantsOf(recent', c, k, i, j)
      PROVE  n + m \in GrantsOf(recent, c, k, i + m, j + m)
  <2>1. n \in i..j /\ recent'[n].by = c /\ recent'[n].key = k /\ recent'[n].ok
    BY DEF GrantsOf
  <2> QED
    BY <1>2, <1>4, <2>1 DEF GrantsOf
<1>6. ASSUME NEW n \in WindowOf(recent', k, i, j)
      PROVE  n + m \in WindowOf(recent, k, i + m, j + m)
  <2>1. n \in i..j /\ recent'[n].key = k /\ recent'[n].ok /\ recent'[n].by[2] = "redis"
    BY DEF WindowOf
  <2> QED
    BY <1>2, <1>4, <2>1 DEF WindowOf
<1>7. ASSUME NEW n \in YoungOf(recent', k, i, j) PROVE n + m \in YoungOf(recent, k, i + m, j + m)
  <2>1. n \in i..j /\ n \in WindowOf(recent', k, i, j) /\ recent'[n].age < Minute
    BY DEF YoungOf, WindowOf
  <2>2. recent'[n].age = recent[n + m].age + d /\ recent[n + m].age \in Nat
    BY <1>2, <2>1, MovedEntry
  <2>3. Minute \in Nat
    BY RateLimiterAssumption
  <2>4. recent[n + m].age < Minute
    BY <2>1, <2>2, <2>3
  <2> QED
    BY <1>6, <2>1, <2>4 DEF YoungOf
<1> QED
  BY <1>1, <1>3, <1>5, <1>6, <1>7, GrantsFinite, ShiftCount

(* Nor does it change the other keys used. *)
LEMMA MovedOthers ==
    ASSUME NEW m, NEW d \in {0, 1}, Moved(recent, recent', m, d),
           NEW i \in Nat, NEW j \in Nat, i >= 1, j <= Len(recent) - m, NEW c, NEW k
    PROVE  OthersOf(recent', c, k, i, j) = OthersOf(recent, c, k, i + m, j + m)
<1>1. m \in Nat /\ Len(recent) \in Nat /\ i + m \in Nat /\ j + m \in Nat
  BY MovedPlace
<1>2. ASSUME NEW n \in i..j
      PROVE  n \in 1..(Len(recent) - m) /\ n + m \in (i + m)..(j + m)
  BY <1>1
<1>3. ASSUME NEW o \in OthersOf(recent', c, k, i, j) PROVE o \in OthersOf(recent, c, k, i + m, j + m)
  <2>1. o # k /\ \E n \in i..j : recent'[n].by = c /\ recent'[n].key = o
    BY DEF OthersOf, UsesOf
  <2>2. PICK n \in i..j : recent'[n].by = c /\ recent'[n].key = o
    BY <2>1
  <2>3. n + m \in (i + m)..(j + m) /\ recent[n + m].by = c /\ recent[n + m].key = o
    BY <1>2, <2>2, MovedEntry
  <2> QED
    BY <2>1, <2>3 DEF OthersOf, UsesOf
<1>4. ASSUME NEW o \in OthersOf(recent, c, k, i + m, j + m) PROVE o \in OthersOf(recent', c, k, i, j)
  <2>1. o # k /\ \E n \in (i + m)..(j + m) : recent[n].by = c /\ recent[n].key = o
    BY DEF OthersOf, UsesOf
  <2>2. PICK n \in (i + m)..(j + m) : recent[n].by = c /\ recent[n].key = o
    BY <2>1
  <2>3. n - m \in i..j /\ (n - m) + m = n
    BY <1>1, <2>2
  <2>4. PICK x \in i..j : x + m = n
    BY <2>3
  <2>5. recent'[x].by = c /\ recent'[x].key = o
    BY <1>2, <2>2, <2>4, MovedEntry
  <2> QED
    BY <2>1, <2>4, <2>5 DEF OthersOf, UsesOf
<1> QED
  BY <1>3, <1>4

(* The places up to the last answer, when at most one was added. *)
LEMMA Ends ==
    ASSUME NEW e \in Nat, NEW i \in 1..e, NEW b \in Nat, b = e \/ b = e + 1
    PROVE  /\ \A n \in i..b : n \in i..e \/ (n = b /\ b = e + 1)
           /\ \A n \in i..e : n \in i..b
           /\ b = e + 1 => b \in i..b /\ b \notin i..e
  OBVIOUS

(* Up to the end of the history, when the step uses another cache or none. *)
LEMMA QuietPast ==
    ASSUME NEW m, NEW d \in {0, 1}, Moved(recent, recent', m, d), NEW c, NEW k,
           NEW i \in 1..(Len(recent) - m), ~NewUse(m, c)
    PROVE  /\ OthersOf(recent', c, k, i, Len(recent')) = OthersOf(recent, c, k, i + m, Len(recent))
           /\ Cardinality(GrantsOf(recent', c, k, i, Len(recent')))
                 <= Cardinality(GrantsOf(recent, c, k, i + m, Len(recent)))
<1> DEFINE e == Len(recent) - m
<1>1. /\ m \in Nat /\ Len(recent) \in Nat /\ Len(recent') \in Nat /\ i \in Nat /\ i >= 1
      /\ e \in Nat /\ e <= Len(recent) - m /\ e + m = Len(recent)
  BY MovedPlace
<1>2. Len(recent') = e \/ Len(recent') = e + 1
  BY MovedPlace
<1>3. /\ \A n \in i..Len(recent') : n \in i..e \/ (n = Len(recent') /\ Len(recent') = e + 1)
      /\ \A n \in i..e : n \in i..Len(recent')
  <2>1. i \in 1..e
    OBVIOUS
  <2> HIDE DEF e
  <2> QED
    BY <1>1, <1>2, <2>1, Ends
<1>4. ASSUME NEW n \in i..Len(recent'), recent'[n].by = c PROVE n \in i..e
  BY <1>4, <1>3 DEF NewUse
<1>5. \A n \in i..e : n \in i..Len(recent')
  BY <1>3
<1>6. UsesOf(recent', c, i, Len(recent')) = UsesOf(recent', c, i, e)
  BY <1>4, <1>5 DEF UsesOf
<1>7. GrantsOf(recent', c, k, i, Len(recent')) = GrantsOf(recent', c, k, i, e)
  BY <1>4, <1>5 DEF GrantsOf
<1>8. OthersOf(recent', c, k, i, Len(recent')) = OthersOf(recent', c, k, i, e)
  BY <1>6 DEF OthersOf
<1> HIDE DEF e
<1> QED
  BY <1>1, <1>7, <1>8, MovedOthers, MovedCounts

(* When it is a use of c. *)
LEMMA UsedPast ==
    ASSUME NEW m, Moved(recent, recent', m, 0), NEW c, NEW k,
           NEW i \in 1..(Len(recent) - m), NewUse(m, c)
    PROVE  /\ OthersOf(recent', c, k, i, Len(recent'))
                 = OthersOf(recent, c, k, i + m, Len(recent)) \cup ({recent'[Len(recent')].key} \ {k})
           /\ Cardinality(GrantsOf(recent', c, k, i, Len(recent')))
                 <= Cardinality(GrantsOf(recent, c, k, i + m, Len(recent)))
                       + IF recent'[Len(recent')].key = k /\ recent'[Len(recent')].ok THEN 1 ELSE 0
<1> DEFINE e == Len(recent) - m
           a == recent'[Len(recent')]
           G == GrantsOf(recent', c, k, i, e)
           g == Cardinality(GrantsOf(recent, c, k, i + m, Len(recent)))
<1>1. PICK d \in {0, 1} : Moved(recent, recent', m, d)
  OBVIOUS
<1>2. /\ m \in Nat /\ Len(recent) \in Nat /\ Len(recent') \in Nat /\ i \in Nat /\ i >= 1
      /\ e \in Nat /\ e <= Len(recent) - m /\ e + m = Len(recent) /\ i <= e
  BY <1>1, MovedPlace
<1>3. Len(recent') = e + 1 /\ a.by = c
  BY DEF NewUse
<1>4. \A n \in i..Len(recent') : n \in i..e \/ n = Len(recent')
  BY <1>2, <1>3
<1>5. (\A n \in i..e : n \in i..Len(recent')) /\ Len(recent') \in i..Len(recent') /\ Len(recent') \notin i..e
  BY <1>2, <1>3
<1>6. UsesOf(recent', c, i, Len(recent')) = UsesOf(recent', c, i, e) \cup {Len(recent')}
  BY <1>3, <1>4, <1>5, Zenon DEF UsesOf
<1>7. OthersOf(recent', c, k, i, Len(recent')) = OthersOf(recent', c, k, i, e) \cup ({a.key} \ {k})
  BY <1>6 DEF OthersOf
<1>8. GrantsOf(recent', c, k, i, Len(recent')) = IF a.key = k /\ a.ok THEN G \cup {Len(recent')} ELSE G
  BY <1>3, <1>4, <1>5 DEF GrantsOf
<1>9. IsFiniteSet(G) /\ Cardinality(G) \in Nat /\ Cardinality(G \cup {Len(recent')}) = Cardinality(G) + 1
  <2>1. IsFiniteSet(G) /\ Cardinality(G) \in Nat
    BY <1>2, GrantsFinite
  <2>2. Len(recent') \notin G
    BY <1>5 DEF GrantsOf
  <2> HIDE DEF G
  <2>3. Cardinality(G \cup {Len(recent')}) = Cardinality(G) + 1
    BY <2>1, <2>2, FS_AddElement
  <2> QED
    BY <2>1, <2>3
<1>10. Cardinality(G) <= g /\ g \in Nat
  <2> HIDE DEF e
  <2>1. Cardinality(G) <= Cardinality(GrantsOf(recent, c, k, i + m, e + m))
    BY <1>1, <1>2, MovedCounts
  <2>2. i + m \in Nat
    BY <1>2
  <2> QED
    BY <1>2, <2>1, <2>2, GrantsFinite
<1>11. OthersOf(recent', c, k, i, e) = OthersOf(recent, c, k, i + m, Len(recent))
  <2> HIDE DEF e
  <2> QED
    BY <1>1, <1>2, MovedOthers, SMTT(30)
<1>12. Cardinality(GrantsOf(recent', c, k, i, Len(recent'))) <= g + IF a.key = k /\ a.ok THEN 1 ELSE 0
  <2>1. CASE a.key = k /\ a.ok
    <3>1. Cardinality(GrantsOf(recent', c, k, i, Len(recent'))) = Cardinality(G \cup {Len(recent')})
      BY <1>8, <2>1
    <3>2. Cardinality(GrantsOf(recent', c, k, i, Len(recent'))) = Cardinality(G) + 1
      BY <1>9, <3>1
    <3> HIDE DEF G, g, a
    <3> QED
      BY <1>9, <1>10, <2>1, <3>2
  <2>2. CASE ~(a.key = k /\ a.ok)
    <3>1. Cardinality(GrantsOf(recent', c, k, i, Len(recent'))) = Cardinality(G)
      BY <1>8, <2>2
    <3> HIDE DEF G, g, a
    <3> QED
      BY <1>9, <1>10, <2>2, <3>1
  <2> QED
    BY <2>1, <2>2
<1>13. OthersOf(recent', c, k, i, Len(recent')) = OthersOf(recent, c, k, i + m, Len(recent)) \cup ({a.key} \ {k})
  BY <1>7, <1>11
<1> QED
  BY <1>12, <1>13

-----------------------------------------------------------------------------
(***************************************************************************)
(* The steps, as one key's request, one cache and one counter see them.    *)
(***************************************************************************)

(* Of the answers and the buckets, a step changes nothing, or uses one     *)
(* cache, or remembers an answer of Redis, or lets time pass.              *)
LEMMA StepKinds ==
    ASSUME KeyHeld, [Next]_vars
    PROVE  \/ recent' = recent /\ buckets' = buckets
           \/ \E d \in Caches, k \in Keys \cup Users : allow(d, k)
           \/ \E w \in Workers, k \in Keys :
                 Answered(<<Home[w], "redis">>, k, TRUE) /\ buckets' = buckets
           \/ Tick
<1>1. ASSUME NEW w \in Workers, NEW k \in Keys, Arrive(w, k)
      PROVE  recent' = recent /\ buckets' = buckets
  BY <1>1 DEF Arrive
<1>2. ASSUME NEW w \in Workers, Incr(w)
      PROVE  \/ recent' = recent /\ buckets' = buckets
             \/ \E k \in Keys : Answered(<<Home[w], "redis">>, k, TRUE) /\ buckets' = buckets
  <2>1. job[w].key \in Keys
    BY <1>2 DEF Incr, KeyHeld
  <2> QED
    BY <1>2, <2>1 DEF Incr
<1>3. ASSUME NEW w \in Workers, ExpireNX(w) PROVE recent' = recent /\ buckets' = buckets
  BY <1>3 DEF ExpireNX
<1>4. ASSUME NEW w \in Workers, Decide(w) PROVE recent' = recent /\ buckets' = buckets
  BY <1>4 DEF Decide
<1>5. ASSUME NEW w \in Workers, PipelineFails(w)
      PROVE  \E d \in Caches, k \in Keys \cup Users : allow(d, k)
  <2>1. job[w].key \in Keys
    BY <1>5 DEF PipelineFails, KeyHeld
  <2>2. <<Home[w], "fallback">> \in Caches
    BY RateLimiterAssumption DEF Caches
  <2>3. allow(<<Home[w], "fallback">>, job[w].key)
    BY <1>5 DEF PipelineFails, Fallback
  <2> QED
    BY <2>1, <2>2, <2>3
<1>6. ASSUME NEW w \in Workers, Finish(w) PROVE recent' = recent /\ buckets' = buckets
  BY <1>6 DEF Finish
<1>7. ASSUME NEW r \in Replicas, NEW u \in Users, UserRequest(r, u)
      PROVE  \E d \in Caches, k \in Keys \cup Users : allow(d, k)
  <2>1. <<r, "user">> \in Caches
    BY DEF Caches
  <2> QED
    BY <1>7, <2>1 DEF UserRequest
<1>8. CASE UNCHANGED vars
  BY <1>8 DEF vars
<1> QED
  BY <1>1, <1>2, <1>3, <1>4, <1>5, <1>6, <1>7, <1>8 DEF Next

-----------------------------------------------------------------------------
(* Of key k, a step changes nothing, adds the expiry that is missing,      *)
(* counts a request, or lets time pass.                                    *)
LEMMA CounterKinds ==
    ASSUME counter \in [Keys -> Counter \cup {NoCounter}], KeyHeld, [Next]_vars, NEW k \in Keys
    PROVE  \/ counter'[k] = counter[k] /\ recent' = recent
           \/ /\ counter'[k] = counter[k]
              /\ \E d \in Caches, q \in Keys \cup Users : allow(d, q)
           \/ /\ counter'[k] = counter[k]
              /\ \E w \in Workers, q \in Keys \ {k} : Answered(<<Home[w], "redis">>, q, TRUE)
           \/ /\ counter[k] # NoCounter /\ counter[k].ttl = Never
              /\ counter'[k] = [counter[k] EXCEPT !.ttl = Minute] /\ recent' = recent
           \/ /\ counter'[k] = Incremented(k) /\ counter'[k].count > Limit /\ recent' = recent
           \/ /\ counter'[k] = Incremented(k) /\ counter'[k].count <= Limit
              /\ \E w \in Workers : Answered(<<Home[w], "redis">>, k, TRUE)
           \/ counter'[k] = Aged(k) /\ Tick
<1>1. ASSUME NEW w \in Workers, NEW q \in Keys, Arrive(w, q)
      PROVE  counter'[k] = counter[k] /\ recent' = recent
  BY <1>1 DEF Arrive
<1>2. ASSUME NEW w \in Workers, Incr(w), job[w].key = k
      PROVE  /\ counter'[k] = Incremented(k)
             /\ \/ counter'[k].count > Limit /\ recent' = recent
                \/ ~(counter'[k].count > Limit) /\ Answered(<<Home[w], "redis">>, k, TRUE)
  BY <1>2 DEF Incr, OverLimit
<1>3. ASSUME NEW w \in Workers, Incr(w), job[w].key # k
      PROVE  /\ counter'[k] = counter[k]
             /\ \/ recent' = recent
                \/ \E q \in Keys \ {k} : Answered(<<Home[w], "redis">>, q, TRUE)
  <2>1. job[w].key \in Keys \ {k}
    BY <1>3 DEF Incr, KeyHeld
  <2> QED
    BY <1>3, <2>1 DEF Incr
<1>4. ASSUME NEW w \in Workers, ExpireNX(w)
      PROVE  /\ recent' = recent
             /\ \/ counter'[k] = counter[k]
                \/ /\ counter[k] # NoCounter /\ counter[k].ttl = Never
                   /\ counter'[k] = [counter[k] EXCEPT !.ttl = Minute]
  BY <1>4 DEF ExpireNX
<1>5. ASSUME NEW w \in Workers, Decide(w) PROVE counter'[k] = counter[k] /\ recent' = recent
  BY <1>5 DEF Decide
<1>6. ASSUME NEW w \in Workers, PipelineFails(w)
      PROVE  /\ counter'[k] = counter[k]
             /\ \E d \in Caches, q \in Keys \cup Users : allow(d, q)
  <2>1. job[w].key \in Keys
    BY <1>6 DEF PipelineFails, KeyHeld
  <2>2. <<Home[w], "fallback">> \in Caches
    BY RateLimiterAssumption DEF Caches
  <2>3. allow(<<Home[w], "fallback">>, job[w].key) /\ counter'[k] = counter[k]
    BY <1>6 DEF PipelineFails, Fallback
  <2> QED
    BY <2>1, <2>2, <2>3
<1>7. ASSUME NEW w \in Workers, Finish(w) PROVE counter'[k] = counter[k] /\ recent' = recent
  BY <1>7 DEF Finish
<1>8. ASSUME NEW r \in Replicas, NEW u \in Users, UserRequest(r, u)
      PROVE  /\ counter'[k] = counter[k]
             /\ \E d \in Caches, q \in Keys \cup Users : allow(d, q)
  <2>1. <<r, "user">> \in Caches
    BY DEF Caches
  <2> QED
    BY <1>8, <2>1 DEF UserRequest
<1>9. ASSUME Tick PROVE counter'[k] = Aged(k)
  BY <1>9 DEF Tick
<1>10. CASE UNCHANGED vars
  BY <1>10 DEF vars
<1>11. ASSUME counter'[k] = Incremented(k), ~(counter'[k].count > Limit)
       PROVE  counter'[k].count <= Limit
  <2>1. Incremented(k).count \in Nat
    BY RateLimiterAssumption DEF Incremented, Counter
  <2> QED
    BY <1>11, <2>1, Rates
<1>12. ASSUME NEW w \in Workers, Incr(w), job[w].key = k
       PROVE  \/ counter'[k] = Incremented(k) /\ counter'[k].count > Limit /\ recent' = recent
              \/ /\ counter'[k] = Incremented(k) /\ counter'[k].count <= Limit
                 /\ Answered(<<Home[w], "redis">>, k, TRUE)
  BY <1>2, <1>11, <1>12, Zenon
<1> QED
  BY <1>1, <1>12, <1>3, <1>4, <1>5, <1>6, <1>7, <1>8, <1>9, <1>10 DEF Next
-----------------------------------------------------------------------------
(* Cache c is not used by the step; time may pass (d = 1). *)
Quiet(c, m, d) ==
    /\ Moved(recent, recent', m, d)
    /\ ~NewUse(m, c)
    /\ DOMAIN buckets'[c] = DOMAIN buckets[c]
    /\ Len(buckets'[c]) = Len(buckets[c])
    /\ \A p \in DOMAIN buckets[c] : buckets'[c][p].key = buckets[c][p].key
    /\ d = 0 => \A p \in DOMAIN buckets[c] : buckets'[c][p].level = buckets[c][p].level
    /\ d = 1 => \A p \in DOMAIN buckets[c] :
                   /\ buckets'[c][p].level <= buckets[c][p].level + RateOf(c)
                   /\ \/ buckets'[c][p].level = BurstOf(c) * Minute
                      \/ buckets'[c][p].level = buckets[c][p].level + RateOf(c)

(* The step uses cache c for key k. *)
Used(c, k, m, x) ==
    /\ Moved(recent, recent', m, 0)
    /\ Len(recent') = Len(recent) - m + 1
    /\ recent'[Len(recent')] = [by |-> c, key |-> k, ok |-> HasToken(c, k), age |-> 0]
    /\ StoredAt(buckets[c], AfterUse(c, k), buckets'[c], x)

Viewed(c) ==
    \/ \E m : \E d \in {0, 1} : Quiet(c, m, d)
    \/ \E k \in Keys \cup Users : \E m, x : Used(c, k, m, x)

(* What a step does to one cache: it is left alone or aged, or it is used  *)
(* once, by a request that finds the bucket of its key or a fresh one.     *)
LEMMA CacheKinds ==
    ASSUME HistoryType, CachesOK, KeyHeld, [Next]_vars
    PROVE  HistoryType' /\ CachesOK' /\ \A c \in Caches : Viewed(c)
<1> DEFINE Goal == HistoryType' /\ CachesOK' /\ \A c \in Caches : Viewed(c)
<1>1. ASSUME recent' = recent, buckets' = buckets PROVE Goal
  <2>1. Moved(recent, recent', 0, 0)
    BY <1>1, SameMoved
  <2>2. HistoryType' /\ CachesOK'
    BY <1>1 DEF HistoryType, CachesOK
  <2>3. ASSUME NEW c \in Caches PROVE ~NewUse(0, c)
    <3>1. Len(recent) \in Nat
      BY DEF HistoryType
    <3> QED
      BY <1>1, <3>1 DEF NewUse
  <2>4. ASSUME NEW c \in Caches PROVE Quiet(c, 0, 0)
    BY <1>1, <2>1, <2>3 DEF Quiet
  <2>5. \A c \in Caches : Viewed(c)
    BY <2>4 DEF Viewed
  <2> QED
    BY <2>2, <2>5
<1>2. ASSUME NEW e \in Caches, NEW k \in Keys \cup Users, allow(e, k)
      PROVE  Goal
  <2>1. Answered(e, k, HasToken(e, k))
    BY <1>2 DEF allow
  <2>2. e \in Replicas \X {"fallback", "user", "redis"} /\ HasToken(e, k) \in BOOLEAN
    BY DEF Caches, HasToken
  <2>3. PICK m \in Nat :
           /\ Moved(recent, recent', m, 0)
           /\ Len(recent') = Len(recent) - m + 1
           /\ recent'[Len(recent')] = [by |-> e, key |-> k, ok |-> HasToken(e, k), age |-> 0]
    BY <2>1, <2>2, AnsweredMoved
  <2>4. /\ CachesOK'
        /\ \A c \in Caches \ {e} : buckets'[c] = buckets[c]
        /\ \E x : StoredAt(buckets[e], AfterUse(e, k), buckets'[e], x)
    BY <1>2, AllowFacts
  <2>5. \E x : Used(e, k, m, x)
    BY <2>3, <2>4 DEF Used
  <2>6. ASSUME NEW c \in Caches \ {e} PROVE Quiet(c, m, 0)
    <3>1. ~NewUse(m, c)
      BY <2>3 DEF NewUse
    <3> QED
      BY <2>3, <2>4, <3>1 DEF Quiet
  <2>7. HistoryType'
    BY <2>3 DEF Moved, HistoryType
  <2>8. \A c \in Caches : Viewed(c)
    BY <2>5, <2>6 DEF Viewed
  <2> QED
    BY <2>4, <2>7, <2>8
<1>3. ASSUME NEW w \in Workers, NEW k \in Keys, Answered(<<Home[w], "redis">>, k, TRUE),
             buckets' = buckets
      PROVE  Goal
  <2>1. <<Home[w], "redis">> \in Replicas \X {"fallback", "user", "redis"}
    BY RateLimiterAssumption
  <2>2. PICK m \in Nat :
           /\ Moved(recent, recent', m, 0)
           /\ Len(recent') = Len(recent) - m + 1
           /\ recent'[Len(recent')] = [by |-> <<Home[w], "redis">>, key |-> k, ok |-> TRUE, age |-> 0]
    BY <1>3, <2>1, AnsweredMoved
  <2>3. HistoryType' /\ CachesOK'
    BY <1>3, <2>2 DEF Moved, HistoryType, CachesOK
  <2>4. ASSUME NEW c \in Caches PROVE Quiet(c, m, 0)
    <3>1. c[2] # "redis"
      BY DEF Caches
    <3>2. ~NewUse(m, c)
      BY <2>2, <3>1 DEF NewUse
    <3> QED
      BY <1>3, <2>2, <3>2 DEF Quiet
  <2>5. \A c \in Caches : Viewed(c)
    BY <2>4 DEF Viewed
  <2> QED
    BY <2>3, <2>5
<1>4. ASSUME Tick PROVE Goal
  <2>1. PICK m \in Nat : Moved(recent, recent', m, 1) /\ Len(recent') = Len(recent) - m
    BY <1>4, TickMoved
  <2>2. HistoryType'
    BY <2>1 DEF Moved, HistoryType
  <2>3. /\ CachesOK'
        /\ \A c \in Caches : /\ DOMAIN buckets'[c] = DOMAIN buckets[c]
                             /\ Len(buckets'[c]) = Len(buckets[c])
                             /\ \A i \in DOMAIN buckets[c] :
                                   buckets'[c][i] = Refilled(c, buckets[c][i])
    BY <1>4, TickFacts
  <2>4. ASSUME NEW c \in Caches PROVE Quiet(c, m, 1)
    <3>1. ~NewUse(m, c)
      <4>1. Len(recent) \in Nat
        BY DEF HistoryType
      <4> QED
        BY <2>1, <4>1 DEF NewUse
    <3>2. \A p \in DOMAIN buckets[c] :
             buckets[c][p] \in Bucket /\ buckets[c][p].level <= BurstOf(c) * Minute
      BY DEF CachesOK, Cache
    <3>3. \A p \in DOMAIN buckets[c] :
             /\ buckets'[c][p].key = buckets[c][p].key
             /\ buckets'[c][p].level <= buckets[c][p].level + RateOf(c)
             /\ \/ buckets'[c][p].level = BurstOf(c) * Minute
                \/ buckets'[c][p].level = buckets[c][p].level + RateOf(c)
      BY <2>3, <3>2, RefilledFacts
    <3> QED
      BY <2>1, <2>3, <3>1, <3>3 DEF Quiet
  <2>5. \A c \in Caches : Viewed(c)
    BY <2>4 DEF Viewed
  <2> QED
    BY <2>2, <2>3, <2>5
<1> HIDE DEF Goal
<1>5. Goal
  BY <1>1, <1>2, <1>3, <1>4, StepKinds
<1> QED
  BY <1>5 DEF Goal

-----------------------------------------------------------------------------
(***************************************************************************)
(* The LRU order is kept.                                                  *)
(***************************************************************************)

(* What LruOrder says of cache c and key k, the others used being in T. *)
Kept(s, k, T) ==
    \E p \in 1..Len(s) : s[p].key = k /\ \A q \in (p + 1)..Len(s) : s[q].key \in T

(* CacheCap keys in a set of no more than that. *)
LEMMA Crowded ==
    ASSUME NEW c, NEW s, Cache(c, s), Len(s) = CacheCap,
           NEW T, IsFiniteSet(T), NEW k \in T,
           \A q \in 2..Len(s) : s[q].key \in T /\ s[q].key # k
    PROVE  Cardinality(T) >= CacheCap
<1> DEFINE f == [i \in 1..CacheCap |-> IF i = 1 THEN k ELSE s[i].key]
<1>1. CacheCap \in Nat /\ DOMAIN s = 1..CacheCap
  BY Rates DEF Cache
<1>2. ASSUME NEW i \in 1..CacheCap, i # 1 PROVE i \in 2..Len(s)
  BY <1>1, <1>2
<1>3. f \in [1..CacheCap -> T]
  BY <1>2
<1>4. \A i, j \in 1..CacheCap : f[i] = f[j] => i = j
  <2>1. \A i, j \in 1..CacheCap : s[i].key = s[j].key => i = j
    BY <1>1 DEF Cache
  <2> QED
    BY <1>2, <2>1
<1>5. f \in Injection(1..CacheCap, T)
  BY <1>3, <1>4 DEF Injection, IsInjective
<1>6. Cardinality(1..CacheCap) <= Cardinality(T)
  BY <1>5, FS_Injection
<1>7. Cardinality(1..CacheCap) = CacheCap
  BY <1>1, FS_Interval
<1>8. Cardinality(T) \in Nat
  BY FS_CardinalityType
<1> QED
  BY <1>1, <1>6, <1>7, <1>8

(* The bucket of another key is moved at most one place to the front, and  *)
(* evicted only when CacheCap others have been used.                       *)
LEMMA KeptStored ==
    ASSUME NEW c, NEW s, Cache(c, s), NEW b \in Bucket, NEW t, NEW x, StoredAt(s, b, t, x),
           NEW k, k # b.key, NEW T, IsFiniteSet(T), Cardinality(T) < CacheCap, b.key \in T,
           Kept(s, k, T)
    PROVE  Kept(t, k, T)
<1>1. PICK p \in 1..Len(s) : s[p].key = k /\ \A q \in (p + 1)..Len(s) : s[q].key \in T
  BY DEF Kept
<1>2. Len(s) \in Nat /\ Len(t) \in Nat /\ x \in 1..(Len(s) + 1)
  BY DEF Cache, StoredAt
<1>3. /\ Len(t) = IF x = Len(s) + 1 THEN Len(s) + 1 ELSE Len(s)
      /\ \A i \in 1..(Len(t) - 1) : t[i] = IF i < x THEN s[i] ELSE s[i + 1]
      /\ t[Len(t)] = b
  BY DEF StoredAt
<1>4. x # p
  <2>1. SUFFICES ASSUME x = p PROVE FALSE
    OBVIOUS
  <2>2. p <= Len(s)
    BY <1>2
  <2>3. x = 1 /\ Len(s) = CacheCap
    BY <1>1, <2>1, <2>2 DEF StoredAt
  <2>4. \A q \in 2..Len(s) : s[q].key \in T
    BY <1>1, <2>1, <2>3
  <2>5. \A q \in 2..Len(s) : s[q].key # b.key
    <3>1. \A q \in 2..Len(s) : q \in 1..Len(s) /\ q # x
      BY <1>2, <2>3
    <3> QED
      BY <3>1 DEF StoredAt
  <2>6. Cardinality(T) >= CacheCap
    BY <2>3, <2>4, <2>5, Crowded
  <2>7. Cardinality(T) \in Nat /\ CacheCap \in Nat
    BY FS_CardinalityType, Rates
  <2> QED
    BY <2>6, <2>7
<1> DEFINE y == IF p < x THEN p ELSE p - 1
<1>5. y \in 1..(Len(t) - 1) /\ (IF y < x THEN y ELSE y + 1) = p
  BY <1>2, <1>3, <1>4
<1>6. t[y].key = k
  BY <1>1, <1>3, <1>5
<1>7. ASSUME NEW q \in (y + 1)..Len(t) PROVE t[q].key \in T
  <2>1. CASE q = Len(t)
    BY <1>3, <2>1
  <2>2. CASE q # Len(t)
    <3>1. q \in 1..(Len(t) - 1) /\ (IF q < x THEN q ELSE q + 1) \in (p + 1)..Len(s)
      BY <1>2, <1>3, <1>4, <1>5, <2>2
    <3>2. t[q] = s[IF q < x THEN q ELSE q + 1]
      BY <1>3, <3>1
    <3> QED
      BY <1>1, <3>1, <3>2
  <2> QED
    BY <2>1, <2>2
<1>8. y \in 1..Len(t)
  BY <1>2, <1>5
<1> QED
  BY <1>6, <1>7, <1>8 DEF Kept

(* Every step keeps LruOrder. *)
LEMMA LruOrderStep ==
    ASSUME HistoryType, CachesOK, KeyHeld, LruOrder, [Next]_vars
    PROVE  LruOrder'
<1>1. ASSUME NEW c \in Caches, NEW n \in DOMAIN recent', recent'[n].by = c,
             Cardinality(OthersOf(recent', c, recent'[n].key, n, Len(recent'))) < CacheCap
      PROVE  Kept(buckets'[c], recent'[n].key, OthersOf(recent', c, recent'[n].key, n, Len(recent')))
  <2> DEFINE k == recent'[n].key
             T == OthersOf(recent', c, k, n, Len(recent'))
             s == buckets[c]
             t == buckets'[c]
  <2>1. Cache(c, s) /\ s \in Seq(Bucket) /\ Cache(c, t) /\ t \in Seq(Bucket)
    BY CacheKinds DEF CachesOK, Cache
  <2>2. \A i \in DOMAIN recent :
           (recent[i].by = c /\ Cardinality(OthersOf(recent, c, recent[i].key, i, Len(recent))) < CacheCap)
              => Kept(s, recent[i].key, OthersOf(recent, c, recent[i].key, i, Len(recent)))
    BY <2>1 DEF LruOrder, Kept
  <2>3. ASSUME NEW m, NEW d \in {0, 1}, Quiet(c, m, d)
        PROVE  Kept(t, k, T)
    <3>1. Moved(recent, recent', m, d) /\ ~NewUse(m, c)
      BY <2>3 DEF Quiet
    <3>2. n \in 1..(Len(recent) - m)
      BY <1>1, <3>1, MovedPlace DEF NewUse
    <3>3. recent[n + m].by = c /\ recent[n + m].key = k
      BY <1>1, <3>1, <3>2, MovedEntry
    <3>4. n + m \in DOMAIN recent
      BY <3>1, <3>2, MovedPlace
    <3>5. T = OthersOf(recent, c, k, n + m, Len(recent))
      BY <3>1, <3>2, QuietPast
    <3>6. Kept(s, k, T)
      BY <1>1, <2>2, <3>3, <3>4, <3>5
    <3>7. Len(t) = Len(s) /\ \A p \in 1..Len(s) : t[p].key = s[p].key
      BY <2>1, <2>3 DEF Quiet
    <3>8. Len(s) \in Nat
      BY <2>1
    <3>9. PICK p \in 1..Len(s) : s[p].key = k /\ \A q \in (p + 1)..Len(s) : s[q].key \in T
      BY <3>6 DEF Kept
    <3>10. \A q \in (p + 1)..Len(s) : q \in 1..Len(s)
      BY <3>8
    <3> HIDE DEF k, T, s, t
    <3> QED
      BY <3>7, <3>9, <3>10 DEF Kept
  <2>4. ASSUME NEW q \in Keys \cup Users, NEW m, NEW x, Used(c, q, m, x)
        PROVE  Kept(t, k, T)
    <3>1. /\ Moved(recent, recent', m, 0) /\ Len(recent') = Len(recent) - m + 1
          /\ recent'[Len(recent')].by = c /\ recent'[Len(recent')].key = q
          /\ StoredAt(s, AfterUse(c, q), t, x)
      BY <2>4 DEF Used
    <3>2. AfterUse(c, q) \in Bucket /\ AfterUse(c, q).key = q
      BY AfterUseFacts
    <3>3. Len(t) \in Nat /\ t[Len(t)] = AfterUse(c, q) /\ Len(t) >= 1
      BY <2>1, <3>1 DEF StoredAt
    <3>4. CASE k = q
      <4>1. Len(t) \in 1..Len(t) /\ \A p \in (Len(t) + 1)..Len(t) : FALSE
        BY <3>3
      <4> QED
        BY <3>2, <3>3, <3>4, <4>1 DEF Kept
    <3>5. CASE k # q
      <4>1. n # Len(recent') /\ n \in 1..Len(recent')
        BY <3>1, <3>5, MovedPlace
      <4>2. n \in 1..(Len(recent) - m)
        BY <3>1, <4>1, MovedPlace
      <4>3. recent[n + m].by = c /\ recent[n + m].key = k
        BY <1>1, <3>1, <4>2, MovedEntry
      <4>4. n + m \in DOMAIN recent
        BY <3>1, <4>2, MovedPlace
      <4> DEFINE T0 == OthersOf(recent, c, k, n + m, Len(recent))
      <4>5. T = T0 \cup ({q} \ {k})
        <5> HIDE DEF k
        <5>1. NewUse(m, c)
          BY <3>1 DEF NewUse
        <5>2. OthersOf(recent', c, k, n, Len(recent'))
                 = OthersOf(recent, c, k, n + m, Len(recent)) \cup ({recent'[Len(recent')].key} \ {k})
          BY <3>1, <4>2, <5>1, UsedPast
        <5> QED
          BY <3>1, <5>2
      <4>6. IsFiniteSet(T)
        <5>1. n \in Nat /\ Len(recent') \in Nat
          BY <3>1, <4>1, MovedPlace
        <5>2. \A r : IsFiniteSet(OthersOf(recent', c, r, n, Len(recent')))
          BY <5>1, OthersFinite
        <5> QED
          BY <5>2
      <4>7. Cardinality(T0) < CacheCap
        <5> HIDE DEF T0
        <5>1. T0 \in SUBSET T
          BY <4>5
        <5>2. Cardinality(T0) <= Cardinality(T) /\ IsFiniteSet(T0)
          BY <4>6, <5>1, FS_Subset
        <5>3. Cardinality(T0) \in Nat /\ Cardinality(T) \in Nat /\ CacheCap \in Nat
          BY <4>6, <5>2, FS_CardinalityType, Rates
        <5>4. Cardinality(T) < CacheCap
          BY <1>1
        <5> QED
          BY <5>2, <5>3, <5>4
      <4>8. Kept(s, k, T0)
        BY <2>2, <4>3, <4>4, <4>7
      <4>9. Kept(s, k, T)
        <5> HIDE DEF T0
        <5> QED
          BY <4>5, <4>8 DEF Kept
      <4>10. q \in T /\ Cardinality(T) < CacheCap
        BY <1>1, <3>5, <4>5
      <4> HIDE DEF T, T0, s, t, k
      <4> QED
        BY <2>1, <3>1, <3>2, <3>5, <4>6, <4>9, <4>10, KeptStored
    <3> QED
      BY <3>4, <3>5
  <2>5. Viewed(c)
    BY CacheKinds
  <2> QED
    BY <2>3, <2>4, <2>5 DEF Viewed
<1>2. ASSUME NEW c \in Caches PROVE DOMAIN buckets'[c] = 1..Len(buckets'[c])
  BY CacheKinds DEF CachesOK, Cache
<1> QED
  BY <1>1, <1>2 DEF LruOrder, Kept

-----------------------------------------------------------------------------
(***************************************************************************)
(* The budget of a bucket.                                                 *)
(***************************************************************************)

LEMMA CacheEntry ==
    ASSUME NEW c, NEW s, Cache(c, s), NEW p \in DOMAIN s
    PROVE  /\ s[p] \in Bucket /\ s[p].key \in Keys \cup Users
           /\ s[p].level \in Nat /\ s[p].level <= BurstOf(c) * Minute
<1>1. s[p] \in Bucket
  BY DEF Cache
<1>2. s[p].level <= BurstOf(c) * Minute
  BY DEF Cache
<1>3. s[p].level \in Nat /\ s[p].key \in Keys \cup Users
  BY <1>1 DEF Bucket
<1> QED
  BY <1>1, <1>2, <1>3

(* The products the budgets are made of. *)
LEMMA Products ==
    ASSUME NEW M \in Nat
    PROVE  /\ \A g \in Nat : g * M \in Nat /\ (g + 1) * M = g * M + M
           /\ \A g, e \in Nat : e <= g => e * M <= g * M
<1>1. \A g \in Nat : g * M \in Nat /\ (g + 1) * M = g * M + M
  OBVIOUS
<1>2. ASSUME NEW g \in Nat, NEW e \in Nat, e <= g PROVE e * M <= g * M
  <2>1. PICK x \in Nat : g = e + x
    <3>1. g - e \in Nat /\ g = e + (g - e)
      BY <1>2
    <3> QED
      BY <3>1
  <2>2. g * M = e * M + x * M /\ e * M \in Nat /\ x * M \in Nat
    BY <2>1
  <2> QED
    BY <2>1, <2>2
<1> QED
  BY <1>1, <1>2

(* The budget moves with the answers: g and v are what was taken and what  *)
(* is left, a the age; e, w and b the same after the step.                 *)
LEMMA BudgetKept ==
    ASSUME NEW c, NEW g \in Nat, NEW v \in Nat, NEW a \in Nat, NEW e \in Nat, NEW w \in Nat,
           g * Minute + v <= BurstOf(c) * Minute + a * RateOf(c)
    PROVE  /\ (e <= g /\ w <= v) => e * Minute + w <= BurstOf(c) * Minute + a * RateOf(c)
           /\ (e <= g /\ w <= v + RateOf(c))
                 => e * Minute + w <= BurstOf(c) * Minute + (a + 1) * RateOf(c)
           /\ (e <= g + 1 /\ w = v - Minute)
                 => e * Minute + w <= BurstOf(c) * Minute + a * RateOf(c)
<1> DEFINE F == BurstOf(c) * Minute
           R == RateOf(c)
<1>1. Minute \in Nat /\ R \in Nat /\ F \in Nat
  BY Rates
<1>2. g * Minute \in Nat /\ e * Minute \in Nat /\ (g + 1) * Minute = g * Minute + Minute
  BY <1>1, Products
<1>3. (e <= g => e * Minute <= g * Minute) /\ (e <= g + 1 => e * Minute <= (g + 1) * Minute)
  BY <1>1, Products
<1>4. a * R \in Nat /\ (a + 1) * R = a * R + R
  <2> HIDE DEF R
  <2> QED
    BY <1>1, Products
<1>5. g * Minute + v <= F + a * R
  OBVIOUS
<1> HIDE DEF F, R
<1> DEFINE gm == g * Minute
           em == e * Minute
           ar == a * R
           hm == (g + 1) * Minute
           br == (a + 1) * R
<1>6. /\ gm \in Nat /\ em \in Nat /\ ar \in Nat /\ hm = gm + Minute /\ br = ar + R
      /\ (e <= g => em <= gm) /\ (e <= g + 1 => em <= hm) /\ gm + v <= F + ar
  BY <1>2, <1>3, <1>4, <1>5
<1>7. /\ (e <= g /\ w <= v) => em + w <= F + ar
      /\ (e <= g /\ w <= v + R) => em + w <= F + br
      /\ (e <= g + 1 /\ w = v - Minute) => em + w <= F + ar
  <2> HIDE DEF gm, em, ar, hm, br
  <2> QED
    BY <1>1, <1>6
<1> QED
  BY <1>7 DEF F, R

(* A step of no use to c keeps what BucketBudget says, and a use of k      *)
(* finds it said of the bucket that lru.Cache.Get returns.                 *)
LEMMA FoundBudget ==
    ASSUME HistoryType, CachesOK, LruOrder, BucketBudget, NEW c \in Caches,
           NEW k \in Keys \cup Users, NEW i \in DOMAIN recent,
           Cardinality(OthersOf(recent, c, k, i, Len(recent))) < CacheCap
    PROVE  Cardinality(GrantsOf(recent, c, k, i, Len(recent))) * Minute + Found(c, k).level
              <= BurstOf(c) * Minute + recent[i].age * RateOf(c)
<1>1. /\ Cache(c, buckets[c]) /\ DOMAIN buckets[c] = 1..Len(buckets[c])
      /\ recent \in Seq(Answer) /\ Len(recent) \in Nat /\ DOMAIN recent = 1..Len(recent)
  BY DEF CachesOK, Cache, HistoryType
<1>2. CASE \E p \in DOMAIN buckets[c] : buckets[c][p].key = k
  <2>1. PICK p \in DOMAIN buckets[c] : buckets[c][p].key = k
    BY <1>2
  <2>2. Found(c, k) = buckets[c][p]
    BY <2>1, FoundFacts
  <2> QED
    BY <2>1, <2>2 DEF BucketBudget
<1>3. CASE ~\E p \in DOMAIN buckets[c] : buckets[c][p].key = k
  <2>1. ASSUME NEW n \in GrantsOf(recent, c, k, i, Len(recent)) PROVE FALSE
    <3>1. n \in i..Len(recent) /\ recent[n].by = c /\ recent[n].key = k
      BY DEF GrantsOf
    <3>2. n \in DOMAIN recent /\ \A x \in n..Len(recent) : x \in i..Len(recent)
      BY <1>1, <3>1
    <3> DEFINE A == OthersOf(recent, c, k, n, Len(recent))
               B == OthersOf(recent, c, k, i, Len(recent))
    <3>3. A \in SUBSET B
      BY <3>2 DEF OthersOf, UsesOf
    <3>4. i \in Nat
      BY <1>1
    <3>5. IsFiniteSet(B) /\ Cardinality(B) \in Nat
      BY <1>1, <3>4, OthersFinite
    <3>6. Cardinality(B) < CacheCap
      OBVIOUS
    <3>7. Cardinality(A) < CacheCap
      <4> HIDE DEF A, B
      <4>1. IsFiniteSet(A) /\ Cardinality(A) <= Cardinality(B)
        BY <3>3, <3>5, FS_Subset
      <4>2. Cardinality(A) \in Nat /\ CacheCap \in Nat
        BY <4>1, FS_CardinalityType, Rates
      <4> QED
        BY <3>5, <3>6, <4>1, <4>2
    <3> QED
      BY <1>3, <3>1, <3>2, <3>7 DEF LruOrder
  <2>2. GrantsOf(recent, c, k, i, Len(recent)) = {}
    BY <2>1
  <2>3. Cardinality(GrantsOf(recent, c, k, i, Len(recent))) = 0
    BY <2>2, FS_EmptySet
  <2>4. Found(c, k).level = BurstOf(c) * Minute
    BY <1>3, FoundFacts DEF Position
  <2>5. recent[i] \in Answer
    BY <1>1
  <2>6. recent[i].age \in Nat /\ RateOf(c) \in Nat /\ Minute \in Nat /\ BurstOf(c) * Minute \in Nat
    BY <2>5, Rates DEF Answer
  <2>7. recent[i].age * RateOf(c) \in Nat /\ 0 * Minute = 0
    BY <2>6, Products
  <2> QED
    BY <2>3, <2>4, <2>6, <2>7
<1> QED
  BY <1>2, <1>3

(* Every step keeps BucketBudget. *)
LEMMA BucketBudgetStep ==
    ASSUME HistoryType, CachesOK, KeyHeld, LruOrder, BucketBudget, [Next]_vars
    PROVE  BucketBudget'
<1>1. ASSUME NEW c \in Caches, NEW k \in Keys \cup Users, NEW i \in DOMAIN recent',
             NEW p \in DOMAIN buckets'[c], buckets'[c][p].key = k,
             Cardinality(OthersOf(recent', c, k, i, Len(recent'))) < CacheCap
      PROVE  Cardinality(GrantsOf(recent', c, k, i, Len(recent'))) * Minute + buckets'[c][p].level
                <= BurstOf(c) * Minute + recent'[i].age * RateOf(c)
  <2> DEFINE s == buckets[c]
             t == buckets'[c]
             e == Cardinality(GrantsOf(recent', c, k, i, Len(recent')))
             w == t[p].level
  <2>1. /\ Cache(c, s) /\ Cache(c, t) /\ DOMAIN s = 1..Len(s) /\ DOMAIN t = 1..Len(t)
        /\ Len(s) \in Nat /\ Len(t) \in Nat
    BY CacheKinds DEF CachesOK, Cache
  <2>2. t[p] \in Bucket /\ w \in Nat /\ w <= BurstOf(c) * Minute
    BY <2>1, CacheEntry
  <2>3. i \in Nat /\ Len(recent') \in Nat /\ recent'[i] \in Answer
    BY CacheKinds DEF HistoryType
  <2>4. e \in Nat
    BY <2>3, GrantsFinite
  <2>5. BurstOf(c) * Minute \in Nat /\ RateOf(c) \in Nat /\ Minute \in Nat
    BY Rates
  <2>6. recent'[i].age \in Nat /\ recent'[i].age * RateOf(c) \in Nat
    <3>1. recent'[i].age \in Nat
      BY <2>3 DEF Answer
    <3> QED
      BY <2>5, <3>1, Products
  <2>7. ASSUME NEW m, NEW d \in {0, 1}, Quiet(c, m, d)
        PROVE  e * Minute + w <= BurstOf(c) * Minute + recent'[i].age * RateOf(c)
    <3>1. Moved(recent, recent', m, d) /\ ~NewUse(m, c)
      BY <2>7 DEF Quiet
    <3>2. CASE i \in 1..(Len(recent) - m)
      <4> DEFINE g == Cardinality(GrantsOf(recent, c, k, i + m, Len(recent)))
                 v == s[p].level
                 a == recent[i + m].age
      <4>1. i + m \in DOMAIN recent /\ i + m \in Nat /\ Len(recent) \in Nat
        BY <3>1, <3>2, MovedPlace
      <4>2. p \in DOMAIN s /\ s[p].key = k
        BY <1>1, <2>7 DEF Quiet
      <4>3. s[p] \in Bucket /\ v \in Nat
        BY <2>1, <4>2, CacheEntry
      <4>4. /\ OthersOf(recent', c, k, i, Len(recent')) = OthersOf(recent, c, k, i + m, Len(recent))
            /\ e <= g
        BY <3>1, <3>2, QuietPast
      <4>5. a \in Nat /\ recent'[i].age = a + d
        BY <3>1, <3>2, MovedEntry
      <4>6. g \in Nat
        BY <4>1, GrantsFinite
      <4>7. g * Minute + v <= BurstOf(c) * Minute + a * RateOf(c)
        BY <1>1, <4>1, <4>2, <4>4 DEF BucketBudget
      <4>8. CASE d = 0
        <5>1. w = v
          BY <2>7, <4>2, <4>8 DEF Quiet
        <5>2. recent'[i].age = a
          BY <4>5, <4>8
        <5>3. w <= v
          BY <4>3, <5>1
        <5> HIDE DEF e, w, g, v, a
        <5>4. e * Minute + w <= BurstOf(c) * Minute + a * RateOf(c)
          BY <2>2, <2>4, <4>3, <4>4, <4>5, <4>6, <4>7, <5>3, BudgetKept
        <5> QED
          BY <5>2, <5>4
      <4>9. CASE d = 1
        <5>1. w <= v + RateOf(c)
          BY <2>7, <4>2, <4>9 DEF Quiet
        <5>2. recent'[i].age = a + 1
          BY <4>5, <4>9
        <5> HIDE DEF e, w, g, v, a
        <5>3. e * Minute + w <= BurstOf(c) * Minute + (a + 1) * RateOf(c)
          BY <2>2, <2>4, <4>3, <4>4, <4>5, <4>6, <4>7, <5>1, BudgetKept
        <5> QED
          BY <5>2, <5>3
      <4> QED
        BY <4>8, <4>9
    <3>3. CASE i = Len(recent') /\ Len(recent') = Len(recent) - m + 1
      <4>1. recent'[i].by # c
        BY <3>1, <3>3 DEF NewUse
      <4>2. \A n \in i..Len(recent') : n = i
        BY <2>3, <3>3
      <4>3. GrantsOf(recent', c, k, i, Len(recent')) = {}
        BY <4>1, <4>2 DEF GrantsOf
      <4>4. e = 0
        BY <4>3, FS_EmptySet
      <4> HIDE DEF e, w
      <4> QED
        BY <2>2, <2>5, <2>6, <4>4
    <3> QED
      BY <3>1, <3>2, <3>3, MovedPlace
  <2>8. ASSUME NEW q \in Keys \cup Users, NEW m, NEW x, Used(c, q, m, x)
        PROVE  e * Minute + w <= BurstOf(c) * Minute + recent'[i].age * RateOf(c)
    <3>1. /\ Moved(recent, recent', m, 0) /\ Len(recent') = Len(recent) - m + 1
          /\ recent'[Len(recent')] = [by |-> c, key |-> q, ok |-> HasToken(c, q), age |-> 0]
          /\ StoredAt(s, AfterUse(c, q), t, x) /\ NewUse(m, c)
      BY <2>8 DEF Used, NewUse
    <3>2. /\ recent'[Len(recent')].key = q /\ recent'[Len(recent')].ok = HasToken(c, q)
          /\ recent'[Len(recent')].age = 0
      BY <3>1
    <3>3. t[Len(t)] = AfterUse(c, q) /\ Len(t) \in DOMAIN t
      <4>1. Len(t) \in Nat /\ Len(t) # 0 /\ t[Len(t)] = AfterUse(c, q)
        BY <2>1, <3>1 DEF StoredAt
      <4> HIDE DEF t, s
      <4> QED
        BY <2>1, <4>1
    <3>4. Found(c, q).level \in Nat
      BY FoundFacts DEF Bucket
    <3>5. CASE k = q
      <4>1. p = Len(t) /\ w = AfterUse(c, k).level
        <5>1. t[Len(t)].key = k
          BY <3>3, <3>5, AfterUseFacts
        <5>2. p = Len(t)
          BY <1>1, <2>1, <3>3, <5>1 DEF Cache
        <5> QED
          BY <3>3, <3>5, <5>2
      <4>2. ASSUME NEW g \in Nat, NEW a \in Nat,
                   g * Minute + Found(c, k).level <= BurstOf(c) * Minute + a * RateOf(c),
                   e <= IF HasToken(c, k) THEN g + 1 ELSE g
            PROVE  e * Minute + w <= BurstOf(c) * Minute + a * RateOf(c)
        <5> DEFINE v == Found(c, k).level
        <5>1. v \in Nat /\ g * Minute + v <= BurstOf(c) * Minute + a * RateOf(c)
          BY <3>4, <3>5, <4>2
        <5>2. CASE HasToken(c, k)
          <6>1. e <= g + 1 /\ w = v - Minute
            BY <4>1, <4>2, <5>2, AfterUseFacts
          <6> HIDE DEF e, w, v
          <6> QED
            BY <2>2, <2>4, <5>1, <6>1, BudgetKept
        <5>3. CASE ~HasToken(c, k)
          <6>1. e <= g /\ w <= v
            BY <4>1, <4>2, <5>1, <5>3, AfterUseFacts
          <6> HIDE DEF e, w, v
          <6> QED
            BY <2>2, <2>4, <5>1, <6>1, BudgetKept
        <5> QED
          BY <5>2, <5>3
      <4>3. CASE i \in 1..(Len(recent) - m)
        <5> DEFINE g == Cardinality(GrantsOf(recent, c, k, i + m, Len(recent)))
                   a == recent[i + m].age
                   T == OthersOf(recent', c, k, i, Len(recent'))
                   T0 == OthersOf(recent, c, k, i + m, Len(recent))
        <5>1. i + m \in DOMAIN recent /\ i + m \in Nat /\ Len(recent) \in Nat
          BY <3>1, <4>3, MovedPlace
        <5>2. a \in Nat /\ recent'[i].age = a + 0
          BY <3>1, <4>3, MovedEntry
        <5>3. recent'[i].age = a
          BY <5>2
        <5>4. T = T0 \cup ({recent'[Len(recent')].key} \ {k})
          BY <3>1, <4>3, UsedPast
        <5>5. e <= g + IF recent'[Len(recent')].key = k /\ recent'[Len(recent')].ok THEN 1 ELSE 0
          BY <3>1, <4>3, UsedPast
        <5>6. T = T0
          BY <3>2, <3>5, <5>4
        <5>7. g \in Nat
          BY <5>1, GrantsFinite
        <5>8. e <= IF HasToken(c, k) THEN g + 1 ELSE g
          <6> HIDE DEF e, g
          <6> QED
            BY <2>4, <3>2, <3>5, <5>5, <5>7
        <5>9. g * Minute + Found(c, k).level <= BurstOf(c) * Minute + a * RateOf(c)
          <6>1. Cardinality(T0) < CacheCap
            BY <1>1, <5>6
          <6> QED
            BY <5>1, <6>1, FoundBudget
        <5> HIDE DEF e, w, g, a
        <5> QED
          BY <4>2, <5>2, <5>3, <5>7, <5>8, <5>9
      <4>4. CASE i = Len(recent')
        <5>1. \A n \in i..Len(recent') : n = i
          BY <2>3, <4>4
        <5>2. GrantsOf(recent', c, k, i, Len(recent')) \in SUBSET {i}
          BY <5>1 DEF GrantsOf
        <5>3. ~HasToken(c, k) => GrantsOf(recent', c, k, i, Len(recent')) = {}
          BY <3>2, <3>5, <4>4, <5>1 DEF GrantsOf
        <5>4. IsFiniteSet({i}) /\ Cardinality({i}) = 1 /\ Cardinality({}) = 0
          BY FS_Singleton, FS_EmptySet
        <5>5. e <= 1
          BY <5>2, <5>4, FS_Subset
        <5>6. e <= IF HasToken(c, k) THEN 0 + 1 ELSE 0
          <6>1. ~HasToken(c, k) => e = 0
            BY <5>3, <5>4
          <6> HIDE DEF e
          <6> QED
            BY <2>4, <5>5, <6>1
        <5>7. 0 * Minute + Found(c, k).level <= BurstOf(c) * Minute + 0 * RateOf(c)
          <6>1. Found(c, k).level \in Nat /\ Found(c, k).level <= BurstOf(c) * Minute
            BY <3>4, <3>5, FoundFacts
          <6> QED
            BY <2>5, <6>1
        <5>8. 0 \in Nat /\ recent'[i].age = 0
          BY <3>2, <4>4
        <5> HIDE DEF e, w
        <5>9. e * Minute + w <= BurstOf(c) * Minute + 0 * RateOf(c)
          BY <4>2, <5>6, <5>7
        <5> QED
          BY <5>8, <5>9
      <4> QED
        BY <3>1, <4>3, <4>4, MovedPlace
    <3>6. CASE k # q
      <4>1. PICK y \in DOMAIN s : t[p] = s[y]
        <5>1. p # Len(t)
          BY <1>1, <3>3, <3>6, AfterUseFacts
        <5>2. p \in 1..(Len(t) - 1)
          BY <2>1, <5>1, LastOrBefore
        <5>3. t[p] = IF p < x THEN s[p] ELSE s[p + 1]
          BY <3>1, <5>2 DEF StoredAt
        <5>4. /\ x \in 1..(Len(s) + 1)
              /\ Len(t) = IF x = Len(s) + 1 THEN Len(s) + 1 ELSE Len(s)
          BY <3>1 DEF StoredAt
        <5> HIDE DEF s, t
        <5>5. (IF p < x THEN p ELSE p + 1) \in 1..Len(s)
          BY <2>1, <5>2, <5>4
        <5> QED
          BY <2>1, <5>3, <5>5
      <4> DEFINE v == s[y].level
      <4>2. v = w /\ s[y].key = k
        BY <1>1, <4>1
      <4>3. CASE i \in 1..(Len(recent) - m)
        <5> DEFINE g == Cardinality(GrantsOf(recent, c, k, i + m, Len(recent)))
                   a == recent[i + m].age
                   T == OthersOf(recent', c, k, i, Len(recent'))
                   T0 == OthersOf(recent, c, k, i + m, Len(recent))
        <5>1. i + m \in DOMAIN recent /\ i + m \in Nat /\ Len(recent) \in Nat
          BY <3>1, <4>3, MovedPlace
        <5>2. a \in Nat /\ recent'[i].age = a + 0
          BY <3>1, <4>3, MovedEntry
        <5>3. recent'[i].age = a
          BY <5>2
        <5>4. T = T0 \cup ({recent'[Len(recent')].key} \ {k})
          BY <3>1, <4>3, UsedPast
        <5>5. e <= g + IF recent'[Len(recent')].key = k /\ recent'[Len(recent')].ok THEN 1 ELSE 0
          BY <3>1, <4>3, UsedPast
        <5>6. Cardinality(T0) < CacheCap
          <6>1. IsFiniteSet(T) /\ Cardinality(T) \in Nat
            BY <2>3, OthersFinite
          <6>2. T0 \in SUBSET T
            BY <5>4
          <6>3. Cardinality(T) < CacheCap
            BY <1>1
          <6> HIDE DEF T, T0
          <6>4. IsFiniteSet(T0) /\ Cardinality(T0) <= Cardinality(T)
            BY <6>1, <6>2, FS_Subset
          <6>5. Cardinality(T0) \in Nat /\ CacheCap \in Nat
            BY <6>4, FS_CardinalityType, Rates
          <6> QED
            BY <6>1, <6>3, <6>4, <6>5
        <5>7. g \in Nat
          BY <5>1, GrantsFinite
        <5>8. e <= g
          <6> HIDE DEF e, g
          <6> QED
            BY <2>4, <3>2, <3>6, <5>5, <5>7
        <5>9. g * Minute + w <= BurstOf(c) * Minute + a * RateOf(c)
          BY <4>2, <5>1, <5>6 DEF BucketBudget
        <5>10. w <= w
          BY <2>2
        <5> HIDE DEF e, w, g, a
        <5> QED
          BY <2>2, <2>4, <5>2, <5>3, <5>7, <5>8, <5>9, <5>10, BudgetKept
      <4>4. CASE i = Len(recent')
        <5>1. \A n \in i..Len(recent') : n = i
          BY <2>3, <4>4
        <5>2. GrantsOf(recent', c, k, i, Len(recent')) = {}
          BY <3>2, <3>6, <4>4, <5>1 DEF GrantsOf
        <5>3. e = 0
          BY <5>2, FS_EmptySet
        <5> HIDE DEF e, w
        <5> QED
          BY <2>2, <2>5, <2>6, <5>3
      <4> QED
        BY <3>1, <4>3, <4>4, MovedPlace
    <3> QED
      BY <3>5, <3>6
  <2>9. Viewed(c)
    BY CacheKinds
  <2> QED
    BY <2>7, <2>8, <2>9 DEF Viewed
<1> QED
  BY <1>1 DEF BucketBudget

-----------------------------------------------------------------------------
(***************************************************************************)
(* The properties of the token buckets.                                    *)
(***************************************************************************)

(* BurstUnlessRotated in the words of this module. *)
BurstAt(h, i, j) ==
    LET c == h[i].by
        k == h[i].key
    IN  (/\ i <= j /\ c \in Caches
         /\ h[j].by = c /\ h[j].key = k
         /\ Cardinality(OthersOf(h, c, k, i, j)) < CacheCap)
            => Cardinality(GrantsOf(h, c, k, i, j)) * Minute
                  <= BurstOf(c) * Minute + (h[i].age - h[j].age) * RateOf(c)

BurstText(h, i, j) ==
    LET c == h[i].by
        k == h[i].key
        used == {n \in i..j : h[n].by = c}
    IN  (/\ i <= j /\ c \in Caches
         /\ h[j].by = c /\ h[j].key = k
         /\ Cardinality({h[n].key : n \in used} \ {k}) < CacheCap)
            => Cardinality({n \in DOMAIN h : h[n].key = k /\ h[n].ok} \cap used) * Minute
                  <= BurstOf(c) * Minute + (h[i].age - h[j].age) * RateOf(c)

(* BurstUnlessRotated, stated of one pair of places at a time. *)
LEMMA BurstSays ==
    ASSUME NEW h, DOMAIN h = 1..Len(h), Len(h) \in Nat, NEW i \in DOMAIN h, NEW j \in DOMAIN h
    PROVE  BurstText(h, i, j) <=> BurstAt(h, i, j)
<1> DEFINE c == h[i].by
           k == h[i].key
           used == {n \in i..j : h[n].by = c}
<1>1. {n \in DOMAIN h : h[n].key = k /\ h[n].ok} \cap used = GrantsOf(h, c, k, i, j)
  <2>1. \A n \in i..j : n \in DOMAIN h
    OBVIOUS
  <2> QED
    BY <2>1 DEF GrantsOf
<1>2. {h[n].key : n \in used} \ {k} = OthersOf(h, c, k, i, j)
  BY DEF OthersOf, UsesOf
<1> QED
  BY <1>1, <1>2, Zenon DEF BurstText, BurstAt

(* Every step keeps BurstUnlessRotated: a grant draws on a bucket that     *)
(* BucketBudget bounds, unless the key was evicted meanwhile.              *)
LEMMA BurstStep ==
    ASSUME HistoryType, CachesOK, KeyHeld, LruOrder, BucketBudget, BurstUnlessRotated, [Next]_vars
    PROVE  BurstUnlessRotated'
<1>1. HistoryType' /\ CachesOK' /\ BucketBudget' /\ LruOrder'
  BY CacheKinds, LruOrderStep, BucketBudgetStep
<1>2. ASSUME NEW i \in DOMAIN recent', NEW j \in DOMAIN recent', i <= j,
             NEW c \in Caches, NEW k, recent'[i].by = c, recent'[i].key = k,
             recent'[j].by = c, recent'[j].key = k,
             Cardinality(OthersOf(recent', c, k, i, j)) < CacheCap
      PROVE  Cardinality(GrantsOf(recent', c, k, i, j)) * Minute
                <= BurstOf(c) * Minute + (recent'[i].age - recent'[j].age) * RateOf(c)
  <2>1. ASSUME NEW m, NEW d \in {0, 1}, Moved(recent, recent', m, d), j \in 1..(Len(recent) - m)
        PROVE  Cardinality(GrantsOf(recent', c, k, i, j)) * Minute
                  <= BurstOf(c) * Minute + (recent'[i].age - recent'[j].age) * RateOf(c)
    <3>1. m \in Nat /\ Len(recent) \in Nat /\ i \in 1..(Len(recent) - m) /\ i \in Nat /\ j \in Nat
      <4>1. i \in 1..Len(recent') /\ j \in 1..Len(recent') /\ m \in Nat /\ Len(recent) \in Nat
        BY <2>1, MovedPlace
      <4> QED
        BY <1>2, <2>1, <4>1
    <3>2. /\ i + m \in DOMAIN recent /\ j + m \in DOMAIN recent
          /\ i + m \in Nat /\ j + m \in Nat
      BY <2>1, <3>1, MovedPlace
    <3> DEFINE ai == recent[i + m].age
               aj == recent[j + m].age
               e == Cardinality(GrantsOf(recent', c, k, i, j))
               g == Cardinality(GrantsOf(recent, c, k, i + m, j + m))
    <3>3. /\ recent[i + m].by = c /\ recent[i + m].key = k
          /\ ai \in Nat /\ recent'[i].age = ai + d
      BY <1>2, <2>1, <3>1, MovedEntry
    <3>4. /\ recent[j + m].by = c /\ recent[j + m].key = k
          /\ aj \in Nat /\ recent'[j].age = aj + d
      BY <1>2, <2>1, <3>1, MovedEntry
    <3>5. OthersOf(recent', c, k, i, j) = OthersOf(recent, c, k, i + m, j + m)
      BY <2>1, <3>1, MovedOthers
    <3>6. e <= g
      BY <2>1, <3>1, MovedCounts
    <3>7. e \in Nat /\ g \in Nat
      BY <3>1, <3>2, GrantsFinite
    <3>8. i + m <= j + m
      BY <1>2, <3>1
    <3>9. BurstAt(recent, i + m, j + m)
      <4>1. DOMAIN recent = 1..Len(recent)
        BY <2>1, MovedPlace
      <4>2. BurstText(recent, i + m, j + m)
        BY <3>2 DEF BurstUnlessRotated, BurstText, Passed
      <4> QED
        BY <3>1, <3>2, <4>1, <4>2, BurstSays
    <3>10. g * Minute <= BurstOf(c) * Minute + (ai - aj) * RateOf(c)
      BY <1>2, <3>3, <3>4, <3>5, <3>8, <3>9 DEF BurstAt
    <3>11. recent'[i].age - recent'[j].age = ai - aj
      <4> HIDE DEF ai, aj
      <4> QED
        BY <3>3, <3>4
    <3> HIDE DEF e, g, ai, aj
    <3>12. e * Minute <= g * Minute /\ e * Minute \in Nat /\ g * Minute \in Nat
      BY <3>6, <3>7, Rates, Products
    <3>13. BurstOf(c) * Minute \in Nat /\ RateOf(c) \in Nat
      BY Rates
    <3>14. (ai - aj) * RateOf(c) \in Int
      <4>1. ai - aj \in Int
        BY <3>3, <3>4
      <4>2. \A y \in Int : y * RateOf(c) \in Int
        BY <3>13
      <4> QED
        BY <4>1, <4>2
    <3>15. e * Minute <= BurstOf(c) * Minute + (ai - aj) * RateOf(c)
      <4> DEFINE em == e * Minute
                 gm == g * Minute
                 F == BurstOf(c) * Minute
                 y == (ai - aj) * RateOf(c)
      <4>1. em <= gm /\ gm <= F + y /\ em \in Nat /\ gm \in Nat /\ F \in Nat /\ y \in Int
        BY <3>10, <3>12, <3>13, <3>14
      <4>2. em <= F + y
        <5> HIDE DEF em, gm, F, y
        <5> QED
          BY <4>1
      <4> QED
        BY <4>2
    <3> QED
      BY <3>11, <3>15 DEF e
  <2>2. ASSUME NEW q \in Keys \cup Users, NEW m, NEW x, Used(c, q, m, x), j = Len(recent')
        PROVE  Cardinality(GrantsOf(recent', c, k, i, j)) * Minute
                  <= BurstOf(c) * Minute + (recent'[i].age - recent'[j].age) * RateOf(c)
    <3> DEFINE t == buckets'[c]
               e == Cardinality(GrantsOf(recent', c, k, i, Len(recent')))
               w == t[Len(t)].level
    <3>1. /\ recent'[Len(recent')].age = 0 /\ recent'[Len(recent')].key = q
          /\ StoredAt(buckets[c], AfterUse(c, q), t, x)
      BY <2>2 DEF Used
    <3>2. k = q
      BY <1>2, <2>2, <3>1
    <3>3. Cache(c, t) /\ DOMAIN t = 1..Len(t)
      BY <1>1 DEF CachesOK, Cache
    <3>4. Len(t) \in DOMAIN t /\ t[Len(t)] = AfterUse(c, q)
      <4>1. Len(t) \in Nat /\ Len(t) # 0 /\ t[Len(t)] = AfterUse(c, q)
        <5>1. /\ Len(t) = IF x = Len(buckets[c]) + 1 THEN Len(buckets[c]) + 1 ELSE Len(buckets[c])
              /\ x \in 1..(Len(buckets[c]) + 1) /\ t[Len(t)] = AfterUse(c, q)
          BY <3>1 DEF StoredAt
        <5>2. Len(buckets[c]) \in Nat /\ Len(t) \in Nat
          BY <3>3 DEF CachesOK, Cache
        <5> HIDE DEF t
        <5> QED
          BY <5>1, <5>2
      <4> HIDE DEF t
      <4> QED
        BY <3>3, <4>1
    <3>5. t[Len(t)].key = k /\ w \in Nat
      BY <3>2, <3>3, <3>4, AfterUseFacts, CacheEntry
    <3>6. e * Minute + w <= BurstOf(c) * Minute + recent'[i].age * RateOf(c)
      <4>1. k \in Keys \cup Users
        BY <3>2
      <4>2. Cardinality(OthersOf(recent', c, k, i, Len(recent'))) < CacheCap
        BY <1>2, <2>2
      <4>3. BucketBudget'
        BY <1>1
      <4> QED
        BY <3>4, <3>5, <4>1, <4>2, <4>3 DEF BucketBudget
    <3>7. recent'[i].age \in Nat /\ i \in Nat /\ Len(recent') \in Nat
      <4>1. recent'[i] \in Answer /\ i \in Nat /\ Len(recent') \in Nat
        BY <1>1 DEF HistoryType
      <4> QED
        BY <4>1 DEF Answer
    <3>8. e \in Nat
      BY <3>7, GrantsFinite
    <3>9. recent'[i].age - recent'[j].age = recent'[i].age
      BY <2>2, <3>1, <3>7
    <3>10. /\ e * Minute \in Nat /\ BurstOf(c) * Minute \in Nat
           /\ recent'[i].age * RateOf(c) \in Nat
      BY <3>7, <3>8, Rates, Products
    <3>11. e * Minute <= BurstOf(c) * Minute + recent'[i].age * RateOf(c)
      <4> HIDE DEF e, w
      <4> DEFINE em == e * Minute
                 F == BurstOf(c) * Minute
                 y == recent'[i].age * RateOf(c)
      <4>1. em + w <= F + y /\ em \in Nat /\ F \in Nat /\ y \in Nat /\ w \in Nat
        BY <3>5, <3>6, <3>10
      <4>2. em <= F + y
        <5> HIDE DEF em, F, y
        <5> QED
          BY <4>1
      <4> QED
        BY <4>2
    <3> QED
      BY <2>2, <3>9, <3>11
  <2>3. ASSUME NEW m, NEW d \in {0, 1}, Quiet(c, m, d)
        PROVE  Moved(recent, recent', m, d) /\ j \in 1..(Len(recent) - m)
    BY <1>2, <2>3, MovedPlace DEF Quiet, NewUse
  <2>4. ASSUME NEW q \in Keys \cup Users, NEW m, NEW x, Used(c, q, m, x)
        PROVE  Moved(recent, recent', m, 0) /\ (j = Len(recent') \/ j \in 1..(Len(recent) - m))
    BY <2>4, MovedPlace DEF Used
  <2>5. Viewed(c)
    BY CacheKinds
  <2> QED
    BY <2>1, <2>2, <2>3, <2>4, <2>5 DEF Viewed
<1>3. ASSUME NEW i \in DOMAIN recent', NEW j \in DOMAIN recent' PROVE BurstAt(recent', i, j)
  BY <1>2, Zenon DEF BurstAt
<1>4. ASSUME NEW i \in DOMAIN recent', NEW j \in DOMAIN recent' PROVE BurstText(recent', i, j)
  <2>1. DOMAIN recent' = 1..Len(recent') /\ Len(recent') \in Nat
    BY <1>1 DEF HistoryType
  <2> QED
    BY <1>3, <2>1, BurstSays
<1> QED
  BY <1>4 DEF BurstUnlessRotated, BurstText, Passed

-----------------------------------------------------------------------------
(***************************************************************************)
(* Retry-After.                                                            *)
(***************************************************************************)

LEMMA RefusedRefillsStep ==
    ASSUME HistoryType, CachesOK, KeyHeld, RefusedRefills, [Next]_vars
    PROVE  RefusedRefills'
<1>1. ASSUME NEW c \in Replicas \X {"user"}, NEW i \in DOMAIN recent', NEW p \in DOMAIN buckets'[c],
             recent'[i].by = c, recent'[i].key = buckets'[c][p].key, ~recent'[i].ok,
             \A n \in (i + 1)..Len(recent') : recent'[n].by # c \/ recent'[n].key # buckets'[c][p].key
      PROVE  \/ buckets'[c][p].level >= BurstOf(c) * Minute
             \/ buckets'[c][p].level >= recent'[i].age * RateOf(c)
  <2> DEFINE s == buckets[c]
             t == buckets'[c]
             k == t[p].key
             w == t[p].level
             Enough(v, a) == v >= BurstOf(c) * Minute \/ v >= a * RateOf(c)
  <2>1. c \in Caches
    BY DEF Caches
  <2>2. /\ Cache(c, s) /\ Cache(c, t) /\ DOMAIN s = 1..Len(s) /\ DOMAIN t = 1..Len(t)
        /\ Len(s) \in Nat /\ Len(t) \in Nat
    BY <2>1, CacheKinds DEF CachesOK, Cache
  <2>3. w \in Nat /\ k \in Keys \cup Users
    BY <2>2, CacheEntry
  <2>4. RateOf(c) \in Nat /\ BurstOf(c) * Minute \in Nat
    BY Rates
  <2>5. ASSUME NEW m, NEW d \in {0, 1}, Moved(recent, recent', m, d), i \in 1..(Len(recent) - m)
        PROVE  /\ i + m \in DOMAIN recent
               /\ recent[i + m].by = c /\ recent[i + m].key = k /\ ~recent[i + m].ok
               /\ recent[i + m].age \in Nat /\ recent'[i].age = recent[i + m].age + d
               /\ \A n \in (i + m + 1)..Len(recent) : recent[n].by # c \/ recent[n].key # k
    <3>1. i + m \in DOMAIN recent /\ m \in Nat /\ Len(recent) \in Nat /\ Len(recent') \in Nat
      BY <2>5, MovedPlace
    <3>2. /\ recent[i + m].by = c /\ recent[i + m].key = k /\ ~recent[i + m].ok
          /\ recent[i + m].age \in Nat /\ recent'[i].age = recent[i + m].age + d
      BY <1>1, <2>5, MovedEntry
    <3>3. ASSUME NEW n \in (i + m + 1)..Len(recent)
          PROVE  recent[n].by # c \/ recent[n].key # k
      <4>1. PICK y \in 1..(Len(recent) - m) : y + m = n /\ y >= i + 1
        <5>1. n - m \in 1..(Len(recent) - m) /\ (n - m) + m = n /\ n - m >= i + 1
          BY <2>5, <3>1
        <5> QED
          BY <5>1
      <4>2. y \in 1..Len(recent')
        BY <2>5, MovedPlace
      <4>3. y \in (i + 1)..Len(recent')
        BY <2>5, <3>1, <4>1, <4>2
      <4>4. recent'[y].by # c \/ recent'[y].key # k
        BY <1>1, <4>3
      <4>5. recent'[y].by = recent[y + m].by /\ recent'[y].key = recent[y + m].key
        BY <2>5, MovedEntry
      <4> QED
        BY <4>1, <4>4, <4>5
    <3> QED
      BY <3>1, <3>2, <3>3
  <2>6. ASSUME NEW y \in DOMAIN s, NEW n \in DOMAIN recent, s[y].key = k,
               recent[n].by = c, recent[n].key = k, ~recent[n].ok,
               \A x \in (n + 1)..Len(recent) : recent[x].by # c \/ recent[x].key # k
        PROVE  Enough(s[y].level, recent[n].age)
    BY <2>6 DEF RefusedRefills
  <2>7. ASSUME NEW m, NEW d \in {0, 1}, Quiet(c, m, d)
        PROVE  Enough(w, recent'[i].age)
    <3>1. Moved(recent, recent', m, d) /\ ~NewUse(m, c)
      BY <2>7 DEF Quiet
    <3>2. i \in 1..(Len(recent) - m)
      BY <1>1, <3>1, MovedPlace DEF NewUse
    <3> DEFINE v == s[p].level
               a == recent[i + m].age
    <3>3. p \in DOMAIN s /\ s[p].key = k
      BY <2>7 DEF Quiet
    <3>4. a \in Nat /\ recent'[i].age = a + d /\ v \in Nat
      BY <2>2, <2>5, <3>1, <3>2, <3>3, CacheEntry
    <3>5. Enough(v, a)
      <4> HIDE DEF Enough
      <4> QED
        BY <2>5, <2>6, <3>1, <3>2, <3>3
    <3>6. CASE d = 0
      <4>1. w = v /\ recent'[i].age = a
        BY <2>7, <3>3, <3>4, <3>6 DEF Quiet
      <4> QED
        BY <3>5, <4>1
    <3>7. CASE d = 1
      <4>1. w = BurstOf(c) * Minute \/ w = v + RateOf(c)
        BY <2>7, <3>3, <3>7 DEF Quiet
      <4>2. recent'[i].age = a + 1
        BY <3>4, <3>7
      <4> DEFINE F == BurstOf(c) * Minute
                 R == RateOf(c)
                 y == a * RateOf(c)
                 z == (a + 1) * RateOf(c)
      <4>3. z = y + R /\ y \in Nat
        <5> HIDE DEF a
        <5> QED
          BY <2>4, <3>4, Products
      <4>4. w >= F \/ w >= z
        <5>1. (v >= F \/ v >= y) /\ (w = F \/ w = v + R) /\ F \in Nat /\ R \in Nat
          BY <2>4, <3>5, <4>1
        <5> HIDE DEF F, R, y, z, v, w
        <5> QED
          BY <2>3, <3>4, <4>3, <5>1
      <4> HIDE DEF w, a
      <4> QED
        BY <4>2, <4>4
    <3> QED
      BY <3>6, <3>7
  <2>8. ASSUME NEW q \in Keys \cup Users, NEW m, NEW x, Used(c, q, m, x)
        PROVE  Enough(w, recent'[i].age)
    <3>1. /\ Moved(recent, recent', m, 0) /\ Len(recent') = Len(recent) - m + 1
          /\ recent'[Len(recent')].by = c /\ recent'[Len(recent')].key = q
          /\ recent'[Len(recent')].age = 0
          /\ StoredAt(s, AfterUse(c, q), t, x)
      BY <2>8 DEF Used
    <3>2. CASE i = Len(recent')
      <4>1. recent'[i].age = 0
        BY <3>1, <3>2
      <4>2. 0 * RateOf(c) = 0
        BY <2>4
      <4> HIDE DEF w
      <4> QED
        BY <2>3, <4>1, <4>2
    <3>3. CASE i \in 1..(Len(recent) - m)
      <4>1. q # k
        <5>1. Len(recent') \in (i + 1)..Len(recent')
          <6>1. m \in Nat /\ Len(recent) \in Nat
            BY <3>1, MovedPlace
          <6> QED
            BY <3>1, <3>3, <6>1
        <5> QED
          BY <1>1, <3>1, <5>1
      <4>2. PICK y \in DOMAIN s : t[p] = s[y]
        <5>1. p # Len(t)
          BY <2>1, <3>1, <4>1, AfterUseFacts, SMTT(30) DEF StoredAt
        <5>2. p \in 1..(Len(t) - 1)
          BY <2>2, <5>1, LastOrBefore
        <5>3. t[p] = IF p < x THEN s[p] ELSE s[p + 1]
          BY <3>1, <5>2 DEF StoredAt
        <5>4. /\ x \in 1..(Len(s) + 1)
              /\ Len(t) = IF x = Len(s) + 1 THEN Len(s) + 1 ELSE Len(s)
          BY <3>1 DEF StoredAt
        <5> HIDE DEF s, t
        <5>5. (IF p < x THEN p ELSE p + 1) \in 1..Len(s)
          BY <2>2, <5>2, <5>4
        <5> QED
          BY <2>2, <5>3, <5>5
      <4>3. /\ recent[i + m].age \in Nat /\ recent'[i].age = recent[i + m].age
        <5>1. recent'[i].age = recent[i + m].age + 0 /\ recent[i + m].age \in Nat
          BY <3>1, <3>3, MovedEntry
        <5> QED
          BY <5>1
      <4>4. Enough(s[y].level, recent[i + m].age)
        <5> HIDE DEF Enough
        <5>1. PICK d \in {0, 1} : Moved(recent, recent', m, d)
          BY <3>1
        <5> QED
          BY <2>5, <2>6, <3>3, <4>2, <5>1
      <4> QED
        BY <4>2, <4>3, <4>4
    <3> QED
      BY <3>1, <3>2, <3>3, MovedPlace
  <2>9. Viewed(c)
    BY <2>1, CacheKinds
  <2> QED
    BY <2>7, <2>8, <2>9 DEF Viewed
<1> QED
  BY <1>1, Zenon DEF RefusedRefills

(* retryAfter units refill the bucket by a token. *)
LEMMA RetryRefills == retryAfter \in Nat /\ retryAfter * UserLimit >= Minute
<1>1. Minute \in Nat \ {0} /\ UserLimit \in Nat \ {0}
  BY RateLimiterAssumption
<1> DEFINE q == (Minute + UserLimit - 1) \div UserLimit
<1>2. q \in Nat /\ q * UserLimit >= Minute
  BY <1>1
<1> HIDE DEF q
<1>3. q >= 1
  <2>1. q # 0
    <3>1. 0 * UserLimit = 0 /\ ~(0 >= Minute)
      BY <1>1
    <3> QED
      BY <1>2, <3>1
  <2> QED
    BY <1>2, <2>1
<1>4. retryAfter = q
  <2>1. retryAfter = IF q < 1 THEN 1 ELSE q
    BY DEF retryAfter, q
  <2> QED
    BY <1>2, <1>3, <2>1
<1> QED
  BY <1>2, <1>4

(* Every step keeps RetryAfterIsEnough: after the wait it was told of, a   *)
(* refused user's bucket holds a token.                                    *)
LEMMA RetryStep ==
    ASSUME HistoryType, CachesOK, KeyHeld, RefusedRefills, RetryAfterIsEnough, [Next]_vars
    PROVE  RetryAfterIsEnough'
<1>1. ASSUME NEW i \in DOMAIN recent', NEW j \in DOMAIN recent', i < j,
             NEW c \in Replicas \X {"user"}, NEW k, recent'[i].by = c, recent'[i].key = k,
             recent'[j].by = c, recent'[j].key = k, ~recent'[i].ok,
             recent'[i].age - recent'[j].age >= retryAfter,
             \A n \in (i + 1)..(j - 1) : recent'[n].by # c \/ recent'[n].key # k
      PROVE  recent'[j].ok
  <2>1. c \in Caches /\ RateOf(c) = UserLimit
    BY DEF Caches, RateOf
  <2>2. ASSUME NEW m, NEW d \in {0, 1}, Moved(recent, recent', m, d), i \in 1..(Len(recent) - m),
               NEW e \in Nat, e <= Len(recent) - m,
               \A n \in (i + 1)..e : recent'[n].by # c \/ recent'[n].key # k
        PROVE  /\ i + m \in DOMAIN recent
               /\ recent[i + m].by = c /\ recent[i + m].key = k /\ ~recent[i + m].ok
               /\ recent[i + m].age \in Nat /\ recent'[i].age = recent[i + m].age + d
               /\ \A n \in (i + m + 1)..(e + m) : recent[n].by # c \/ recent[n].key # k
    <3>1. i + m \in DOMAIN recent /\ m \in Nat /\ Len(recent) \in Nat
      BY <2>2, MovedPlace
    <3>2. /\ recent[i + m].by = c /\ recent[i + m].key = k /\ ~recent[i + m].ok
          /\ recent[i + m].age \in Nat /\ recent'[i].age = recent[i + m].age + d
      <4>1. /\ recent'[i].by = recent[i + m].by /\ recent'[i].key = recent[i + m].key
            /\ recent'[i].ok = recent[i + m].ok /\ recent'[i].age = recent[i + m].age + d
            /\ recent[i + m].age \in Nat
        BY <2>2, MovedEntry, Zenon
      <4> QED
        BY <1>1, <4>1, Zenon
    <3>3. ASSUME NEW n \in (i + m + 1)..(e + m)
          PROVE  recent[n].by # c \/ recent[n].key # k
      <4>1. PICK y \in 1..(Len(recent) - m) : y + m = n /\ y \in (i + 1)..e
        <5>1. n - m \in 1..(Len(recent) - m) /\ (n - m) + m = n /\ n - m \in (i + 1)..e
          BY <2>2, <3>1
        <5> QED
          BY <5>1
      <4>2. recent'[y].by # c \/ recent'[y].key # k
        BY <2>2, <4>1
      <4>3. recent'[y].by = recent[y + m].by /\ recent'[y].key = recent[y + m].key
        BY <2>2, MovedEntry
      <4> QED
        BY <4>1, <4>2, <4>3
    <3> QED
      BY <3>1, <3>2, <3>3
  <2>3. ASSUME NEW m, NEW d \in {0, 1}, Moved(recent, recent', m, d), j \in 1..(Len(recent) - m)
        PROVE  recent'[j].ok
    <3>1. /\ m \in Nat /\ Len(recent) \in Nat /\ i \in 1..(Len(recent) - m)
          /\ j - 1 \in Nat /\ j - 1 <= Len(recent) - m
      <4>1. i \in 1..Len(recent') /\ m \in Nat /\ Len(recent) \in Nat
        BY <2>3, MovedPlace
      <4> QED
        BY <1>1, <2>3, <4>1
    <3>2. /\ recent[i + m].by = c /\ recent[i + m].key = k /\ ~recent[i + m].ok
          /\ recent[i + m].age \in Nat /\ recent'[i].age = recent[i + m].age + d
          /\ i + m \in DOMAIN recent
      BY <1>1, <2>2, <2>3, <3>1
    <3>3. \A n \in (i + m + 1)..((j - 1) + m) : recent[n].by # c \/ recent[n].key # k
      BY <1>1, <2>2, <2>3, <3>1
    <3>4. /\ recent[j + m].by = c /\ recent[j + m].key = k /\ recent[j + m].ok = recent'[j].ok
          /\ recent[j + m].age \in Nat /\ recent'[j].age = recent[j + m].age + d
          /\ j + m \in DOMAIN recent
      BY <1>1, <2>3, MovedEntry, MovedPlace
    <3>5. i + m < j + m /\ recent[i + m].age - recent[j + m].age >= retryAfter
      <4>1. recent[i + m].age - recent[j + m].age = recent'[i].age - recent'[j].age
        BY <3>2, <3>4
      <4>2. i + m < j + m
        <5>1. i < j /\ i \in Nat /\ j \in Nat
          BY <1>1, <2>3, <3>1
        <5> QED
          BY <3>1, <5>1
      <4> QED
        BY <1>1, <4>1, <4>2
    <3>6. (j - 1) + m = (j + m) - 1 /\ i + m + 1 = (i + m) + 1
      BY <3>1
    <3>7. \A n \in ((i + m) + 1)..((j + m) - 1) : recent[n].by # c \/ recent[n].key # k
      BY <3>3, <3>6
    <3>8. recent[j + m].ok
      BY <3>2, <3>4, <3>5, <3>7 DEF RetryAfterIsEnough
    <3> QED
      BY <3>4, <3>8
  <2>4. ASSUME NEW q \in Keys \cup Users, NEW m, NEW x, Used(c, q, m, x), j = Len(recent')
        PROVE  recent'[j].ok
    <3>1. /\ Moved(recent, recent', m, 0) /\ Len(recent') = Len(recent) - m + 1
          /\ recent'[j].key = q /\ recent'[j].age = 0 /\ recent'[j].ok = HasToken(c, q)
      BY <2>4 DEF Used
    <3>2. k = q
      BY <1>1, <3>1
    <3>3. PICK d \in {0, 1} : Moved(recent, recent', m, d) /\ d = 0
      BY <3>1
    <3>4. /\ m \in Nat /\ Len(recent) \in Nat /\ i \in 1..(Len(recent) - m)
          /\ Len(recent) - m \in Nat /\ Len(recent) - m = j - 1
          /\ (Len(recent) - m) + m = Len(recent) /\ Len(recent) - m <= Len(recent) - m
      <4>1. m \in Nat /\ m <= Len(recent) /\ Len(recent) \in Nat /\ i \in 1..Len(recent')
        BY <3>3, MovedPlace
      <4> QED
        BY <1>1, <2>4, <3>1, <4>1
    <3>5. \A n \in (i + 1)..(Len(recent) - m) : recent'[n].by # c \/ recent'[n].key # k
      BY <1>1, <3>4
    <3> DEFINE a == recent[i + m].age
    <3>6. /\ i + m \in DOMAIN recent
          /\ recent[i + m].by = c /\ recent[i + m].key = k /\ ~recent[i + m].ok
          /\ a \in Nat /\ recent'[i].age = a + d
          /\ \A n \in (i + m + 1)..((Len(recent) - m) + m) : recent[n].by # c \/ recent[n].key # k
      BY <2>2, <3>3, <3>4, <3>5
    <3>7. \A n \in (i + m + 1)..Len(recent) : recent[n].by # c \/ recent[n].key # k
      BY <3>4, <3>6
    <3>8. a >= retryAfter
      <4> HIDE DEF a
      <4> QED
        BY <1>1, <3>1, <3>3, <3>6, RetryRefills
    <3>9. Found(c, k).level >= Minute
      <4>1. BurstOf(c) * Minute \in Nat /\ Minute \in Nat /\ BurstOf(c) * Minute >= Minute
        BY Rates
      <4>2. Found(c, k) \in Bucket /\ Found(c, k).level \in Nat
        BY <2>1, <3>2, FoundFacts DEF Bucket
      <4>3. CASE \E p \in DOMAIN buckets[c] : buckets[c][p].key = k
        <5>1. PICK p \in DOMAIN buckets[c] : buckets[c][p].key = k
          BY <4>3
        <5>2. Found(c, k) = buckets[c][p]
          BY <2>1, <3>2, <5>1, FoundFacts
        <5>3. \/ buckets[c][p].level >= BurstOf(c) * Minute
              \/ buckets[c][p].level >= a * RateOf(c)
          BY <3>6, <3>7, <5>1 DEF RefusedRefills
        <5>4. a * UserLimit >= retryAfter * UserLimit /\ a * UserLimit \in Nat
              /\ retryAfter * UserLimit >= Minute /\ retryAfter * UserLimit \in Nat
          <6>1. UserLimit \in Nat /\ retryAfter \in Nat
            BY RateLimiterAssumption, RetryRefills
          <6> HIDE DEF a
          <6> QED
            BY <3>6, <3>8, <6>1, RetryRefills, Products
        <5> DEFINE v == Found(c, k).level
                   F == BurstOf(c) * Minute
                   y == a * UserLimit
                   z == retryAfter * UserLimit
        <5>5. /\ v \in Nat /\ F \in Nat /\ y \in Nat /\ z \in Nat /\ Minute \in Nat
              /\ (v >= F \/ v >= y) /\ y >= z /\ z >= Minute /\ F >= Minute
          BY <2>1, <4>1, <4>2, <5>2, <5>3, <5>4
        <5>6. v >= Minute
          <6> HIDE DEF v, F, y, z
          <6> QED
            BY <5>5
        <5> QED
          BY <5>6
      <4>4. CASE ~\E p \in DOMAIN buckets[c] : buckets[c][p].key = k
        <5>1. Found(c, k).level = BurstOf(c) * Minute
          BY <2>1, <3>2, <4>4, FoundFacts DEF Position
        <5> QED
          BY <4>1, <5>1
      <4> QED
        BY <4>3, <4>4
    <3> QED
      BY <3>1, <3>2, <3>9 DEF HasToken
  <2>5. ASSUME NEW m, NEW d \in {0, 1}, Quiet(c, m, d)
        PROVE  Moved(recent, recent', m, d) /\ j \in 1..(Len(recent) - m)
    BY <1>1, <2>5, MovedPlace DEF Quiet, NewUse
  <2>6. ASSUME NEW q \in Keys \cup Users, NEW m, NEW x, Used(c, q, m, x)
        PROVE  Moved(recent, recent', m, 0) /\ (j = Len(recent') \/ j \in 1..(Len(recent) - m))
    BY <2>6, MovedPlace DEF Used
  <2>7. Viewed(c)
    BY <2>1, CacheKinds
  <2> QED
    BY <2>3, <2>4, <2>5, <2>6, <2>7 DEF Viewed
<1>2. ASSUME NEW i \in DOMAIN recent', NEW j \in DOMAIN recent',
             i < j, recent'[i].by = recent'[j].by, recent'[i].by \in Replicas \X {"user"},
             recent'[i].key = recent'[j].key, ~recent'[i].ok,
             recent'[i].age - recent'[j].age >= retryAfter,
             \A n \in (i + 1)..(j - 1) :
                recent'[n].by # recent'[i].by \/ recent'[n].key # recent'[i].key
      PROVE  recent'[j].ok
  BY <1>1, <1>2
<1> QED
  BY <1>2 DEF RetryAfterIsEnough, retryAfter

-----------------------------------------------------------------------------
(***************************************************************************)
(* The counters.                                                           *)
(***************************************************************************)

CounterType == counter \in [Keys -> Counter \cup {NoCounter}]

(* What INCR and time make of the counter of key k. *)
LEMMA CounterFacts ==
    ASSUME CounterType, NEW k \in Keys
    PROVE  /\ Incremented(k) \in Counter
           /\ Incremented(k).count \in Nat \ {0}
           /\ Aged(k) \in Counter \cup {NoCounter}
           /\ (counter[k] # NoCounter /\ counter[k].ttl = Never)
                 => [counter[k] EXCEPT !.ttl = Minute] \in Counter
<1>1. Minute \in Nat \ {0} /\ Limit \in Nat \ {0} /\ Never \notin Nat
  BY RateLimiterAssumption
<1>2. Incremented(k) \in Counter
  <2>1. CASE counter[k] = NoCounter
    <3>1. Incremented(k) = [count |-> 1, ttl |-> Never] /\ 1 \in 1..(Limit + 2)
      BY <1>1, <2>1 DEF Incremented
    <3> QED
      BY <3>1 DEF Counter
  <2>2. CASE counter[k] # NoCounter
    <3>1. counter[k] \in Counter
      BY <2>2 DEF CounterType
    <3>2. counter[k].count \in 1..(Limit + 2) /\ counter[k].ttl \in (1..Minute) \cup {Never}
      BY <3>1 DEF Counter
    <3> DEFINE n == IF counter[k].count > Limit + 1 THEN counter[k].count ELSE counter[k].count + 1
    <3>3. n \in 1..(Limit + 2)
      BY <1>1, <3>2
    <3>4. Incremented(k) = [counter[k] EXCEPT !.count = n]
      BY <2>2 DEF Incremented
    <3> HIDE DEF n
    <3> QED
      BY <3>1, <3>3, <3>4 DEF Counter
  <2> QED
    BY <2>1, <2>2
<1>3. Incremented(k).count \in Nat \ {0}
  BY <1>1, <1>2 DEF Counter
<1>4. Aged(k) \in Counter \cup {NoCounter}
  <2>1. counter[k] \in Counter \cup {NoCounter}
    BY DEF CounterType
  <2>2. CASE counter[k] = NoCounter \/ counter[k].ttl = Never \/ counter[k].ttl = 1
    BY <2>1, <2>2 DEF Aged
  <2>3. CASE ~(counter[k] = NoCounter \/ counter[k].ttl = Never \/ counter[k].ttl = 1)
    <3>1. counter[k] \in Counter /\ counter[k].ttl \in 1..Minute /\ counter[k].ttl # 1
      BY <2>1, <2>3 DEF Counter
    <3>2. counter[k].ttl - 1 \in 1..Minute
      BY <1>1, <3>1
    <3>3. Aged(k) = [counter[k] EXCEPT !.ttl = @ - 1]
      BY <2>3 DEF Aged
    <3> QED
      BY <3>1, <3>2, <3>3 DEF Counter
  <2> QED
    BY <2>2, <2>3
<1>5. ASSUME counter[k] # NoCounter PROVE [counter[k] EXCEPT !.ttl = Minute] \in Counter
  <2>1. counter[k] \in Counter /\ Minute \in 1..Minute
    BY <1>1, <1>5 DEF CounterType
  <2> QED
    BY <2>1 DEF Counter
<1> QED
  BY <1>2, <1>3, <1>4, <1>5

(* Every step keeps the type of Redis's counters. *)
LEMMA CounterStep ==
    ASSUME CounterType, KeyHeld, [Next]_vars
    PROVE  CounterType'
<1>1. counter \in [Keys -> Counter \cup {NoCounter}]
  BY DEF CounterType
<1>2. ASSUME NEW w \in Workers, Incr(w) PROVE CounterType'
  <2>1. job[w].key \in Keys
    BY <1>2 DEF Incr, KeyHeld
  <2>2. Incremented(job[w].key) \in Counter
    BY <2>1, CounterFacts
  <2>3. counter' = [counter EXCEPT ![job[w].key] = Incremented(job[w].key)]
    BY <1>2 DEF Incr
  <2> QED
    BY <1>1, <2>2, <2>3 DEF CounterType
<1>3. ASSUME NEW w \in Workers, ExpireNX(w) PROVE CounterType'
  <2> DEFINE k == job[w].key
             e == IF counter[k] # NoCounter /\ counter[k].ttl = Never
                  THEN [counter[k] EXCEPT !.ttl = Minute] ELSE counter[k]
  <2>1. k \in Keys
    BY <1>3 DEF ExpireNX, KeyHeld
  <2>2. e \in Counter \cup {NoCounter}
    <3> HIDE DEF k
    <3> QED
      BY <1>1, <2>1, CounterFacts
  <2>3. counter' = [counter EXCEPT ![k] = e]
    BY <1>1, <1>3, <2>1 DEF ExpireNX
  <2> HIDE DEF e
  <2> QED
    BY <1>1, <2>2, <2>3 DEF CounterType
<1>4. CASE Tick
  <2>1. counter' = [k \in Keys |-> Aged(k)]
    BY <1>4 DEF Tick
  <2>2. \A k \in Keys : Aged(k) \in Counter \cup {NoCounter}
    BY CounterFacts
  <2> QED
    BY <2>1, <2>2 DEF CounterType
<1>5. ASSUME counter' = counter PROVE CounterType'
  BY <1>5 DEF CounterType
<1> QED
  BY <1>2, <1>3, <1>4, <1>5
  DEF Next, vars, Arrive, Decide, PipelineFails, Finish, UserRequest

(* Every step keeps the type of the requests, and that they hold a key. *)
LEMMA JobsStep ==
    ASSUME TypeOK, KeyHeld, [Next]_vars
    PROVE  /\ KeyHeld'
           /\ pc' \in [Workers -> {"idle", "incr", "expire", "decide", "next"}]
           /\ job' \in [Workers -> [key : Keys \cup {NoKey}, count : Nat]]
<1> DEFINE P == {"idle", "incr", "expire", "decide", "next"}
           J == [key : Keys \cup {NoKey}, count : Nat]
           Goal == KeyHeld' /\ pc' \in [Workers -> P] /\ job' \in [Workers -> J]
<1>1. pc \in [Workers -> P] /\ job \in [Workers -> J]
  BY DEF TypeOK
<1>2. ASSUME NEW w \in Workers, NEW l \in P, NEW j \in J, l # "idle" => j.key \in Keys,
             pc' = [pc EXCEPT ![w] = l], job' = [job EXCEPT ![w] = j]
      PROVE  Goal
  <2> HIDE DEF P, J
  <2>1. pc' \in [Workers -> P] /\ job' \in [Workers -> J]
    BY <1>1, <1>2
  <2>2. ASSUME NEW v \in Workers, pc'[v] # "idle" PROVE job'[v].key \in Keys
    <3>1. CASE v = w
      BY <1>1, <1>2, <2>2, <3>1
    <3>2. CASE v # w
      <4>1. pc'[v] = pc[v] /\ job'[v] = job[v]
        BY <1>1, <1>2, <3>2
      <4> QED
        BY <2>2, <4>1 DEF KeyHeld
    <3> QED
      BY <3>1, <3>2
  <2> QED
    BY <2>1, <2>2 DEF KeyHeld
<1>3. ASSUME NEW w \in Workers, NEW k \in Keys \cup {NoKey}, NEW ok \in BOOLEAN, ok => k \in Keys,
             Proceed(w, k, ok)
      PROVE  Goal
  <2> DEFINE l == IF ok THEN "next" ELSE "idle"
             j == IF ok THEN [NoJob EXCEPT !.key = k] ELSE NoJob
  <2>1. l \in P /\ j \in J /\ (l # "idle" => j.key \in Keys)
    BY <1>3 DEF NoJob
  <2>2. pc' = [pc EXCEPT ![w] = l] /\ job' = [job EXCEPT ![w] = j]
    BY <1>3 DEF Proceed
  <2> HIDE DEF l, j, Goal, P, J
  <2> QED
    BY <1>2, <2>1, <2>2
<1>4. ASSUME NEW w \in Workers, pc[w] \in {"incr", "expire", "decide"}
      PROVE  job[w].key \in Keys
  BY <1>4 DEF KeyHeld
<1>5. ASSUME NEW w \in Workers, NEW k \in Keys, Arrive(w, k) PROVE Goal
  <2> DEFINE j == [NoJob EXCEPT !.key = k]
  <2>1. j \in J /\ j.key \in Keys /\ "incr" \in P
    BY DEF NoJob
  <2>2. pc' = [pc EXCEPT ![w] = "incr"] /\ job' = [job EXCEPT ![w] = j]
    BY <1>5 DEF Arrive
  <2> HIDE DEF j, Goal, P, J
  <2> QED
    BY <1>2, <2>1, <2>2
<1>6. ASSUME NEW w \in Workers, Incr(w), CounterType PROVE Goal
  <2> DEFINE j == [job[w] EXCEPT !.count = Incremented(job[w].key).count]
  <2>1. job[w].key \in Keys /\ job[w] \in J
    BY <1>1, <1>4, <1>6 DEF Incr
  <2>2. Incremented(job[w].key).count \in Nat
    BY <1>6, <2>1, CounterFacts
  <2>3. j \in J /\ j.key \in Keys /\ "expire" \in P
    BY <2>1, <2>2
  <2>4. pc' = [pc EXCEPT ![w] = "expire"] /\ job' = [job EXCEPT ![w] = j]
    BY <1>1, <1>6 DEF Incr
  <2> HIDE DEF j, Goal, P, J
  <2> QED
    BY <1>2, <2>3, <2>4
<1>7. ASSUME NEW w \in Workers, ExpireNX(w) PROVE Goal
  <2>1. job[w].key \in Keys /\ job[w] \in J /\ "decide" \in P
    BY <1>1, <1>4, <1>7 DEF ExpireNX
  <2>2. pc' = [pc EXCEPT ![w] = "decide"] /\ job' = [job EXCEPT ![w] = job[w]]
    BY <1>1, <1>7 DEF ExpireNX
  <2> HIDE DEF Goal, P, J
  <2> QED
    BY <1>2, <2>1, <2>2
<1>8. ASSUME NEW w \in Workers, Decide(w) PROVE Goal
  <2>1. job[w].key \in Keys /\ Proceed(w, job[w].key, ~OverLimit(job[w].count))
    BY <1>4, <1>8 DEF Decide
  <2>2. (~OverLimit(job[w].count)) \in BOOLEAN
    OBVIOUS
  <2> HIDE DEF Goal
  <2> QED
    BY <1>3, <2>1, <2>2
<1>9. ASSUME NEW w \in Workers, PipelineFails(w) PROVE Goal
  <2> DEFINE ok == HasToken(<<Home[w], "fallback">>, job[w].key)
  <2>1. job[w].key \in Keys /\ Proceed(w, job[w].key, ok)
    BY <1>4, <1>9 DEF PipelineFails, Fallback
  <2>2. ok \in BOOLEAN
    BY DEF HasToken
  <2> HIDE DEF ok, Goal
  <2> QED
    BY <1>3, <2>1, <2>2
<1>10. ASSUME NEW w \in Workers, Finish(w) PROVE Goal
  <2>1. Proceed(w, NoKey, FALSE)
    BY <1>10 DEF Finish
  <2> HIDE DEF Goal
  <2> QED
    BY <1>3, <2>1
<1>11. ASSUME UNCHANGED <<pc, job>> PROVE Goal
  BY <1>1, <1>11 DEF KeyHeld
<1>12. CounterType
  BY DEF TypeOK, CounterType
<1>13. Goal
  <2> HIDE DEF Goal
  <2> QED
    BY <1>5, <1>6, <1>7, <1>8, <1>9, <1>10, <1>11, <1>12 DEF Next, UserRequest, Tick, vars
<1> QED
  BY <1>13

-----------------------------------------------------------------------------
(***************************************************************************)
(* The two windows.                                                        *)
(***************************************************************************)

(* Where the split s is after a step that forgets m answers. *)
SplitAfter(s, m) == IF s >= m THEN s - m ELSE 0

(* The answers of the counter that runs which the step has not added. *)
StillIn(k, s, m) ==
    {n \in WindowOf(recent', k, SplitAfter(s, m) + 1, Len(recent')) : n \in 1..(Len(recent) - m)}

(* Answers that leave the history, or age in it, keep the split. *)
LEMMA SplitMoved ==
    ASSUME NEW m, NEW d \in {0, 1}, Moved(recent, recent', m, d), NEW k, NEW s \in 0..Len(recent)
    PROVE  /\ SplitAfter(s, m) \in 0..Len(recent')
           /\ Cardinality(StillIn(k, s, m)) <= Cardinality(WindowOf(recent, k, s + 1, Len(recent)))
           /\ WindowOf(recent, k, s + 1, Len(recent)) = {} => StillIn(k, s, m) = {}
           /\ IsFiniteSet(StillIn(k, s, m)) /\ Cardinality(StillIn(k, s, m)) \in Nat
           /\ Cardinality(WindowOf(recent, k, s + 1, Len(recent))) \in Nat
           /\ Cardinality(YoungOf(recent', k, 1, SplitAfter(s, m)))
                 <= Cardinality(YoungOf(recent, k, 1, s))
           /\ Cardinality(YoungOf(recent', k, 1, SplitAfter(s, m))) \in Nat
           /\ Cardinality(YoungOf(recent, k, 1, s)) \in Nat
           /\ \A n \in WindowOf(recent', k, 1, SplitAfter(s, m)) :
                 /\ n + m \in WindowOf(recent, k, 1, s)
                 /\ recent'[n].age = recent[n + m].age + d /\ recent[n + m].age \in Nat
<1> DEFINE s2 == SplitAfter(s, m)
           W == WindowOf(recent, k, s + 1, Len(recent))
           B == {n \in WindowOf(recent', k, s2 + 1, Len(recent')) : n \in 1..(Len(recent) - m)}
<1>1. /\ m \in Nat /\ Len(recent) \in Nat /\ Len(recent') \in Nat /\ s \in Nat /\ m <= Len(recent)
      /\ Len(recent') = Len(recent) - m \/ Len(recent') = Len(recent) - m + 1
  BY MovedPlace
<1>2. /\ s2 \in 0..Len(recent') /\ s2 <= Len(recent) - m /\ s2 \in Nat /\ s2 + m >= s
      /\ s2 = 0 \/ s2 + m = s
  <2>1. s <= Len(recent)
    BY <1>1
  <2> DEFINE a == Len(recent)
             b == Len(recent')
  <2> HIDE DEF a, b
  <2>2. a \in Nat /\ b \in Nat /\ m \in Nat /\ s \in Nat /\ m <= a /\ s <= a /\ (b = a - m \/ b = a - m + 1)
    BY <1>1, <2>1 DEF a, b
  <2>3. s2 \in 0..b /\ s2 <= a - m /\ s2 \in Nat /\ s2 + m >= s /\ (s2 = 0 \/ s2 + m = s)
    BY <2>2 DEF SplitAfter
  <2> QED
    BY <2>3 DEF a, b
<1> HIDE DEF s2
<1>3. ASSUME NEW n \in B PROVE n + m \in W
  <2>1. /\ n \in 1..(Len(recent) - m) /\ n \in (s2 + 1)..Len(recent')
        /\ recent'[n].key = k /\ recent'[n].ok /\ recent'[n].by[2] = "redis"
    BY DEF WindowOf
  <2> HIDE DEF B, W
  <2>2. /\ recent'[n].by = recent[n + m].by /\ recent'[n].key = recent[n + m].key
        /\ recent'[n].ok = recent[n + m].ok
    BY <2>1, MovedEntry, ZenonT(30)
  <2>3. n + m \in (s + 1)..Len(recent)
    BY <1>1, <1>2, <2>1
  <2> QED
    BY <2>1, <2>2, <2>3 DEF W, WindowOf
<1>4. B \in SUBSET Nat
  BY <1>1
<1>5. IsFiniteSet(W) /\ Cardinality(W) \in Nat
  <2>1. s + 1 \in Nat
    BY <1>1
  <2> QED
    BY <1>1, <2>1, GrantsFinite
<1>6. IsFiniteSet(B) /\ Cardinality(B) \in Nat /\ Cardinality(B) <= Cardinality(W)
  <2> HIDE DEF B, W
  <2> QED
    BY <1>1, <1>3, <1>4, <1>5, ShiftCount
<1>7. W = {} => B = {}
  BY <1>3
<1>8. ASSUME NEW n \in WindowOf(recent', k, 1, s2)
      PROVE  /\ n + m \in WindowOf(recent, k, 1, s)
             /\ recent'[n].age = recent[n + m].age + d /\ recent[n + m].age \in Nat
  <2>1. n \in 1..s2 /\ recent'[n].key = k /\ recent'[n].ok /\ recent'[n].by[2] = "redis"
    BY DEF WindowOf
  <2>2. n \in 1..(Len(recent) - m) /\ n + m \in 1..s
    BY <1>1, <1>2, <2>1
  <2>3. /\ recent[n + m].key = k /\ recent[n + m].ok /\ recent[n + m].by[2] = "redis"
        /\ recent'[n].age = recent[n + m].age + d /\ recent[n + m].age \in Nat
    BY <2>1, <2>2, MovedEntry
  <2> QED
    BY <2>2, <2>3 DEF WindowOf
<1>9. /\ Cardinality(YoungOf(recent', k, 1, s2)) <= Cardinality(YoungOf(recent, k, 1, s))
      /\ Cardinality(YoungOf(recent', k, 1, s2)) \in Nat
      /\ Cardinality(YoungOf(recent, k, 1, s)) \in Nat
  <2>1. ASSUME NEW n \in YoungOf(recent', k, 1, s2) PROVE n + m \in YoungOf(recent, k, 1, s)
    <3>1. n \in WindowOf(recent', k, 1, s2) /\ recent'[n].age < Minute
      BY DEF YoungOf
    <3>2. n + m \in WindowOf(recent, k, 1, s) /\ recent'[n].age = recent[n + m].age + d
          /\ recent[n + m].age \in Nat
      BY <1>8, <3>1
    <3>3. Minute \in Nat
      BY Rates
    <3>4. recent[n + m].age < Minute
      BY <3>1, <3>2, <3>3
    <3> QED
      BY <3>2, <3>4 DEF YoungOf
  <2>2. YoungOf(recent', k, 1, s2) \in SUBSET Nat
    BY DEF YoungOf, WindowOf
  <2>3. IsFiniteSet(YoungOf(recent, k, 1, s))
    BY <1>1, GrantsFinite
  <2>4. Cardinality(YoungOf(recent, k, 1, s)) \in Nat
    BY <2>3, FS_CardinalityType
  <2> QED
    BY <1>1, <2>1, <2>2, <2>3, <2>4, ShiftCount
<1> HIDE DEF B, W
<1>10. /\ s2 \in 0..Len(recent') /\ Cardinality(B) <= Cardinality(W) /\ (W = {} => B = {})
       /\ IsFiniteSet(B) /\ Cardinality(B) \in Nat /\ Cardinality(W) \in Nat
       /\ Cardinality(YoungOf(recent', k, 1, s2)) <= Cardinality(YoungOf(recent, k, 1, s))
       /\ Cardinality(YoungOf(recent', k, 1, s2)) \in Nat
       /\ Cardinality(YoungOf(recent, k, 1, s)) \in Nat
       /\ \A n \in WindowOf(recent', k, 1, s2) :
             /\ n + m \in WindowOf(recent, k, 1, s)
             /\ recent'[n].age = recent[n + m].age + d /\ recent[n + m].age \in Nat
  BY <1>2, <1>5, <1>6, <1>7, <1>8, <1>9
<1> QED
  BY <1>10 DEF s2, B, W, StillIn

(* SplitAt, of a history h and a counter x. *)
Split(h, x, k, s) ==
    /\ s \in 0..Len(h)
    /\ Cardinality(WindowOf(h, k, s + 1, Len(h))) <= Limit
    /\ x = NoCounter => WindowOf(h, k, s + 1, Len(h)) = {}
    /\ x # NoCounter => Cardinality(WindowOf(h, k, s + 1, Len(h))) <= x.count
    /\ Cardinality(YoungOf(h, k, 1, s)) <= Limit
    /\ (x # NoCounter /\ x.ttl # Never) =>
          \A n \in WindowOf(h, k, 1, s) : h[n].age >= Minute - x.ttl

(* The step adds no answer of Redis for k. *)
LEMMA SplitSame ==
    ASSUME NEW m, NEW d \in {0, 1}, Moved(recent, recent', m, d), NEW k, NEW s \in 0..Len(recent),
           \/ Len(recent') = Len(recent) - m
           \/ recent'[Len(recent')].key # k \/ recent'[Len(recent')].by[2] # "redis"
    PROVE  WindowOf(recent', k, SplitAfter(s, m) + 1, Len(recent')) = StillIn(k, s, m)
<1>1. ASSUME NEW n \in WindowOf(recent', k, SplitAfter(s, m) + 1, Len(recent'))
      PROVE  n \in 1..(Len(recent) - m)
  <2>1. /\ n \in (SplitAfter(s, m) + 1)..Len(recent')
        /\ recent'[n].key = k /\ recent'[n].by[2] = "redis"
    BY DEF WindowOf
  <2>2. SplitAfter(s, m) \in Nat /\ Len(recent') \in Nat /\ Len(recent) \in Nat /\ m \in Nat
    <3>1. SplitAfter(s, m) \in 0..Len(recent')
      BY SplitMoved
    <3>2. Len(recent') \in Nat /\ Len(recent) \in Nat /\ m \in Nat
      BY MovedPlace
    <3> QED
      BY <3>1, <3>2
  <2>3. n \in 1..Len(recent')
    BY <2>1, <2>2
  <2>4. n # Len(recent') \/ Len(recent') = Len(recent) - m
    BY <2>1
  <2>5. n \in 1..(Len(recent) - m) \/ (n = Len(recent') /\ Len(recent') = Len(recent) - m + 1)
    BY <2>3, MovedPlace
  <2> QED
    BY <2>2, <2>3, <2>4, <2>5
<1> QED
  BY <1>1 DEF StillIn

(* It adds one at most. *)
LEMMA SplitMore ==
    ASSUME NEW m, NEW d \in {0, 1}, Moved(recent, recent', m, d), NEW k, NEW s \in 0..Len(recent)
    PROVE  /\ Cardinality(WindowOf(recent', k, SplitAfter(s, m) + 1, Len(recent')))
                 <= Cardinality(StillIn(k, s, m)) + 1
           /\ Cardinality(WindowOf(recent', k, SplitAfter(s, m) + 1, Len(recent'))) \in Nat
<1> DEFINE V == WindowOf(recent', k, SplitAfter(s, m) + 1, Len(recent'))
           B == StillIn(k, s, m)
<1>1. SplitAfter(s, m) \in Nat /\ Len(recent') \in Nat /\ SplitAfter(s, m) + 1 \in Nat
  <2>1. SplitAfter(s, m) \in 0..Len(recent')
    BY SplitMoved
  <2>2. Len(recent') \in Nat
    BY MovedPlace
  <2> QED
    BY <2>1, <2>2
<1>2. ASSUME NEW n \in V PROVE n \in B \/ n = Len(recent')
  <2>1. n \in (SplitAfter(s, m) + 1)..Len(recent')
    BY DEF WindowOf
  <2>2. n \in 1..Len(recent')
    BY <1>1, <2>1
  <2>3. n \in 1..(Len(recent) - m) \/ n = Len(recent')
    BY <2>2, MovedPlace
  <2> QED
    BY <2>3 DEF StillIn
<1>3. V \in SUBSET (B \cup {Len(recent')})
  BY <1>2
<1>4. IsFiniteSet(B) /\ Cardinality(B) \in Nat
  BY SplitMoved
<1>5. IsFiniteSet(V) /\ Cardinality(V) \in Nat
  BY <1>1, GrantsFinite
<1> HIDE DEF V, B
<1>6. /\ IsFiniteSet(B \cup {Len(recent')})
      /\ \/ Cardinality(B \cup {Len(recent')}) = Cardinality(B)
         \/ Cardinality(B \cup {Len(recent')}) = Cardinality(B) + 1
  BY <1>4, FS_AddElement
<1>7. Cardinality(V) <= Cardinality(B \cup {Len(recent')})
  BY <1>3, <1>6, FS_Subset
<1>8. Cardinality(V) <= Cardinality(B) + 1
  BY <1>4, <1>5, <1>6, <1>7
<1> QED
  BY <1>5, <1>8 DEF V, B

(* The split after a step that leaves the counter, or lets it age, without *)
(* an answer of Redis for k.                                               *)
LEMMA SplitKept ==
    ASSUME NEW m, NEW d \in {0, 1}, Moved(recent, recent', m, d), NEW k, NEW s,
           NEW x \in Counter \cup {NoCounter}, NEW y \in Counter \cup {NoCounter},
           Split(recent, x, k, s),
           \/ Len(recent') = Len(recent) - m
           \/ recent'[Len(recent')].key # k \/ recent'[Len(recent')].by[2] # "redis",
           x = NoCounter => y = NoCounter,
           x # NoCounter => /\ y # NoCounter /\ y.count = x.count
                            /\ y.ttl = Never \/ (x.ttl # Never /\ y.ttl = x.ttl - d)
    PROVE  Split(recent', y, k, SplitAfter(s, m))
<1> DEFINE s2 == SplitAfter(s, m)
           W == WindowOf(recent, k, s + 1, Len(recent))
           V == WindowOf(recent', k, s2 + 1, Len(recent'))
<1>1. s \in 0..Len(recent)
  BY DEF Split
<1>2. V = StillIn(k, s, m)
  BY <1>1, SplitSame
<1>3. /\ s2 \in 0..Len(recent') /\ Cardinality(V) <= Cardinality(W) /\ (W = {} => V = {})
      /\ Cardinality(V) \in Nat /\ Cardinality(W) \in Nat
      /\ Cardinality(YoungOf(recent', k, 1, s2)) <= Cardinality(YoungOf(recent, k, 1, s))
      /\ Cardinality(YoungOf(recent', k, 1, s2)) \in Nat
      /\ Cardinality(YoungOf(recent, k, 1, s)) \in Nat
  BY <1>1, <1>2, SplitMoved
<1>4. \A n \in WindowOf(recent', k, 1, s2) :
         /\ n + m \in WindowOf(recent, k, 1, s)
         /\ recent'[n].age = recent[n + m].age + d /\ recent[n + m].age \in Nat
  BY <1>1, SplitMoved
<1>5. /\ Cardinality(W) <= Limit /\ Cardinality(YoungOf(recent, k, 1, s)) <= Limit
      /\ (x = NoCounter => W = {}) /\ (x # NoCounter => Cardinality(W) <= x.count)
  BY DEF Split
<1>6. Limit \in Nat /\ Minute \in Nat
  BY Rates
<1> HIDE DEF V, W, s2
<1>7. Cardinality(V) <= Limit /\ Cardinality(YoungOf(recent', k, 1, s2)) <= Limit
  BY <1>3, <1>5, <1>6
<1>8. y = NoCounter => V = {}
  BY <1>3, <1>5
<1>9. y # NoCounter => Cardinality(V) <= y.count
  <2>1. SUFFICES ASSUME y # NoCounter PROVE Cardinality(V) <= y.count
    OBVIOUS
  <2>2. x # NoCounter /\ y.count = x.count /\ y.count \in Nat
    BY <2>1 DEF Counter
  <2>3. Cardinality(W) <= y.count
    BY <1>5, <2>2
  <2> QED
    BY <1>3, <2>2, <2>3
<1>10. ASSUME y # NoCounter, y.ttl # Never, NEW n \in WindowOf(recent', k, 1, s2)
       PROVE  recent'[n].age >= Minute - y.ttl
  <2>1. x # NoCounter /\ x.ttl # Never /\ y.ttl = x.ttl - d
    BY <1>10
  <2>2. n + m \in WindowOf(recent, k, 1, s)
        /\ recent'[n].age = recent[n + m].age + d /\ recent[n + m].age \in Nat
    BY <1>4
  <2>3. recent[n + m].age >= Minute - x.ttl
    BY <2>1, <2>2 DEF Split
  <2>4. x.ttl \in Nat
    BY <2>1 DEF Counter
  <2> QED
    BY <1>6, <2>1, <2>2, <2>3, <2>4
<1>11. Split(recent', y, k, s2)
  BY <1>3, <1>7, <1>8, <1>9, <1>10 DEF V, Split
<1> QED
  BY <1>11 DEF s2

(* The counter lets one more through. *)
LEMMA SplitGranted ==
    ASSUME NEW m, Moved(recent, recent', m, 0), NEW k \in Keys, NEW s,
           CounterType, Split(recent, counter[k], k, s), Incremented(k).count <= Limit
    PROVE  Split(recent', Incremented(k), k, SplitAfter(s, m))
<1> DEFINE s2 == SplitAfter(s, m)
           x == counter[k]
           y == Incremented(k)
           W == WindowOf(recent, k, s + 1, Len(recent))
           V == WindowOf(recent', k, s2 + 1, Len(recent'))
<1>1. s \in 0..Len(recent)
  BY DEF Split
<1>2. PICK d \in {0, 1} : Moved(recent, recent', m, d) /\ d = 0
  OBVIOUS
<1>3. /\ s2 \in 0..Len(recent') /\ Cardinality(StillIn(k, s, m)) <= Cardinality(W)
      /\ Cardinality(StillIn(k, s, m)) \in Nat /\ Cardinality(W) \in Nat
      /\ Cardinality(YoungOf(recent', k, 1, s2)) <= Cardinality(YoungOf(recent, k, 1, s))
      /\ Cardinality(YoungOf(recent', k, 1, s2)) \in Nat
      /\ Cardinality(YoungOf(recent, k, 1, s)) \in Nat
  BY <1>1, <1>2, SplitMoved
<1>4. \A n \in WindowOf(recent', k, 1, s2) :
         /\ n + m \in WindowOf(recent, k, 1, s)
         /\ recent'[n].age = recent[n + m].age + d /\ recent[n + m].age \in Nat
  BY <1>1, <1>2, SplitMoved
<1>5. Cardinality(V) <= Cardinality(StillIn(k, s, m)) + 1 /\ Cardinality(V) \in Nat
  BY <1>1, <1>2, SplitMore
<1>6. /\ Cardinality(W) <= Limit /\ Cardinality(YoungOf(recent, k, 1, s)) <= Limit
      /\ (x = NoCounter => W = {}) /\ (x # NoCounter => Cardinality(W) <= x.count)
  BY DEF Split
<1>7. Limit \in Nat /\ Minute \in Nat
  BY Rates
<1>8. y \in Counter /\ y # NoCounter /\ y.count \in Nat /\ x \in Counter \cup {NoCounter}
  BY CounterFacts, RateLimiterAssumption DEF CounterType
<1>9. x = NoCounter => y = [count |-> 1, ttl |-> Never]
  BY DEF Incremented
<1>10. x # NoCounter =>
          /\ x \in Counter /\ y.ttl = x.ttl
          /\ y.count = IF x.count > Limit + 1 THEN x.count ELSE x.count + 1
  <2>1. SUFFICES ASSUME x # NoCounter
                 PROVE  /\ x \in Counter /\ y.ttl = x.ttl
                        /\ y.count = IF x.count > Limit + 1 THEN x.count ELSE x.count + 1
    OBVIOUS
  <2>2. x \in Counter
    BY <1>8, <2>1
  <2>3. y = [x EXCEPT !.count = IF @ > Limit + 1 THEN @ ELSE @ + 1]
    BY <2>1 DEF Incremented
  <2> HIDE DEF x, y
  <2> QED
    BY <2>2, <2>3 DEF Counter
<1>11. y.count <= Limit
  OBVIOUS
<1> HIDE DEF V, W, s2, x, y
<1>12. Cardinality(V) <= y.count
  <2>1. CASE x = NoCounter
    <3>1. Cardinality(W) = 0
      BY <1>6, <2>1, FS_EmptySet
    <3>2. y.count = 1
      BY <1>9, <2>1
    <3> QED
      BY <1>3, <1>5, <3>1, <3>2
  <2>2. CASE x # NoCounter
    <3>1. x.count \in Nat /\ Cardinality(W) <= x.count
      BY <1>6, <1>10, <2>2 DEF Counter
    <3>2. y.count = IF x.count > Limit + 1 THEN x.count ELSE x.count + 1
      BY <1>10, <2>2
    <3>3. y.count = x.count + 1
      BY <1>7, <1>11, <3>1, <3>2
    <3> QED
      BY <1>3, <1>5, <3>1, <3>3
  <2> QED
    BY <2>1, <2>2
<1>13. Cardinality(V) <= Limit /\ Cardinality(YoungOf(recent', k, 1, s2)) <= Limit
  BY <1>3, <1>5, <1>6, <1>7, <1>8, <1>11, <1>12
<1>14. ASSUME y.ttl # Never, NEW n \in WindowOf(recent', k, 1, s2)
       PROVE  recent'[n].age >= Minute - y.ttl
  <2>1. x # NoCounter /\ y.ttl = x.ttl
    BY <1>9, <1>10, <1>14
  <2>2. /\ n + m \in WindowOf(recent, k, 1, s)
        /\ recent'[n].age = recent[n + m].age + d /\ recent[n + m].age \in Nat
    BY <1>4
  <2>3. recent[n + m].age >= Minute - x.ttl
    BY <1>14, <2>1, <2>2 DEF Split, x
  <2>4. recent'[n].age = recent[n + m].age
    BY <1>2, <2>2
  <2> QED
    BY <2>1, <2>3, <2>4
<1>15. Split(recent', y, k, s2)
  BY <1>3, <1>8, <1>12, <1>13, <1>14 DEF V, Split
<1> QED
  BY <1>15 DEF s2, y

(* The counter expires: what it let through is a minute old or the last    *)
(* Limit answers, and a new one finds nothing to count.                    *)
LEMMA SplitExpired ==
    ASSUME NEW m, Moved(recent, recent', m, 1), Len(recent') = Len(recent) - m, NEW k, NEW s,
           NEW x \in Counter, x # NoCounter, x.ttl = 1, Split(recent, x, k, s)
    PROVE  Split(recent', NoCounter, k, Len(recent'))
<1> DEFINE W == WindowOf(recent, k, s + 1, Len(recent))
           Y == YoungOf(recent', k, 1, Len(recent'))
<1>1. PICK d \in {0, 1} : Moved(recent, recent', m, d) /\ d = 1
  OBVIOUS
<1>2. s \in Nat /\ m \in Nat /\ Len(recent) \in Nat /\ Len(recent') \in Nat
  BY <1>1, MovedPlace DEF Split
<1>3. WindowOf(recent', k, Len(recent') + 1, Len(recent')) = {}
  <2>1. \A l \in Nat : \A n \in (l + 1)..l : FALSE
    OBVIOUS
  <2>2. \A n \in (Len(recent') + 1)..Len(recent') : FALSE
    BY <1>2, <2>1
  <2> QED
    BY <2>2 DEF WindowOf
<1>4. Limit \in Nat /\ Minute \in Nat /\ 1 # Never
  BY RateLimiterAssumption
<1>5. ASSUME NEW n \in Y PROVE n + m \in W
  <2>1. /\ n \in 1..Len(recent') /\ recent'[n].key = k /\ recent'[n].ok
        /\ recent'[n].by[2] = "redis" /\ recent'[n].age < Minute
    BY DEF YoungOf, WindowOf
  <2>2. n \in 1..(Len(recent) - m)
    BY <2>1
  <2>3. /\ recent[n + m].key = k /\ recent[n + m].ok /\ recent[n + m].by[2] = "redis"
        /\ recent'[n].age = recent[n + m].age + d /\ recent[n + m].age \in Nat
    <3>1. /\ recent'[n].by = recent[n + m].by /\ recent'[n].key = recent[n + m].key
          /\ recent'[n].ok = recent[n + m].ok
          /\ recent'[n].age = recent[n + m].age + d /\ recent[n + m].age \in Nat
      BY <1>1, <2>2, MovedEntry
    <3> QED
      BY <2>1, <3>1
  <2>4. n + m \in 1..Len(recent)
    <3> DEFINE a == Len(recent)
    <3>1. a \in Nat /\ m \in Nat /\ n \in 1..(a - m)
      BY <1>2, <2>2
    <3> HIDE DEF a
    <3>2. n + m \in 1..a
      BY <3>1
    <3> QED
      BY <3>2 DEF a
  <2>5. n + m \notin 1..s
    <3>1. SUFFICES ASSUME n + m \in 1..s PROVE FALSE
      OBVIOUS
    <3>2. n + m \in WindowOf(recent, k, 1, s)
      BY <2>3, <3>1 DEF WindowOf
    <3>3. recent[n + m].age >= Minute - x.ttl
      BY <1>4, <3>2 DEF Split
    <3>4. recent[n + m].age >= Minute - 1
      BY <3>3
    <3> QED
      BY <1>1, <1>4, <2>1, <2>3, <3>4
  <2>6. n + m \in (s + 1)..Len(recent)
    BY <1>2, <2>2, <2>4, <2>5
  <2> QED
    BY <2>3, <2>6 DEF WindowOf
<1>6. IsFiniteSet(W) /\ Cardinality(W) \in Nat
  <2>1. s + 1 \in Nat
    BY <1>2
  <2> QED
    BY <1>2, <2>1, GrantsFinite
<1>7. Y \in SUBSET Nat
  BY DEF YoungOf, WindowOf
<1>8. Cardinality(W) <= Limit
  BY DEF Split
<1> HIDE DEF W, Y
<1>9. Cardinality(Y) \in Nat /\ Cardinality(Y) <= Cardinality(W)
  BY <1>2, <1>5, <1>6, <1>7, ShiftCount
<1>10. Cardinality(Y) <= Limit
  BY <1>4, <1>6, <1>8, <1>9
<1>11. Len(recent') \in 0..Len(recent') /\ Cardinality({}) <= Limit
  BY <1>2, <1>4, FS_EmptySet
<1> QED
  BY <1>3, <1>10, <1>11 DEF Split, Y

(* Every step keeps TwoWindows. *)
LEMMA TwoWindowsStep ==
    ASSUME HistoryType, CounterType, KeyHeld, TwoWindows, [Next]_vars
    PROVE  TwoWindows'
<1>1. ASSUME NEW k \in Keys PROVE \E s : Split(recent', counter'[k], k, s)
  <2> DEFINE x == counter[k]
             Goal == \E s : Split(recent', counter'[k], k, s)
  <2>1. PICK s \in 0..Len(recent) : Split(recent, x, k, s)
    BY DEF TwoWindows, SplitAt, Split
  <2>2. x \in Counter \cup {NoCounter} /\ counter'[k] \in Counter \cup {NoCounter}
    BY CounterStep DEF CounterType
  <2>3. ASSUME counter'[k] = x, NEW m, NEW d \in {0, 1}, Moved(recent, recent', m, d), d = 0,
               \/ Len(recent') = Len(recent) - m
               \/ recent'[Len(recent')].key # k \/ recent'[Len(recent')].by[2] # "redis"
        PROVE  Goal
    <3>1. x # NoCounter => x.ttl = Never \/ (x.ttl # Never /\ x.ttl = x.ttl - d)
      <4>1. x # NoCounter /\ x.ttl # Never => x.ttl \in Nat
        BY <2>2 DEF Counter
      <4> QED
        BY <2>3, <4>1
    <3>2. Split(recent', x, k, SplitAfter(s, m))
      <4> HIDE DEF x
      <4> QED
        BY <2>1, <2>2, <2>3, <3>1, SplitKept
    <3> QED
      BY <2>3, <3>2
  <2>4. ASSUME counter'[k] = x, recent' = recent PROVE Goal
    BY <2>1, <2>4
  <2>5. ASSUME counter'[k] = x, NEW b \in Replicas \X {"fallback", "user", "redis"},
               NEW q \in Keys \cup Users, NEW ok \in BOOLEAN, Answered(b, q, ok),
               b[2] # "redis" \/ q # k
        PROVE  Goal
    <3>1. PICK m \in Nat :
             /\ Moved(recent, recent', m, 0)
             /\ recent'[Len(recent')] = [by |-> b, key |-> q, ok |-> ok, age |-> 0]
      BY <2>5, AnsweredMoved
    <3>2. recent'[Len(recent')].key # k \/ recent'[Len(recent')].by[2] # "redis"
      BY <2>5, <3>1
    <3>3. PICK d \in {0, 1} : Moved(recent, recent', m, d) /\ d = 0
      BY <3>1
    <3> HIDE DEF x, Goal
    <3> QED
      BY <2>3, <2>5, <3>2, <3>3
  <2>6. ASSUME counter'[k] = x, NEW e \in Caches, NEW q \in Keys \cup Users, allow(e, q) PROVE Goal
    <3>1. Answered(e, q, HasToken(e, q))
      BY <2>6 DEF allow
    <3>2. /\ e \in Replicas \X {"fallback", "user", "redis"} /\ e[2] # "redis"
          /\ HasToken(e, q) \in BOOLEAN
      BY DEF Caches, HasToken
    <3> HIDE DEF x, Goal
    <3> QED
      BY <2>5, <2>6, <3>1, <3>2
  <2>7. ASSUME counter'[k] = x, NEW w \in Workers, NEW q \in Keys \ {k},
               Answered(<<Home[w], "redis">>, q, TRUE)
        PROVE  Goal
    <3>1. <<Home[w], "redis">> \in Replicas \X {"fallback", "user", "redis"}
      BY RateLimiterAssumption
    <3> HIDE DEF x, Goal
    <3> QED
      BY <2>5, <2>7, <3>1
  <2>8. ASSUME x # NoCounter, x.ttl = Never, counter'[k] = [x EXCEPT !.ttl = Minute],
               recent' = recent
        PROVE  Goal
    <3> DEFINE y == counter'[k]
    <3>1. x \in Counter /\ y.count = x.count /\ y.ttl = Minute
      <4>1. x \in Counter
        BY <2>2, <2>8
      <4> HIDE DEF x
      <4> QED
        BY <2>8, <4>1 DEF Counter
    <3>2. \A n \in WindowOf(recent, k, 1, s) : recent[n].age >= Minute - Minute
      <4>1. ASSUME NEW n \in WindowOf(recent, k, 1, s) PROVE recent[n].age \in Nat
        <5>1. n \in 1..Len(recent)
          <6>1. n \in 1..s /\ Len(recent) \in Nat
            BY DEF WindowOf, HistoryType
          <6> QED
            BY <2>1, <6>1
        <5>2. recent[n] \in Answer
          BY <5>1 DEF HistoryType
        <5> QED
          BY <5>2 DEF Answer
      <4>2. Minute \in Nat
        BY Rates
      <4> HIDE DEF x, y, Goal
      <4> QED
        BY <4>1, <4>2
    <3>3. Split(recent, x, k, s) /\ y # NoCounter
      BY <2>1, <2>2, <3>1, <2>8, RateLimiterAssumption, SMTT(30) DEF Counter
    <3> HIDE DEF x, y
    <3>4. Split(recent, y, k, s)
      BY <2>8, <3>1, <3>2, <3>3 DEF Split
    <3> QED
      BY <2>8, <3>4 DEF y
  <2>9. ASSUME counter'[k] = Incremented(k), counter'[k].count > Limit, recent' = recent PROVE Goal
    <3> DEFINE y == counter'[k]
               W == WindowOf(recent, k, s + 1, Len(recent))
    <3>1. Limit \in Nat \ {0} /\ y \in Counter /\ y # NoCounter /\ y.count \in Nat
      BY <2>9, Rates, CounterFacts, RateLimiterAssumption
    <3>2. x # NoCounter
      <4>1. SUFFICES ASSUME x = NoCounter PROVE FALSE
        OBVIOUS
      <4>2. y.count = 1
        BY <2>9, <4>1 DEF Incremented
      <4> QED
        BY <2>9, <3>1, <4>2
    <3>3. x \in Counter /\ y.ttl = x.ttl
      <4>1. x \in Counter
        BY <2>2, <3>2
      <4>2. y = [x EXCEPT !.count = IF @ > Limit + 1 THEN @ ELSE @ + 1]
        BY <2>9, <3>2 DEF Incremented
      <4> HIDE DEF x, y
      <4> QED
        BY <4>1, <4>2 DEF Counter
    <3>4. Cardinality(W) <= y.count
      <4>1. Cardinality(W) <= Limit
        BY <2>1 DEF Split
      <4>2. Cardinality(W) \in Nat
        <5>1. s + 1 \in Nat /\ Len(recent) \in Nat
          BY <2>1 DEF HistoryType
        <5> QED
          BY <5>1, GrantsFinite
      <4> HIDE DEF W
      <4> QED
        BY <2>9, <3>1, <4>1, <4>2
    <3> HIDE DEF x, y
    <3>5. Split(recent, y, k, s)
      BY <2>1, <3>1, <3>2, <3>3, <3>4 DEF Split
    <3> QED
      BY <2>9, <3>5 DEF y
  <2>10. ASSUME counter'[k] = Incremented(k), counter'[k].count <= Limit, NEW w \in Workers,
                Answered(<<Home[w], "redis">>, k, TRUE)
         PROVE  Goal
    <3>1. <<Home[w], "redis">> \in Replicas \X {"fallback", "user", "redis"}
      BY RateLimiterAssumption
    <3>2. PICK m \in Nat : Moved(recent, recent', m, 0)
      BY <2>10, <3>1, AnsweredMoved
    <3>3. Split(recent', Incremented(k), k, SplitAfter(s, m))
      BY <2>1, <2>10, <3>2, SplitGranted
    <3> QED
      BY <2>10, <3>3
  <2>11. ASSUME counter'[k] = Aged(k), Tick PROVE Goal
    <3>1. PICK m \in Nat : Moved(recent, recent', m, 1) /\ Len(recent') = Len(recent) - m
      BY <2>11, TickMoved
    <3>2. PICK d \in {0, 1} : Moved(recent, recent', m, d) /\ d = 1
      BY <3>1
    <3>3. CASE x # NoCounter /\ x.ttl = 1
      <4>1. x \in Counter /\ 1 # Never
        BY <2>2, <3>3, RateLimiterAssumption
      <4>2. counter'[k] = NoCounter
        BY <2>11, <3>3, <4>1 DEF Aged
      <4>3. Split(recent', NoCounter, k, Len(recent'))
        <5> HIDE DEF x
        <5> QED
          BY <2>1, <3>1, <3>3, <4>1, SplitExpired
      <4> QED
        BY <4>2, <4>3
    <3>4. CASE ~(x # NoCounter /\ x.ttl = 1)
      <4> DEFINE y == counter'[k]
      <4>1. x = NoCounter => y = NoCounter
        BY <2>11 DEF Aged
      <4>2. x # NoCounter /\ x.ttl = Never => y = x
        BY <2>11 DEF Aged
      <4>3. x # NoCounter /\ x.ttl # Never => y = [x EXCEPT !.ttl = @ - 1]
        BY <2>11, <3>4 DEF Aged
      <4>4. x # NoCounter => /\ y # NoCounter /\ y.count = x.count
                             /\ y.ttl = Never \/ (x.ttl # Never /\ y.ttl = x.ttl - d)
        <5>1. SUFFICES ASSUME x # NoCounter
                       PROVE  /\ y # NoCounter /\ y.count = x.count
                              /\ y.ttl = Never \/ (x.ttl # Never /\ y.ttl = x.ttl - d)
          OBVIOUS
        <5>2. x \in Counter
          BY <2>2, <5>1
        <5>3. CASE x.ttl = Never
          BY <4>2, <5>1, <5>3
        <5>4. CASE x.ttl # Never
          <6>1. y = [x EXCEPT !.ttl = @ - 1]
            BY <4>3, <5>1, <5>4
          <6>2. x.ttl \in 1..Minute /\ x.ttl # 1 /\ Minute \in Nat
            BY <3>4, <5>1, <5>2, <5>4, Rates DEF Counter
          <6>3. x.ttl - 1 \in 1..Minute
            BY <6>2
          <6>4. y.count = x.count /\ y.ttl = x.ttl - 1 /\ y \in Counter
            <7> HIDE DEF x, y
            <7> QED
              BY <5>2, <6>1, <6>3 DEF Counter
          <6>5. y # NoCounter
            BY <6>4, RateLimiterAssumption
          <6> QED
            BY <3>2, <5>4, <6>4, <6>5
        <5> QED
          BY <5>3, <5>4
      <4>5. y \in Counter \cup {NoCounter}
        BY <2>2
      <4> HIDE DEF x, y
      <4>6. Split(recent', y, k, SplitAfter(s, m))
        BY <2>1, <2>2, <3>1, <3>2, <4>1, <4>4, <4>5, SplitKept
      <4> QED
        BY <4>6 DEF y
    <3> QED
      BY <3>3, <3>4
  <2>12. counter \in [Keys -> Counter \cup {NoCounter}]
    BY DEF CounterType
  <2> HIDE DEF Goal, x
  <2>13. Goal
    BY <2>4, <2>6, <2>7, <2>8, <2>9, <2>10, <2>11, <2>12, CounterKinds DEF x
  <2> QED
    BY <2>13 DEF Goal
<1> QED
  BY <1>1 DEF TwoWindows, SplitAt, Split

(* Two windows hold at most twice the limit. *)
LEMMA TwoWindowsMean ==
    ASSUME HistoryType, TwoWindows
    PROVE  AtMostTwoWindows
<1>1. ASSUME NEW k \in Keys
      PROVE  Cardinality({i \in Passed(k) : recent[i].by[2] = "redis" /\ recent[i].age < Minute})
                <= 2 * Limit
  <2>1. PICK s \in 0..Len(recent) : SplitAt(k, s)
    BY DEF TwoWindows
  <2> DEFINE Y == YoungOf(recent, k, 1, s)
             W == WindowOf(recent, k, s + 1, Len(recent))
             P == {i \in Passed(k) : recent[i].by[2] = "redis" /\ recent[i].age < Minute}
  <2>2. DOMAIN recent = 1..Len(recent) /\ Len(recent) \in Nat /\ s \in Nat /\ s + 1 \in Nat
    BY DEF HistoryType
  <2>3. P \in SUBSET (Y \cup W)
    <3>1. \A i \in 1..Len(recent) : i \in 1..s \/ i \in (s + 1)..Len(recent)
      BY <2>2
    <3> QED
      BY <2>2, <3>1 DEF Passed, YoungOf, WindowOf
  <2>4. /\ IsFiniteSet(Y) /\ Cardinality(Y) \in Nat /\ IsFiniteSet(W) /\ Cardinality(W) \in Nat
    BY <2>2, GrantsFinite
  <2>5. Cardinality(Y) <= Limit /\ Cardinality(W) <= Limit
    BY <2>1 DEF SplitAt
  <2> HIDE DEF Y, W, P
  <2>6. /\ IsFiniteSet(Y \cup W)
        /\ Cardinality(Y \cup W) = Cardinality(Y) + Cardinality(W) - Cardinality(Y \cap W)
    BY <2>4, FS_Union
  <2>7. Cardinality(Y \cap W) \in Nat
    <3>1. Y \cap W \in SUBSET Y
      OBVIOUS
    <3> QED
      BY <2>4, <3>1, FS_Subset, FS_CardinalityType
  <2>8. Cardinality(P) <= Cardinality(Y \cup W) /\ Cardinality(P) \in Nat
    BY <2>3, <2>6, FS_Subset, FS_CardinalityType
  <2>9. Limit \in Nat
    BY Rates
  <2>10. Cardinality(P) <= 2 * Limit
    BY <2>4, <2>5, <2>6, <2>7, <2>8, <2>9
  <2> QED
    BY <2>10 DEF P
<1> QED
  BY <1>1 DEF AtMostTwoWindows

-----------------------------------------------------------------------------
(***************************************************************************)
(* The invariant is inductive, and what follows from it.                   *)
(***************************************************************************)

LEMMA InitIInv == Init => IInv
<1> SUFFICES ASSUME Init PROVE IInv
  OBVIOUS
<1>1. /\ counter = [k \in Keys |-> NoCounter] /\ buckets = [c \in Caches |-> << >>]
      /\ pc = [w \in Workers |-> "idle"] /\ job = [w \in Workers |-> NoJob] /\ recent = << >>
  BY DEF Init
<1>2. recent \in Seq(Answer) /\ DOMAIN recent = {} /\ Len(recent) = 0 /\ \A i \in DOMAIN recent : FALSE
  BY <1>1
<1>3. \A c \in Caches : /\ buckets[c] \in Seq(Bucket) /\ Len(buckets[c]) = 0
                        /\ \A i \in DOMAIN buckets[c] : FALSE
  BY <1>1
<1>4. CacheCap \in Nat /\ Limit \in Nat
  BY Rates
<1>5. buckets \in [Caches -> Seq(Bucket)]
  BY <1>1
<1>6. CachesOK
  BY <1>3, <1>4, <1>5 DEF CachesOK, Cache
<1>7. TypeOK
  <2>1. NoJob \in [key : Keys \cup {NoKey}, count : Nat]
    BY DEF NoJob
  <2>2. job \in [Workers -> [key : Keys \cup {NoKey}, count : Nat]]
    BY <1>1, <2>1
  <2>3. counter \in [Keys -> Counter \cup {NoCounter}]
    BY <1>1
  <2>4. pc \in [Workers -> {"idle", "incr", "expire", "decide", "next"}]
    BY <1>1
  <2>5. \A c \in Caches : Len(buckets[c]) <= CacheCap
    BY <1>3, <1>4
  <2>6. \A c \in Caches : \A i, j \in DOMAIN buckets[c] : buckets[c][i].key = buckets[c][j].key => i = j
    BY <1>3
  <2> QED
    BY <1>5, <2>2, <2>3, <2>4, <2>5, <2>6 DEF TypeOK
<1>8. KeyHeld
  BY <1>1 DEF KeyHeld
<1>9. HistoryType
  BY <1>2 DEF HistoryType
<1>10. /\ LruOrder /\ BucketBudget /\ BurstUnlessRotated /\ RefusedRefills /\ RetryAfterIsEnough
  BY <1>2, Zenon DEF LruOrder, BucketBudget, BurstUnlessRotated, RefusedRefills, RetryAfterIsEnough
<1>11. TwoWindows
  <2>1. PICK s \in 0..Len(recent) : s = 0
    BY <1>2
  <2>2. ASSUME NEW k \in Keys PROVE SplitAt(k, s)
    <3>1. /\ WindowOf(recent, k, s + 1, Len(recent)) = {} /\ YoungOf(recent, k, 1, s) = {}
          /\ WindowOf(recent, k, 1, s) = {}
      <4>1. (\A n \in (s + 1)..Len(recent) : FALSE) /\ (\A n \in 1..s : FALSE)
        BY <1>2, <2>1
      <4> QED
        BY <4>1 DEF WindowOf, YoungOf
    <3>2. Cardinality({}) = 0 /\ counter[k] = NoCounter
      BY <1>1, FS_EmptySet
    <3>3. /\ Cardinality(WindowOf(recent, k, s + 1, Len(recent))) <= Limit
          /\ Cardinality(YoungOf(recent, k, 1, s)) <= Limit
      <4>1. 0 <= Limit
        BY <1>4
      <4> QED
        BY <3>1, <3>2, <4>1
    <3> QED
      BY <3>1, <3>2, <3>3, Zenon DEF SplitAt
  <2> QED
    BY <2>2 DEF TwoWindows
<1> QED
  BY <1>6, <1>7, <1>8, <1>9, <1>10, <1>11 DEF IInv

(* Every step keeps the inductive invariant. *)
LEMMA NextIInv == IInv /\ [Next]_vars => IInv'
<1> SUFFICES ASSUME IInv, [Next]_vars PROVE IInv'
  OBVIOUS
<1>1. /\ TypeOK /\ KeyHeld /\ HistoryType /\ CachesOK /\ LruOrder /\ BucketBudget
      /\ BurstUnlessRotated /\ RefusedRefills /\ RetryAfterIsEnough /\ TwoWindows
  BY DEF IInv
<1>2. CounterType
  BY <1>1 DEF TypeOK, CounterType
<1>3. HistoryType' /\ CachesOK'
  BY <1>1, CacheKinds
<1>4. TypeOK' /\ KeyHeld'
  <2>1. /\ KeyHeld'
        /\ pc' \in [Workers -> {"idle", "incr", "expire", "decide", "next"}]
        /\ job' \in [Workers -> [key : Keys \cup {NoKey}, count : Nat]]
    BY <1>1, JobsStep
  <2>2. counter' \in [Keys -> Counter \cup {NoCounter}]
    BY <1>1, <1>2, CounterStep DEF CounterType
  <2>3. /\ buckets' \in [Caches -> Seq(Bucket)]
        /\ \A c \in Caches : /\ Len(buckets'[c]) <= CacheCap
                             /\ \A i, j \in DOMAIN buckets'[c] :
                                   buckets'[c][i].key = buckets'[c][j].key => i = j
    BY <1>3 DEF CachesOK, Cache
  <2> QED
    BY <2>1, <2>2, <2>3 DEF TypeOK
<1>5. LruOrder'
  BY <1>1, LruOrderStep
<1>6. BucketBudget'
  BY <1>1, BucketBudgetStep
<1>7. BurstUnlessRotated'
  BY <1>1, BurstStep
<1>8. RefusedRefills'
  BY <1>1, RefusedRefillsStep
<1>9. RetryAfterIsEnough'
  BY <1>1, RetryStep
<1>10. TwoWindows'
  BY <1>1, <1>2, TwoWindowsStep
<1> QED
  BY <1>3, <1>4, <1>5, <1>6, <1>7, <1>8, <1>9, <1>10 DEF IInv

(* The invariant holds of every state the limiters reach. *)
THEOREM Invariance == Spec => []IInv
<1>1. Init => IInv
  BY InitIInv
<1>2. IInv /\ [Next]_vars => IInv'
  BY NextIInv
<1> QED
  BY <1>1, <1>2, PTL DEF Spec

(* The counters, caches and goroutines hold what they are declared to: no  *)
(* cache outgrows CacheCap, and none has two buckets of one key.           *)
THEOREM TypeCorrect == Spec => []TypeOK
<1>1. IInv => TypeOK
  BY DEF IInv
<1> QED
  BY <1>1, Invariance, PTL

(* ratelimit.go's window: whatever pipelines are lost, interleave or are   *)
(* overtaken by an expiry, a minute sees at most two windows of a key.     *)
THEOREM WindowsBounded == Spec => []AtMostTwoWindows
<1>1. IInv => AtMostTwoWindows
  BY TwoWindowsMean DEF IInv
<1> QED
  BY <1>1, Invariance, PTL

(* The fallback fails safe: a key that keeps its bucket is let through a   *)
(* burst and the refill, of any stretch of a replica's answers.            *)
THEOREM BurstBounded == Spec => []BurstUnlessRotated
<1>1. IInv => BurstUnlessRotated
  BY DEF IInv
<1> QED
  BY <1>1, Invariance, PTL

(* The user limiter's Retry-After: waiting that long is enough. *)
THEOREM RetryAfterHonest == Spec => []RetryAfterIsEnough
<1>1. IInv => RetryAfterIsEnough
  BY DEF IInv
<1> QED
  BY <1>1, Invariance, PTL
=============================================================================
