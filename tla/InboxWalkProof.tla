--------------------------- MODULE InboxWalkProof ---------------------------
(***************************************************************************)
(* What a client sees that follows nextCursor through its notifications:   *)
(* every row that stays, each once, from newer to older, for any number of *)
(* users, rows and consumers and any page size, in a process that runs in  *)
(* UTC.                                                                    *)
(***************************************************************************)
EXTENDS InboxProof, FiniteSetTheorems, WellFoundedInduction

(* buildCursor writes the time as it is. *)
RunsInUTC == Zone = 0

KeysOf(u) == {KeyOf(r) : r \in {s \in table : s.user = u}}

WalkRecord ==
    [on : BOOLEAN, limit : Nat \ {0}, cursor : Key \cup {NoCursor},
     start : SUBSET Key, pages : Seq(SUBSET Key)]

(* Row k is on one of the pages. *)
Shown(pages, k) == \E i \in DOMAIN pages : k \in pages[i]

(* The pages end at the cursor. *)
EndAt(pages, cursor) ==
    \A i \in DOMAIN pages : \A k \in pages[i] : k = cursor \/ Below(cursor, k)

(* The pages go from newer to older. *)
GoDown(pages) ==
    \A i, j \in DOMAIN pages :
        i < j => \A k \in pages[i], l \in pages[j] : Below(l, k)

(* Of the rows the walk began with, those not shown are below the cursor. *)
Accounted(w, keys) ==
    \A k \in keys \cap w.start :
        Shown(w.pages, k) \/ (w.on /\ Below(k, w.cursor))

(* What holds of a walk between two pages. *)
Sound(w, keys) ==
    /\ w \in WalkRecord
    /\ w.on => w.cursor \in Key /\ EndAt(w.pages, w.cursor)
    /\ GoDown(w.pages)
    /\ Accounted(w, keys)

WalksSound == \A u \in Users : Sound(walk[u], KeysOf(u))

(* A row that was there when the walk began still is, or has expired. *)
StartHeld ==
    \A u \in Users : \A k \in walk[u].start : k \in KeysOf(u) \/ now > k.at + Retention

(* A row about to be inserted was not there when a walk began: an id that  *)
(* is given again does not come with the same time.                        *)
PendingNew ==
    \A c \in Consumers : pc[c] = "insert" =>
        \A u \in Users : KeyOf(pending[c]) \notin walk[u].start

WInv ==
    /\ IInv
    /\ walk \in [Users -> WalkRecord]
    /\ IsFiniteSet(table)
    /\ WalksSound
    /\ StartHeld
    /\ PendingNew

-----------------------------------------------------------------------------
(***************************************************************************)
(* The order of the list.                                                  *)
(***************************************************************************)

(* A key is made of numbers. *)
LEMMA KeyParts ==
    ASSUME NEW k \in Key
    PROVE  k.at \in Int /\ k.id \in Int
<1>1. k.at \in Int /\ k.id \in Ids
  BY DEF Key
<1>2. Ids \subseteq Nat
  BY InboxAssumption
<1>3. k.id \in Nat
  BY <1>1, <1>2
<1> QED
  BY <1>1, <1>3

(* Below is a strict total order. *)
LEMMA BelowOrder ==
    /\ \A j, k \in Key : j = k \/ Below(j, k) \/ Below(k, j)
    /\ \A j, k \in Key : Below(j, k) => j # k /\ ~Below(k, j)
    /\ \A j, k, l \in Key : (Below(j, k) /\ Below(k, l)) => Below(j, l)
<1>1. \A k \in Key : k.at \in Int /\ k.id \in Int
  BY KeyParts
<1>2. \A j, k \in Key : (j.at = k.at /\ j.id = k.id) => j = k
  BY DEF Key
<1>3. \A j, k \in Key : j = k \/ Below(j, k) \/ Below(k, j)
  BY <1>1, <1>2 DEF Below
<1>4. \A j, k \in Key : Below(j, k) => j # k /\ ~Below(k, j)
  BY <1>1 DEF Below
<1>5. ASSUME NEW j \in Key, NEW k \in Key, NEW l \in Key, Below(j, k), Below(k, l)
      PROVE  Below(j, l)
  <2>1. j.at \in Int /\ k.at \in Int /\ l.at \in Int /\ j.id \in Int /\ k.id \in Int /\ l.id \in Int
    BY <1>1
  <2> QED
    BY <1>5, <2>1 DEF Below
<1> QED
  BY <1>3, <1>4, <1>5

(* A finite set of keys has a least one, by the well-foundedness of strict *)
(* inclusion: the key with the smallest set of keys below it.              *)
LEMMA LeastKey ==
    ASSUME NEW S \in SUBSET Key, IsFiniteSet(S), S # {}
    PROVE  \E k \in S : \A j \in S \ {k} : Below(k, j)
<1> DEFINE lower(k) == {j \in S : Below(j, k)}
           T == {lower(k) : k \in S}
<1>1. IsWellFoundedOn(StrictSubsetOrdering(S), FiniteSubsetsOf(S))
  BY FS_StrictSubsetOrderingWellFounded
<1>2. T \subseteq FiniteSubsetsOf(S) /\ T # {}
  <2>1. \A k \in S : lower(k) \in SUBSET S
    OBVIOUS
  <2>2. FiniteSubsetsOf(S) = SUBSET S
    BY FS_FiniteSubsetsOfFinite
  <2> HIDE DEF lower
  <2>3. T \subseteq SUBSET S
    BY <2>1
  <2>4. \E k \in S : lower(k) \in T
    OBVIOUS
  <2> QED
    BY <2>2, <2>3, <2>4
<1> HIDE DEF T
<1>3. PICK x \in T : \A y \in T : ~(<<y, x>> \in StrictSubsetOrdering(S))
  BY <1>1, <1>2, WFMin
<1>4. PICK k \in S : x = lower(k)
  BY DEF T
<1>5. ASSUME NEW j \in S, Below(j, k) PROVE FALSE
  <2>1. lower(j) \in T
    BY DEF T
  <2>2. lower(j) \subseteq lower(k)
    BY <1>5, BelowOrder
  <2>3. j \in lower(k) /\ j \notin lower(j)
    BY <1>5, BelowOrder
  <2>4. lower(j) \in SUBSET S /\ lower(k) \in SUBSET S
    OBVIOUS
  <2> HIDE DEF lower
  <2>5. <<lower(j), lower(k)>> \in StrictSubsetOrdering(S)
    BY <2>2, <2>3, <2>4 DEF StrictSubsetOrdering
  <2> QED
    BY <1>3, <1>4, <2>1, <2>5
<1> QED
  BY <1>5, BelowOrder

(* And a greatest one. *)
LEMMA GreatestKey ==
    ASSUME NEW S \in SUBSET Key, IsFiniteSet(S), S # {}
    PROVE  \E k \in S : \A j \in S \ {k} : Below(j, k)
<1> DEFINE upper(k) == {j \in S : Below(k, j)}
           T == {upper(k) : k \in S}
<1>1. IsWellFoundedOn(StrictSubsetOrdering(S), FiniteSubsetsOf(S))
  BY FS_StrictSubsetOrderingWellFounded
<1>2. T \subseteq FiniteSubsetsOf(S) /\ T # {}
  <2>1. \A k \in S : upper(k) \in SUBSET S
    OBVIOUS
  <2>2. FiniteSubsetsOf(S) = SUBSET S
    BY FS_FiniteSubsetsOfFinite
  <2> HIDE DEF upper
  <2>3. T \subseteq SUBSET S
    BY <2>1
  <2>4. \E k \in S : upper(k) \in T
    OBVIOUS
  <2> QED
    BY <2>2, <2>3, <2>4
<1> HIDE DEF T
<1>3. PICK x \in T : \A y \in T : ~(<<y, x>> \in StrictSubsetOrdering(S))
  BY <1>1, <1>2, WFMin
<1>4. PICK k \in S : x = upper(k)
  BY DEF T
<1>5. ASSUME NEW j \in S, Below(k, j) PROVE FALSE
  <2>1. upper(j) \in T
    BY DEF T
  <2>2. upper(j) \subseteq upper(k)
    BY <1>5, BelowOrder
  <2>3. j \in upper(k) /\ j \notin upper(j)
    BY <1>5, BelowOrder
  <2>4. upper(j) \in SUBSET S /\ upper(k) \in SUBSET S
    OBVIOUS
  <2> HIDE DEF upper
  <2>5. <<upper(j), upper(k)>> \in StrictSubsetOrdering(S)
    BY <2>2, <2>3, <2>4 DEF StrictSubsetOrdering
  <2> QED
    BY <1>3, <1>4, <2>1, <2>5
<1> QED
  BY <1>5, BelowOrder

-----------------------------------------------------------------------------
(***************************************************************************)
(* ORDER BY ... LIMIT n.                                                   *)
(***************************************************************************)

Newer(S, k) == {j \in S : Below(k, j)}

Top(S, n) == {k \in S : Cardinality(Newer(S, k)) < n}

(* The first n of a set are all of it, or n that lie above the rest. *)
LEMMA TopFacts ==
    ASSUME NEW S \in SUBSET Key, IsFiniteSet(S), NEW n \in Nat \ {0}
    PROVE  /\ Top(S, n) \in SUBSET S /\ IsFiniteSet(Top(S, n))
           /\ \A k \in Top(S, n), j \in S : Below(k, j) => j \in Top(S, n)
           /\ Cardinality(Top(S, n)) # n => Top(S, n) = S
<1> DEFINE P == Top(S, n)
<1>1. /\ P \in SUBSET S /\ IsFiniteSet(P) /\ Cardinality(P) \in Nat
      /\ \A k \in S : IsFiniteSet(Newer(S, k)) /\ Cardinality(Newer(S, k)) \in Nat
  <2>1. P \in SUBSET S /\ \A k \in S : Newer(S, k) \in SUBSET S
    BY DEF Top, Newer
  <2> HIDE DEF P
  <2> QED
    BY <2>1, FS_Subset, FS_CardinalityType
<1>2. ASSUME NEW k \in P, NEW j \in S, Below(k, j) PROVE j \in P
  <2>1. Newer(S, j) \in SUBSET Newer(S, k)
    BY <1>1, <1>2, BelowOrder DEF Newer
  <2>2. Cardinality(Newer(S, j)) <= Cardinality(Newer(S, k))
    BY <1>1, <2>1, FS_Subset
  <2>3. Cardinality(Newer(S, k)) < n
    BY DEF Top
  <2>4. Cardinality(Newer(S, j)) < n
    BY <1>1, <2>2, <2>3
  <2> QED
    BY <2>4 DEF Top
<1>3. Cardinality(P) <= n
  <2>1. CASE P = {}
    BY <2>1, FS_EmptySet
  <2>2. CASE P # {}
    <3>1. PICK k \in P : \A j \in P \ {k} : Below(k, j)
      <4>1. P \in SUBSET Key
        BY <1>1
      <4> HIDE DEF P
      <4> QED
        BY <1>1, <2>2, <4>1, LeastKey
    <3>2. P \ {k} \in SUBSET Newer(S, k)
      BY <1>1, <3>1 DEF Newer
    <3>3. Cardinality(P \ {k}) <= Cardinality(Newer(S, k))
      BY <1>1, <3>2, FS_Subset
    <3>4. Cardinality(P \ {k}) = Cardinality(P) - 1
      <4> HIDE DEF P
      <4> QED
        BY <1>1, FS_RemoveElement
    <3>5. Cardinality(Newer(S, k)) < n
      BY DEF Top
    <3>6. Cardinality(Newer(S, k)) \in Nat
      BY <1>1
    <3> HIDE DEF P
    <3> QED
      BY <1>1, <3>3, <3>4, <3>5, <3>6
  <2> QED
    BY <2>1, <2>2
<1>4. ASSUME P # S PROVE Cardinality(P) >= n
  <2>1. S \ P \in SUBSET Key /\ IsFiniteSet(S \ P) /\ S \ P # {}
    <3>1. S \ P \in SUBSET S /\ S \ P # {}
      BY <1>1, <1>4
    <3> HIDE DEF P
    <3> QED
      BY <3>1, FS_Subset
  <2>2. PICK k \in S \ P : \A j \in (S \ P) \ {k} : Below(j, k)
    <3> HIDE DEF P
    <3> QED
      BY <2>1, GreatestKey
  <2>3. Newer(S, k) \in SUBSET P
    BY <2>2, BelowOrder DEF Newer
  <2>4. Cardinality(Newer(S, k)) <= Cardinality(P)
    <3> HIDE DEF P
    <3> QED
      BY <1>1, <2>3, FS_Subset
  <2>5. ~(Cardinality(Newer(S, k)) < n)
    BY DEF Top
  <2>6. Cardinality(Newer(S, k)) \in Nat
    BY <1>1
  <2> HIDE DEF P
  <2> QED
    BY <1>1, <2>4, <2>5, <2>6
<1> QED
  BY <1>1, <1>2, <1>3, <1>4
-----------------------------------------------------------------------------
(***************************************************************************)
(* A page.                                                                 *)
(***************************************************************************)

(* The rows after the cursor. *)
Rest(u, cursor) == {k \in KeysOf(u) : cursor = NoCursor \/ Below(k, cursor)}

(* The last row of a page. *)
LastOf(page) ==
    CHOOSE k \in page : \A j \in page \ {k} : k.at < j.at \/ (k.at = j.at /\ k.id < j.id)

(* A user's rows are finitely many, and have keys. *)
LEMMA KeysType ==
    ASSUME table \in SUBSET Row, IsFiniteSet(table), NEW u
    PROVE  KeysOf(u) \in SUBSET Key /\ IsFiniteSet(KeysOf(u))
<1> DEFINE own == {s \in table : s.user = u}
           f == [r \in own |-> KeyOf(r)]
<1>1. IsFiniteSet(own)
  <2>1. own \in SUBSET table
    OBVIOUS
  <2> HIDE DEF own
  <2> QED
    BY <2>1, FS_Subset
<1>2. \A r \in Row : KeyOf(r) \in Key
  <2>1. \A r \in Row : r.createdAt \in Int /\ r.id \in Ids
    BY DEF Row
  <2> QED
    BY <2>1 DEF KeyOf, Key
<1>3. f \in Surjection(own, KeysOf(u))
  <2> HIDE DEF KeyOf
  <2> QED
    BY DEF Surjection, KeysOf
<1> HIDE DEF f, own
<1>4. IsFiniteSet(KeysOf(u))
  BY <1>1, <1>3, FS_Surjection
<1> QED
  BY <1>2, <1>4 DEF KeysOf

(* The store's page is the first n rows after the cursor. *)
LEMMA ListIsTop ==
    ASSUME TypeOK, IsFiniteSet(table), NEW u, NEW cursor, NEW n
    PROVE  List(u, cursor, n) = Top(Rest(u, cursor), n)
<1> DEFINE keys == KeysOf(u)
           rest == IF cursor = NoCursor THEN keys ELSE {k \in keys : Below(k, cursor)}
           newer(k) == {j \in rest : j.at > k.at \/ (j.at = k.at /\ j.id > k.id)}
<1>1. List(u, cursor, n) = {k \in rest : Cardinality(newer(k)) < n}
  BY DEF List, KeysOf
<1>2. rest = Rest(u, cursor)
  BY DEF Rest
<1>3. rest \in SUBSET Key
  BY KeysType DEF TypeOK
<1>4. \A k \in Key : k.at \in Int /\ k.id \in Int
  BY KeyParts
<1> HIDE DEF rest
<1>5. ASSUME NEW k \in rest PROVE newer(k) = Newer(rest, k)
  <2>1. \A j \in rest : (j.at > k.at \/ (j.at = k.at /\ j.id > k.id)) <=> Below(k, j)
    BY <1>3, <1>4 DEF Below
  <2> QED
    BY <2>1 DEF Newer
<1> HIDE DEF newer
<1> QED
  BY <1>1, <1>2, <1>5 DEF Top

(* A page: rows after the cursor.  A full one leaves only rows below its   *)
(* last, and any other leaves none.                                        *)
LEMMA PageFacts ==
    ASSUME TypeOK, IsFiniteSet(table), NEW u, NEW cursor, NEW n \in Nat \ {0},
           NEW page, page = List(u, cursor, n)
    PROVE  /\ page \in SUBSET Key /\ page \in SUBSET Rest(u, cursor)
           /\ Cardinality(page) = n =>
                 /\ LastOf(page) \in page
                 /\ \A j \in page : j = LastOf(page) \/ Below(LastOf(page), j)
                 /\ \A k \in Rest(u, cursor) : k \in page \/ Below(k, LastOf(page))
           /\ Cardinality(page) # n => page = Rest(u, cursor)
<1> DEFINE S == Rest(u, cursor)
<1>1. S \in SUBSET Key /\ IsFiniteSet(S)
  <2>1. KeysOf(u) \in SUBSET Key /\ IsFiniteSet(KeysOf(u))
    BY KeysType DEF TypeOK
  <2>2. S \in SUBSET KeysOf(u)
    BY DEF Rest
  <2> HIDE DEF S
  <2> QED
    BY <2>1, <2>2, FS_Subset
<1>2. page = Top(S, n)
  BY ListIsTop
<1> HIDE DEF S
<1>3. /\ page \in SUBSET S /\ IsFiniteSet(page)
      /\ \A k \in page, j \in S : Below(k, j) => j \in page
      /\ Cardinality(page) # n => page = S
  BY <1>1, <1>2, TopFacts
<1>4. ASSUME Cardinality(page) = n
      PROVE  /\ LastOf(page) \in page
             /\ \A j \in page \ {LastOf(page)} : Below(LastOf(page), j)
  <2>1. page # {}
    BY <1>3, <1>4, FS_EmptySet
  <2>2. \E k \in page : \A j \in page \ {k} : Below(k, j)
    BY <1>1, <1>3, <2>1, LeastKey
  <2> QED
    BY <2>2 DEF LastOf, Below
<1>5. ASSUME Cardinality(page) = n, NEW k \in S
      PROVE  k \in page \/ Below(k, LastOf(page))
  <2>1. LastOf(page) \in page /\ LastOf(page) \in Key /\ k \in Key
    BY <1>1, <1>3, <1>4, <1>5
  <2> QED
    BY <1>3, <2>1, BelowOrder
<1> QED
  BY <1>1, <1>3, <1>4, <1>5 DEF S
(* In UTC the cursor is the last row's key. *)
LEMMA CursorIsKey ==
    ASSUME RunsInUTC, NEW k \in Key
    PROVE  buildCursor(k) = k
<1>1. k = [at |-> k.at, id |-> k.id]
  BY DEF Key
<1>2. k.at + Zone = k.at
  BY KeyParts DEF RunsInUTC
<1> QED
  BY <1>1, <1>2 DEF buildCursor

(* What must hold of a walk for its next page to be the right one. *)
Ready(w, keys) ==
    /\ w \in WalkRecord
    /\ w.cursor = NoCursor => w.pages = <<>>
    /\ w.cursor # NoCursor => EndAt(w.pages, w.cursor)
    /\ GoDown(w.pages)
    /\ \A k \in keys \cap w.start :
          Shown(w.pages, k) \/ w.cursor = NoCursor \/ Below(k, w.cursor)

(* The pages after one more. *)
LEMMA MorePages ==
    ASSUME NEW pages \in Seq(SUBSET Key), NEW page \in SUBSET Key
    PROVE  /\ Append(pages, page) \in Seq(SUBSET Key)
           /\ DOMAIN pages \in SUBSET Nat
           /\ \A i \in DOMAIN pages : i \in DOMAIN Append(pages, page)
                                      /\ Append(pages, page)[i] = pages[i]
                                      /\ pages[i] \in SUBSET Key
           /\ \A i \in DOMAIN Append(pages, page) :
                 i \in DOMAIN pages \/ Append(pages, page)[i] = page
           /\ \A i, j \in DOMAIN Append(pages, page) : i < j => i \in DOMAIN pages
           /\ \E i \in DOMAIN Append(pages, page) : Append(pages, page)[i] = page
<1> DEFINE n == Len(pages)
           t == Append(pages, page)
<1>1. /\ t \in Seq(SUBSET Key) /\ n \in Nat /\ Len(t) = n + 1
      /\ \A i \in 1..n : t[i] = pages[i]
      /\ t[n + 1] = page
  BY AppendFacts
<1>2. DOMAIN pages = 1..n /\ DOMAIN t = 1..(n + 1) /\ \A i \in 1..n : pages[i] \in SUBSET Key
  BY <1>1
<1> HIDE DEF n, t
<1>3. \A i \in 1..(n + 1) : i \in 1..n \/ i = n + 1
  BY <1>1
<1>4. \A i, j \in 1..(n + 1) : i < j => i \in 1..n
  BY <1>1
<1>5. 1..n \in SUBSET Nat /\ n + 1 \in 1..(n + 1) /\ \A i \in 1..n : i \in 1..(n + 1)
  BY <1>1
<1> QED
  BY <1>1, <1>2, <1>3, <1>4, <1>5 DEF t

(* A page goes on where the last one ended. *)
LEMMA PageServed ==
    ASSUME RunsInUTC, TypeOK, IsFiniteSet(table), NEW u \in Users, NEW w,
           walk \in [Users -> WalkRecord], Ready(w, KeysOf(u)), ServePage(u, w)
    PROVE  /\ walk' = [walk EXCEPT ![u] = walk'[u]]
           /\ Sound(walk'[u], KeysOf(u))
           /\ walk'[u].start = w.start
<1> DEFINE page == List(u, w.cursor, w.limit)
           full == Cardinality(page) = w.limit
           last == LastOf(page)
           w2 == walk'[u]
           more == Append(w.pages, page)
           S == Rest(u, w.cursor)
<1>1. /\ w \in WalkRecord /\ w.limit \in Nat \ {0} /\ w.pages \in Seq(SUBSET Key)
      /\ w.cursor \in Key \cup {NoCursor} /\ w.start \in SUBSET Key
  BY DEF Ready, WalkRecord
<1>2. /\ page \in SUBSET Key /\ page \in SUBSET S
      /\ full => /\ last \in page
                 /\ \A j \in page : j = last \/ Below(last, j)
                 /\ \A k \in S : k \in page \/ Below(k, last)
      /\ ~full => page = S
  BY <1>1, PageFacts
<1>3. walk' = [walk EXCEPT ![u] = [w EXCEPT !.on = full,
                                            !.cursor = IF full THEN buildCursor(last) ELSE NoCursor,
                                            !.pages = more]]
  BY DEF ServePage, LastOf
<1> HIDE DEF page, last, S, full, more
<1>4. /\ w2.on = full /\ w2.cursor = (IF full THEN buildCursor(last) ELSE NoCursor)
      /\ w2.pages = more /\ w2.start = w.start /\ w2.limit = w.limit
      /\ w2 = [on |-> w2.on, limit |-> w2.limit, cursor |-> w2.cursor,
               start |-> w2.start, pages |-> w2.pages]
      /\ walk' = [walk EXCEPT ![u] = w2]
  BY <1>1, <1>3 DEF WalkRecord
<1>5. full => last \in Key /\ w2.cursor = last
  BY <1>2, <1>4, CursorIsKey
<1>6. /\ more \in Seq(SUBSET Key)
      /\ \A i \in DOMAIN w.pages : i \in DOMAIN more /\ more[i] = w.pages[i]
                                   /\ w.pages[i] \in SUBSET Key
      /\ \A i \in DOMAIN more : i \in DOMAIN w.pages \/ more[i] = page
      /\ \A i, j \in DOMAIN more : i < j => i \in DOMAIN w.pages
      /\ \E i \in DOMAIN more : more[i] = page
  BY <1>1, <1>2, MorePages DEF more
<1> HIDE DEF w2
<1>7. w2 \in WalkRecord
  <2>1. w2.on \in BOOLEAN
    BY <1>4 DEF full
  <2>2. w2.cursor \in Key \cup {NoCursor}
    BY <1>4, <1>5
  <2> QED
    BY <1>1, <1>4, <1>6, <2>1, <2>2 DEF WalkRecord
<1>8. \A l \in page : l \in Key /\ (w.cursor = NoCursor \/ Below(l, w.cursor))
  BY <1>2 DEF S, Rest
<1>9. ASSUME NEW i \in DOMAIN w.pages, NEW k \in w.pages[i]
      PROVE  /\ k \in Key /\ w.cursor \in Key /\ w.cursor # NoCursor
             /\ k = w.cursor \/ Below(w.cursor, k)
  <2>1. w.cursor # NoCursor
    BY <1>9 DEF Ready
  <2> QED
    BY <1>1, <1>6, <1>9, <2>1 DEF Ready, EndAt
<1>10. ASSUME NEW i \in DOMAIN w.pages, NEW k \in w.pages[i], NEW l \in page
       PROVE  Below(l, k)
  BY <1>8, <1>9, BelowOrder
<1>11. GoDown(w2.pages)
  <2> SUFFICES ASSUME NEW i \in DOMAIN more, NEW j \in DOMAIN more, i < j,
                      NEW k \in more[i], NEW l \in more[j]
               PROVE  Below(l, k)
    BY <1>4 DEF GoDown
  <2>1. i \in DOMAIN w.pages /\ k \in w.pages[i]
    BY <1>6
  <2>2. CASE more[j] = page
    BY <1>10, <2>1, <2>2
  <2>3. CASE j \in DOMAIN w.pages
    BY <1>6, <2>1, <2>3 DEF Ready, GoDown
  <2> QED
    BY <1>6, <2>2, <2>3
<1>12. w2.on => w2.cursor \in Key /\ EndAt(w2.pages, w2.cursor)
  <2> SUFFICES ASSUME full PROVE EndAt(more, last)
    BY <1>4, <1>5
  <2> SUFFICES ASSUME NEW i \in DOMAIN more, NEW k \in more[i]
               PROVE  k = last \/ Below(last, k)
    BY DEF EndAt
  <2>1. CASE more[i] = page
    BY <1>2, <2>1
  <2>2. CASE i \in DOMAIN w.pages
    BY <1>2, <1>6, <1>10, <2>2
  <2> QED
    BY <1>6, <2>1, <2>2
<1>13. Accounted(w2, KeysOf(u))
  <2> SUFFICES ASSUME NEW k \in KeysOf(u), k \in w.start
               PROVE  Shown(more, k) \/ (full /\ Below(k, last))
    BY <1>4, <1>5 DEF Accounted
  <2>1. CASE Shown(w.pages, k)
    BY <1>6, <2>1 DEF Shown
  <2>2. CASE k \in S
    BY <1>2, <1>6, <2>2 DEF Shown
  <2> QED
    BY <2>1, <2>2 DEF Ready, S, Rest
<1> QED
  BY <1>4, <1>7, <1>11, <1>12, <1>13 DEF Sound, w2
-----------------------------------------------------------------------------
(***************************************************************************)
(* What a step does to the rows and to the walks.                          *)
(***************************************************************************)

(* Only the list endpoint and its client move a walk. *)
LEMMA WalkFrame ==
    ASSUME Next
    PROVE  \/ walk' = walk
           \/ /\ UNCHANGED <<now, table, pc, pending>>
              /\ \E u \in Users : \/ \E raw \in Limits : ListFirst(u, raw)
                                  \/ ListNext(u) \/ Leave(u)
<1>1. ASSUME NEW c \in Consumers,
             Receive(c) \/ InsertReturns(c) \/ InsertFails(c) \/ CommsReturns(c) \/ Restart(c)
      PROVE  walk' = walk
  BY <1>1 DEF Receive, InsertReturns, InsertFails, CommsReturns, Restart
<1>2. ASSUME \/ \E m \in Messages : Publish(m)
             \/ \E u \in Users, id \in Ids : MarkRead(u, id)
             \/ \E u \in Users : MarkAllRead(u)
             \/ Purge \/ Tick
      PROVE  walk' = walk
  BY <1>2 DEF Publish, MarkRead, MarkAllRead, Purge, Tick
<1>3. ASSUME NEW u \in Users, (\E raw \in Limits : ListFirst(u, raw)) \/ ListNext(u) \/ Leave(u)
      PROVE  UNCHANGED <<now, table, pc, pending>>
  BY <1>3 DEF ListFirst, ListNext, Leave, consuming
<1> QED
  BY <1>1, <1>2, <1>3 DEF Next

(* The rows keep their keys; none but the inserted one is new, and only    *)
(* expired ones go.                                                        *)
LEMMA KeysStep ==
    ASSUME IInv, Next, NEW u
    PROVE  /\ \A k \in KeysOf(u)' : \/ k \in KeysOf(u)
                                    \/ \E c \in Consumers : pc[c] = "insert" /\ k = KeyOf(pending[c])
           /\ \A k \in KeysOf(u) : k \in KeysOf(u)' \/ now' > k.at + Retention
<1> DEFINE Goal == /\ \A k \in KeysOf(u)' : \/ k \in KeysOf(u)
                                            \/ \E c \in Consumers : pc[c] = "insert"
                                                                    /\ k = KeyOf(pending[c])
                   /\ \A k \in KeysOf(u) : k \in KeysOf(u)' \/ now' > k.at + Retention
<1>1. TypeOK /\ table \in SUBSET Row /\ now \in Nat /\ Retention \in Nat
  BY InboxAssumption DEF IInv, TypeOK
<1>2. ASSUME table' = table PROVE Goal
  BY <1>2 DEF KeysOf
<1>3. ASSUME NEW c \in Consumers, Inserting(c) PROVE Goal
  <2>1. table' = table \/ table' = table \cup {pending[c]}
    BY <1>1, <1>3, ArrivedFacts DEF Arrived
  <2>2. pc[c] = "insert"
    BY <1>3 DEF Inserting
  <2> HIDE DEF KeyOf
  <2> QED
    BY <2>1, <2>2 DEF KeysOf
<1>4. ASSUME NEW v \in Users, Marking(v) PROVE Goal
  <2>1. PICK rows \in SUBSET {r \in table : r.user = v /\ r.readAt = Unread} : Mark(rows)
    BY <1>4 DEF Marking
  <2> DEFINE mark(r) == IF r \in rows THEN [r EXCEPT !.readAt = now] ELSE r
  <2>2. table' = {mark(r) : r \in table}
    BY <2>1 DEF Mark
  <2>3. \A r \in table : mark(r).user = r.user /\ KeyOf(mark(r)) = KeyOf(r)
    BY <1>1 DEF Row, KeyOf
  <2> HIDE DEF mark
  <2>4. KeysOf(u)' = KeysOf(u)
    BY <2>2, <2>3 DEF KeysOf
  <2> QED
    BY <2>4
<1>5. ASSUME Purge PROVE Goal
  <2>1. table' = {r \in table : ~Expired(r)} /\ now' = now
    BY <1>5 DEF Purge
  <2>2. \A r \in table : r \notin table' => now > KeyOf(r).at + Retention
    <3>1. \A r \in table : r.createdAt \in Nat /\ KeyOf(r).at = r.createdAt
      BY <1>1 DEF Row, KeyOf
    <3> QED
      BY <1>1, <2>1, <3>1 DEF Expired
  <2>3. table' \subseteq table
    BY <2>1
  <2> HIDE DEF KeyOf
  <2> QED
    BY <2>1, <2>2, <2>3 DEF KeysOf
<1> HIDE DEF Goal
<1>6. Goal
  BY <1>1, <1>2, <1>3, <1>4, <1>5, StepFrame DEF Mapping, GivingUp, Routing, Tick
<1> QED
  BY <1>6 DEF Goal

(* The table stays finite. *)
LEMMA FiniteStep ==
    ASSUME IInv, IsFiniteSet(table), Next
    PROVE  IsFiniteSet(table')
<1>1. TypeOK
  BY DEF IInv
<1>2. ASSUME NEW c \in Consumers, Inserting(c) PROVE IsFiniteSet(table')
  <2>1. table' = table \/ table' = table \cup {pending[c]}
    BY <1>1, <1>2, ArrivedFacts DEF Arrived
  <2> QED
    BY <2>1, FS_AddElement
<1>3. ASSUME NEW u \in Users, Marking(u) PROVE IsFiniteSet(table')
  <2>1. PICK rows \in SUBSET {r \in table : r.user = u /\ r.readAt = Unread} : Mark(rows)
    BY <1>3 DEF Marking
  <2> DEFINE mark(r) == IF r \in rows THEN [r EXCEPT !.readAt = now] ELSE r
             f == [r \in table |-> mark(r)]
  <2>2. table' = {mark(r) : r \in table}
    BY <2>1 DEF Mark
  <2> HIDE DEF mark
  <2>3. f \in Surjection(table, table')
    BY <2>2 DEF Surjection
  <2> HIDE DEF f
  <2> QED
    BY <2>3, FS_Surjection
<1>4. ASSUME table' \in SUBSET table PROVE IsFiniteSet(table')
  BY <1>4, FS_Subset
<1>5. Purge => table' \in SUBSET table
  BY DEF Purge
<1> QED
  BY <1>1, <1>2, <1>3, <1>4, <1>5, StepFrame DEF Mapping, GivingUp, Routing, Tick

(* How a walk moves. *)
LEMMA WalkMoves ==
    ASSUME RunsInUTC, WInv, NEW u \in Users,
           (\E raw \in Limits : ListFirst(u, raw)) \/ ListNext(u) \/ Leave(u)
    PROVE  /\ walk' = [walk EXCEPT ![u] = walk'[u]]
           /\ Sound(walk'[u], KeysOf(u))
           /\ walk'[u].start \in {KeysOf(u), walk[u].start, {}}
<1>1. TypeOK /\ IsFiniteSet(table) /\ walk \in [Users -> WalkRecord] /\ Sound(walk[u], KeysOf(u))
  BY DEF WInv, IInv, WalksSound
<1>2. KeysOf(u) \in SUBSET Key
  BY <1>1, KeysType DEF TypeOK
<1>3. DefaultLimit \in Nat \ {0} /\ MaxLimit \in Nat \ {0} /\ NoCursor \notin Key
  BY InboxAssumption
<1>4. NoWalk \in WalkRecord
  BY <1>3 DEF NoWalk, WalkRecord
<1>5. ASSUME NEW raw \in Limits, ListFirst(u, raw)
      PROVE  /\ walk' = [walk EXCEPT ![u] = walk'[u]]
             /\ Sound(walk'[u], KeysOf(u)) /\ walk'[u].start = KeysOf(u)
  <2> DEFINE w == [NoWalk EXCEPT !.limit = PageLimit(raw), !.start = KeysOf(u)]
  <2>1. PageLimit(raw) \in Nat \ {0}
    <3>1. raw \in Int
      BY InboxAssumption
    <3> QED
      BY <1>3, <3>1 DEF PageLimit
  <2>2. w \in WalkRecord /\ w.cursor = NoCursor /\ w.pages = <<>> /\ w.start = KeysOf(u)
    <3>1. w \in WalkRecord /\ w.cursor = NoWalk.cursor /\ w.pages = NoWalk.pages
          /\ w.start = KeysOf(u)
      BY <1>2, <1>4, <2>1 DEF WalkRecord
    <3>2. NoWalk.cursor = NoCursor /\ NoWalk.pages = <<>>
      BY DEF NoWalk
    <3> HIDE DEF w
    <3> QED
      BY <3>1, <3>2
  <2>3. ServePage(u, w)
    BY <1>5 DEF ListFirst, KeysOf
  <2> HIDE DEF w
  <2>4. Ready(w, KeysOf(u))
    BY <2>2 DEF Ready, GoDown
  <2> QED
    BY <1>1, <2>2, <2>3, <2>4, PageServed
<1>6. ASSUME ListNext(u)
      PROVE  /\ walk' = [walk EXCEPT ![u] = walk'[u]]
             /\ Sound(walk'[u], KeysOf(u)) /\ walk'[u].start = walk[u].start
  <2>1. walk[u].on /\ ServePage(u, walk[u])
    BY <1>6 DEF ListNext
  <2>2. Ready(walk[u], KeysOf(u))
    BY <1>1, <1>3, <2>1 DEF Sound, Accounted, Ready
  <2> QED
    BY <1>1, <2>1, <2>2, PageServed
<1>7. ASSUME Leave(u)
      PROVE  /\ walk' = [walk EXCEPT ![u] = walk'[u]]
             /\ Sound(walk'[u], KeysOf(u)) /\ walk'[u].start = {}
  <2>1. walk' = [walk EXCEPT ![u] = NoWalk] /\ walk'[u] = NoWalk
    BY <1>1, <1>7 DEF Leave
  <2>2. NoWalk.on = FALSE /\ NoWalk.pages = <<>> /\ NoWalk.start = {}
    BY DEF NoWalk
  <2>3. Sound(NoWalk, KeysOf(u))
    BY <1>4, <2>2 DEF Sound, GoDown, Accounted
  <2> QED
    BY <2>1, <2>2, <2>3
<1> QED
  BY <1>5, <1>6, <1>7
-----------------------------------------------------------------------------
(***************************************************************************)
(* The invariant is inductive.                                             *)
(***************************************************************************)

(* Where no walk moves, it is still about the rows it was about. *)
LEMMA SoundStays ==
    ASSUME NEW w, NEW keys, NEW more, Sound(w, keys), more \cap w.start \subseteq keys
    PROVE  Sound(w, more)
  BY DEF Sound, Accounted

(* Every step keeps the walks sound. *)
LEMMA WalksStep ==
    ASSUME RunsInUTC, WInv, Next
    PROVE  walk' \in [Users -> WalkRecord] /\ WalksSound'
<1>1. IInv /\ walk \in [Users -> WalkRecord] /\ WalksSound /\ PendingNew
  BY DEF WInv
<1>2. CASE walk' = walk
  <2> SUFFICES ASSUME NEW u \in Users PROVE Sound(walk[u], KeysOf(u)')
    BY <1>1, <1>2 DEF WalksSound
  <2>1. KeysOf(u)' \cap walk[u].start \subseteq KeysOf(u)
    <3> HIDE DEF KeyOf
    <3> QED
      BY <1>1, KeysStep DEF PendingNew
  <2>2. Sound(walk[u], KeysOf(u))
    BY <1>1 DEF WalksSound
  <2> QED
    BY <2>1, <2>2, SoundStays
<1>3. ASSUME NEW u \in Users, table' = table,
             (\E raw \in Limits : ListFirst(u, raw)) \/ ListNext(u) \/ Leave(u)
      PROVE  walk' \in [Users -> WalkRecord] /\ WalksSound'
  <2>1. walk' = [walk EXCEPT ![u] = walk'[u]] /\ Sound(walk'[u], KeysOf(u))
    BY <1>3, WalkMoves
  <2>2. walk'[u] \in WalkRecord
    BY <2>1 DEF Sound
  <2>3. \A v \in Users : KeysOf(v)' = KeysOf(v)
    BY <1>3 DEF KeysOf
  <2>4. \A v \in Users : v # u => walk'[v] = walk[v]
    BY <1>1, <2>1
  <2>5. \A v \in Users : Sound(walk'[v], KeysOf(v))
    BY <1>1, <2>1, <2>4 DEF WalksSound
  <2>6. walk' \in [Users -> WalkRecord]
    BY <1>1, <2>1, <2>2
  <2> QED
    BY <2>3, <2>5, <2>6 DEF WalksSound
<1> QED
  BY <1>2, <1>3, WalkFrame

(* Every step keeps StartHeld. *)
LEMMA StartHeldStep ==
    ASSUME RunsInUTC, WInv, Next
    PROVE  StartHeld'
<1>1. IInv /\ StartHeld /\ walk \in [Users -> WalkRecord] /\ now \in Nat /\ Retention \in Nat
  BY InboxAssumption DEF WInv, IInv, TypeOK
<1>2. \A u \in Users : \A k \in walk[u].start : k.at \in Int
  <2>1. \A u \in Users : walk[u].start \in SUBSET Key
    BY <1>1 DEF WalkRecord
  <2> QED
    BY <2>1, KeyParts
<1>3. CASE walk' = walk
  <2> SUFFICES ASSUME NEW u \in Users, NEW k \in walk[u].start
               PROVE  k \in KeysOf(u)' \/ now' > k.at + Retention
    BY <1>3 DEF StartHeld
  <2>1. CASE k \in KeysOf(u)
    BY <1>1, <2>1, KeysStep
  <2>2. CASE now > k.at + Retention
    <3>1. now' \in Nat /\ now' >= now
      <4>1. now' = now \/ now' = now + 1
        BY <1>1, StepFrame DEF IInv, Mapping, Inserting, GivingUp, Routing, Marking, Purge, Tick
      <4> QED
        BY <1>1, <4>1
    <3>2. k.at \in Int
      BY <1>2
    <3> QED
      BY <1>1, <2>2, <3>1, <3>2
  <2> QED
    BY <1>1, <2>1, <2>2 DEF StartHeld
<1>4. ASSUME NEW u \in Users, UNCHANGED <<now, table>>,
             (\E raw \in Limits : ListFirst(u, raw)) \/ ListNext(u) \/ Leave(u)
      PROVE  StartHeld'
  <2>1. /\ walk' = [walk EXCEPT ![u] = walk'[u]]
        /\ walk'[u].start \in {KeysOf(u), walk[u].start, {}}
    BY <1>4, WalkMoves
  <2>2. \A v \in Users : KeysOf(v)' = KeysOf(v)
    BY <1>4 DEF KeysOf
  <2>3. \A v \in Users : v # u => walk'[v] = walk[v]
    BY <1>1, <2>1
  <2>4. \A v \in Users : \A k \in walk'[v].start : k \in KeysOf(v) \/ now > k.at + Retention
    BY <1>1, <2>1, <2>3 DEF StartHeld
  <2> QED
    BY <1>4, <2>2, <2>4 DEF StartHeld
<1> QED
  BY <1>3, <1>4, WalkFrame

(* Every step keeps PendingNew. *)
LEMMA PendingNewStep ==
    ASSUME RunsInUTC, WInv, Next
    PROVE  PendingNew'
<1>1. /\ IInv /\ TypeOK /\ UniqueIds /\ StartHeld /\ PendingNew
      /\ walk \in [Users -> WalkRecord] /\ now \in Nat /\ Retention \in Nat
  BY InboxAssumption DEF WInv, IInv, TypeOK
<1>2. ASSUME walk' = walk,
             \A c \in Consumers : pc'[c] = "insert" => pc[c] = "insert" /\ pending'[c] = pending[c]
      PROVE  PendingNew'
  BY <1>1, <1>2 DEF PendingNew, KeyOf
<1>3. ASSUME NEW c \in Consumers, Mapping(c), walk' = walk PROVE PendingNew'
  <2>1. PICK m \in Messages, id \in FreshIds :
           Verdict(m) = "notification" /\ pending' = [pending EXCEPT ![c] = Notification(m, id)]
    BY <1>3 DEF Mapping
  <2> DEFINE new == Notification(m, id)
  <2>2. new.id = id /\ new.createdAt = now
    BY <1>1, <2>1, MappedRow
  <2>3. \A r \in table : r.id # id
    BY DEF FreshIds
  <2> HIDE DEF new
  <2>4. ASSUME NEW u \in Users, KeyOf(new) \in walk[u].start PROVE FALSE
    <3>1. KeyOf(new).at = now /\ KeyOf(new).id = id
      BY <2>2 DEF KeyOf
    <3>2. KeyOf(new) \notin KeysOf(u)
      <4>1. \A r \in table : KeyOf(r).id # id
        BY <2>3 DEF KeyOf
      <4> HIDE DEF KeyOf
      <4> QED
        BY <3>1, <4>1 DEF KeysOf
    <3>3. now > now + Retention
      BY <1>1, <2>4, <3>1, <3>2 DEF StartHeld
    <3> QED
      BY <1>1, <3>3
  <2>5. /\ pending'[c] = new
        /\ \A d \in Consumers : d # c /\ pc'[d] = "insert"
                                  => pc[d] = "insert" /\ pending'[d] = pending[d]
    BY <1>1, <1>3, <2>1 DEF Mapping, TypeOK, new
  <2> QED
    BY <1>1, <1>3, <2>4, <2>5 DEF PendingNew, KeyOf
<1>4. ASSUME NEW c \in Consumers, Inserting(c) \/ GivingUp(c) \/ Routing(c)
      PROVE  \A d \in Consumers : pc'[d] = "insert" => pc[d] = "insert" /\ pending'[d] = pending[d]
  BY <1>1, <1>4 DEF Inserting, GivingUp, Routing, Done, TypeOK
<1>5. ASSUME NEW u \in Users, UNCHANGED <<now, table, pc, pending>>,
             (\E raw \in Limits : ListFirst(u, raw)) \/ ListNext(u) \/ Leave(u)
      PROVE  PendingNew'
  <2>1. /\ walk' = [walk EXCEPT ![u] = walk'[u]]
        /\ walk'[u].start \in {KeysOf(u), walk[u].start, {}}
    BY <1>5, WalkMoves
  <2>2. \A v \in Users : v # u => walk'[v] = walk[v]
    BY <1>1, <2>1
  <2>3. ASSUME NEW c \in Consumers, pc[c] = "insert" PROVE KeyOf(pending[c]) \notin KeysOf(u)
    <3>1. \A r \in table : KeyOf(r).id # KeyOf(pending[c]).id
      BY <1>1, <2>3 DEF UniqueIds, KeyOf
    <3> HIDE DEF KeyOf
    <3> QED
      BY <3>1 DEF KeysOf
  <2>4. \A c \in Consumers : pc[c] = "insert" =>
           \A v \in Users : KeyOf(pending[c]) \notin walk'[v].start
    BY <1>1, <2>1, <2>2, <2>3 DEF PendingNew
  <2> QED
    BY <1>5, <2>4 DEF PendingNew, KeyOf
<1>6. ASSUME \/ \E u \in Users : Marking(u)
             \/ Purge \/ Tick
             \/ UNCHANGED <<now, table, arrivals, asked, pc, pending>>
      PROVE  UNCHANGED <<pc, pending>>
  BY <1>6 DEF Marking, Purge, Tick, consuming
<1>7. CASE walk' = walk
  BY <1>1, <1>2, <1>3, <1>4, <1>6, <1>7, StepFrame
<1> QED
  BY <1>5, <1>7, WalkFrame

(* The invariant holds at first. *)
LEMMA WalkInitial == Init => WInv
<1> SUFFICES ASSUME Init PROVE WInv
  OBVIOUS
<1>1. IInv
  BY Initial
<1>2. IsFiniteSet(table)
  BY FS_EmptySet DEF Init
<1>3. NoWalk.on = FALSE /\ NoWalk.pages = <<>> /\ NoWalk.start = {} /\ NoWalk \in WalkRecord
  <2>1. DefaultLimit \in Nat \ {0}
    BY InboxAssumption
  <2>2. <<>> \in Seq(SUBSET Key)
    OBVIOUS
  <2> QED
    BY <2>1, <2>2 DEF NoWalk, WalkRecord
<1>4. walk = [u \in Users |-> NoWalk] /\ \A c \in Consumers : pc[c] = "idle"
  BY DEF Init
<1>5. \A u \in Users : Sound(NoWalk, KeysOf(u))
  BY <1>3 DEF Sound, GoDown, Accounted
<1> QED
  BY <1>1, <1>2, <1>3, <1>4, <1>5 DEF WInv, WalksSound, StartHeld, PendingNew

(* Every step keeps it. *)
LEMMA WalkInductive == ASSUME RunsInUTC PROVE WInv /\ [Next]_vars => WInv'
<1> SUFFICES ASSUME WInv, [Next]_vars PROVE WInv'
  OBVIOUS
<1>1. CASE Next
  BY <1>1, Inductive, FiniteStep, WalksStep, StartHeldStep, PendingNewStep DEF WInv
<1>2. CASE UNCHANGED vars
  <2>1. IInv'
    BY <1>2, Inductive DEF WInv
  <2>2. UNCHANGED <<now, table, walk, pc, pending>>
    BY <1>2 DEF vars
  <2>3. \A u \in Users : KeysOf(u)' = KeysOf(u)
    BY <2>2 DEF KeysOf
  <2>4. WalksSound' /\ StartHeld'
    BY <2>2, <2>3 DEF WInv, WalksSound, StartHeld
  <2>5. PendingNew'
    BY <2>2 DEF WInv, PendingNew, KeyOf
  <2> QED
    BY <2>1, <2>2, <2>4, <2>5 DEF WInv
<1> QED
  BY <1>1, <1>2

(* The invariant of the walks holds in every reachable state. *)
THEOREM WalkInvariance == ASSUME RunsInUTC PROVE Spec => []WInv
  BY WalkInitial, WalkInductive, PTL DEF Spec

(* Whatever is inserted, marked or purged between two pages, the pages of  *)
(* a walk go from newer to older, and no row is on two of them.            *)
THEOREM PagesGoDown == ASSUME RunsInUTC PROVE Spec => []WalkGoesDown
<1>1. WInv => WalkGoesDown
  BY DEF WInv, WalksSound, Sound, GoDown, WalkGoesDown, Below
<1> QED
  BY <1>1, WalkInvariance, PTL

(* A walk that has come to its end has shown every row that was there when *)
(* it began and still is: (created_at, id) < cursor leaves out nothing and *)
(* a page that is not full is the last one.                                *)
THEOREM NothingMissed == ASSUME RunsInUTC PROVE Spec => []WalkMissesNothing
<1>1. ASSUME WInv PROVE WalkMissesNothing
  <2> SUFFICES ASSUME NEW u \in Users, ~walk[u].on, NEW r \in table, r.user = u,
                      KeyOf(r) \in walk[u].start
               PROVE  Shown(walk[u].pages, KeyOf(r))
    BY DEF WalkMissesNothing, Shown
  <2>1. KeyOf(r) \in KeysOf(u)
    BY DEF KeysOf
  <2>2. Accounted(walk[u], KeysOf(u))
    BY <1>1 DEF WInv, WalksSound, Sound
  <2> QED
    BY <2>1, <2>2 DEF Accounted
<1>2. WInv => WalkMissesNothing
  BY <1>1
<1> QED
  BY <1>2, WalkInvariance, PTL
=============================================================================
