----------------------------- MODULE InboxProof -----------------------------
(***************************************************************************)
(* Theorems about Inbox, for every value of its constants.  Those about a  *)
(* walk through the pages of the list are in InboxWalkProof.               *)
(***************************************************************************)
EXTENDS Inbox, SequenceTheorems, TLAPS

(* An appended sequence keeps its entries. *)
LEMMA AppendFacts ==
    ASSUME NEW S, NEW l \in Seq(S), NEW x \in S
    PROVE  /\ Append(l, x) \in Seq(S)
           /\ Len(l) \in Nat
           /\ Len(Append(l, x)) = Len(l) + 1
           /\ \A i \in 1..Len(l) : Append(l, x)[i] = l[i]
           /\ Append(l, x)[Len(l) + 1] = x
  OBVIOUS

(* The row the mappers build is a row, with an id nobody has. *)
LEMMA MappedRow ==
    ASSUME TypeOK, NEW m \in Messages, Verdict(m) = "notification", NEW id \in FreshIds
    PROVE  /\ Notification(m, id) \in Row
           /\ Notification(m, id) # NoRow
           /\ Notification(m, id).id = id
           /\ Notification(m, id).readAt = Unread
           /\ Notification(m, id).createdAt = now
<1>1. Mappable(m)
  BY DEF Verdict, commsSendRequestedChannel
<1>2. m.user \in Users /\ m.event \in EventIds
  BY <1>1, InboxAssumption DEF Mappable
<1>3. id \in Ids
  BY DEF FreshIds
<1>4. Notification(m, id) \in Row
  BY <1>2, <1>3 DEF Notification, Row, TypeOK
<1> QED
  BY <1>4, InboxAssumption DEF Notification

(***************************************************************************)
(* What a step can do to the table and to the rows about to be inserted.   *)
(***************************************************************************)

Mapping(c) ==
    /\ pc[c] = "idle"
    /\ pc' = [pc EXCEPT ![c] = "insert"]
    /\ \E m \in Messages, id \in FreshIds :
          /\ Verdict(m) = "notification"
          /\ pending' = [pending EXCEPT ![c] = Notification(m, id)]
    /\ UNCHANGED <<now, table, arrivals, asked>>

Inserting(c) ==
    /\ pc[c] = "insert"
    /\ Insert(pending[c])
    /\ Done(c)
    /\ UNCHANGED <<now, asked>>

GivingUp(c) == Done(c) /\ UNCHANGED <<now, table, arrivals, asked>>

Routing(c) ==
    /\ pc[c] # "insert"
    /\ pc' \in {[pc EXCEPT ![c] = "idle"], [pc EXCEPT ![c] = "comms"]}
    /\ UNCHANGED <<pending, now, table, arrivals, asked>>

Marking(u) ==
    /\ \E rows \in SUBSET {r \in table : r.user = u /\ r.readAt = Unread} : Mark(rows)
    /\ asked' = asked \cup {u}
    /\ UNCHANGED <<now, arrivals, pc, pending>>

(* Messages are taken from the buffer. *)
LEMMA HeadOfQueue ==
    ASSUME TypeOK, NEW c \in Consumers, queue[c] # <<>>
    PROVE  Head(queue[c]) \in Messages /\ Tail(queue[c]) \in Seq(Messages)
<1>1. queue[c] \in Seq(Messages)
  BY DEF TypeOK
<1> QED
  BY <1>1, HeadTailProperties

LEMMA StepFrame ==
    ASSUME TypeOK, Next
    PROVE  \/ \E c \in Consumers : Mapping(c) \/ Inserting(c) \/ GivingUp(c) \/ Routing(c)
           \/ \E u \in Users : Marking(u)
           \/ Purge
           \/ Tick
           \/ UNCHANGED <<now, table, arrivals, asked, pc, pending>>
<1> USE DEF consuming
<1>1. ASSUME NEW c \in Consumers, Receive(c)
      PROVE  \/ Mapping(c) \/ Routing(c)
             \/ UNCHANGED <<now, table, arrivals, asked, pc, pending>>
  <2> DEFINE m == Head(queue[c])
  <2>1. m \in Messages
    BY <1>1, HeadOfQueue DEF Receive
  <2> HIDE DEF m
  <2>2. CASE /\ Verdict(m) = "notification"
             /\ pc' = [pc EXCEPT ![c] = "insert"]
             /\ \E id \in FreshIds : pending' = [pending EXCEPT ![c] = Notification(m, id)]
    BY <1>1, <2>1, <2>2 DEF Receive, Mapping
  <2>3. CASE pc' = [pc EXCEPT ![c] = "comms"] /\ UNCHANGED pending
    BY <1>1, <2>3 DEF Receive, Routing
  <2>4. CASE UNCHANGED <<pc, pending>>
    BY <1>1, <2>4 DEF Receive
  <2> QED
    BY <1>1, <2>2, <2>3, <2>4 DEF Receive, m
<1>2. ASSUME NEW c \in Consumers, InsertReturns(c) PROVE Inserting(c)
  BY <1>2 DEF InsertReturns, Inserting
<1>3. ASSUME NEW c \in Consumers, InsertFails(c) PROVE Inserting(c) \/ GivingUp(c)
  BY <1>3 DEF InsertFails, Inserting, GivingUp
<1>4. ASSUME NEW c \in Consumers, CommsReturns(c) PROVE Routing(c)
  BY <1>4 DEF CommsReturns, Routing
<1>5. ASSUME NEW c \in Consumers, Restart(c) PROVE GivingUp(c)
  BY <1>5 DEF Restart, GivingUp
<1>6. ASSUME NEW u \in Users, NEW id \in Ids, MarkRead(u, id) PROVE Marking(u)
  BY <1>6 DEF MarkRead, Marking
<1>7. ASSUME NEW u \in Users, MarkAllRead(u) PROVE Marking(u)
  BY <1>7 DEF MarkAllRead, Marking
<1>8. ASSUME \/ \E m \in Messages : Publish(m)
             \/ \E u \in Users, raw \in Limits : ListFirst(u, raw)
             \/ \E u \in Users : ListNext(u) \/ Leave(u)
      PROVE  UNCHANGED <<now, table, arrivals, asked, pc, pending>>
  BY <1>8 DEF Publish, ListFirst, ListNext, Leave
<1> QED
  BY <1>1, <1>2, <1>3, <1>4, <1>5, <1>6, <1>7, <1>8 DEF Next

(* Marking keeps the rows apart from their read marks. *)
LEMMA MarkFacts ==
    ASSUME TypeOK, NEW rows \in SUBSET table, Mark(rows)
    PROVE  /\ table' \in SUBSET Row
           /\ \A s \in table' : \E r \in table :
                 /\ s.id = r.id /\ s.user = r.user
                 /\ r \notin rows => s = r
           /\ \A r \in table : \E s \in table' :
                 s.user = r.user /\ s.event = r.event /\ s.createdAt = r.createdAt
<1> DEFINE marked(r) == [r EXCEPT !.readAt = now]
<1>1. \A r \in Row : /\ marked(r) \in Row
                     /\ marked(r).id = r.id /\ marked(r).user = r.user
                     /\ marked(r).event = r.event /\ marked(r).createdAt = r.createdAt
  BY DEF Row, TypeOK
<1>2. table' = {IF r \in rows THEN marked(r) ELSE r : r \in table} /\ table \subseteq Row
  BY DEF Mark, TypeOK
<1> HIDE DEF marked
<1> QED
  BY <1>1, <1>2
(* An INSERT adds the pending row unless the unique index refuses it. *)
LEMMA InsertFacts ==
    ASSUME TypeOK, NEW c \in Consumers, pc[c] = "insert", Insert(pending[c])
    PROVE  /\ pending[c] \in Row
           /\ \/ UNCHANGED <<table, arrivals>>
              \/ /\ ~Conflicts(pending[c])
                 /\ table' = table \cup {pending[c]}
                 /\ arrivals' = Append(arrivals, [user |-> pending[c].user,
                                                  event |-> pending[c].event,
                                                  at |-> pending[c].createdAt])
                 /\ [user |-> pending[c].user, event |-> pending[c].event,
                     at |-> pending[c].createdAt] \in Arrival
<1>1. pending[c] \in Row
  BY DEF TypeOK
<1>2. [user |-> pending[c].user, event |-> pending[c].event,
       at |-> pending[c].createdAt] \in Arrival
  BY <1>1 DEF Row, Arrival
<1> QED
  BY <1>1, <1>2 DEF Insert

-----------------------------------------------------------------------------
(* Types. *)

(* The consumer's side of the types, whatever the step does to it. *)
ConsumerTypes ==
    /\ pc \in [Consumers -> {"idle", "insert", "comms"}]
    /\ pending \in [Consumers -> Row \cup {NoRow}]
    /\ \A c \in Consumers : pc[c] = "insert" <=> pending[c] # NoRow

LEMMA ConsumerTypesStep ==
    ASSUME TypeOK, Next
    PROVE  ConsumerTypes'
<1>0. ConsumerTypes
  BY DEF TypeOK, ConsumerTypes
<1>1. ASSUME NEW c \in Consumers, Mapping(c) PROVE ConsumerTypes'
  <2>1. PICK m \in Messages, id \in FreshIds :
           Verdict(m) = "notification" /\ pending' = [pending EXCEPT ![c] = Notification(m, id)]
    BY <1>1 DEF Mapping
  <2>2. Notification(m, id) \in Row /\ Notification(m, id) # NoRow
    BY <2>1, MappedRow
  <2> QED
    BY <1>0, <1>1, <2>1, <2>2 DEF Mapping, ConsumerTypes
<1>2. ASSUME NEW c \in Consumers, Done(c) PROVE ConsumerTypes'
  BY <1>0, <1>2 DEF Done, ConsumerTypes
<1>3. ASSUME NEW c \in Consumers, Routing(c) PROVE ConsumerTypes'
  BY <1>0, <1>3 DEF Routing, ConsumerTypes
<1>4. CASE UNCHANGED <<pc, pending>>
  BY <1>0, <1>4 DEF ConsumerTypes
<1> QED
  BY <1>1, <1>2, <1>3, <1>4, StepFrame DEF Inserting, GivingUp, Marking, Purge, Tick, consuming

(* The table's side of the types. *)
TableTypes ==
    /\ now \in Nat
    /\ table \in SUBSET Row
    /\ arrivals \in Seq(Arrival)
    /\ asked \in SUBSET Users

LEMMA TableTypesStep ==
    ASSUME TypeOK, Next
    PROVE  TableTypes'
<1>0. TableTypes
  BY DEF TypeOK, TableTypes
<1>1. ASSUME NEW c \in Consumers, Inserting(c) PROVE TableTypes'
  <2>1. UNCHANGED <<now, asked>> /\ pc[c] = "insert" /\ Insert(pending[c])
    BY <1>1 DEF Inserting
  <2>2. CASE UNCHANGED <<table, arrivals>>
    BY <1>0, <2>1, <2>2 DEF TableTypes
  <2>3. CASE ~UNCHANGED <<table, arrivals>>
    <3> DEFINE a == [user |-> pending[c].user, event |-> pending[c].event,
                     at |-> pending[c].createdAt]
    <3>1. /\ pending[c] \in Row
          /\ table' = table \cup {pending[c]}
          /\ a \in Arrival
          /\ arrivals' = Append(arrivals, a)
      BY <2>1, <2>3, InsertFacts
    <3> HIDE DEF a
    <3>2. arrivals' \in Seq(Arrival)
      BY <1>0, <3>1, AppendFacts DEF TableTypes
    <3> QED
      BY <1>0, <2>1, <3>1, <3>2 DEF TableTypes
  <2> QED
    BY <2>2, <2>3
<1>2. ASSUME NEW u \in Users, Marking(u) PROVE TableTypes'
  BY <1>0, <1>2, MarkFacts DEF Marking, TableTypes
<1>3. CASE Purge \/ Tick
  BY <1>0, <1>3 DEF Purge, Tick, TableTypes
<1>4. CASE UNCHANGED <<now, table, arrivals, asked>>
  BY <1>0, <1>4 DEF TableTypes
<1> QED
  BY <1>1, <1>2, <1>3, <1>4, StepFrame DEF Mapping, GivingUp, Routing

(* Buffers hold published messages. *)
LEMMA QueueTypesStep ==
    ASSUME TypeOK, Next
    PROVE  published' \in Nat /\ queue' \in [Consumers -> Seq(Messages)]
<1> USE DEF consuming
<1>0. published \in Nat /\ queue \in [Consumers -> Seq(Messages)]
  BY DEF TypeOK
<1>1. ASSUME NEW m \in Messages, Publish(m)
      PROVE  published' \in Nat /\ queue' \in [Consumers -> Seq(Messages)]
  <2>1. \A c \in Consumers : Append(queue[c], m) \in Seq(Messages)
    BY <1>0, AppendFacts
  <2>2. PICK got : queue' = [c \in Consumers |-> IF c \in got THEN Append(queue[c], m)
                                                              ELSE queue[c]]
    BY <1>1 DEF Publish
  <2> QED
    BY <1>0, <1>1, <2>1, <2>2 DEF Publish
<1>2. ASSUME NEW c \in Consumers, Receive(c)
      PROVE  published' \in Nat /\ queue' \in [Consumers -> Seq(Messages)]
  <2>1. queue' = [queue EXCEPT ![c] = Tail(queue[c])] /\ published' = published
    BY <1>2 DEF Receive
  <2>2. Tail(queue[c]) \in Seq(Messages)
    BY <1>2, HeadOfQueue DEF Receive
  <2> QED
    BY <1>0, <2>1, <2>2
<1>3. ASSUME NEW c \in Consumers, Restart(c)
      PROVE  published' \in Nat /\ queue' \in [Consumers -> Seq(Messages)]
  BY <1>0, <1>3 DEF Restart
<1>4. ASSUME NEW c \in Consumers, InsertReturns(c) \/ InsertFails(c) \/ CommsReturns(c)
      PROVE  UNCHANGED <<published, queue>>
  BY <1>4 DEF InsertReturns, InsertFails, CommsReturns
<1>5. ASSUME \/ \E u \in Users, id \in Ids : MarkRead(u, id)
             \/ \E u \in Users, raw \in Limits : ListFirst(u, raw)
             \/ \E u \in Users : MarkAllRead(u) \/ ListNext(u) \/ Leave(u)
             \/ Purge \/ Tick
      PROVE  UNCHANGED <<published, queue>>
  BY <1>5 DEF MarkRead, MarkAllRead, ListFirst, ListNext, Leave, Purge, Tick
<1> QED
  BY <1>0, <1>1, <1>2, <1>3, <1>4, <1>5 DEF Next

LEMMA TypeStep ==
    ASSUME TypeOK, Next
    PROVE  TypeOK'
  BY ConsumerTypesStep, TableTypesStep, QueueTypesStep DEF ConsumerTypes, TableTypes, TypeOK

(***************************************************************************)
(* The inductive invariant.                                                *)
(***************************************************************************)

(* A row about to be inserted is unread and not older than MaxStall. *)
PendingFresh ==
    \A c \in Consumers : pc[c] = "insert" =>
        /\ pending[c].readAt = Unread
        /\ pending[c].createdAt <= now
        /\ now <= pending[c].createdAt + MaxStall

(* No two rows, inserted or about to be, share an id. *)
UniqueIds ==
    /\ \A r, s \in table : r.id = s.id => r = s
    /\ \A c \in Consumers : pc[c] = "insert" => \A r \in table : r.id # pending[c].id
    /\ \A c, d \in Consumers :
          (pc[c] = "insert" /\ pc[d] = "insert" /\ pending[c].id = pending[d].id) => c = d

(* An arrival whose row is gone is older than the retention period. *)
ArrivalsHeld ==
    \A i \in 1..Len(arrivals) :
        \/ \E r \in table : /\ r.user = arrivals[i].user
                            /\ r.event = arrivals[i].event
                            /\ r.createdAt = arrivals[i].at
        \/ now > arrivals[i].at + Retention

IInv ==
    /\ TypeOK
    /\ PendingFresh
    /\ UniqueIds
    /\ ArrivalsHeld
    /\ ArrivalsAreSpaced
    /\ OnlyOwnerReads

LEMMA PendingFreshStep ==
    ASSUME IInv, Next
    PROVE  PendingFresh'
<1>0. PendingFresh /\ TypeOK /\ now \in Nat /\ MaxStall \in Nat
  BY InboxAssumption DEF IInv, TypeOK
<1>1. ASSUME NEW c \in Consumers, Mapping(c) PROVE PendingFresh'
  <2>1. PICK m \in Messages, id \in FreshIds :
           Verdict(m) = "notification" /\ pending' = [pending EXCEPT ![c] = Notification(m, id)]
    BY <1>1 DEF Mapping
  <2>2. Notification(m, id).readAt = Unread /\ Notification(m, id).createdAt = now
    BY <1>0, <2>1, MappedRow
  <2> QED
    BY <1>0, <1>1, <2>1, <2>2 DEF Mapping, PendingFresh, TypeOK
<1>2. ASSUME NEW c \in Consumers, Done(c), now' = now PROVE PendingFresh'
  BY <1>0, <1>2 DEF Done, PendingFresh, TypeOK
<1>3. ASSUME NEW c \in Consumers, Routing(c) PROVE PendingFresh'
  BY <1>0, <1>3 DEF Routing, PendingFresh, TypeOK
<1>4. CASE UNCHANGED <<now, pc, pending>>
  BY <1>0, <1>4 DEF PendingFresh
<1>5. CASE Tick
  <2> SUFFICES ASSUME NEW c \in Consumers, pc[c] = "insert"
               PROVE  /\ pending[c].readAt = Unread
                      /\ pending[c].createdAt <= now + 1
                      /\ now + 1 <= pending[c].createdAt + MaxStall
    BY <1>5 DEF Tick, consuming, PendingFresh
  <2>1. pending[c] \in Row
    BY <1>0 DEF TypeOK
  <2>2. pending[c].createdAt \in Nat
    BY <2>1 DEF Row
  <2>3. now - pending[c].createdAt < MaxStall
    BY <1>5 DEF Tick
  <2> QED
    BY <1>0, <2>2, <2>3 DEF PendingFresh
<1> QED
  BY <1>0, <1>1, <1>2, <1>3, <1>4, <1>5, StepFrame
     DEF Inserting, GivingUp, Marking, Purge, consuming

LEMMA UniqueIdsStep ==
    ASSUME IInv, Next
    PROVE  UniqueIds'
<1>0. UniqueIds /\ TypeOK
  BY DEF IInv
<1>1. ASSUME NEW c \in Consumers, Mapping(c) PROVE UniqueIds'
  <2>1. PICK m \in Messages, id \in FreshIds :
           Verdict(m) = "notification" /\ pending' = [pending EXCEPT ![c] = Notification(m, id)]
    BY <1>1 DEF Mapping
  <2>2. Notification(m, id).id = id
    BY <1>0, <2>1, MappedRow
  <2>3. /\ \A r \in table : r.id # id
        /\ \A d \in Consumers : pc[d] = "insert" => pending[d].id # id
    BY <1>0 DEF FreshIds, TypeOK
  <2> QED
    BY <1>0, <1>1, <2>1, <2>2, <2>3 DEF Mapping, UniqueIds, TypeOK
<1>2. ASSUME NEW c \in Consumers, Inserting(c) PROVE UniqueIds'
  <2>1. pc[c] = "insert" /\ Insert(pending[c]) /\ Done(c)
    BY <1>2 DEF Inserting
  <2>2. \/ table' = table
        \/ table' = table \cup {pending[c]}
    BY <1>0, <2>1, InsertFacts
  <2>3. \A d \in Consumers : pc'[d] = "insert"
           => d # c /\ pc[d] = "insert" /\ pending'[d] = pending[d]
    BY <1>0, <2>1 DEF Done, TypeOK
  <2> QED
    BY <1>0, <2>1, <2>2, <2>3 DEF UniqueIds
<1>3. ASSUME NEW c \in Consumers, GivingUp(c) PROVE UniqueIds'
  <2>1. \A d \in Consumers : pc'[d] = "insert" => pc[d] = "insert" /\ pending'[d] = pending[d]
    BY <1>0, <1>3 DEF GivingUp, Done, TypeOK
  <2> QED
    BY <1>0, <1>3, <2>1 DEF GivingUp, UniqueIds
<1>4. ASSUME NEW c \in Consumers, Routing(c) PROVE UniqueIds'
  <2>1. \A d \in Consumers : pc'[d] = "insert" => pc[d] = "insert" /\ pending'[d] = pending[d]
    BY <1>0, <1>4 DEF Routing, TypeOK
  <2> QED
    BY <1>0, <1>4, <2>1 DEF Routing, UniqueIds
<1>5. ASSUME NEW u \in Users, Marking(u) PROVE UniqueIds'
  <2>1. PICK rows \in SUBSET {r \in table : r.user = u /\ r.readAt = Unread} : Mark(rows)
    BY <1>5 DEF Marking
  <2>2. \A r, s \in table' : r.id = s.id => r = s
    <3> DEFINE mark(r) == IF r \in rows THEN [r EXCEPT !.readAt = now] ELSE r
    <3>1. table' = {mark(r) : r \in table}
      BY <2>1 DEF Mark
    <3>2. \A r \in table : mark(r).id = r.id
      BY <1>0 DEF TypeOK, Row
    <3> HIDE DEF mark
    <3> QED
      BY <1>0, <3>1, <3>2 DEF UniqueIds
  <2>3. \A s \in table' : \E r \in table : s.id = r.id
    BY <1>0, <2>1, MarkFacts
  <2> QED
    BY <1>0, <1>5, <2>2, <2>3 DEF Marking, UniqueIds
<1>6. CASE Purge
  BY <1>0, <1>6 DEF Purge, consuming, UniqueIds
<1>7. CASE UNCHANGED <<table, pc, pending>>
  BY <1>0, <1>7 DEF UniqueIds
<1> QED
  BY <1>0, <1>1, <1>2, <1>3, <1>4, <1>5, <1>6, <1>7, StepFrame DEF Tick, consuming

(* A new arrival and the row that holds it; entries before it stay. *)
Arrived(c) ==
    /\ Len(arrivals) \in Nat
    /\ Len(arrivals') = Len(arrivals) + 1
    /\ \A i \in 1..Len(arrivals) : arrivals'[i] = arrivals[i] /\ arrivals[i] \in Arrival
    /\ arrivals'[Len(arrivals) + 1].user = pending[c].user
    /\ arrivals'[Len(arrivals) + 1].event = pending[c].event
    /\ arrivals'[Len(arrivals) + 1].at = pending[c].createdAt
    /\ pending[c] \in Row
    /\ table' = table \cup {pending[c]}
    /\ ~Conflicts(pending[c])

LEMMA ArrivedFacts ==
    ASSUME TypeOK, NEW c \in Consumers, Inserting(c)
    PROVE  UNCHANGED <<table, arrivals>> \/ Arrived(c)
<1> DEFINE a == [user |-> pending[c].user, event |-> pending[c].event,
                 at |-> pending[c].createdAt]
<1>1. CASE ~UNCHANGED <<table, arrivals>>
  <2>1. /\ pending[c] \in Row
        /\ ~Conflicts(pending[c])
        /\ table' = table \cup {pending[c]}
        /\ a \in Arrival
        /\ arrivals' = Append(arrivals, a)
    BY <1>1, InsertFacts DEF Inserting
  <2>2. a.user = pending[c].user /\ a.event = pending[c].event /\ a.at = pending[c].createdAt
    OBVIOUS
  <2> HIDE DEF a
  <2>3. /\ Len(arrivals) \in Nat
        /\ Len(arrivals') = Len(arrivals) + 1
        /\ \A i \in 1..Len(arrivals) : arrivals'[i] = arrivals[i] /\ arrivals[i] \in Arrival
        /\ arrivals'[Len(arrivals) + 1] = a
    BY <2>1, AppendFacts DEF TypeOK
  <2> QED
    BY <2>1, <2>2, <2>3 DEF Arrived
<1> QED
  BY <1>1

LEMMA ArrivalsHeldStep ==
    ASSUME IInv, Next
    PROVE  ArrivalsHeld'
<1>0. /\ ArrivalsHeld /\ TypeOK /\ now \in Nat /\ Retention \in Nat
      /\ \A i \in 1..Len(arrivals) : arrivals[i] \in Arrival /\ arrivals[i].at \in Nat
  <2>1. ArrivalsHeld /\ TypeOK /\ now \in Nat /\ Retention \in Nat
    BY InboxAssumption DEF IInv, TypeOK
  <2>2. \A i \in 1..Len(arrivals) : arrivals[i] \in Arrival
    BY <2>1 DEF TypeOK
  <2> QED
    BY <2>1, <2>2 DEF Arrival
<1>1. ASSUME NEW c \in Consumers, Inserting(c) PROVE ArrivalsHeld'
  <2>1. now' = now
    BY <1>1 DEF Inserting
  <2>2. CASE UNCHANGED <<table, arrivals>>
    BY <1>0, <2>1, <2>2 DEF ArrivalsHeld
  <2>3. CASE Arrived(c)
    <3> SUFFICES ASSUME NEW i \in 1..Len(arrivals')
                 PROVE  \/ \E r \in table' : /\ r.user = arrivals'[i].user
                                             /\ r.event = arrivals'[i].event
                                             /\ r.createdAt = arrivals'[i].at
                        \/ now' > arrivals'[i].at + Retention
      BY DEF ArrivalsHeld
    <3>1. i \in 1..Len(arrivals) \/ i = Len(arrivals) + 1
      BY <2>3 DEF Arrived
    <3>2. CASE i \in 1..Len(arrivals)
      <4>1. arrivals'[i] = arrivals[i] /\ table \subseteq table'
        BY <2>3, <3>2 DEF Arrived
      <4> QED
        BY <1>0, <2>1, <3>2, <4>1 DEF ArrivalsHeld
    <3>3. CASE i = Len(arrivals) + 1
      BY <2>3, <3>3 DEF Arrived
    <3> QED
      BY <3>1, <3>2, <3>3
  <2> QED
    BY <1>0, <1>1, <2>2, <2>3, ArrivedFacts
<1>2. ASSUME NEW u \in Users, Marking(u) PROVE ArrivalsHeld'
  <2>1. PICK rows \in SUBSET {r \in table : r.user = u /\ r.readAt = Unread} : Mark(rows)
    BY <1>2 DEF Marking
  <2>2. \A r \in table : \E s \in table' :
           s.user = r.user /\ s.event = r.event /\ s.createdAt = r.createdAt
    BY <1>0, <2>1, MarkFacts
  <2> QED
    BY <1>0, <1>2, <2>2 DEF Marking, ArrivalsHeld
<1>3. CASE Purge
  <2>1. UNCHANGED <<now, arrivals>> /\ table' = {r \in table : ~Expired(r)}
    BY <1>3 DEF Purge
  <2>2. \A r \in table : r.createdAt \in Nat
    BY <1>0 DEF TypeOK, Row
  <2>3. \A r \in table : r \notin table' => now > r.createdAt + Retention
    BY <1>0, <2>1, <2>2 DEF Expired
  <2> QED
    BY <1>0, <2>1, <2>3 DEF ArrivalsHeld
<1>4. CASE Tick
  BY <1>0, <1>4 DEF Tick, ArrivalsHeld
<1>5. CASE UNCHANGED <<now, table, arrivals>>
  BY <1>0, <1>5 DEF ArrivalsHeld
<1> QED
  BY <1>0, <1>1, <1>2, <1>3, <1>4, <1>5, StepFrame DEF Mapping, GivingUp, Routing

LEMMA SpacedStep ==
    ASSUME IInv, Next
    PROVE  ArrivalsAreSpaced'
<1>0. /\ ArrivalsAreSpaced /\ ArrivalsHeld /\ PendingFresh /\ TypeOK
      /\ now \in Nat /\ Retention \in Nat /\ MaxStall \in Nat
      /\ DOMAIN arrivals = 1..Len(arrivals)
  BY InboxAssumption DEF IInv, TypeOK
<1>1. ASSUME NEW c \in Consumers, Inserting(c) PROVE ArrivalsAreSpaced'
  <2>1. pc[c] = "insert"
    BY <1>1 DEF Inserting
  <2>2. CASE UNCHANGED <<table, arrivals>>
    BY <1>0, <2>2 DEF ArrivalsAreSpaced
  <2>3. CASE Arrived(c)
    <3> DEFINE N == Len(arrivals) + 1
    <3>1. DOMAIN arrivals' = 1..N /\ N \in Nat
      <4>1. arrivals' \in Seq(Arrival)
        BY TypeStep, <1>0 DEF TypeOK
      <4> QED
        BY <2>3, <4>1 DEF Arrived
    <3>2. ASSUME NEW i \in 1..Len(arrivals), arrivals[i].user = pending[c].user,
                 arrivals[i].event = pending[c].event
          PROVE  pending[c].createdAt + MaxStall > arrivals[i].at + Retention
      <4>0. \A r \in table : ~(r.user = pending[c].user /\ r.event = pending[c].event)
        BY <2>3 DEF Arrived, Conflicts
      <4>1. now > arrivals[i].at + Retention
        BY <1>0, <3>2, <4>0 DEF ArrivalsHeld
      <4>2. now <= pending[c].createdAt + MaxStall
        BY <1>0, <2>1 DEF PendingFresh
      <4>3. pending[c].createdAt \in Nat /\ arrivals[i].at \in Nat
        <5>1. pending[c] \in Row /\ arrivals[i] \in Arrival
          BY <2>3 DEF Arrived
        <5> QED
          BY <5>1 DEF Row, Arrival
      <4>4. now \in Nat /\ Retention \in Nat /\ MaxStall \in Nat
        BY <1>0
      <4> DEFINE s == arrivals[i].at
                 t == pending[c].createdAt
      <4>5. s \in Nat /\ t \in Nat /\ now > s + Retention /\ now <= t + MaxStall
        BY <4>1, <4>2, <4>3
      <4> HIDE DEF s, t
      <4>6. t + MaxStall > s + Retention
        BY <4>4, <4>5
      <4> QED
        BY <4>6 DEF s, t
    <3> SUFFICES ASSUME NEW i \in 1..N, NEW j \in 1..N, i < j,
                        arrivals'[i].user = arrivals'[j].user,
                        arrivals'[i].event = arrivals'[j].event
                 PROVE  arrivals'[j].at + MaxStall > arrivals'[i].at + Retention
      BY <3>1 DEF ArrivalsAreSpaced
    <3>0. Len(arrivals) \in Nat /\ \A n \in 1..Len(arrivals) : arrivals'[n] = arrivals[n]
      BY <2>3 DEF Arrived
    <3>3. i \in 1..Len(arrivals) /\ arrivals'[i] = arrivals[i]
      BY <3>0
    <3>4. CASE j = N
      BY <2>3, <3>2, <3>3, <3>4 DEF Arrived
    <3>5. CASE j # N
      <4>1. j \in 1..Len(arrivals) /\ arrivals'[j] = arrivals[j]
        BY <3>0, <3>5
      <4> QED
        BY <1>0, <3>3, <4>1 DEF ArrivalsAreSpaced
    <3> QED
      BY <3>4, <3>5
  <2> QED
    BY <1>0, <1>1, <2>2, <2>3, ArrivedFacts
<1>2. CASE UNCHANGED arrivals
  BY <1>0, <1>2 DEF ArrivalsAreSpaced
<1> QED
  BY <1>0, <1>1, <1>2, StepFrame DEF Mapping, GivingUp, Routing, Marking, Purge, Tick

LEMMA OnlyOwnerReadsStep ==
    ASSUME IInv, Next
    PROVE  OnlyOwnerReads'
<1>0. OnlyOwnerReads /\ TypeOK /\ PendingFresh
  BY DEF IInv
<1>1. ASSUME NEW c \in Consumers, Inserting(c) PROVE OnlyOwnerReads'
  <2>1. pending[c].readAt = Unread /\ asked' = asked
    BY <1>0, <1>1 DEF Inserting, PendingFresh
  <2>2. table' = table \/ table' = table \cup {pending[c]}
    BY <1>0, <1>1, ArrivedFacts DEF Arrived
  <2> QED
    BY <1>0, <2>1, <2>2 DEF OnlyOwnerReads
<1>2. ASSUME NEW u \in Users, Marking(u) PROVE OnlyOwnerReads'
  <2>1. PICK rows \in SUBSET {r \in table : r.user = u /\ r.readAt = Unread} : Mark(rows)
    BY <1>2 DEF Marking
  <2>2. \A s \in table' : \E r \in table : s.user = r.user /\ (r \notin rows => s = r)
    BY <1>0, <2>1, MarkFacts
  <2> QED
    BY <1>0, <1>2, <2>1, <2>2 DEF Marking, OnlyOwnerReads
<1>3. CASE UNCHANGED asked /\ table' \subseteq table
  BY <1>0, <1>3 DEF OnlyOwnerReads
<1> QED
  BY <1>0, <1>1, <1>2, <1>3, StepFrame DEF Mapping, GivingUp, Routing, Purge, Tick

LEMMA Initial == Init => IInv
<1> SUFFICES ASSUME Init PROVE IInv
  OBVIOUS
<1>1. TypeOK
  BY DEF Init, TypeOK
<1>2. PendingFresh /\ UniqueIds /\ OnlyOwnerReads
  BY DEF Init, PendingFresh, UniqueIds, OnlyOwnerReads
<1>3. ArrivalsHeld /\ ArrivalsAreSpaced
  BY DEF Init, ArrivalsHeld, ArrivalsAreSpaced
<1> QED
  BY <1>1, <1>2, <1>3 DEF IInv

LEMMA Inductive == IInv /\ [Next]_vars => IInv'
<1> SUFFICES ASSUME IInv, [Next]_vars PROVE IInv'
  OBVIOUS
<1>1. CASE Next
  BY <1>1, TypeStep, PendingFreshStep, UniqueIdsStep, ArrivalsHeldStep, SpacedStep,
     OnlyOwnerReadsStep DEF IInv
<1>2. CASE UNCHANGED vars
  BY <1>2 DEF vars, IInv, TypeOK, PendingFresh, UniqueIds, ArrivalsHeld,
     ArrivalsAreSpaced, OnlyOwnerReads
<1> QED
  BY <1>1, <1>2

(* The inductive invariant holds in every reachable state. *)
THEOREM InboxInvariance == Spec => []IInv
  BY Initial, Inductive, PTL DEF Spec

(* Consumers, table and buffers keep their types; a mapped event is always *)
(* a complete row.                                                         *)
THEOREM InboxTypes == Spec => []TypeOK
<1>1. IInv => TypeOK
  BY DEF IInv
<1> QED
  BY <1>1, InboxInvariance, PTL

(* The unique index and the purge together: an event notifies its user     *)
(* once per retention period, less the time an INSERT can take, for any    *)
(* number of replicas and publications.                                    *)
THEOREM NotifiedOnce == Spec => []ArrivalsAreSpaced
<1>1. IInv => ArrivalsAreSpaced
  BY DEF IInv
<1> QED
  BY <1>1, InboxInvariance, PTL

(* A row is marked read only on behalf of its owner. *)
THEOREM OwnersRead == Spec => []OnlyOwnerReads
<1>1. IInv => OnlyOwnerReads
  BY DEF IInv
<1> QED
  BY <1>1, InboxInvariance, PTL

(* A read mark is never moved or taken back while its row exists. *)
THEOREM ReadMarksStay == Spec => ReadIsFinal
<1>1. ASSUME IInv, Next, NEW r \in table, NEW s \in table', s.id = r.id, r.readAt # Unread
      PROVE  s = r
  <2>0. TypeOK /\ UniqueIds
    BY <1>1 DEF IInv
  <2>1. ASSUME NEW c \in Consumers, Inserting(c) PROVE s = r
    <3>1. table' = table \/ table' = table \cup {pending[c]}
      BY <2>0, <2>1, ArrivedFacts DEF Arrived
    <3> QED
      BY <1>1, <2>0, <2>1, <3>1 DEF UniqueIds, Inserting
  <2>2. ASSUME NEW u \in Users, Marking(u) PROVE s = r
    <3>1. PICK rows \in SUBSET {q \in table : q.user = u /\ q.readAt = Unread} : Mark(rows)
      BY <2>2 DEF Marking
    <3>2. \E q \in table : s.id = q.id /\ (q \notin rows => s = q)
      BY <1>1, <2>0, <3>1, MarkFacts
    <3> QED
      BY <1>1, <2>0, <3>1, <3>2 DEF UniqueIds
  <2>3. CASE table' \subseteq table
    BY <1>1, <2>0, <2>3 DEF UniqueIds
  <2> QED
    BY <1>1, <2>0, <2>1, <2>2, <2>3, StepFrame DEF Mapping, GivingUp, Routing, Purge, Tick
<1>2. IInv /\ [Next]_vars =>
        [\A r \in table, s \in table' : (s.id = r.id /\ r.readAt # Unread) => s = r]_vars
  BY <1>1 DEF vars
<1> QED
  BY <1>2, InboxInvariance, PTL DEF Spec, ReadIsFinal
=============================================================================
