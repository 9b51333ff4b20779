------------------------------- MODULE Inbox -------------------------------
(***************************************************************************)
(* The in-app inbox: the Redis consumer of every replica turns events into *)
(* rows of the notifications table, users page through their rows and mark *)
(* them read, task db:gc removes old ones.                                 *)
(*                                                                         *)
(* Redis pub/sub hands a message to every subscribed consumer that has     *)
(* room for it, at most once and without replay; the publisher may publish *)
(* an event again.  A consumer handles one message at a time, those of the *)
(* comms module included.  It maps an event to a row (new UUID, created_at *)
(* = time.Now()) and then inserts it: two steps, between which other       *)
(* consumers, readers and the purge may act.                               *)
(*                                                                         *)
(* Data abstraction.  A row keeps its id, user, source event, read mark    *)
(* and creation time.  Ids are numbers drawn in any order, as random UUIDs *)
(* are: only their order as a tie-breaker matters.                         *)
(***************************************************************************)
EXTENDS Integers, Sequences, FiniteSets

CONSTANTS
    Consumers,                  \* the consumer goroutine of each replica
    Users, NoUser,              \* NoUser and NoEventId are uuid.Nil
    EventIds, NoEventId,
    Ids,                        \* ids rows may get
    Messages,                   \* messages that may be published
    CommsEnabled,               \* a commsHandler is wired
    KYCSecret, NoSecret,        \* EVENT_HMAC_SECRET; NoSecret is empty
    QueueSize,                  \* buffer of go-redis' PubSub.Channel
    Limits,                     \* ?limit= values clients use
    MaxLimit, DefaultLimit,     \* 100 and 20
    Zone,                       \* offset of the process's time zone from UTC
    Unread, NoRow, NoCursor,
    Retention,                  \* the 90 days of task db:gc
    MaxStall,                   \* bound on the time from mapping to INSERT
    Faults,                     \* subset of {"db", "redis", "restart"}
    MaxPublished, MaxTime       \* exploration bounds

Row == [id : Ids, user : Users, event : EventIds, readAt : Nat \cup {Unread},
        createdAt : Nat]

Arrival == [user : Users, event : EventIds, at : Nat]

Key == [at : Int, id : Ids]

ASSUME InboxAssumption ==
    /\ Ids \subseteq Nat
    /\ NoUser \notin Users
    /\ NoEventId \notin EventIds
    /\ \A m \in Messages : /\ m.user \in Users \cup {NoUser}
                           /\ m.event \in EventIds \cup {NoEventId}
    /\ Unread \notin Nat
    /\ NoRow \notin Row
    /\ NoCursor \notin Key
    /\ QueueSize \in Nat \ {0}
    /\ Limits \subseteq Int
    /\ MaxLimit \in Nat \ {0}
    /\ DefaultLimit \in 1..MaxLimit
    /\ Zone \in Int
    /\ Retention \in Nat
    /\ MaxStall \in Nat
    /\ Faults \subseteq {"db", "redis", "restart"}

VARIABLES
    now,        \* the clock
    table,      \* notifications, a set of rows
    arrivals,   \* history: every row ever inserted, in order
    published,  \* how many messages were published
    queue,      \* messages buffered for each consumer
    pc,         \* each consumer: "idle", "insert" or "comms"
    pending,    \* the row it is about to insert
    asked,      \* history: users who called a mark-read endpoint
    walk        \* each user's walk through the pages of the list

consuming == <<queue, pc, pending>>

vars == <<now, table, arrivals, published, queue, pc, pending, asked, walk>>

NoWalk == [on |-> FALSE, limit |-> DefaultLimit, cursor |-> NoCursor,
           start |-> {}, pages |-> <<>>]

Init ==
    /\ now = 0
    /\ table = {}
    /\ arrivals = <<>>
    /\ published = 0
    /\ queue = [c \in Consumers |-> <<>>]
    /\ pc = [c \in Consumers |-> "idle"]
    /\ pending = [c \in Consumers |-> NoRow]
    /\ asked = {}
    /\ walk = [u \in Users |-> NoWalk]

-----------------------------------------------------------------------------
inboxChannels == {"kyc.tier_changed", "kyc.status_changed", "user.suspended",
                  "marketplace.bid_received", "marketplace.bid_accepted",
                  "workspace.milestone_reached", "workspace.contract_signed"}

commsSendRequestedChannel == "comms.send_requested"

(* What a consumer subscribes to. *)
channels ==
    inboxChannels \cup (IF CommsEnabled THEN {commsSendRequestedChannel} ELSE {})

(* The signature is modelled by the tuple of what it covers. *)
VerifyStatusChangedSignature(m) ==
    /\ KYCSecret # NoSecret
    /\ m.signature = <<KYCSecret, m.event, m.user>>

(* A mutant: the mappers do not look for the user. *)
MappableWithoutUser(m) == m.event # NoEventId

(* MapEventToNotification and MapKYCStatusChanged reject an event without  *)
(* a user or an id.                                                        *)
Mappable(m) == m.user # NoUser /\ m.event # NoEventId

(* handle: what becomes of a message. *)
Verdict(m) ==
    IF m.oversized THEN "oversized"
    ELSE IF m.channel = commsSendRequestedChannel THEN "comms"
    ELSE IF ~m.wellFormed THEN "malformed"
    ELSE IF m.channel = "kyc.status_changed" /\ ~VerifyStatusChangedSignature(m)
         THEN "signature"
    ELSE IF ~Mappable(m) THEN "unmapped"
    ELSE "notification"

(* The row a mapper builds; uuid.New never repeats an id. *)
Notification(m, id) ==
    [id |-> id, user |-> m.user, event |-> m.event, readAt |-> Unread,
     createdAt |-> now]

FreshIds ==
    Ids \ ({r.id : r \in table}
           \cup {pending[c].id : c \in {d \in Consumers : pending[d] # NoRow}})

-----------------------------------------------------------------------------
(* Redis fans a message out.  A consumer whose buffer is full loses it;    *)
(* with "redis" in Faults any consumer may (reconnecting, not subscribed). *)
Publish(m) ==
    /\ published < MaxPublished
    /\ published' = published + 1
    /\ LET room == {c \in Consumers : m.channel \in channels /\ Len(queue[c]) < QueueSize}
       IN  \E got \in SUBSET room :
              /\ "redis" \notin Faults => got = room
              /\ queue' = [c \in Consumers |-> IF c \in got THEN Append(queue[c], m)
                                                            ELSE queue[c]]
    /\ UNCHANGED <<now, table, arrivals, pc, pending, asked, walk>>

(* A mutant: a bad payload ends the loop. *)
ReceiveStopsOnError(c) ==
    /\ pc[c] = "idle"
    /\ queue[c] # <<>>
    /\ LET m == Head(queue[c])
       IN  /\ Verdict(m) \in {"comms", "notification"}
           /\ queue' = [queue EXCEPT ![c] = Tail(queue[c])]
           /\ IF Verdict(m) = "notification"
              THEN /\ pc' = [pc EXCEPT ![c] = "insert"]
                   /\ \E id \in FreshIds :
                         pending' = [pending EXCEPT ![c] = Notification(m, id)]
              ELSE /\ pc' = [pc EXCEPT ![c] = "comms"]
                   /\ UNCHANGED pending
    /\ UNCHANGED <<now, table, arrivals, published, asked, walk>>

(* Run takes the next message and handle routes it: to the comms handler,  *)
(* to an INSERT, or into the log.                                          *)
Receive(c) ==
    /\ pc[c] = "idle"
    /\ queue[c] # <<>>
    /\ LET m == Head(queue[c])
           v == Verdict(m)
       IN  /\ queue' = [queue EXCEPT ![c] = Tail(queue[c])]
           /\ \/ /\ v = "notification"
                 /\ pc' = [pc EXCEPT ![c] = "insert"]
                 /\ \E id \in FreshIds :
                       pending' = [pending EXCEPT ![c] = Notification(m, id)]
              \/ /\ v = "comms"
                 /\ pc' = [pc EXCEPT ![c] = "comms"]
                 /\ UNCHANGED pending
              \/ /\ v \notin {"notification", "comms"}
                 /\ UNCHANGED <<pc, pending>>
    /\ UNCHANGED <<now, table, arrivals, published, asked, walk>>

(* The comms handler returns; CommsSend shows that it does. *)
CommsReturns(c) ==
    /\ pc[c] = "comms"
    /\ pc' = [pc EXCEPT ![c] = "idle"]
    /\ UNCHANGED <<now, table, arrivals, published, queue, pending, asked, walk>>

(* A mutant: the unique index forgets source_event_id. *)
ConflictsByUser(n) == \E r \in table : r.user = n.user

(* The partial unique index on (user_id, source_event_id). *)
Conflicts(n) == \E r \in table : r.user = n.user /\ r.event = n.event

(* A mutant: ON CONFLICT DO UPDATE SET read_at = NULL. *)
InsertResetsRead(n) ==
    /\ table' = IF Conflicts(n)
                THEN {IF r.user = n.user /\ r.event = n.event
                      THEN [r EXCEPT !.readAt = Unread] ELSE r : r \in table}
                ELSE table \cup {n}
    /\ arrivals' = IF Conflicts(n) THEN arrivals
                   ELSE Append(arrivals, [user |-> n.user, event |-> n.event,
                                          at |-> n.createdAt])

(* INSERT ... ON CONFLICT DO NOTHING. *)
Insert(n) ==
    IF Conflicts(n)
    THEN UNCHANGED <<table, arrivals>>
    ELSE /\ table' = table \cup {n}
         /\ arrivals' = Append(arrivals, [user |-> n.user, event |-> n.event,
                                          at |-> n.createdAt])

(* The consumer is done with its message. *)
Done(c) ==
    /\ pc' = [pc EXCEPT ![c] = "idle"]
    /\ pending' = [pending EXCEPT ![c] = NoRow]

InsertReturns(c) ==
    /\ pc[c] = "insert"
    /\ Insert(pending[c])
    /\ Done(c)
    /\ UNCHANGED <<now, published, queue, asked, walk>>

(* The INSERT fails, applied or not: the event is logged and skipped. *)
InsertFails(c) ==
    /\ "db" \in Faults
    /\ pc[c] = "insert"
    /\ Insert(pending[c]) \/ UNCHANGED <<table, arrivals>>
    /\ Done(c)
    /\ UNCHANGED <<now, published, queue, asked, walk>>

(* The replica stops and starts again: buffered messages are lost. *)
Restart(c) ==
    /\ "restart" \in Faults
    /\ queue[c] # <<>> \/ pc[c] # "idle"
    /\ queue' = [queue EXCEPT ![c] = <<>>]
    /\ Done(c)
    /\ UNCHANGED <<now, table, arrivals, published, asked, walk>>

-----------------------------------------------------------------------------
(* The rows after every row of "unread" has got its read mark. *)
Mark(unread) ==
    table' = {IF r \in unread THEN [r EXCEPT !.readAt = now] ELSE r : r \in table}

(* A mutant: the UPDATE forgets user_id. *)
MarkReadAnyone(u, id) ==
    LET rows == {r \in table : r.id = id /\ r.readAt = Unread}
    IN  /\ rows # {}
        /\ Mark(rows)
        /\ asked' = asked \cup {u}
        /\ UNCHANGED <<now, arrivals, published, consuming, walk>>

(* POST /v1/me/notifications/:id/read; without such a row it answers 404   *)
(* and changes nothing.                                                    *)
MarkRead(u, id) ==
    LET rows == {r \in table : r.id = id /\ r.user = u /\ r.readAt = Unread}
    IN  /\ rows # {}
        /\ Mark(rows)
        /\ asked' = asked \cup {u}
        /\ UNCHANGED <<now, arrivals, published, consuming, walk>>

(* POST /v1/me/notifications/read-all. *)
MarkAllRead(u) ==
    /\ Mark({r \in table : r.user = u /\ r.readAt = Unread})
    /\ asked' = asked \cup {u}
    /\ UNCHANGED <<now, arrivals, published, consuming, walk>>

-----------------------------------------------------------------------------
(* GET /v1/me/notifications.  Handler and store clamp the limit alike. *)
PageLimit(raw) == IF raw <= 0 \/ raw > MaxLimit THEN DefaultLimit ELSE raw

KeyOf(r) == [at |-> r.createdAt, id |-> r.id]

(* A mutant: created_at alone is compared. *)
BelowByTime(a, b) == a.at < b.at

(* A mutant: (created_at, id) <= cursor. *)
BelowOrAt(a, b) == a.at < b.at \/ (a.at = b.at /\ a.id <= b.id)

(* (created_at, id) < ($2, $3), the order of the list. *)
Below(a, b) == a.at < b.at \/ (a.at = b.at /\ a.id < b.id)

(* ORDER BY created_at DESC, id DESC LIMIT n, as keys. *)
List(u, cursor, n) ==
    LET keys == {KeyOf(r) : r \in {s \in table : s.user = u}}
        rest == IF cursor = NoCursor THEN keys ELSE {k \in keys : Below(k, cursor)}
        newer(k) == {j \in rest : j.at > k.at \/ (j.at = k.at /\ j.id > k.id)}
    IN  {k \in rest : Cardinality(newer(k)) < n}

(* The cursor is the last row's time as the process writes it: pgx scans   *)
(* it into local time, Format prints the local digits with a literal "Z",  *)
(* and Postgres reads them back as UTC.                                    *)
buildCursor(k) == [at |-> k.at + Zone, id |-> k.id]

(* One page for user u.  A full page carries a cursor for the next one. *)
ServePage(u, w) ==
    LET page == List(u, w.cursor, w.limit)
        last == CHOOSE k \in page : \A j \in page \ {k} : k.at < j.at
                                       \/ (k.at = j.at /\ k.id < j.id)
        full == Cardinality(page) = w.limit
    IN  walk' = [walk EXCEPT ![u] =
                   [w EXCEPT !.on = full,
                             !.cursor = IF full THEN buildCursor(last) ELSE NoCursor,
                             !.pages = Append(w.pages, page)]]

ListFirst(u, raw) ==
    /\ ~walk[u].on
    /\ ServePage(u, [NoWalk EXCEPT !.limit = PageLimit(raw),
                                   !.start = {KeyOf(r) : r \in {s \in table : s.user = u}}])
    /\ UNCHANGED <<now, table, arrivals, published, consuming, asked>>

(* The client follows nextCursor, up to a bound on the pages of a walk. *)
ListNext(u) ==
    /\ walk[u].on
    /\ Len(walk[u].pages) <= Cardinality(Ids) + 1
    /\ ServePage(u, walk[u])
    /\ UNCHANGED <<now, table, arrivals, published, consuming, asked>>

(* A client may stop following the cursor. *)
Leave(u) ==
    /\ walk[u] # NoWalk
    /\ walk' = [walk EXCEPT ![u] = NoWalk]
    /\ UNCHANGED <<now, table, arrivals, published, consuming, asked>>

-----------------------------------------------------------------------------
(* A mutant: created_at <= cutoff. *)
ExpiredInclusive(r) == r.createdAt <= now - Retention

Expired(r) == r.createdAt < now - Retention

(* task db:gc *)
Purge ==
    /\ \E r \in table : Expired(r)
    /\ table' = {r \in table : ~Expired(r)}
    /\ UNCHANGED <<now, arrivals, published, consuming, asked, walk>>

Tick ==
    /\ now < MaxTime
    /\ \A c \in Consumers : pc[c] = "insert" => now - pending[c].createdAt < MaxStall
    /\ now' = now + 1
    /\ UNCHANGED <<table, arrivals, published, consuming, asked, walk>>

Next ==
    \/ \E m \in Messages : Publish(m)
    \/ \E c \in Consumers : Receive(c)
    \/ \E c \in Consumers : InsertReturns(c)
    \/ \E c \in Consumers : InsertFails(c)
    \/ \E c \in Consumers : CommsReturns(c)
    \/ \E c \in Consumers : Restart(c)
    \/ \E u \in Users, id \in Ids : MarkRead(u, id)
    \/ \E u \in Users : MarkAllRead(u)
    \/ \E u \in Users, raw \in Limits : ListFirst(u, raw)
    \/ \E u \in Users : ListNext(u)
    \/ \E u \in Users : Leave(u)
    \/ Purge
    \/ Tick

Spec == Init /\ [][Next]_vars

(* The consumer goroutine is scheduled, its INSERT ends, and so does the   *)
(* comms handler (CommsSend's SendReturns).                                *)
Fairness ==
    \A c \in Consumers : WF_vars(Receive(c)) /\ WF_vars(InsertReturns(c))
                         /\ WF_vars(CommsReturns(c))

FairSpec == Spec /\ Fairness

-----------------------------------------------------------------------------
(* The type invariant of the module's state. *)
TypeOK ==
    /\ now \in Nat
    /\ table \in SUBSET Row
    /\ arrivals \in Seq(Arrival)
    /\ published \in Nat
    /\ queue \in [Consumers -> Seq(Messages)]
    /\ pc \in [Consumers -> {"idle", "insert", "comms"}]
    /\ pending \in [Consumers -> Row \cup {NoRow}]
    /\ \A c \in Consumers : pc[c] = "insert" <=> pending[c] # NoRow
    /\ asked \in SUBSET Users

(* However often an event is published, to however many replicas, and      *)
(* whatever the purge removes in between, two notifications of one event   *)
(* for one user are the retention period apart, less the time an INSERT    *)
(* can take.                                                               *)
ArrivalsAreSpaced ==
    \A i, j \in DOMAIN arrivals :
        (i < j /\ arrivals[i].user = arrivals[j].user
               /\ arrivals[i].event = arrivals[j].event)
            => arrivals[j].at + MaxStall > arrivals[i].at + Retention

(* A read mark, once set, never changes while the row exists: not by a     *)
(* second mark, not by a replay of the event.                              *)
ReadIsFinal ==
    [][\A r \in table, s \in table' :
          (s.id = r.id /\ r.readAt # Unread) => s = r]_vars

(* MarkRead's ownership guard: nobody's notification is read by another    *)
(* user's requests, however the ids came to be known.                      *)
OnlyOwnerReads == \A r \in table : r.readAt # Unread => r.user \in asked

(* A walk along nextCursor that has come to its end has shown every row    *)
(* that was there when it began and still is, whatever arrived, was marked *)
(* or purged meanwhile.                                                    *)
WalkMissesNothing ==
    \A u \in Users :
        (walk[u].pages # <<>> /\ ~walk[u].on)
            => \A r \in table :
                  (r.user = u /\ KeyOf(r) \in walk[u].start)
                      => \E i \in DOMAIN walk[u].pages : KeyOf(r) \in walk[u].pages[i]

(* No row is shown twice on one walk, and pages go from newer to older. *)
WalkGoesDown ==
    \A u \in Users : \A i, j \in DOMAIN walk[u].pages :
        i < j => \A k \in walk[u].pages[i], l \in walk[u].pages[j] :
                    l.at < k.at \/ (l.at = k.at /\ l.id < k.id)

(* The consumer works off its buffer once publishing pauses: bad payloads  *)
(* never end the loop, comms sends and inserts hold it up only for a while. *)
QueueDrains == \A c \in Consumers : queue[c] # <<>> ~> queue[c] = <<>>

(* An event a consumer has mapped ends in a notification for its user. *)
NotificationAppears ==
    \A c \in Consumers, u \in Users, e \in EventIds :
        (pc[c] = "insert" /\ pending[c].user = u /\ pending[c].event = e)
            ~> \E i \in DOMAIN arrivals : arrivals[i].user = u /\ arrivals[i].event = e

-----------------------------------------------------------------------------
(***************************************************************************)
(* What a comment of the repository says and the code does not do.         *)
(***************************************************************************)

(* notification_store.go:49: "Cursor pagination uses (created_at, id) to   *)
(* guarantee stable ordering": with the process in any time zone.          *)
OrderingIsStable == WalkGoesDown
=============================================================================
