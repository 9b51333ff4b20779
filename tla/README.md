# Verification of the notification service

TLA+ models of the CoverOnes notification service (`src/`), checked with TLC on
small instances and, but for liveness, proved with TLAPS for all instances.

The service is a Go process, run in one or more replicas over one Postgres
database and one Redis. It keeps the in-app inbox of every user, fed by platform
events from Redis pub/sub, and, when the comms module is enabled, sends e-mail and
SMS for other services. `PROJECT.json` is the index of the project: components,
runs, the source lines behind every definition, hazards, findings and theorems.

## 1. Inventory

| Component | State | Operations | Interacts with |
|---|---|---|---|
| comms send path (`comms/service.go`, `comms/sendlog`) | `comms_send_log`, UNIQUE on `idempotency_key` | `Send` = validate, `Reserve`, template, render, dispatch, `MarkResult` | HTTP handlers and the consumer call it; Postgres; senders |
| comms events (`comms/event.go`, `eventhandler.go`) | none | signature, freshness window, derived key, then `Send` | called by the consumer goroutine |
| templates (`comms/template`) | `comms_templates` | `Get` with locale fallback, `Render`, `Upsert`, `Seed` | `Send`; start-up |
| senders (`comms/email`, `comms/sms`) | an SMTP conversation | `Send` with timeout; dev senders; unintegrated providers | external mail server |
| receipts and retention (`sendlog/receipts.go`) | `comms_delivery_receipts` | `InsertReceipt`, `PurgeExpired` | task `db:gc` |
| event consumer (`events/consumer.go`) | go-redis' message buffer | loop, routing, drop or insert | Redis; inbox store; comms |
| event mapping (`domain/mapper.go`, `event.go`) | none | verify, map to a row | consumer |
| inbox (`store/postgres/notification_store.go`, `handler/notification_handler.go`) | `notifications`, unique on `(user_id, source_event_id)` | `Insert`, `List`, `UnreadCount`, `MarkRead`, `MarkAllRead` | consumer writes, users read and mark, `db:gc` deletes |
| gateway signature (`platform/middleware/gateway_signature.go`) | nonce keys in Redis | window, body, HMAC, SETNX | in front of the inbox routes |
| rate limiting (`platform/middleware/ratelimit.go`) | Redis counters, in-process buckets with LRU eviction | count or take a token | in front of all routes but the probes |
| identity, S2S identity, router (`identity.go`, `serviceidentity.go`, `handler/router.go`) | none | parse headers, match a token; the order of the middleware | in front of the routes |
| waitlist (`domain/waitlist.go`, `waitlist_store.go`) | `waitlist`, unique on `lower(email)` | validate, one idempotent `INSERT` | public route |
| provider settings | one row per provider | `Get`, `Upsert` | not called yet |
| configuration (`config/config.go`) | none | load, validate | decides which middleware protects what |
| start-up, shutdown, health (`cmd/server/main.go`) | process state, the pool | connect, seed, serve, drain, close | everything |
| HTTP plumbing, logging, redaction | none | formatting | everything |

What is hard here:

* **Interleaving.** Pub/sub delivers each event to every replica, callers retry,
  handlers run in parallel: one idempotency key is regularly in several `Send`s at
  once, one event in several consumers. Nothing is locked; only unique indexes
  and the order of the statements keep the effects single.
* **Partial failure.** `Send` is four database statements and one provider call,
  outside any transaction. Each can fail, can fail after taking effect, and can be
  cut off by a client that disconnects, a shutdown or a crash. The rate limiter's
  two Redis commands are a pipeline, not a transaction.
* **Retention.** Idempotency rests on rows that a purge deletes. What was
  remembered yesterday is unknown after 30 (send log) or 90 (inbox) days, and a
  slow worker may come back to a key that is somebody else's by then.
* **Clocks.** The event freshness window, the gateway's time window and the nonce's
  life are measured from different moments.
* **Configuration.** Several checks are off when a secret or a client is missing;
  that this does not happen in production rests on a validation far away from them,
  and on a ping at start-up.
* **Bounded caches and counters.** Limits are kept in an LRU of token buckets and in
  Redis keys whose expiry is set by a second command.
* **Moving lists.** Clients page through a list that grows, shrinks and contains
  equal timestamps; `created_at` is older than the row's appearance.

The hazards, each at its line and with the properties that cover it, are listed
in `PROJECT.json`.

## 2. Modules

```
SendOnce  ~~ implemented by ~~>  CommsSend
CommsContract <- CommsSend <- CommsSendProof <- CommsSendRefinement
                           <- MCCommsSend    CommsSend_*.cfg
Inbox         <- InboxProof <- InboxWalkProof
              <- MCInbox                     Inbox_*.cfg
GatewayNonce  <- GatewayNonceProof
              <- MCGatewayNonce              GatewayNonce_*.cfg
RateLimiter   <- RateLimiterProof
              <- MCRateLimiter               RateLimiter_*.cfg
Config <- Access <- Server <- ServerProof
Waitlist <---------'       <- MCServer       Server*.cfg
```

Operators whose comment begins "A mutant:" are wrong variants of the
definition that follows them. No specification uses them; they serve to show that
a property notices the mistake.

### CommsContract: the pure part of the comms module

Validation, signature, freshness window, derived key, template look-up, rendering
outcome, choice of sender, API error codes. A request keeps what branches depend
on: channel, template id, locale, set of variable names, key, and one Boolean for
the length limits. The HMAC is the tuple of its inputs (equal signatures have
equal inputs). The JSON text of an event's data is its value plus a "spelling",
what parsing loses; `json.Marshal` always writes the same spelling, which is how
`VerifySendRequested` differs from a check of the bytes received.

### CommsSend: Service.Send by many goroutines over one table

| TLA+ | Code |
|---|---|
| `sendLog` | `comms_send_log`, by its unique key |
| `pc`, `job`, `rowId`, `err`, `ctx`, `res` | a goroutine inside `Send`: position, request, claimed row, error so far, context, result |
| `ledger`, `outbox`, `accepted`, `faulted` | history only: claims ever made, sender calls, messages taken, rows whose outcome a fault kept out |
| `HTTPSend`, `Deliver` | `CommsHandler.Send`, `EventHandler.Handle` up to `Reserve` |
| `ReserveClaims`, `ReserveConflicts`, `ReserveFails` | the `INSERT ... ON CONFLICT DO NOTHING` of `Reserve` |
| `LoadExisting`, `LoadExistingFails` | the `SELECT` after a conflict |
| `Compose`, `ComposeFails` | `templates.Get`, `Render` |
| `DispatchUnavailable`, `DispatchDev`, `DispatchSMTP`, `ProviderAccepts`, `ProviderFails` | `dispatch` and the senders |
| `MarkResult`, `MarkResultFails` | the `UPDATE` of `MarkResult`, also via `markFailed` |
| `Reply` | the HTTP answer, the log line |
| `Cancel`, `Crash`, `Purge`, `Tick` | client disconnect or shutdown; process death; retention; time |

One database statement is one step. `Send` records the result on the caller's
context: `Cancel` makes every later statement of that worker fail. `ProviderFails`
leaves open whether the server took the message. A failing statement may have been
applied. Validation, rendering and dev senders touch no shared state and are part of
the step they belong to.

### SendOnce: what the comms module promises

The abstract specification: a key is held by at most one claim, a claim is called
once at most, taken only if called, gets at most one outcome (SENT only if taken),
and loses its key only after the retention period. There are no goroutines,
statements or faults in it. `CommsSend` maps its ledger to `claims`, the row of a
key to `holder`, a status other than PENDING to `outcome` (`ClaimsMade`, `Holder`,
`Recorded`), and `KeepsPromise` is SendOnce's specification under that mapping.

### Inbox: consumer, table, reader, purge

`queue` is go-redis' buffer per replica, `pc`/`pending` the consumer goroutine
between mapping an event and its `INSERT`, `table` the notifications, `arrivals`
the history of rows inserted, `walk` a user's way along `nextCursor`. `Publish`
drops at the buffer's limit; `Receive` is `Run` plus `handle` up to the `INSERT`,
with the reasons to drop a message in the order of the code; `InsertReturns`/`InsertFails`,
`Restart`, `MarkRead`, `MarkAllRead`, `ListFirst`/`ListNext`, `Purge` follow
their SQL. Row ids are numbers drawn in any order, as UUIDs are, because the list
breaks ties by id. `buildCursor` is modelled by what it does to a time: local
digits labelled as UTC, that is, a shift by the process's zone.
A 404 of `MarkRead` and `UnreadCount` change nothing and have no action.

### GatewayNonce: the middleware before the inbox routes

A worker passes the window check (`Arrive`), reads and verifies the body
(`ReadBody`) and stores the nonce (`LetThrough`, `RejectReplay`,
`StoreNonceFails`). Between these, time passes and other copies of the request are
served: a body is read within `ReadTimeout` or not at all (`InTime`), and Redis runs
SETNX at most `MaxSetNX` after that. A nonce expires `MaxSkew + Buffer` after it was
stored. A gateway that is ahead by at most `Lead` signs one request per id. `count`
and `passed` are the history of what was let through.
The module is about replicas with a Redis client; without one the code skips the
nonce by design.

### RateLimiter: the counter in Redis, the buckets in the process

`Arrive`, `Incr`, `ExpireNX`, `Decide` are the pipeline of `RateLimiter.Handler`,
one command per step; `PipelineFails` breaks it at any point and asks the fallback
of the replica. `allow` is an in-process bucket under its mutex, in an LRU
sequence (`Found`, `Stored`); `UserRequest` is the per-user limiter, which has only
buckets. Time is relative: counters carry the time they have left and the history
`recent` the age of the last answers, so no clock ends the behaviours and liveness
can be checked. Tokens are counted in parts of 1/`Minute`, which makes the refill
exact without fractions.

### Config, Access, Waitlist, Server: the process as a whole

`Config` is `validate` with every rule, as operators from an environment to the set of
errors, and what the sender factories check again. `Access` is the router: the
sequence of middleware of each route (`Chain`), what each asks of a request
(`Admits`), and which limiters count it (`CountedBy`). `Waitlist` is the validation
of a submission and its `INSERT`. `Server` composes them with the life of a
process:

| TLA+ | Code |
|---|---|
| `Load`, `NewPool`, `ConnectRedis`, `Seed`, `NewSenders`, `Listen` | `run` in its order; every error but a failed Redis ping ends the process |
| `Request` | middleware of the route up to the handler; a request with an id may be new to Redis or not |
| `StartQuery`, `QueryReturns`, `QueryFails`, `Respond` | a handler and its one statement on a connection of the pool; readiness is the ping |
| `ConsumerQuery`, `ConsumerReturns`, `ConsumerStops` | the consumer as a user of the pool; after `consumerCancel` it starts no statement |
| `Sigterm`, `ShutdownReturns`, `ShutdownTimesOut`, `PoolCloses` | `consumerCancel` and `srv.Shutdown` with its 30s; the deferred `pool.Close` |
| `Crash` | process death, or a signal before the handler is installed |

After an exit the replica may be started with any environment; templates and waitlist
stay. `welcomed` is history. Which ids Redis remembers, and for how long, is the
subject of `GatewayNonce`.

## 3. What TLC checks

| Run | Question | Properties | Distinct states |
|---|---|---|---|
| `send_faults` | caller and event, delivered early, late and again, compete for one key under all faults and purges | `TypeOK`, `OneCallPerRow`, `EventSentOnce`, `CallsOfAKeyAreSpaced`, `SentMeansAccepted`, `PendingIsAccountedFor`, `SentReplyIsTrue`, `KeepsPromise`, `TerminalIsFinal` | 339 thousand |
| `send_outcomes` | every kind of request and event, every way to end: are answers true, does every `Send` end and record its outcome? | `SentReplyIsTrue`, `PendingIsAccountedFor`, `SendReturns`, `AttemptConcludes` | 194 thousand |
| `inbox_replay` | two replicas, two users with one event id, errors, restarts, purge, marks | `TypeOK`, `ArrivalsAreSpaced`, `OnlyOwnerReads`, `ReadIsFinal` | 0.9 million |
| `inbox_walk` | paging through a list that changes; does the loop that fills it survive every payload and work off its buffer? | `WalkMissesNothing`, `WalkGoesDown`, `QueueDrains`, `NotificationAppears` | 0.5 million |
| `gateway_once` | copies, altered copies, slow bodies, Redis errors, clocks apart | `TypeOK`, `ReplayHasOriginal`, `ReplayExceedsBuffer` | 742 thousand |
| `limiter_window` | two replicas count one key in Redis, pipelines break anywhere | `AtMostTwoWindows`, `BurstUnlessRotated`, `NeverLockedOut` | 392 thousand |
| `limiter_buckets` | three users share an LRU of two buckets | `TypeOK`, `BurstUnlessRotated`, `RetryAfterIsEnough` | 239 thousand |
| `server` | starts with good and bad environments, failures at every step, requests of every kind, drain, crash, restart | `TypeOK`, `InboxOnlyForSigned`, `CallersAreTheListed`, `BudgetsOfTheVerified`, `SeededBeforeServing`, `OneRowPerSignup`, `StopsOnSigterm` | 36 thousand |

Four further runs each refute one sentence of the repository (section 5).

What the newer runs show in words. Of the limiter: a fixed window lets up to twice
the limit pass in a minute and never more, also when `INCR` and `EXPIRE NX` of
several replicas interleave or are cut apart; a counter left without expiry is
repaired by the next request, because `EXPIRE NX` is sent every time, and so
nobody is locked out for good; an evicted bucket costs at most one extra burst per
`CacheCap` other clients. Of the nonce: no interleaving of copies, altered copies and
Redis errors lets a replay through, only time does, when a slow body, Redis and a gateway
clock ahead make up for more than the 5s buffer. Of the process: no environment that `Load` accepts outside
development lets an unsigned request reach the inbox; a replica never takes send
requests before the default templates are there; and the process ends after a signal
even if a handler never returns, as long as running statements do.

**Bounds.** One key, or one event and one caller who uses its derived key: workers
meet only through a row, and rows of different keys never touch. Two workers: claims
are taken by one worker at a time, so the second competes, and claims anew after a
purge while the first still holds the old row. The clock runs to one or two
retention periods past the first claim, so that rows expire, are purged and are
claimed again. Event windows and stalls are 0 or 1 so that "too early", "in time"
and "too late" all occur. In `send_faults` the retention (1) is exactly skew + age +
stall, the smallest for which `EventSentOnce` holds. `send_outcomes` has every kind
of request and event but only canceled contexts as faults, since the other faults
are in `send_faults`. Its clock ends before a row can expire: with the purge TLC does
not end within minutes, so `SentReplyIsTrue`, to which a purge between `INSERT` and
`SELECT` matters, is checked in `send_faults` too. There one consumer competes with one caller, and
with a third worker beside them TLC does not end within minutes: that two consumers get
one event at the same moment rests on the theorems `AtMostOneCall` and `EventOnce`, and a third
worker that claims the key between another's `INSERT` and `SELECT` on `AnswerIsTrue`.
In the inbox, three ids and three
messages give a re-publication after a purge and, for paging, a full page and a
partial one with equal timestamps; a buffer of one message fills at once. In
the runs of `GatewayNonce` the unit of time is 5s and the values are the code's: skew 6,
buffer 1, read timeout 2; `Lead` is 6 in `gateway_once`, as much as the window admits, and
Redis may take 1. The clock runs to 15, past the end of the window (12) of a request
stamped 6, the slowest body and the slowest SETNX. Symmetry is used only for
interchangeable workers and only for safety. In `limiter_window` the limit, the burst
and the cache are 1: one more request is one too many. The three remembered answers
are one more than `AtMostTwoWindows` allows, and `Horizon` is the length of the
window. `limiter_buckets` remembers five, so that a bucket can be drained, evicted
and drained again. In `server` one replica with two handlers is enough for the
races of handlers, consumer and shutdown; what a second replica would have left
behind is there because the replica may exit at any step and start with another
environment over the same database and Redis. With two replicas TLC does not end
within minutes.

**Deadlock** is checked in every run but those of `GatewayNonce`, whose requests
can no longer arrive once the bounded clock has left their window.

**Refinement.** `KeepsPromise` is checked as a property of `send_faults`, where every
fault is enabled, and proved (section 4).

**Fairness.** `CommsSend`: weak fairness of each goroutine's own steps (the Go
scheduler runs it; pgx calls return, with a result or an error) and of
`ProviderFails`: the send timeout ends a conversation with a silent server.
Nothing is assumed of the server, of publishers, callers, purges or faults.
`Inbox`: weak fairness of receiving, of the `INSERT`'s return and of the comms
handler's return; the last is what `SendReturns` shows. `NotificationAppears` and
`QueueDrains` are checked without database faults and restarts, which lose events
by design. `RateLimiter`: time passes, the pipeline is answered or fails, the
handlers behind the limiter return; nothing is assumed of clients, and
`NeverLockedOut` speaks only of those who keep asking. `Server`: a statement
returns with a result or an error, `srv.Shutdown` returns at the latest at its
deadline, `pool.Close` once the connections are back; nothing is assumed of
handlers outside a statement, nor of clients, operators and faults.

## 4. What is proved

TLAPS checks every step of `CommsSendProof`, `CommsSendRefinement`, `InboxProof`,
`InboxWalkProof`, `GatewayNonceProof`, `RateLimiterProof` and `ServerProof`; the theorems hold for every
value of the constants that meets the modules' named `ASSUME`s.

**CommsSend.** `TypeCorrect`, `AtMostOneCall` (`OneCallPerRow`), `KeyIdempotent`
(`CallsOfAKeyAreSpaced`), `SentIsTrue` (`SentMeansAccepted`), `AnswerIsTrue`
(`SentReplyIsTrue`), `PendingAccounted` and `OutcomeFinal` (`TerminalIsFinal`) need
no further assumption. `EventOnce` (`EventSentOnce`) assumes
`WindowWithinRetention`: skew + age + stall <= retention. The code's values are
minutes against 30 days; the assumption says by how much they may move.

None of these properties is inductive. The invariant `IInv` adds:

* `Ownership`: a worker past `Reserve` answers for one row of its own key, alone.
  It is what makes the late `UPDATE ... WHERE id` harmless.
* `OwnedRow`: that row is PENDING, not handed over before dispatch, and taken if
  dispatch reported no error.
* `RowsMatchLedger` and `LedgerSpaced`: each row has its claim, and a claim whose
  row is gone is older than the retention period; hence claims of a key are spaced.
* `PendingHeld`: a PENDING row has an owner or a recorded fault.
* `OutboxOnce`: calls are for claimed rows, once each.
* `EventClaims`: an event's claim lies within its window, under the key it
  determines; two claims of one event would have to be both close and spaced.

The proof that `Next` preserves `IInv` is split by conjunct, and each conjunct by
what a step can do to the state: insert a row, update one, purge, hand over, lose
a worker, or leave that part alone.

**CommsSend implements SendOnce.** `ImplementsSendOnce` is `Spec => KeepsPromise`,
without further assumption. Each kind of step has its lemma: an insertion is a
`Claim`, calling a sender a `Call`, the end of a conversation a `Take` or nothing,
`MarkResult` a `Record` or, on a purged row, nothing, the purge a `Forget`, all else
a stutter. `IInv` gives most of what they need; `HandedOver` adds that a worker in a
conversation has its row in the outbox.

**Inbox.** `InboxTypes`, `NotifiedOnce` (`ArrivalsAreSpaced`), `OwnersRead`
(`OnlyOwnerReads`), `ReadMarksStay` (`ReadIsFinal`), from `InboxAssumption` alone. The
invariant adds `PendingFresh` (a row about to be inserted is unread and at most
`MaxStall` old), `UniqueIds` (over rows and pending rows: what makes a replay
unable to touch a marked row) and `ArrivalsHeld` (an arrival whose row is gone is
older than the retention period). A new arrival meets no row of its event, so all
earlier ones have expired, and its own time is at most a stall ago.

**The walk through the inbox.** `PagesGoDown` (`WalkGoesDown`) and `NothingMissed`
(`WalkMissesNothing`) assume `RunsInUTC`, without which they are false (`inbox_zone`).
A page is a set cut off by a cardinality, so the proof needs what `ORDER BY ... LIMIT n`
returns: all rows, or n that lie above the rest (`TopFacts`). It follows from the
least and the greatest key of a finite set (`LeastKey`, `GreatestKey`), which strict
inclusion, being well-founded on finite sets, provides without an induction. Between
two pages all shown rows are at or above the cursor, and a row the walk began with is
shown or below it (`WalksSound`). That a row inserted meanwhile is not taken for one the
walk began with needs `StartHeld` and `PendingNew`: a row that was there when the walk
began is still there or expired, so an id that is given again comes with a later time.

**GatewayNonce.** `GatewayTypes`, `RejectionJustified` (`ReplayHasOriginal`) and
`ReplayNeedsTime` (`ReplayExceedsBuffer`), from `GatewayAssumption` alone: for any skew,
buffer, lead and timeouts. The invariant says that a worker's request was in the window
when it arrived (`InWindow`), that the nonce of an id lives its full time after the last
passage (`NonceHeld`), and that stored nonces have an original or an error (`Stored`). A
worker that finds no nonce for an id that was let through comes after its expiry,
`passed + skew + buffer`, and was in the window, at most at `ts + skew`, when it arrived:
what lies between is its stall, and `ts - passed` is the lead (`NonceGone`). That a
signed request is let through only once does not follow and is false of the code's values
(`gateway_stall`, `gateway_ahead`).

**RateLimiter.** `TypeCorrect`, `WindowsBounded` (`AtMostTwoWindows`), `BurstBounded`
(`BurstUnlessRotated`) and `RetryAfterHonest` (`RetryAfterIsEnough`), for any number of
replicas, goroutines, keys and users and any positive limits, bursts and capacities
(`RateLimiterAssumption`). The properties are about the answers remembered; what the
next answer will be depends on counters and buckets. The invariant `IInv` relates the two:

* `LruOrder`: the bucket of a key that was used is still held, and behind it lie only
  keys used since, unless `CacheCap` others were. Storing a bucket evicts the first
  one, so a key within that distance is never the one evicted: were it first in a full
  cache, `CacheCap - 1` others used since would lie behind it, and the newcomer is one
  more.
* `BucketBudget`: since any remembered answer, what was let through on a bucket plus
  what is left in it is at most a full bucket plus the refill. A grant moves a token
  from the one to the other, time adds the refill, and a bucket created anew is one
  that nothing was taken from since, by `LruOrder`.
* `RefusedRefills`: a bucket that refused its last request has filled up or holds all
  of the refill since; `retryAfter` is the time in which that makes a token.
* `TwoWindows`: for each key the answers of Redis split into those before and those of
  the counter that runs. The latter are at most the counter, hence at most the limit.
  The former are within the limit too as far as they are younger than a minute: once
  the counter has an expiry they are at least as old as its window, so when it expires
  none of them is young, and its own answers can take their place. The split is an
  existential witness, moved when the counter expires and when answers are forgotten.

The counting rests on lemmas about what a step does to the history: it drops the first
`m` answers, ages the others by 0 or 1 and adds at most one (`Moved`). Each property
is then preserved for one of two reasons, according to whether the step uses the cache
or counter in question (`CacheKinds`, `CounterKinds`).

**Server.** `TypeCorrect`, `InboxGuarded` (`InboxOnlyForSigned`), `CallersRecognised`
(`CallersAreTheListed`), `BudgetsProtected` (`BudgetsOfTheVerified`), `SeededFirst`
(`SeededBeforeServing`) and `SignupUnique` (`OneRowPerSignup`), for any number of replicas and handlers and any set of
environments and requests. The invariant adds that a process past `Load` has a
valid configuration (`ConfigLoaded`), that a running handler's request passed the
middleware of its route and its own validation (`HandlersAdmitted`), and how far seeding
is in each phase (`SeedProgress`). From there the properties are about
operators: what `validate` demands of secrets and tokens (`ValidSecret`,
`ValidTokens`), what the middleware of a route lets pass (`AdmittedInbox`,
`IdentityIsListed`), and what stands in front of a limiter in its chain
(`UserCounted`, `ServiceCounted`). `ServerAssumption` says what environments and
requests can be: secrets and tokens are texts with a length, equal texts have equal
lengths, and a header arrives without blanks around it, as `net/http` strips them;
`CallersRecognised` needs the last two.

**Only model-checked.** Liveness: `SendReturns`, `AttemptConcludes`, `QueueDrains`,
`NotificationAppears`, `NeverLockedOut` and `StopsOnSigterm`. The prover has neither
fairness nor `ENABLED`. Every invariant and action property of the passing runs is a
theorem.

## 5. Where code and text disagree

Each is a run that TLC ends with a counterexample; `PROJECT.json` quotes the lines.

| Run | Text | Code |
|---|---|---|
| `send_lostfailure` | any failure after reservation is recorded as FAILED | a client that disconnects during the SMTP conversation ends the send and, with the same context, its record: the row stays PENDING |
| `inbox_zone` | cursor pagination guarantees a stable order | only in a process that runs in UTC, which the shipped image does |
| `gateway_ahead` | the nonce outlives the window | not for a gateway clock more than the buffer ahead |
| `gateway_stall` | a second request with the id of one let through is rejected within the window | the window is checked on arrival, the nonce after the body, for which the server waits 10s: a copy that arrives at the window's end and is slow by more than the 5s buffer passes again. With a read timeout within the buffer (`ReadTimeout = 1`) the run ends without error |

More sentences do not fit the code; the model follows the code and no run is
spent on them. `gateway_signature.go:60` gives "dev/test" as the case of a nil client, in
which the nonce check is skipped; a failed ping at start-up, or no URL, leaves a production
replica without it for its lifetime (`Serve`, `ChecksNonce`). `comms/channel.go:56` calls FAILED "retryable", but a retry under the
key is answered from the failed row (`LoadExisting`). `comms/service.go:21` says
that push, in-app and LINE requests "return a validation error"; they reserve a row,
are rendered and end as PROVIDER_UNAVAILABLE (`DispatchUnavailable`).
`events/consumer.go:50` says that an empty secret disables verification; every
kyc.status_changed event is then dropped (`VerifyStatusChangedSignature`).
`comms/event.go:25-31` says that the signature covers the raw data; it is computed
over data that was parsed and marshalled again (`event.go:98`), so that an event signed
over another spelling is dropped (`VerifySendRequested`).
The repository's README says that readiness checks Postgres and
Redis; the handler pings Postgres only. `validate` accepts an SMTP host of blanks and
a port of 0, which the sender factory then refuses (`SendersBuild`): the process
still does not start.

## 6. What is not modelled

* Provider settings and delivery receipts: stores and normalisation without a
  caller. The receipts endpoint answers 501, so the table the second half of
  `PurgeExpired` cleans is always empty.
* Redaction, logging, response envelopes, template text and the version column of
  templates: text, or state that nothing reads.
* The healthcheck subcommand, a one-shot HTTP client, and the SMS spy of the tests.
* How a variable of the environment is read, split and converted: `Config` starts
  from the structured result.
* `UnreadCount` and other reads that change nothing and that no property is about.

Postgres and Redis are modelled by the statements the code sends them: single
statements are atomic, a unique index is exact, pub/sub is at most once.
`Server` leaves the effect of inbox and comms handlers on their tables to `Inbox`
and `CommsSend`, and the expiry of nonces and counters to `GatewayNonce` and
`RateLimiter`.

Clocks of replicas, Postgres and the purge are one clock; differences between
them add to `MaxStall` and `Lead`.

## 7. Plan

1. Lemmas about `CommsContract`: that the derived key tells events apart, that a
   signature is checked over all fields a send depends on, and which template the
   locale fallback finds.
2. An abstract specification of the limiter, a budget per key, which `RateLimiter`
   implements as long as no bucket is evicted.
