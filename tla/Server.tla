------------------------------- MODULE Server -------------------------------
(***************************************************************************)
(* The server process: start-up, the HTTP handlers and the consumer over   *)
(* one Postgres pool, shutdown, and a restart with any environment.        *)
(*                                                                         *)
(* A replica is "off" or at one of these points (phase):                   *)
(*   postgres   the configuration is valid; before NewPool                 *)
(*   redis      before the Redis client is made and pinged                 *)
(*   seed       before or between the upserts of the default templates     *)
(*   senders    before the sender factories                                *)
(*   start      before the consumer starts and the server listens          *)
(*   serving    waiting for a signal                                       *)
(*   draining   consumer canceled, in srv.Shutdown                         *)
(*   closed     Shutdown returned nil; in pool.Close                       *)
(*   abandoned  Shutdown timed out; in pool.Close                          *)
(* A handler goroutine is "idle", in its "handler", or in a "query", when  *)
(* it holds a connection of the pool; the consumer is "off", in its "loop" *)
(* or in a "query".  pool.Close refuses new queries and waits for the      *)
(* running ones.  Redis errors while serving, nonces and counters are left *)
(* to GatewayNonce and RateLimiter, what the handlers do to CommsSend and  *)
(* Inbox.                                                                  *)
(***************************************************************************)
EXTENDS Access, Waitlist, FiniteSets

CONSTANTS
    Replicas,
    Workers, Home,      \* handler goroutines; Home[w] is the replica of w
    Environments,       \* what the process may be started with
    Requests,           \* what may arrive, any number of times
    NoRequestId,        \* the header is missing
    DefaultTemplates,   \* the sequence Seed goes through
    NoConfig, NoRequest,
    Faults              \* subset of {"db", "redis", "listen", "crash"}

(* The length of a text is a function of it, and net/http strips blanks    *)
(* around a header's value.                                                *)
ASSUME ServerAssumption ==
    /\ Home \in [Workers -> Replicas]
    /\ \A e \in Environments : e.gatewaySecret \in Value /\ e.tokens \in Seq(TokenEntry)
    /\ \A q \in Requests : /\ q.route \in Routes
                            /\ q.token \in Value /\ ~q.token.padded
                            /\ q.entry \in Submission
    /\ \A e \in Environments, q \in Requests : \A i \in DOMAIN e.tokens :
          e.tokens[i].token.text = q.token.text => e.tokens[i].token.len = q.token.len
    /\ DefaultTemplates \in Seq(STRING) /\ DefaultTemplates # << >>
    /\ NoConfig \notin Environments
    /\ NoRequest \notin Requests
    /\ Faults \subseteq {"db", "redis", "listen", "crash"}

VARIABLES
    phase,      \* of each replica, see above
    cfg,        \* the environment it runs with
    redis,      \* whether it has a Redis client
    seeded,     \* how many default templates it has upserted
    consumer,   \* its consumer goroutine
    pc, job,    \* where each handler goroutine is, with which request
    templates,  \* Postgres: the default templates that are there
    waitlist,   \* Postgres: the waitlist's rows
    welcomed    \* history: the addresses (lower case) answered 202

vars == <<phase, cfg, redis, seeded, consumer, pc, job,
          templates, waitlist, welcomed>>

process == <<phase, cfg, redis, seeded, consumer>>
handlers == <<pc, job>>
stores == <<templates, waitlist>>

Init ==
    /\ phase = [r \in Replicas |-> "off"]
    /\ cfg = [r \in Replicas |-> NoConfig]
    /\ redis = [r \in Replicas |-> FALSE]
    /\ seeded = [r \in Replicas |-> 0]
    /\ consumer = [r \in Replicas |-> "off"]
    /\ pc = [w \in Workers |-> "idle"]
    /\ job = [w \in Workers |-> NoRequest]
    /\ templates = {}
    /\ waitlist = {}
    /\ welcomed = {}

(* The process ends, and its goroutines with it. *)
Exit(r) ==
    /\ phase' = [phase EXCEPT ![r] = "off"]
    /\ cfg' = [cfg EXCEPT ![r] = NoConfig]
    /\ redis' = [redis EXCEPT ![r] = FALSE]
    /\ seeded' = [seeded EXCEPT ![r] = 0]
    /\ consumer' = [consumer EXCEPT ![r] = "off"]
    /\ pc' = [w \in Workers |-> IF Home[w] = r THEN "idle" ELSE pc[w]]
    /\ job' = [w \in Workers |-> IF Home[w] = r THEN NoRequest ELSE job[w]]

GoTo(r, p) == phase' = [phase EXCEPT ![r] = p]

-----------------------------------------------------------------------------
(* config.Load succeeds; with errors the process ends as it began. *)
Load(r, e) ==
    /\ phase[r] = "off"
    /\ validate(e) = {}
    /\ GoTo(r, "postgres")
    /\ cfg' = [cfg EXCEPT ![r] = e]
    /\ UNCHANGED <<redis, seeded, consumer, handlers, stores, welcomed>>

(* NewPool: connect, create the schema, ping.  Any error is fatal. *)
NewPool(r) ==
    /\ phase[r] = "postgres"
    /\ \/ GoTo(r, "redis") /\ UNCHANGED <<cfg, redis, seeded, consumer, handlers>>
       \/ "db" \in Faults /\ Exit(r)
    /\ UNCHANGED <<stores, welcomed>>

(* A failed ping leaves the process without Redis for good; a malformed    *)
(* URL is fatal.                                                           *)
ConnectRedis(r) ==
    /\ phase[r] = "redis"
    /\ \/ /\ cfg[r].redisURL # "malformed"
          /\ \/ cfg[r].redisURL = "valid" /\ redis' = [redis EXCEPT ![r] = TRUE]
             \/ (cfg[r].redisURL = "" \/ "redis" \in Faults) /\ UNCHANGED redis
          /\ GoTo(r, IF cfg[r].commsEnabled THEN "seed" ELSE "start")
          /\ UNCHANGED <<cfg, seeded, consumer, handlers>>
       \/ cfg[r].redisURL = "malformed" /\ Exit(r)
    /\ UNCHANGED <<stores, welcomed>>

(* A mutant: an error of Seed is skipped. *)
SeedSkipsErrors(r) ==
    /\ phase[r] = "seed"
    /\ seeded' = [seeded EXCEPT ![r] = @ + 1]
    /\ \/ templates' = templates \cup {DefaultTemplates[seeded[r] + 1]}
       \/ "db" \in Faults /\ UNCHANGED templates
    /\ GoTo(r, IF seeded[r] + 1 = Len(DefaultTemplates) THEN "senders" ELSE "seed")
    /\ UNCHANGED <<cfg, redis, consumer, handlers, waitlist, welcomed>>

(* Seed upserts one default template after another; the first error, with  *)
(* the upsert applied or not, is fatal.                                    *)
Seed(r) ==
    LET upserted == templates \cup {DefaultTemplates[seeded[r] + 1]}
    IN  /\ phase[r] = "seed"
        /\ \/ /\ templates' = upserted
              /\ seeded' = [seeded EXCEPT ![r] = @ + 1]
              /\ GoTo(r, IF seeded[r] + 1 = Len(DefaultTemplates) THEN "senders" ELSE "seed")
              /\ UNCHANGED <<cfg, redis, consumer, handlers>>
           \/ "db" \in Faults /\ templates' \in {templates, upserted} /\ Exit(r)
        /\ UNCHANGED <<waitlist, welcomed>>

(* NewEmailSender and NewSMSSender. *)
NewSenders(r) ==
    /\ phase[r] = "senders"
    /\ \/ /\ SendersBuild(cfg[r])
          /\ GoTo(r, "start")
          /\ UNCHANGED <<cfg, redis, seeded, consumer, handlers>>
       \/ ~SendersBuild(cfg[r]) /\ Exit(r)
    /\ UNCHANGED <<stores, welcomed>>

(* go consumer.Run, NewRouter, ListenAndServe.  Without Redis the consumer *)
(* only waits for its context.                                             *)
Listen(r) ==
    /\ phase[r] = "start"
    /\ \/ /\ GoTo(r, "serving")
          /\ consumer' = [consumer EXCEPT ![r] = IF redis[r] THEN "loop" ELSE "off"]
          /\ UNCHANGED <<cfg, redis, seeded, handlers>>
       \/ "listen" \in Faults /\ Exit(r)
    /\ UNCHANGED <<stores, welcomed>>

-----------------------------------------------------------------------------
Serving(r) == phase[r] \in {"serving", "draining"}

(* The signature middleware of r looks at nonces. *)
ChecksNonce(r) == redis[r] /\ ~IsEmpty(cfg[r].gatewaySecret)

(* What Redis remembers is GatewayNonce's: here any request with an id may *)
(* be new to it, or a replay.                                              *)
MayBeNew(r, q) == ChecksNonce(r) => q.id # NoRequestId

(* A request comes in, on a new or, during a drain, an open connection: it *)
(* is let through to its handler, or answered by one of the middleware.    *)
Request(w, q, full) ==
    LET r == Home[w]
    IN  /\ pc[w] = "idle"
        /\ Serving(r)
        /\ \/ /\ Admitted(cfg[r], q, full)
              /\ q.route = "inbox" => MayBeNew(r, q)
              /\ pc' = [pc EXCEPT ![w] = "handler"]
              /\ job' = [job EXCEPT ![w] = q]
           \/ /\ Admitted(cfg[r], q, full) => (q.route = "inbox" /\ ChecksNonce(r))
              /\ UNCHANGED handlers
        /\ UNCHANGED <<process, stores, welcomed>>

Finish(w) ==
    /\ pc' = [pc EXCEPT ![w] = "idle"]
    /\ job' = [job EXCEPT ![w] = NoRequest]

(* The handler's statement gets a connection. *)
StartQuery(w) ==
    /\ pc[w] = "handler"
    /\ Serving(Home[w])
    /\ job[w].route # "healthz"
    /\ job[w].route = "waitlist" => CaptureError(job[w].entry) = ""
    /\ pc' = [pc EXCEPT ![w] = "query"]
    /\ UNCHANGED <<process, job, stores, welcomed>>

(* The handler answers without the database: a liveness probe, invalid     *)
(* input, a client that is gone, or a pool that is closed.                 *)
Respond(w) ==
    /\ pc[w] = "handler"
    /\ Finish(w)
    /\ UNCHANGED <<process, stores, welcomed>>

(* The statement succeeds and the handler answers. *)
QueryReturns(w) ==
    LET entry == NewWaitlistEntry(job[w].entry)
    IN  /\ pc[w] = "query"
        /\ IF job[w].route = "waitlist"
           THEN /\ waitlist' = AddToWaitlist(waitlist, entry)
                /\ welcomed' = welcomed \cup {entry.lower}
           ELSE UNCHANGED <<waitlist, welcomed>>
        /\ Finish(w)
        /\ UNCHANGED <<process, templates>>

(* A mutant: an error of AddToWaitlist is not looked at. *)
QueryFailsUnnoticed(w) ==
    /\ pc[w] = "query"
    /\ "db" \in Faults
    /\ job[w].route = "waitlist"
    /\ welcomed' = welcomed \cup {job[w].entry.email.lower}
    /\ Finish(w)
    /\ UNCHANGED <<process, stores>>

(* The statement reports an error, applied or not. *)
QueryFails(w) ==
    /\ pc[w] = "query"
    /\ "db" \in Faults
    /\ \/ UNCHANGED waitlist
       \/ /\ job[w].route = "waitlist"
          /\ waitlist' = AddToWaitlist(waitlist, NewWaitlistEntry(job[w].entry))
    /\ Finish(w)
    /\ UNCHANGED <<process, templates, welcomed>>

-----------------------------------------------------------------------------
(* The consumer handles a message; once its context is canceled no         *)
(* statement gets a connection any more.                                   *)
ConsumerQuery(r) ==
    /\ consumer[r] = "loop"
    /\ phase[r] = "serving"
    /\ consumer' = [consumer EXCEPT ![r] = "query"]
    /\ UNCHANGED <<phase, cfg, redis, seeded, handlers, stores, welcomed>>

ConsumerReturns(r) ==
    /\ consumer[r] = "query"
    /\ consumer' = [consumer EXCEPT ![r] = "loop"]
    /\ UNCHANGED <<phase, cfg, redis, seeded, handlers, stores, welcomed>>

ConsumerStops(r) ==
    /\ consumer[r] = "loop"
    /\ phase[r] # "serving"
    /\ consumer' = [consumer EXCEPT ![r] = "off"]
    /\ UNCHANGED <<phase, cfg, redis, seeded, handlers, stores, welcomed>>

-----------------------------------------------------------------------------
(* SIGTERM or SIGINT; an earlier one ends the process, like Crash. *)
Sigterm(r) ==
    /\ phase[r] = "serving"
    /\ GoTo(r, "draining")
    /\ UNCHANGED <<cfg, redis, seeded, consumer, handlers, stores, welcomed>>

Busy(r) == {w \in Workers : Home[w] = r /\ pc[w] # "idle"}

(* srv.Shutdown returns when every connection is idle ... *)
ShutdownReturns(r) ==
    /\ phase[r] = "draining"
    /\ Busy(r) = {}
    /\ GoTo(r, "closed")
    /\ UNCHANGED <<cfg, redis, seeded, consumer, handlers, stores, welcomed>>

(* A mutant: Shutdown without a deadline. *)
ShutdownWaitsForever(r) == ShutdownReturns(r)

(* ... or when its 30 seconds are over. *)
ShutdownTimesOut(r) ==
    /\ phase[r] = "draining"
    /\ GoTo(r, "abandoned")
    /\ UNCHANGED <<cfg, redis, seeded, consumer, handlers, stores, welcomed>>

(* pool.Close has its connections back: run returns. *)
PoolCloses(r) ==
    /\ phase[r] \in {"closed", "abandoned"}
    /\ consumer[r] # "query"
    /\ \A w \in Busy(r) : pc[w] # "query"
    /\ Exit(r)
    /\ UNCHANGED <<stores, welcomed>>

Crash(r) ==
    /\ "crash" \in Faults
    /\ phase[r] # "off"
    /\ Exit(r)
    /\ UNCHANGED <<stores, welcomed>>

Next ==
    \/ \E r \in Replicas, e \in Environments : Load(r, e)
    \/ \E r \in Replicas : NewPool(r)
    \/ \E r \in Replicas : ConnectRedis(r)
    \/ \E r \in Replicas : Seed(r)
    \/ \E r \in Replicas : NewSenders(r)
    \/ \E r \in Replicas : Listen(r)
    \/ \E w \in Workers, q \in Requests :
          \E full \in {{}} \cup {{l} : l \in Limiters} : Request(w, q, full)
    \/ \E w \in Workers : StartQuery(w)
    \/ \E w \in Workers : Respond(w)
    \/ \E w \in Workers : QueryReturns(w)
    \/ \E w \in Workers : QueryFails(w)
    \/ \E r \in Replicas : ConsumerQuery(r)
    \/ \E r \in Replicas : ConsumerReturns(r)
    \/ \E r \in Replicas : ConsumerStops(r)
    \/ \E r \in Replicas : Sigterm(r)
    \/ \E r \in Replicas : ShutdownReturns(r)
    \/ \E r \in Replicas : ShutdownTimesOut(r)
    \/ \E r \in Replicas : PoolCloses(r)
    \/ \E r \in Replicas : Crash(r)

Spec == Init /\ [][Next]_vars

(* A statement returns, with an answer or an error; so does Shutdown, at   *)
(* the latest when its deadline is over; pool.Close returns once the       *)
(* connections are back.  Nothing is assumed of handlers outside a         *)
(* statement: a client may take its time over a body.                      *)
Fairness ==
    /\ \A w \in Workers : WF_vars(QueryReturns(w) \/ QueryFails(w))
    /\ \A r \in Replicas : /\ WF_vars(ConsumerReturns(r))
                           /\ WF_vars(ShutdownReturns(r) \/ ShutdownTimesOut(r))
                           /\ WF_vars(PoolCloses(r))

FairSpec == Spec /\ Fairness

-----------------------------------------------------------------------------
(* The type invariant of the module's state. *)
TypeOK ==
    /\ phase \in [Replicas -> {"off", "postgres", "redis", "seed", "senders", "start",
                               "serving", "draining", "closed", "abandoned"}]
    /\ cfg \in [Replicas -> Environments \cup {NoConfig}]
    /\ \A r \in Replicas : cfg[r] = NoConfig <=> phase[r] = "off"
    /\ redis \in [Replicas -> BOOLEAN]
    /\ seeded \in [Replicas -> 0..Len(DefaultTemplates)]
    /\ consumer \in [Replicas -> {"off", "loop", "query"}]
    /\ pc \in [Workers -> {"idle", "handler", "query"}]
    /\ job \in [Workers -> Requests \cup {NoRequest}]
    /\ \A w \in Workers : /\ pc[w] = "idle" <=> job[w] = NoRequest
                          /\ pc[w] # "idle" => phase[Home[w]] # "off"
    /\ templates \subseteq {DefaultTemplates[i] : i \in DOMAIN DefaultTemplates}
    /\ waitlist \subseteq {NewWaitlistEntry(q.entry) :
                             q \in {p \in Requests : p.route = "waitlist" /\ p.entry.email.containsAt}}
    /\ welcomed \subseteq {q.entry.email.lower : q \in {p \in Requests : p.route = "waitlist"}}

(* Outside development no inbox handler runs for a request the gateway did *)
(* not sign with a secret of full length, or without a user: the           *)
(* middleware that lets everything pass when no secret is set is never     *)
(* reached with such a configuration (config.go:299, router.go:125).       *)
InboxOnlyForSigned ==
    \A w \in Workers :
        LET q == job[w]
            e == cfg[Home[w]]
        IN  (pc[w] # "idle" /\ q.route = "inbox" /\ ~IsDev(e))
                => /\ q.signedWith = e.gatewaySecret
                   /\ RawLen(q.signedWith) >= MinHMACSecretLen
                   /\ q.user \notin {NoUser, BadUser}

(* NOTIFICATION_S2S_TOKENS names q's service with q's token. *)
Listed(e, q) ==
    \E i \in DOMAIN e.tokens : /\ ~e.tokens[i].blank
                               /\ e.tokens[i].id.text = q.service
                               /\ e.tokens[i].token.text = q.token.text

(* The callers a serving replica recognises are the ones its operator      *)
(* listed, with the tokens as listed: no entry is lost to another, to a    *)
(* blank or to another service's token (config.go:390,                     *)
(* serviceidentity.go:37).                                                 *)
CallersAreTheListed ==
    \A r \in Replicas, q \in Requests :
        (Serving(r) /\ cfg[r].commsEnabled /\ q.route = "comms")
            => (RequireServiceIdentity(cfg[r], q) <=> Listed(cfg[r], q))

(* Nobody uses up the budget of a user or a service in its name: only      *)
(* requests that proved who they are from are counted by those limiters,   *)
(* and a probe is counted by none, whatever the order of the middleware    *)
(* (router.go:60).                                                         *)
BudgetsOfTheVerified ==
    \A r \in Replicas, q \in Requests :
        Serving(r) =>
            LET e == cfg[r]
                counted == CountedBy(e, q, {})
            IN  /\ ("user" \in counted /\ ~IsEmpty(e.gatewaySecret)) => q.signedWith = e.gatewaySecret
                /\ "service" \in counted => Listed(e, q)
                /\ q.route \in {"healthz", "readyz"} => counted = {}

(* A replica that takes send requests has all default templates to send,   *)
(* even if it, or another, failed half-way through seeding before          *)
(* (seed.go:62).                                                           *)
SeededBeforeServing ==
    \A r \in Replicas :
        (Serving(r) /\ cfg[r].commsEnabled)
            => \A i \in DOMAIN DefaultTemplates : DefaultTemplates[i] \in templates

(* An address is on the waitlist once, however often, in which spelling    *)
(* and at how many replicas at once it is submitted, and every address     *)
(* answered 202 is on it (waitlist_store.go:28).                           *)
OneRowPerSignup ==
    /\ \A a, b \in waitlist : a.lower = b.lower => a = b
    /\ \A email \in welcomed : \E row \in waitlist : row.lower = email

(* A signal stops the process, whatever its handlers and the consumer are  *)
(* doing, as long as the statements they are in return (main.go:206).      *)
StopsOnSigterm ==
    \A r \in Replicas : phase[r] = "draining" ~> phase[r] = "off"
=============================================================================
