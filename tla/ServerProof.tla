---------------------------- MODULE ServerProof ----------------------------
(***************************************************************************)
(* Proofs about Server, for any number of replicas, handler goroutines,    *)
(* environments and requests.                                              *)
(***************************************************************************)
EXTENDS Server, SequenceTheorems, TLAPS

(* A process goes on with a valid configuration only (config.go:206). *)
ConfigLoaded == \A r \in Replicas : phase[r] # "off" => validate(cfg[r]) = {}

(* A handler runs only between Listen and the end of the pool, only for    *)
(* what the middleware in front of it let through, and asks the database   *)
(* only for what it found valid.                                           *)
HandlersAdmitted ==
    \A w \in Workers : pc[w] # "idle" =>
        /\ phase[Home[w]] \in {"serving", "draining", "abandoned"}
        /\ job[w].route = "inbox" => /\ VerifyGatewaySignature(cfg[Home[w]], job[w])
                                     /\ RequireValidIdentity(job[w])
        /\ (pc[w] = "query" /\ job[w].route = "waitlist") => CaptureError(job[w].entry) = ""

(* How far seeding is at each point of the start-up. *)
SeedProgress ==
    \A r \in Replicas :
        /\ \A i \in 1..seeded[r] : DefaultTemplates[i] \in templates
        /\ phase[r] = "seed" => seeded[r] < Len(DefaultTemplates)
        /\ phase[r] \in {"off", "postgres", "redis"} => seeded[r] = 0
        /\ phase[r] = "senders" => seeded[r] = Len(DefaultTemplates)
        /\ (phase[r] \in {"start", "serving", "draining"} /\ cfg[r].commsEnabled)
              => seeded[r] = Len(DefaultTemplates)

IInv ==
    /\ TypeOK
    /\ ConfigLoaded
    /\ HandlersAdmitted
    /\ SeedProgress
    /\ OneRowPerSignup

-----------------------------------------------------------------------------
(***************************************************************************)
(* What a valid configuration, the middleware and the validation promise.  *)
(***************************************************************************)

(* A validated process outside development has a secret of full length. *)
LEMMA ValidSecret ==
    ASSUME NEW e \in Environments, validate(e) = {}, ~IsDev(e)
    PROVE  /\ ~IsEmpty(e.gatewaySecret)
           /\ RawLen(e.gatewaySecret) >= MinHMACSecretLen
<1>1. validateGatewayHMAC(e) = {}
  <2>1. ASSUME NEW x \in validateGatewayHMAC(e)
        PROVE  x \in validate(e)
    BY <2>1 DEF validate
  <2> QED
    BY <2>1
<1>2. ~(IsEmpty(e.gatewaySecret) \/ RawLen(e.gatewaySecret) < MinHMACSecretLen)
  BY <1>1 DEF validateGatewayHMAC, Error
<1>3. RawLen(e.gatewaySecret) \in Nat
  BY ServerAssumption DEF RawLen, Value
<1> QED
  BY <1>2, <1>3, ConfigAssumption

(* Trimming keeps text and length. *)
LEMMA TrimFacts ==
    ASSUME NEW v \in Value
    PROVE  /\ Trim(v) \in Value
           /\ Trim(v).text = v.text
           /\ Trim(v).len = v.len
           /\ ~Trim(v).padded
  BY DEF Trim, Value

(* Two values are the same when their parts are. *)
LEMMA ValueEqual ==
    ASSUME NEW v \in Value, NEW u \in Value,
           v.text = u.text, v.len = u.len, v.padded = u.padded
    PROVE  v = u
<1>1. \A x \in Value : x = [text |-> x.text, len |-> x.len, padded |-> x.padded]
  BY DEF Value
<1> QED
  BY <1>1

(* In a valid list no two entries name the same service, and none has an   *)
(* empty token.                                                            *)
LEMMA ValidTokens ==
    ASSUME NEW e \in Environments, validate(e) = {}, e.commsEnabled
    PROVE  /\ \A i, j \in Entries(e) : ServiceId(e, i) = ServiceId(e, j) => i = j
           /\ \A i \in Entries(e) : Token(e, i).len > 0
<1>1. parseAndValidateS2STokens(e) = {}
  <2>1. ASSUME NEW x \in validateComms(e)
        PROVE  x \in validate(e)
    BY <2>1 DEF validate
  <2>2. ASSUME NEW x \in parseAndValidateS2STokens(e)
        PROVE  x \in validateComms(e)
    BY <2>2, Zenon DEF validateComms
  <2> QED
    BY <2>1, <2>2
<1>2. /\ \A i \in Entries(e) : ValidEntry(e, i)
      /\ \A i, j \in Entries(e) : ~(i < j /\ ServiceId(e, i) = ServiceId(e, j))
  BY <1>1 DEF parseAndValidateS2STokens, Error
<1>3. Entries(e) \subseteq Nat
  <2>1. e.tokens \in Seq(TokenEntry)
    BY ServerAssumption
  <2> QED
    BY <2>1 DEF Entries
<1>4. \A i \in Entries(e) : Token(e, i).len > 0
  BY <1>2, Zenon DEF ValidEntry
<1>5. ASSUME NEW i \in Entries(e), NEW j \in Entries(e), ServiceId(e, i) = ServiceId(e, j)
      PROVE  i = j
  <2>1. ~(i < j) /\ ~(j < i)
    BY <1>2, <1>5
  <2>2. i \in Nat /\ j \in Nat
    BY <1>3
  <2> QED
    BY <2>1, <2>2
<1> QED
  BY <1>4, <1>5

(* The middleware recognises the callers that are listed, and no others. *)
LEMMA IdentityIsListed ==
    ASSUME NEW e \in Environments, validate(e) = {}, e.commsEnabled, NEW q \in Requests
    PROVE  RequireServiceIdentity(e, q) <=> Listed(e, q)
<1> DEFINE Of(s) == CHOOSE i \in Entries(e) : ServiceId(e, i) = s
<1>1. \A i \in Entries(e) : /\ i \in DOMAIN e.tokens
                            /\ e.tokens[i].id \in Value /\ e.tokens[i].token \in Value
  <2>1. e.tokens \in Seq(TokenEntry)
    BY ServerAssumption
  <2>2. \A i \in Entries(e) : i \in DOMAIN e.tokens /\ e.tokens[i] \in TokenEntry
    BY <2>1 DEF Entries
  <2> QED
    BY <2>2 DEF TokenEntry
<1>2. \A i \in Entries(e) : /\ ServiceId(e, i) = e.tokens[i].id.text
                            /\ Token(e, i) \in Value
                            /\ Token(e, i).text = e.tokens[i].token.text
                            /\ Token(e, i).len = e.tokens[i].token.len
                            /\ ~Token(e, i).padded
  BY <1>1, TrimFacts DEF ServiceId, Token
<1>3. \A i \in Entries(e) : Of(ServiceId(e, i)) = i
  BY ValidTokens
<1>4. /\ DOMAIN S2STokenMap(e) = {ServiceId(e, i) : i \in Entries(e)}
      /\ \A i \in Entries(e) : S2STokenMap(e)[ServiceId(e, i)] = Token(e, i)
  BY <1>3 DEF S2STokenMap
<1>5. ASSUME RequireServiceIdentity(e, q)
      PROVE  Listed(e, q)
  <2>1. PICK i \in Entries(e) : q.service = ServiceId(e, i)
    BY <1>4, <1>5 DEF RequireServiceIdentity
  <2>2. q.token = Token(e, i)
    BY <1>4, <1>5, <2>1 DEF RequireServiceIdentity
  <2> QED
    BY <1>1, <1>2, <2>1, <2>2 DEF Listed, Entries
<1>6. ASSUME Listed(e, q)
      PROVE  RequireServiceIdentity(e, q)
  <2>1. PICK i \in Entries(e) : /\ e.tokens[i].id.text = q.service
                               /\ e.tokens[i].token.text = q.token.text
    BY <1>6 DEF Listed, Entries
  <2>2. ServiceId(e, i) = q.service
    BY <1>2, <2>1
  <2>3. q.token \in Value /\ ~q.token.padded /\ q.token.len = e.tokens[i].token.len
    BY <1>1, <2>1, ServerAssumption
  <2>4. q.token = Token(e, i)
    <3>1. q.token.padded = Token(e, i).padded
      BY <1>2, <2>3 DEF Value
    <3> QED
      BY <1>2, <2>1, <2>3, <3>1, ValueEqual
  <2> QED
    BY <1>4, <2>2, <2>4, ValidTokens DEF RequireServiceIdentity
<1> QED
  BY <1>5, <1>6

(* The signature and the identity come first in front of the inbox. *)
LEMMA InboxChain ==
    ASSUME NEW e
    PROVE  LET chain == Chain(e, "inbox")
           IN  /\ DOMAIN chain \in {1..4, 1..5}
               /\ chain[1] = "ip" /\ chain[2] = "signature" /\ chain[3] = "identity"
               /\ \A i \in DOMAIN chain : i > 3 => chain[i] \in {"user", "tier"}
  BY DEF Chain

LEMMA OtherChains ==
    ASSUME NEW e
    PROVE  /\ Chain(e, "healthz") = << >>
           /\ Chain(e, "readyz") = << >>
           /\ Chain(e, "waitlist") = <<"ip", "waitlist">>
           /\ e.commsEnabled => Chain(e, "comms") = <<"ip", "serviceIdentity", "service">>
           /\ ~e.commsEnabled => Chain(e, "comms") = <<"ip", "notFound">>
  BY DEF Chain

(* What gets to an inbox handler is signed and has a user. *)
LEMMA AdmittedInbox ==
    ASSUME NEW e, NEW q, NEW full, q.route = "inbox", Admitted(e, q, full)
    PROVE  VerifyGatewaySignature(e, q) /\ RequireValidIdentity(q)
<1> DEFINE chain == Chain(e, "inbox")
<1>1. 2 \in DOMAIN chain /\ 3 \in DOMAIN chain
  BY InboxChain
<1>2. Admits(chain[2], e, q, full) /\ Admits(chain[3], e, q, full)
  BY <1>1 DEF Admitted
<1>3. Admits("signature", e, q, full) /\ Admits("identity", e, q, full)
  BY <1>2, InboxChain
<1> QED
  BY <1>3 DEF Admits

(* The middleware a request visits is a place of its chain, with all the   *)
(* earlier ones passed.                                                    *)
LEMMA VisitedPlace ==
    ASSUME NEW e, NEW q, NEW full, NEW m \in Visited(e, q, full)
    PROVE  LET chain == Chain(e, q.route)
           IN  \E i \in DOMAIN chain : /\ chain[i] = m
                                       /\ \A j \in 1..(i - 1) : Admits(chain[j], e, q, full)
  BY DEF Visited

(* The user limiter counts only what the signature check let through. *)
LEMMA UserCounted ==
    ASSUME NEW e, NEW q \in Requests, NEW full, "user" \in Visited(e, q, full)
    PROVE  VerifyGatewaySignature(e, q)
<1> DEFINE chain == Chain(e, q.route)
<1>1. PICK i \in DOMAIN chain : /\ chain[i] = "user"
                                /\ \A j \in 1..(i - 1) : Admits(chain[j], e, q, full)
  BY VisitedPlace
<1>2. q.route \in Routes
  BY ServerAssumption
<1>3. q.route = "inbox"
  <2>1. ASSUME q.route \in {"healthz", "readyz"} PROVE FALSE
    BY <1>1, <2>1, OtherChains
  <2>2. ASSUME q.route = "waitlist" PROVE FALSE
    BY <1>1, <2>2, OtherChains
  <2>3. ASSUME q.route = "comms" PROVE FALSE
    <3>1. chain \in {<<"ip", "serviceIdentity", "service">>, <<"ip", "notFound">>}
      BY <2>3, OtherChains
    <3> QED
      BY <1>1, <3>1
  <2> QED
    BY <1>2, <2>1, <2>2, <2>3 DEF Routes
<1>4. i \in Nat /\ i > 3
  BY <1>1, <1>3, InboxChain
<1>5. Admits("signature", e, q, full)
  BY <1>1, <1>3, <1>4, InboxChain
<1> QED
  BY <1>5 DEF Admits

(* The service limiter counts only callers with their own token. *)
LEMMA ServiceCounted ==
    ASSUME NEW e, NEW q \in Requests, NEW full, "service" \in Visited(e, q, full)
    PROVE  e.commsEnabled /\ RequireServiceIdentity(e, q)
<1> DEFINE chain == Chain(e, q.route)
<1>1. PICK i \in DOMAIN chain : /\ chain[i] = "service"
                                /\ \A j \in 1..(i - 1) : Admits(chain[j], e, q, full)
  BY VisitedPlace
<1>2. q.route \in Routes
  BY ServerAssumption
<1>3. q.route # "inbox"
  BY <1>1, InboxChain
<1>4. q.route = "comms" /\ e.commsEnabled
  BY <1>1, <1>2, <1>3, OtherChains DEF Routes
<1>5. chain = <<"ip", "serviceIdentity", "service">>
  BY <1>4, OtherChains
<1>6. Admits("serviceIdentity", e, q, full)
  BY <1>1, <1>5
<1> QED
  BY <1>4, <1>6 DEF Admits

(* A probe meets no middleware. *)
LEMMA ProbesUncounted ==
    ASSUME NEW e, NEW q, NEW full, q.route \in {"healthz", "readyz"}
    PROVE  CountedBy(e, q, full) = {}
<1>1. Chain(e, q.route) = << >>
  BY OtherChains
<1>2. Visited(e, q, full) = {}
  BY <1>1 DEF Visited
<1> QED
  BY <1>2 DEF CountedBy

(* A request in front of the database has an address with an @. *)
LEMMA CapturedAddress ==
    ASSUME NEW q \in Requests, CaptureError(q.entry) = ""
    PROVE  q.entry.email.containsAt
<1>1. q.entry \in Submission
  BY ServerAssumption
<1>2. EmailError(q.entry.email) = ""
  BY <1>1 DEF CaptureError, Submission
<1> QED
  BY <1>1, <1>2 DEF EmailError, Submission

-----------------------------------------------------------------------------
(***************************************************************************)
(* The type invariant.  It needs the rest of IInv for two of its bounds:   *)
(* seeding stops at the end of the list, and only validated submissions    *)
(* are inserted.                                                           *)
(***************************************************************************)

Phases == {"off", "postgres", "redis", "seed", "senders", "start",
           "serving", "draining", "closed", "abandoned"}

TypeProcess ==
    /\ phase \in [Replicas -> Phases]
    /\ cfg \in [Replicas -> Environments \cup {NoConfig}]
    /\ \A r \in Replicas : cfg[r] = NoConfig <=> phase[r] = "off"
    /\ redis \in [Replicas -> BOOLEAN]
    /\ seeded \in [Replicas -> 0..Len(DefaultTemplates)]
    /\ consumer \in [Replicas -> {"off", "loop", "query"}]

TypeHandlers ==
    /\ pc \in [Workers -> {"idle", "handler", "query"}]
    /\ job \in [Workers -> Requests \cup {NoRequest}]
    /\ \A w \in Workers : /\ pc[w] = "idle" <=> job[w] = NoRequest
                          /\ pc[w] # "idle" => phase[Home[w]] # "off"

TypeStores ==
    /\ templates \subseteq {DefaultTemplates[i] : i \in DOMAIN DefaultTemplates}
    /\ waitlist \subseteq {NewWaitlistEntry(q.entry) :
                             q \in {p \in Requests : p.route = "waitlist" /\ p.entry.email.containsAt}}
    /\ welcomed \subseteq {q.entry.email.lower : q \in {p \in Requests : p.route = "waitlist"}}

LEMMA TypeParts == TypeOK <=> TypeProcess /\ TypeHandlers /\ TypeStores
  BY Zenon DEF TypeOK, TypeProcess, TypeHandlers, TypeStores, Phases

LEMMA TypePartsPrimed == TypeOK' <=> TypeProcess' /\ TypeHandlers' /\ TypeStores'
  BY Zenon DEF TypeOK, TypeProcess, TypeHandlers, TypeStores, Phases

LEMMA HomeType == \A w \in Workers : Home[w] \in Replicas
  BY ServerAssumption

(* There is something to seed. *)
LEMMA TemplateCount ==
    /\ Len(DefaultTemplates) \in Nat /\ Len(DefaultTemplates) > 0
    /\ DOMAIN DefaultTemplates = 1..Len(DefaultTemplates)
<1>1. DefaultTemplates \in Seq(STRING) /\ DefaultTemplates # << >>
  BY ServerAssumption
<1> QED
  BY <1>1, EmptySeq

LEMMA TypeInit == Init => TypeOK
<1> SUFFICES ASSUME Init PROVE TypeOK
  OBVIOUS
<1>1. TypeProcess
  BY TemplateCount DEF Init, TypeProcess, Phases
<1>2. TypeHandlers
  BY ServerAssumption DEF Init, TypeHandlers
<1>3. TypeStores
  <2>1. templates = {} /\ waitlist = {} /\ welcomed = {}
    BY DEF Init
  <2> QED
    BY <2>1, Zenon DEF TypeStores
<1> QED
  BY <1>1, <1>2, <1>3, TypeParts

(* The end of a process leaves well-typed state. *)
LEMMA ExitType ==
    ASSUME TypeProcess, TypeHandlers, NEW r \in Replicas, Exit(r)
    PROVE  TypeProcess' /\ TypeHandlers'
<1>1. TypeProcess'
  BY ServerAssumption DEF TypeProcess, Exit, Phases
<1>2. TypeHandlers'
  BY ServerAssumption DEF TypeProcess, TypeHandlers, Exit
<1> QED
  BY <1>1, <1>2

(* A process goes on to its next phase. *)
LEMMA GoToType ==
    ASSUME TypeProcess, TypeHandlers, NEW r \in Replicas, NEW p \in Phases \ {"off"},
           phase[r] # "off", GoTo(r, p), UNCHANGED <<cfg, handlers>>,
           redis' \in [Replicas -> BOOLEAN],
           seeded' \in [Replicas -> 0..Len(DefaultTemplates)],
           consumer' \in [Replicas -> {"off", "loop", "query"}]
    PROVE  TypeProcess' /\ TypeHandlers'
<1>1. TypeProcess'
  BY DEF TypeProcess, GoTo
<1>2. TypeHandlers'
  BY ServerAssumption DEF TypeProcess, TypeHandlers, GoTo, handlers
<1> QED
  BY <1>1, <1>2

(* Start-up, shutdown and the consumer change the processes, and leave the *)
(* handlers alone unless the process ends.                                 *)
LEMMA ProcessType ==
    ASSUME TypeOK, SeedProgress, NEW r \in Replicas,
           \/ NewPool(r) \/ ConnectRedis(r) \/ NewSenders(r) \/ Sigterm(r)
           \/ ShutdownReturns(r) \/ ShutdownTimesOut(r) \/ PoolCloses(r) \/ Crash(r)
           \/ ConsumerQuery(r) \/ ConsumerReturns(r) \/ ConsumerStops(r)
    PROVE  TypeOK'
<1> USE TypeParts
<1>1. ASSUME NewPool(r) PROVE TypeProcess' /\ TypeHandlers'
  <2>1. CASE Exit(r)
    BY <2>1, ExitType
  <2>2. CASE GoTo(r, "redis") /\ UNCHANGED <<cfg, redis, seeded, consumer, handlers>>
    <3>1. phase[r] # "off" /\ "redis" \in Phases \ {"off"}
      BY <1>1 DEF NewPool, Phases
    <3> QED
      BY <2>2, <3>1, GoToType DEF TypeProcess
  <2> QED
    BY <1>1, <2>1, <2>2 DEF NewPool
<1>2. ASSUME ConnectRedis(r) PROVE TypeProcess' /\ TypeHandlers'
  <2>1. CASE Exit(r)
    BY <2>1, ExitType
  <2>2. CASE /\ GoTo(r, IF cfg[r].commsEnabled THEN "seed" ELSE "start")
             /\ redis' = [redis EXCEPT ![r] = TRUE] \/ UNCHANGED redis
             /\ UNCHANGED <<cfg, seeded, consumer, handlers>>
    <3>1. phase[r] # "off"
      BY <1>2 DEF ConnectRedis
    <3>2. (IF cfg[r].commsEnabled THEN "seed" ELSE "start") \in Phases \ {"off"}
      BY DEF Phases
    <3>3. redis' \in [Replicas -> BOOLEAN]
      BY <2>2 DEF TypeProcess
    <3> QED
      BY <2>2, <3>1, <3>2, <3>3, GoToType DEF TypeProcess
  <2> QED
    BY <1>2, <2>1, <2>2 DEF ConnectRedis
<1>3. ASSUME NewSenders(r) PROVE TypeProcess' /\ TypeHandlers'
  <2>1. CASE Exit(r)
    BY <2>1, ExitType
  <2>2. CASE GoTo(r, "start") /\ UNCHANGED <<cfg, redis, seeded, consumer, handlers>>
    <3>1. phase[r] # "off" /\ "start" \in Phases \ {"off"}
      BY <1>3 DEF NewSenders, Phases
    <3> QED
      BY <2>2, <3>1, GoToType DEF TypeProcess
  <2> QED
    BY <1>3, <2>1, <2>2 DEF NewSenders
<1>4. ASSUME Sigterm(r) \/ ShutdownReturns(r) \/ ShutdownTimesOut(r)
      PROVE  TypeProcess' /\ TypeHandlers'
  <2>1. PICK p \in {"draining", "closed", "abandoned"} :
           GoTo(r, p) /\ phase[r] # "off" /\ UNCHANGED <<cfg, redis, seeded, consumer, handlers>>
    BY <1>4 DEF Sigterm, ShutdownReturns, ShutdownTimesOut
  <2>2. p \in Phases \ {"off"}
    BY DEF Phases
  <2> QED
    BY <2>1, <2>2, GoToType DEF TypeProcess
<1>5. ASSUME PoolCloses(r) \/ Crash(r) PROVE TypeProcess' /\ TypeHandlers'
  BY <1>5, ExitType DEF PoolCloses, Crash
<1>6. ASSUME ConsumerQuery(r) \/ ConsumerReturns(r) \/ ConsumerStops(r)
      PROVE  TypeProcess' /\ TypeHandlers'
  <2>1. /\ UNCHANGED <<phase, cfg, redis, seeded, pc, job>>
        /\ \E c \in {"off", "loop", "query"} : consumer' = [consumer EXCEPT ![r] = c]
    BY <1>6 DEF ConsumerQuery, ConsumerReturns, ConsumerStops, handlers
  <2>2. TypeProcess'
    BY <2>1 DEF TypeProcess
  <2>3. TypeHandlers'
    BY <2>1 DEF TypeHandlers
  <2> QED
    BY <2>2, <2>3
<1>7. TypeStores'
  BY DEF NewPool, ConnectRedis, NewSenders, Sigterm, ShutdownReturns, ShutdownTimesOut, PoolCloses,
         Crash, ConsumerQuery, ConsumerReturns, ConsumerStops, TypeStores, stores
<1> QED
  BY <1>1, <1>2, <1>3, <1>4, <1>5, <1>6, <1>7, TypePartsPrimed

LEMMA LoadType ==
    ASSUME TypeOK, NEW r \in Replicas, NEW e \in Environments, Load(r, e)
    PROVE  TypeOK'
<1> USE TypeParts
<1>1. TypeProcess'
  BY ServerAssumption DEF Load, GoTo, TypeProcess, Phases
<1>2. TypeHandlers'
  BY ServerAssumption DEF Load, GoTo, TypeProcess, TypeHandlers, handlers
<1>3. TypeStores'
  BY DEF Load, TypeStores, stores
<1> QED
  BY <1>1, <1>2, <1>3, TypePartsPrimed

LEMMA SeedType ==
    ASSUME TypeOK, SeedProgress, NEW r \in Replicas, Seed(r)
    PROVE  TypeOK'
<1> USE TypeParts, TemplateCount
<1> DEFINE tpl == DefaultTemplates[seeded[r] + 1]
           next == IF seeded[r] + 1 = Len(DefaultTemplates) THEN "senders" ELSE "seed"
<1>1. phase[r] = "seed" /\ seeded[r] \in Nat /\ seeded[r] < Len(DefaultTemplates)
  BY DEF Seed, SeedProgress, TypeProcess
<1>2. seeded[r] + 1 \in DOMAIN DefaultTemplates
  BY <1>1
<1>3. templates' \subseteq {DefaultTemplates[i] : i \in DOMAIN DefaultTemplates}
  <2>1. templates' \in {templates, templates \cup {tpl}}
    BY DEF Seed
  <2>2. templates \subseteq {DefaultTemplates[i] : i \in DOMAIN DefaultTemplates}
    BY DEF TypeStores
  <2> QED
    BY <1>2, <2>1, <2>2
<1>4. TypeStores'
  BY <1>3, Zenon DEF Seed, TypeStores
<1>5. CASE Exit(r)
  BY <1>4, <1>5, ExitType, TypePartsPrimed
<1>6. CASE /\ seeded' = [seeded EXCEPT ![r] = @ + 1]
           /\ GoTo(r, next)
           /\ UNCHANGED <<cfg, redis, consumer, handlers>>
  <2>1. next \in Phases \ {"off"}
    BY DEF Phases
  <2>2. seeded' \in [Replicas -> 0..Len(DefaultTemplates)]
    BY <1>1, <1>6 DEF TypeProcess
  <2>3. TypeProcess' /\ TypeHandlers'
    BY <1>1, <1>6, <2>1, <2>2, GoToType DEF TypeProcess
  <2> QED
    BY <1>4, <2>3, TypePartsPrimed
<1> QED
  BY <1>5, <1>6 DEF Seed

LEMMA ListenType ==
    ASSUME TypeOK, NEW r \in Replicas, Listen(r)
    PROVE  TypeOK'
<1> USE TypeParts
<1>1. TypeStores'
  BY DEF Listen, TypeStores, stores
<1>2. CASE Exit(r)
  BY <1>1, <1>2, ExitType, TypePartsPrimed
<1>3. CASE /\ GoTo(r, "serving")
           /\ consumer' = [consumer EXCEPT ![r] = IF redis[r] THEN "loop" ELSE "off"]
           /\ UNCHANGED <<cfg, redis, seeded, handlers>>
  <2>1. phase[r] # "off" /\ "serving" \in Phases \ {"off"}
    BY DEF Listen, Phases
  <2>2. consumer' \in [Replicas -> {"off", "loop", "query"}]
    BY <1>3 DEF TypeProcess
  <2>3. TypeProcess' /\ TypeHandlers'
    BY <1>3, <2>1, <2>2, GoToType DEF TypeProcess
  <2> QED
    BY <1>1, <2>3, TypePartsPrimed
<1> QED
  BY <1>2, <1>3 DEF Listen

(* The handlers leave the processes alone. *)
LEMMA FinishType ==
    ASSUME TypeProcess, TypeHandlers, NEW w \in Workers, Finish(w), UNCHANGED process
    PROVE  TypeProcess' /\ TypeHandlers'
<1>1. TypeProcess'
  BY DEF TypeProcess, process
<1>2. TypeHandlers'
  BY DEF TypeHandlers, Finish, process
<1> QED
  BY <1>1, <1>2

LEMMA RequestType ==
    ASSUME TypeOK, NEW w \in Workers, NEW q \in Requests, NEW full, Request(w, q, full)
    PROVE  TypeOK'
<1> USE TypeParts
<1> DEFINE r == Home[w]
<1>1. TypeProcess'
  BY DEF Request, TypeProcess, process
<1>2. TypeHandlers'
  <2>1. phase[r] # "off"
    BY DEF Request, Serving
  <2>2. /\ phase' = phase
        /\ \/ UNCHANGED <<pc, job>>
           \/ pc' = [pc EXCEPT ![w] = "handler"] /\ job' = [job EXCEPT ![w] = q]
    BY DEF Request, process, handlers
  <2>3. q # NoRequest
    BY ServerAssumption
  <2>4. CASE UNCHANGED <<pc, job>>
    BY <2>2, <2>4 DEF TypeHandlers
  <2>5. CASE pc' = [pc EXCEPT ![w] = "handler"] /\ job' = [job EXCEPT ![w] = q]
    BY <2>1, <2>2, <2>3, <2>5 DEF TypeHandlers
  <2> QED
    BY <2>2, <2>4, <2>5
<1>3. TypeStores'
  BY DEF Request, TypeStores, stores
<1> QED
  BY <1>1, <1>2, <1>3, TypePartsPrimed

LEMMA StartRespondType ==
    ASSUME TypeOK, NEW w \in Workers, StartQuery(w) \/ Respond(w)
    PROVE  TypeOK'
<1> USE TypeParts
<1>1. TypeProcess'
  BY DEF StartQuery, Respond, TypeProcess, process
<1>2. TypeHandlers'
  <2>1. CASE StartQuery(w)
    BY <2>1 DEF StartQuery, TypeHandlers, process
  <2>2. CASE Respond(w)
    BY <2>2, FinishType DEF Respond
  <2> QED
    BY <2>1, <2>2
<1>3. TypeStores'
  BY DEF StartQuery, Respond, TypeStores, stores
<1> QED
  BY <1>1, <1>2, <1>3, TypePartsPrimed

(* What a statement can do to the waitlist. *)
LEMMA QueryType ==
    ASSUME TypeOK, HandlersAdmitted, NEW w \in Workers, QueryReturns(w) \/ QueryFails(w)
    PROVE  TypeOK'
<1> USE TypeParts
<1> DEFINE entry == NewWaitlistEntry(job[w].entry)
           Rows == {NewWaitlistEntry(q.entry) :
                      q \in {p \in Requests : p.route = "waitlist" /\ p.entry.email.containsAt}}
           Addresses == {q.entry.email.lower : q \in {p \in Requests : p.route = "waitlist"}}
<1>1. TypeProcess' /\ TypeHandlers'
  BY FinishType DEF QueryReturns, QueryFails
<1>2. pc[w] = "query" /\ job[w] \in Requests
  BY DEF QueryReturns, QueryFails, TypeHandlers
<1>3. ASSUME job[w].route = "waitlist"
      PROVE  entry \in Rows /\ entry.lower \in Addresses
  <2>1. job[w].entry.email.containsAt
    BY <1>2, <1>3, CapturedAddress DEF HandlersAdmitted
  <2>2. entry.lower = job[w].entry.email.lower
    BY DEF NewWaitlistEntry
  <2> QED
    BY <1>2, <1>3, <2>1, <2>2
<1>4. /\ waitlist' = waitlist \/ (job[w].route = "waitlist" /\ waitlist' = AddToWaitlist(waitlist, entry))
      /\ welcomed' = welcomed \/ (job[w].route = "waitlist" /\ welcomed' = welcomed \cup {entry.lower})
  BY DEF QueryReturns, QueryFails
<1>5. waitlist \subseteq Rows /\ welcomed \subseteq Addresses
  BY Zenon DEF TypeStores
<1>6. waitlist' \subseteq Rows
  <2> HIDE DEF entry, Rows
  <2> QED
    BY <1>3, <1>4, <1>5 DEF AddToWaitlist
<1>7. welcomed' \subseteq Addresses
  <2> HIDE DEF entry, Addresses
  <2> QED
    BY <1>3, <1>4, <1>5
<1>8. TypeStores'
  <2>1. UNCHANGED templates
    BY DEF QueryReturns, QueryFails
  <2> QED
    BY <1>6, <1>7, <2>1, Zenon DEF TypeStores
<1> QED
  BY <1>1, <1>8, TypePartsPrimed

-----------------------------------------------------------------------------
(***************************************************************************)
(* The other parts of the inductive invariant.                             *)
(***************************************************************************)

(* A configuration in use changes only with its process. *)
LEMMA ConfigStep ==
    ASSUME TypeOK, ConfigLoaded, [Next]_vars
    PROVE  ConfigLoaded'
<1> USE DEF TypeOK, ConfigLoaded
<1>1. ASSUME NEW r \in Replicas, NEW e \in Environments, Load(r, e) PROVE ConfigLoaded'
  BY <1>1 DEF Load, GoTo
<1>2. ASSUME NEW r \in Replicas, Exit(r) PROVE ConfigLoaded'
  BY <1>2 DEF Exit
<1>3. ASSUME NEW r \in Replicas, phase[r] # "off", NEW p, GoTo(r, p), UNCHANGED cfg
      PROVE  ConfigLoaded'
  BY <1>3 DEF GoTo
<1>4. ASSUME UNCHANGED <<phase, cfg>> PROVE ConfigLoaded'
  BY <1>4
<1>5. CASE Next
  BY <1>5, <1>1, <1>2, <1>3, <1>4
     DEF Next, NewPool, ConnectRedis, Seed, NewSenders, Listen, Request, StartQuery, Respond,
         QueryReturns, QueryFails, ConsumerQuery, ConsumerReturns, ConsumerStops, Sigterm,
         ShutdownReturns, ShutdownTimesOut, PoolCloses, Crash, process
<1> QED
  BY <1>4, <1>5 DEF vars

(* A handler keeps its request, its configuration and a process that may   *)
(* run it, until it has finished or the process ends.                      *)
LEMMA HandlersStep ==
    ASSUME TypeOK, HandlersAdmitted, [Next]_vars
    PROVE  HandlersAdmitted'
<1> USE DEF HandlersAdmitted
<1>0. /\ phase \in [Replicas -> Phases]
      /\ cfg \in [Replicas -> Environments \cup {NoConfig}]
      /\ pc \in [Workers -> {"idle", "handler", "query"}]
      /\ job \in [Workers -> Requests \cup {NoRequest}]
      /\ \A w \in Workers : pc[w] # "idle" => phase[Home[w]] # "off"
  BY DEF TypeOK, Phases
<1>1. ASSUME NEW r \in Replicas, Exit(r) PROVE HandlersAdmitted'
  BY <1>0, <1>1, HomeType DEF Exit
<1>2. ASSUME NEW r \in Replicas, NEW p, GoTo(r, p), UNCHANGED <<pc, job>>,
             \A s \in Replicas \ {r} : cfg'[s] = cfg[s],
             \/ phase[r] \notin {"serving", "draining", "abandoned"}
             \/ UNCHANGED cfg /\ (p \in {"serving", "draining", "abandoned"} \/ Busy(r) = {})
      PROVE  HandlersAdmitted'
  <2>1. ASSUME NEW w \in Workers, pc[w] # "idle", Home[w] = r
        PROVE  UNCHANGED cfg /\ p \in {"serving", "draining", "abandoned"}
    BY <1>2, <2>1 DEF Busy
  <2> QED
    BY <1>0, <1>2, <2>1, HomeType DEF GoTo
<1>3. ASSUME NEW w \in Workers, NEW q \in Requests, NEW full, Request(w, q, full)
      PROVE  HandlersAdmitted'
  <2>1. UNCHANGED <<phase, cfg>> /\ phase[Home[w]] \in {"serving", "draining"}
    BY <1>3 DEF Request, process, Serving
  <2>2. CASE UNCHANGED <<pc, job>>
    BY <2>1, <2>2
  <2>3. CASE /\ pc' = [pc EXCEPT ![w] = "handler"] /\ job' = [job EXCEPT ![w] = q]
             /\ Admitted(cfg[Home[w]], q, full)
    <3>1. q.route = "inbox" => VerifyGatewaySignature(cfg[Home[w]], q) /\ RequireValidIdentity(q)
      BY <2>3, AdmittedInbox
    <3> QED
      BY <1>0, <2>1, <2>3, <3>1
  <2> QED
    BY <1>3, <2>2, <2>3 DEF Request, handlers
<1>4. ASSUME NEW w \in Workers, StartQuery(w) PROVE HandlersAdmitted'
  BY <1>0, <1>4 DEF StartQuery, process
<1>5. ASSUME NEW w \in Workers, Finish(w), UNCHANGED <<phase, cfg>> PROVE HandlersAdmitted'
  BY <1>0, <1>5 DEF Finish
<1>6. ASSUME UNCHANGED <<phase, cfg, pc, job>> PROVE HandlersAdmitted'
  BY <1>6
<1>7. ASSUME NEW r \in Replicas, NEW e \in Environments, Load(r, e) PROVE HandlersAdmitted'
  BY <1>0, <1>7, <1>2 DEF Load, handlers
<1>8. ASSUME NEW r \in Replicas,
             \/ NewPool(r) \/ ConnectRedis(r) \/ Seed(r) \/ NewSenders(r) \/ Listen(r)
             \/ Sigterm(r) \/ ShutdownReturns(r) \/ ShutdownTimesOut(r)
      PROVE  HandlersAdmitted'
  BY <1>8, <1>1, <1>2
     DEF NewPool, ConnectRedis, Seed, NewSenders, Listen, Sigterm, ShutdownReturns,
         ShutdownTimesOut, handlers
<1>9. CASE Next
  BY <1>9, <1>1, <1>3, <1>4, <1>5, <1>6, <1>7, <1>8
     DEF Next, Respond, QueryReturns, QueryFails, ConsumerQuery, ConsumerReturns, ConsumerStops,
         PoolCloses, Crash, process, handlers
<1> QED
  BY <1>6, <1>9 DEF vars

(* Seeding goes through the list in order, and templates are not deleted. *)
LEMMA SeedStep ==
    ASSUME TypeOK, SeedProgress, [Next]_vars
    PROVE  SeedProgress'
<1> USE TemplateCount DEF TypeOK, SeedProgress
<1>1. ASSUME NEW r \in Replicas, Exit(r), templates \subseteq templates' PROVE SeedProgress'
  BY <1>1 DEF Exit
<1>2. ASSUME NEW r \in Replicas, NEW p, GoTo(r, p), UNCHANGED <<cfg, seeded, templates>>,
             \/ p = "redis" /\ phase[r] = "postgres"
             \/ p = (IF cfg[r].commsEnabled THEN "seed" ELSE "start") /\ phase[r] = "redis"
             \/ p = "start" /\ phase[r] = "senders"
             \/ p = "serving" /\ phase[r] = "start"
             \/ p = "draining" /\ phase[r] = "serving"
             \/ p \in {"closed", "abandoned"}
      PROVE  SeedProgress'
  BY <1>2 DEF GoTo
<1>3. ASSUME NEW r \in Replicas, NEW e \in Environments, Load(r, e) PROVE SeedProgress'
  BY <1>3 DEF Load, GoTo, stores
<1>4. ASSUME NEW r \in Replicas, Seed(r) PROVE SeedProgress'
  <2>1. CASE Exit(r)
    BY <1>1, <1>4, <2>1 DEF Seed
  <2>2. CASE /\ templates' = templates \cup {DefaultTemplates[seeded[r] + 1]}
             /\ seeded' = [seeded EXCEPT ![r] = @ + 1]
             /\ GoTo(r, IF seeded[r] + 1 = Len(DefaultTemplates) THEN "senders" ELSE "seed")
             /\ UNCHANGED cfg
    <3>1. phase[r] = "seed"
      BY <1>4 DEF Seed
    <3>2. seeded[r] \in Nat /\ seeded[r] < Len(DefaultTemplates)
      BY <3>1
    <3>3. \A i \in 1..(seeded[r] + 1) : DefaultTemplates[i] \in templates'
      BY <2>2, <3>2
    <3> QED
      BY <2>2, <3>1, <3>2, <3>3 DEF GoTo
  <2> QED
    BY <1>4, <2>1, <2>2 DEF Seed
<1>5. ASSUME UNCHANGED <<phase, cfg, seeded, templates>> PROVE SeedProgress'
  BY <1>5
<1>6. ASSUME NEW r \in Replicas,
             \/ NewPool(r) \/ ConnectRedis(r) \/ NewSenders(r) \/ Listen(r)
             \/ Sigterm(r) \/ ShutdownReturns(r) \/ ShutdownTimesOut(r)
             \/ PoolCloses(r) \/ Crash(r)
      PROVE  SeedProgress'
  BY <1>6, <1>1, <1>2
     DEF NewPool, ConnectRedis, NewSenders, Listen, Sigterm, ShutdownReturns,
         ShutdownTimesOut, PoolCloses, Crash, stores
<1>7. CASE Next
  BY <1>7, <1>3, <1>4, <1>5, <1>6
     DEF Next, Request, StartQuery, Respond, QueryReturns, QueryFails, ConsumerQuery,
         ConsumerReturns, ConsumerStops, process, stores
<1> QED
  BY <1>5, <1>7 DEF vars

(* An insert keeps every row, adds at most its own, and leaves a row for   *)
(* its address.                                                            *)
LEMMA AddFacts ==
    ASSUME NEW rows, NEW entry
    PROVE  /\ rows \subseteq AddToWaitlist(rows, entry)
           /\ AddToWaitlist(rows, entry) \subseteq rows \cup {entry}
           /\ \E row \in AddToWaitlist(rows, entry) : row.lower = entry.lower
           /\ entry \in AddToWaitlist(rows, entry) \ rows
                 => \A row \in rows : row.lower # entry.lower
  BY DEF AddToWaitlist

(* Only a statement for a submission touches the waitlist. *)
LEMMA WaitlistFrame ==
    ASSUME [Next]_vars
    PROVE  \/ UNCHANGED <<waitlist, welcomed>>
           \/ \E entry : /\ waitlist' = AddToWaitlist(waitlist, entry)
                         /\ welcomed' \in {welcomed, welcomed \cup {entry.lower}}
<1>1. ASSUME NEW w \in Workers, QueryReturns(w) \/ QueryFails(w)
      PROVE  \/ UNCHANGED <<waitlist, welcomed>>
             \/ \E entry : /\ waitlist' = AddToWaitlist(waitlist, entry)
                           /\ welcomed' \in {welcomed, welcomed \cup {entry.lower}}
  <2> DEFINE entry == NewWaitlistEntry(job[w].entry)
  <2>1. \/ UNCHANGED <<waitlist, welcomed>>
        \/ /\ waitlist' = AddToWaitlist(waitlist, entry)
           /\ welcomed' \in {welcomed, welcomed \cup {entry.lower}}
    BY <1>1 DEF QueryReturns, QueryFails
  <2> QED
    BY <2>1
<1>2. ASSUME Next, ~\E w \in Workers : QueryReturns(w) \/ QueryFails(w)
      PROVE  UNCHANGED <<waitlist, welcomed>>
  BY <1>2
     DEF Next, Load, NewPool, ConnectRedis, Seed, NewSenders, Listen, Request, StartQuery,
         Respond, ConsumerQuery, ConsumerReturns, ConsumerStops, Sigterm, ShutdownReturns,
         ShutdownTimesOut, PoolCloses, Crash, stores
<1>3. ASSUME UNCHANGED vars PROVE UNCHANGED <<waitlist, welcomed>>
  BY <1>3 DEF vars
<1> QED
  BY <1>1, <1>2, <1>3, Zenon

LEMMA WaitlistStep ==
    ASSUME OneRowPerSignup, [Next]_vars
    PROVE  OneRowPerSignup'
<1>1. CASE UNCHANGED <<waitlist, welcomed>>
  BY <1>1 DEF OneRowPerSignup
<1>2. ASSUME NEW entry, waitlist' = AddToWaitlist(waitlist, entry),
             welcomed' \in {welcomed, welcomed \cup {entry.lower}}
      PROVE  OneRowPerSignup'
  BY <1>2, AddFacts DEF OneRowPerSignup
<1> QED
  BY <1>1, <1>2, WaitlistFrame

-----------------------------------------------------------------------------
LEMMA IInvInit == Init => IInv
<1> SUFFICES ASSUME Init PROVE IInv
  OBVIOUS
<1>1. ConfigLoaded /\ HandlersAdmitted
  BY HomeType DEF Init, ConfigLoaded, HandlersAdmitted
<1>2. SeedProgress
  BY DEF Init, SeedProgress
<1>3. OneRowPerSignup
  BY DEF Init, OneRowPerSignup
<1> QED
  BY <1>1, <1>2, <1>3, TypeInit DEF IInv

LEMMA TypeStep ==
    ASSUME TypeOK, HandlersAdmitted, SeedProgress, [Next]_vars
    PROVE  TypeOK'
<1>1. CASE Next
  BY <1>1, LoadType, SeedType, ListenType, RequestType, StartRespondType, QueryType, ProcessType
     DEF Next
<1>2. CASE UNCHANGED vars
  <2>1. TypeProcess' /\ TypeHandlers' /\ TypeStores'
    BY <1>2, TypeParts DEF TypeProcess, TypeHandlers, TypeStores, vars
  <2> QED
    BY <2>1, TypePartsPrimed
<1> QED
  BY <1>1, <1>2

(* IInv is an invariant of every behaviour of the processes, with any      *)
(* fault at any point.                                                     *)
THEOREM Invariance == Spec => []IInv
<1>1. IInv /\ [Next]_vars => IInv'
  BY TypeStep, ConfigStep, HandlersStep, SeedStep, WaitlistStep DEF IInv
<1> QED
  BY <1>1, IInvInit, PTL DEF Spec

-----------------------------------------------------------------------------
(* The state of the processes, handlers and stores is well-typed; seeding  *)
(* never runs past its list, and nothing is inserted that the validation   *)
(* of the waitlist refuses.                                                *)
THEOREM TypeCorrect == Spec => []TypeOK
<1>1. IInv => TypeOK
  BY DEF IInv
<1> QED
  BY <1>1, Invariance, PTL

(* No configuration that Load accepts, and no order of restarts, lets an   *)
(* unsigned request get to an inbox handler outside development            *)
(* (config.go:299, router.go:125).                                         *)
THEOREM InboxGuarded == Spec => []InboxOnlyForSigned
<1>1. ASSUME IInv PROVE InboxOnlyForSigned
  <2> SUFFICES ASSUME NEW w \in Workers, pc[w] # "idle", job[w].route = "inbox",
                      ~IsDev(cfg[Home[w]])
               PROVE  /\ job[w].signedWith = cfg[Home[w]].gatewaySecret
                      /\ RawLen(job[w].signedWith) >= MinHMACSecretLen
                      /\ job[w].user \notin {NoUser, BadUser}
    BY DEF InboxOnlyForSigned
  <2>1. /\ VerifyGatewaySignature(cfg[Home[w]], job[w])
        /\ RequireValidIdentity(job[w])
        /\ phase[Home[w]] \in {"serving", "draining", "abandoned"}
    BY <1>1 DEF IInv, HandlersAdmitted
  <2>2. cfg[Home[w]] \in Environments /\ validate(cfg[Home[w]]) = {}
    BY <1>1, <2>1, HomeType DEF IInv, TypeOK, ConfigLoaded
  <2> QED
    BY <2>1, <2>2, ValidSecret DEF VerifyGatewaySignature, RequireValidIdentity
<1>2. IInv => InboxOnlyForSigned
  BY <1>1
<1> QED
  BY <1>2, Invariance, PTL

(* A replica that serves has a configuration that was validated. *)
LEMMA ServingConfig ==
    ASSUME IInv, NEW r \in Replicas, Serving(r)
    PROVE  cfg[r] \in Environments /\ validate(cfg[r]) = {}
  BY DEF IInv, TypeOK, ConfigLoaded, Serving

(* Whatever the list of tokens looks like, if Load accepts it the callers  *)
(* recognised are the listed ones (config.go:390, serviceidentity.go:37).  *)
THEOREM CallersRecognised == Spec => []CallersAreTheListed
<1>1. ASSUME IInv PROVE CallersAreTheListed
  BY <1>1, ServingConfig, IdentityIsListed DEF CallersAreTheListed
<1>2. IInv => CallersAreTheListed
  BY <1>1
<1> QED
  BY <1>2, Invariance, PTL

(* The limiters of users and services count only requests whose origin is  *)
(* verified (router.go:60).                                                *)
THEOREM BudgetsProtected == Spec => []BudgetsOfTheVerified
<1>1. ASSUME IInv PROVE BudgetsOfTheVerified
  <2> SUFFICES ASSUME NEW r \in Replicas, NEW q \in Requests, Serving(r)
               PROVE  LET e == cfg[r]
                          counted == CountedBy(e, q, {})
                      IN  /\ ("user" \in counted /\ ~IsEmpty(e.gatewaySecret))
                                 => q.signedWith = e.gatewaySecret
                          /\ "service" \in counted => Listed(e, q)
                          /\ q.route \in {"healthz", "readyz"} => counted = {}
    BY DEF BudgetsOfTheVerified
  <2>1. CountedBy(cfg[r], q, {}) \subseteq Visited(cfg[r], q, {})
    BY DEF CountedBy
  <2>2. ASSUME "user" \in Visited(cfg[r], q, {}), ~IsEmpty(cfg[r].gatewaySecret)
        PROVE  q.signedWith = cfg[r].gatewaySecret
    BY <2>2, UserCounted DEF VerifyGatewaySignature
  <2>3. ASSUME "service" \in Visited(cfg[r], q, {})
        PROVE  Listed(cfg[r], q)
    BY <1>1, <2>3, ServingConfig, ServiceCounted, IdentityIsListed
  <2> QED
    BY <2>1, <2>2, <2>3, ProbesUncounted
<1>2. IInv => BudgetsOfTheVerified
  BY <1>1
<1> QED
  BY <1>2, Invariance, PTL

(* A replica that takes send requests has all its templates, whoever       *)
(* failed half-way before (seed.go:62).                                    *)
THEOREM SeededFirst == Spec => []SeededBeforeServing
<1>1. IInv => SeededBeforeServing
  BY TemplateCount DEF IInv, SeedProgress, SeededBeforeServing, Serving
<1> QED
  BY <1>1, Invariance, PTL

(* One row for each address, and one for every address that was told so    *)
(* (waitlist_store.go:28).                                                 *)
THEOREM SignupUnique == Spec => []OneRowPerSignup
<1>1. IInv => OneRowPerSignup
  BY DEF IInv
<1> QED
  BY <1>1, Invariance, PTL
=============================================================================
