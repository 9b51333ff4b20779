------------------------------ MODULE CommsSend ------------------------------
(***************************************************************************)
(* Service.Send run by many goroutines over one Postgres table.            *)
(*                                                                         *)
(* Workers are the goroutines that can be inside Send: the HTTP handler    *)
(* goroutines of POST /v1/comms/send ("Handlers") and, per replica, the    *)
(* single goroutine of the Redis consumer ("Consumers").  Redis pub/sub    *)
(* hands every event to every subscribed replica, so consumers race on the *)
(* same event as a matter of course.                                       *)
(*                                                                         *)
(* A worker is at one of these points (pc):                                *)
(*   idle      waiting for a request or an event                           *)
(*   reserve   before sendlog.Reserve's INSERT ... ON CONFLICT DO NOTHING  *)
(*   existing  the INSERT conflicted; before the SELECT of the row         *)
(*   compose   the key is claimed; before templates.Get and Render         *)
(*   dispatch  before the sender's Send                                    *)
(*   sending   the SMTP conversation is under way                          *)
(*   mark      before sendlog.MarkResult                                   *)
(*   reply     Send has returned; before the HTTP response or log line     *)
(*                                                                         *)
(* One database statement is one step.  A statement on a canceled context  *)
(* fails without effect; with "db" in Faults any statement may fail, and   *)
(* may do so after the server has applied it.                              *)
(*                                                                         *)
(* Four history variables remember what rows lose when they are purged.    *)
(* Row ids are the indices of "ledger" (the code draws UUIDs; only their   *)
(* being unique matters): entry i says by whom and when row i was claimed. *)
(* "outbox" is the sequence of the row ids whose message was handed to a   *)
(* sender, "accepted" the rows whose message a sender took, "faulted" the  *)
(* rows whose outcome a fault kept from being recorded.                    *)
(***************************************************************************)
EXTENDS CommsContract, Sequences

CONSTANTS
    Handlers, Consumers,  \* goroutines, see above
    Replicas, Home,       \* Home[w] is the process worker w runs in
    Requests,             \* bodies HTTP callers may post, any number of times
    Events,               \* events Redis may deliver, any number of times
    TemplateIds, VarNames,
    NoEvent, NoJob, NoRow,
    Retention,            \* sendlog.retentionInterval, and task db:gc's 30 days
    MaxStall,             \* bound on the time from freshness check to INSERT
    Faults,               \* subset of {"db", "cancel", "crash"}
    MaxTime               \* exploration bound on the clock

Workers == Handlers \cup Consumers

SendRequest == [channel : STRING, fieldsOK : BOOLEAN, template : TemplateIds,
                locale : STRING, vars : SUBSET VarNames,
                key : IdemKeys \cup {NoKey}]

(* A row of comms_send_log. *)
Row == [id : Nat, status : {"PENDING", "SENT", "FAILED"}, attempts : Nat,
        createdAt : Nat]

ASSUME CommsSendAssumption ==
    /\ Handlers \cap Consumers = {}
    /\ Home \in [Workers -> Replicas]
    /\ Requests \subseteq SendRequest
    /\ \A e \in Events : /\ e.data \in SendRequest
                         /\ e.id \in EventIds
                         /\ e.occurredAt \in Int
    /\ NoEvent \notin Events
    /\ NoRow \notin Row
    /\ Retention \in Nat
    /\ MaxStall \in Nat
    /\ Faults \subseteq {"db", "cancel", "crash"}
    /\ MaxTime \in Nat

VARIABLES
    now,      \* the clock of the replicas, of Postgres and of the purge job
    sendLog,  \* comms_send_log, by its UNIQUE idempotency_key
    ledger, outbox, accepted, faulted,  \* history, see above
    pc,       \* where each worker is
    job,      \* what it is sending
    rowId,    \* the id of the row it has claimed
    err,      \* class of the error of its compose or dispatch step, "" if none
    ctx,      \* its context: "live" or "done"
    res       \* what its Send returned

history == <<ledger, outbox, accepted, faulted>>

vars == <<now, sendLog, ledger, outbox, accepted, faulted, pc, job, rowId, err,
          ctx, res>>

(* A job: the request, the event it came from, and when that event passed  *)
(* the freshness check.                                                    *)
Jobs == [req : SendRequest, src : Events \cup {NoEvent}, since : Nat]

Claim == [key : IdemKeys, src : Events \cup {NoEvent}, at : Nat]

ErrorClasses == {"", "validation", "templateNotFound", "missingVar", "renderTooLarge",
                 "notIntegrated", "provider", "db", "rowNotFound"}

(* What Send, or the event handler's checks, end with. *)
Results == [code : {"", "ACCEPTED", "VALIDATION_ERROR", "PROVIDER_UNAVAILABLE",
                    "INTERNAL_ERROR", "malformed", "signature", "stale"},
            id : Nat, status : {"", "PENDING", "SENT", "FAILED"}, deduped : BOOLEAN]

Result(code, id, status, deduped) ==
    [code |-> code, id |-> id, status |-> status, deduped |-> deduped]

NoResult == Result("", 0, "", FALSE)

(* The points at which worker w alone answers for row rowId[w]. *)
Owns(w) == pc[w] \in {"compose", "dispatch", "sending", "mark"}

KeyOf(w) == job[w].req.key

Init ==
    /\ now = 0
    /\ sendLog = [k \in IdemKeys |-> NoRow]
    /\ ledger = <<>>
    /\ outbox = <<>>
    /\ accepted = {}
    /\ faulted = {}
    /\ pc = [w \in Workers |-> "idle"]
    /\ job = [w \in Workers |-> NoJob]
    /\ rowId = [w \in Workers |-> 0]
    /\ err = [w \in Workers |-> ""]
    /\ ctx = [w \in Workers |-> "live"]
    /\ res = [w \in Workers |-> NoResult]

-----------------------------------------------------------------------------
(* Goroutine w returns from Send, or from Handle without calling it. *)
Return(w, result) ==
    /\ pc' = [pc EXCEPT ![w] = "reply"]
    /\ res' = [res EXCEPT ![w] = result]

(* A statement of w can fail: its context is done, or the database is. *)
StatementFails(w) == ctx[w] = "done" \/ "db" \in Faults

(* Send from its entry to Reserve: validateRequest, then the INSERT is next. *)
EnterSend(w, req) ==
    IF validateRequest(req)
    THEN /\ pc' = [pc EXCEPT ![w] = "reserve"]
         /\ UNCHANGED res
    ELSE Return(w, Result(writeSendError("validation"), 0, "", FALSE))

(* POST /v1/comms/send reaches CommsHandler.Send. *)
HTTPSend(w, r) ==
    /\ pc[w] = "idle"
    /\ job' = [job EXCEPT ![w] = [req |-> r, src |-> NoEvent, since |-> 0]]
    /\ EnterSend(w, r)
    /\ UNCHANGED <<now, sendLog, history, rowId, err, ctx>>

(* Why Handle drops event e, "" if it does not. *)
DropReason(e) ==
    IF ~e.wellFormed THEN "malformed"
    ELSE IF ~VerifySendRequested(e) THEN "signature"
    ELSE IF ~IsSendRequestedFresh(e, now) THEN "stale"
    ELSE ""

(* The consumer loop takes a comms.send_requested message: EventHandler.Handle. *)
Deliver(w, e) ==
    /\ pc[w] = "idle"
    /\ ctx[w] = "live"
    /\ job' = [job EXCEPT ![w] = [req |-> ToSendRequest(e), src |-> e, since |-> now]]
    /\ IF DropReason(e) = ""
       THEN EnterSend(w, ToSendRequest(e))
       ELSE Return(w, Result(DropReason(e), 0, "", FALSE))
    /\ UNCHANGED <<now, sendLog, history, rowId, err, ctx>>

-----------------------------------------------------------------------------
(* The row Reserve inserts. *)
Insert(w) ==
    /\ sendLog' = [sendLog EXCEPT ![KeyOf(w)] =
                      [id |-> Len(ledger) + 1, status |-> "PENDING",
                       attempts |-> 0, createdAt |-> now]]
    /\ ledger' = Append(ledger, [key |-> KeyOf(w), src |-> job[w].src, at |-> now])

(* A mutant: ON CONFLICT DO UPDATE: a taken key is claimed all the same. *)
ReserveOverwrites(w) ==
    /\ pc[w] = "reserve"
    /\ ctx[w] = "live"
    /\ Insert(w)
    /\ rowId' = [rowId EXCEPT ![w] = Len(ledger) + 1]
    /\ pc' = [pc EXCEPT ![w] = "compose"]
    /\ UNCHANGED <<now, outbox, accepted, faulted, job, err, ctx, res>>

(* The INSERT affected one row: this worker has claimed the key. *)
ReserveClaims(w) ==
    /\ pc[w] = "reserve"
    /\ ctx[w] = "live"
    /\ sendLog[KeyOf(w)] = NoRow
    /\ Insert(w)
    /\ rowId' = [rowId EXCEPT ![w] = Len(ledger) + 1]
    /\ pc' = [pc EXCEPT ![w] = "compose"]
    /\ UNCHANGED <<now, outbox, accepted, faulted, job, err, ctx, res>>

(* ON CONFLICT DO NOTHING: the key was taken, the row is read next. *)
ReserveConflicts(w) ==
    /\ pc[w] = "reserve"
    /\ ctx[w] = "live"
    /\ sendLog[KeyOf(w)] # NoRow
    /\ pc' = [pc EXCEPT ![w] = "existing"]
    /\ UNCHANGED <<now, sendLog, history, job, rowId, err, ctx, res>>

(* The INSERT reports an error; the row may have been committed all the same. *)
ReserveFails(w) ==
    /\ pc[w] = "reserve"
    /\ \/ /\ StatementFails(w)
          /\ UNCHANGED <<sendLog, ledger, faulted>>
       \/ /\ ctx[w] = "live"
          /\ "db" \in Faults
          /\ sendLog[KeyOf(w)] = NoRow
          /\ Insert(w)
          /\ faulted' = faulted \cup {Len(ledger) + 1}
    /\ Return(w, Result(writeSendError("db"), 0, "", FALSE))
    /\ UNCHANGED <<now, outbox, accepted, job, rowId, err, ctx>>

(* A mutant: a duplicate is answered SENT without looking at the row. *)
LoadExistingAssumesSent(w) ==
    /\ pc[w] = "existing"
    /\ ctx[w] = "live"
    /\ sendLog[KeyOf(w)] # NoRow
    /\ Return(w, Result("ACCEPTED", sendLog[KeyOf(w)].id, "SENT", TRUE))
    /\ UNCHANGED <<now, sendLog, history, job, rowId, err, ctx>>

(* getByIdempotencyKey: a dedup hit, or errRowNotFound if a purge came first. *)
LoadExisting(w) ==
    /\ pc[w] = "existing"
    /\ ctx[w] = "live"
    /\ LET row == sendLog[KeyOf(w)]
       IN  Return(w, IF row = NoRow
                     THEN Result(writeSendError("rowNotFound"), 0, "", FALSE)
                     ELSE Result("ACCEPTED", row.id, row.status, TRUE))
    /\ UNCHANGED <<now, sendLog, history, job, rowId, err, ctx>>

LoadExistingFails(w) ==
    /\ pc[w] = "existing"
    /\ StatementFails(w)
    /\ Return(w, Result(writeSendError("db"), 0, "", FALSE))
    /\ UNCHANGED <<now, sendLog, history, job, rowId, err, ctx>>

-----------------------------------------------------------------------------
(* A mutant: a template or render error returns without markFailed. *)
ComposeForgetsToMark(w) ==
    /\ pc[w] = "compose"
    /\ ctx[w] = "live"
    /\ LET e == ComposeError(job[w].req)
       IN  IF e = "" THEN /\ pc' = [pc EXCEPT ![w] = "dispatch"]
                          /\ UNCHANGED res
                     ELSE Return(w, Result(writeSendError(e), 0, "", FALSE))
    /\ UNCHANGED <<now, sendLog, history, job, rowId, err, ctx>>

(* templates.Get and Render; an error goes to markFailed. *)
Compose(w) ==
    /\ pc[w] = "compose"
    /\ ctx[w] = "live"
    /\ err' = [err EXCEPT ![w] = ComposeError(job[w].req)]
    /\ pc' = [pc EXCEPT ![w] = IF ComposeError(job[w].req) = "" THEN "dispatch"
                                                               ELSE "mark"]
    /\ UNCHANGED <<now, sendLog, history, job, rowId, ctx, res>>

ComposeFails(w) ==
    /\ pc[w] = "compose"
    /\ StatementFails(w)
    /\ err' = [err EXCEPT ![w] = "db"]
    /\ pc' = [pc EXCEPT ![w] = "mark"]
    /\ UNCHANGED <<now, sendLog, history, job, rowId, ctx, res>>

(* The channel has no working sender: ErrProviderNotIntegrated. *)
DispatchUnavailable(w) ==
    /\ pc[w] = "dispatch"
    /\ SenderOf(job[w].req.channel) = "notIntegrated"
    /\ err' = [err EXCEPT ![w] = "notIntegrated"]
    /\ pc' = [pc EXCEPT ![w] = "mark"]
    /\ UNCHANGED <<now, sendLog, history, job, rowId, ctx, res>>

(* DevLogSender and StubSender log a line and return nil, whatever ctx is. *)
DispatchDev(w) ==
    /\ pc[w] = "dispatch"
    /\ SenderOf(job[w].req.channel) = "dev"
    /\ outbox' = Append(outbox, rowId[w])
    /\ accepted' = accepted \cup {rowId[w]}
    /\ pc' = [pc EXCEPT ![w] = "mark"]
    /\ UNCHANGED <<now, sendLog, ledger, faulted, job, rowId, err, ctx, res>>

(* SMTPSender.Send opens the SMTP conversation. *)
DispatchSMTP(w) ==
    /\ pc[w] = "dispatch"
    /\ SenderOf(job[w].req.channel) = "smtp"
    /\ outbox' = Append(outbox, rowId[w])
    /\ pc' = [pc EXCEPT ![w] = "sending"]
    /\ UNCHANGED <<now, sendLog, ledger, accepted, faulted, job, rowId, err, ctx, res>>

ProviderAccepts(w) ==
    /\ pc[w] = "sending"
    /\ accepted' = accepted \cup {rowId[w]}
    /\ pc' = [pc EXCEPT ![w] = "mark"]
    /\ UNCHANGED <<now, sendLog, ledger, outbox, faulted, job, rowId, err, ctx, res>>

(* A mutant: a failed conversation is tried once more. *)
ProviderFailureRetried(w) ==
    /\ pc[w] = "sending"
    /\ accepted' \in {accepted, accepted \cup {rowId[w]}}
    /\ pc' = [pc EXCEPT ![w] = "dispatch"]
    /\ UNCHANGED <<now, sendLog, ledger, outbox, faulted, job, rowId, err, ctx, res>>

(* A mutant: nothing bounds the conversation. *)
ProviderNeverFails(w) == pc[w] = "sending" /\ FALSE /\ UNCHANGED vars

(* An SMTP error, the send timeout or a canceled context.  The server may  *)
(* have taken the message before the conversation broke off.               *)
ProviderFails(w) ==
    /\ pc[w] = "sending"
    /\ accepted' \in {accepted, accepted \cup {rowId[w]}}
    /\ err' = [err EXCEPT ![w] = "provider"]
    /\ pc' = [pc EXCEPT ![w] = "mark"]
    /\ UNCHANGED <<now, sendLog, ledger, outbox, faulted, job, rowId, ctx, res>>

-----------------------------------------------------------------------------
(* A mutant: the error of the send is not looked at. *)
StatusAlwaysSent(w) == "SENT"

(* A mutant: a failure is recorded with a status Send never uses. *)
StatusDead(w) == IF err[w] = "" THEN "SENT" ELSE "DEAD"

(* The terminal status Send records. *)
FinalStatus(w) == IF err[w] = "" THEN "SENT" ELSE "FAILED"

(* The row as the UPDATE of MarkResult leaves it. *)
Marked(row, status) ==
    [id |-> row.id, status |-> status, attempts |-> row.attempts + 1,
     createdAt |-> row.createdAt]

(* A mutant: UPDATE ... WHERE idempotency_key instead of WHERE id. *)
UpdateRowByKey(w) ==
    sendLog' = [k \in IdemKeys |->
                  IF sendLog[k] # NoRow /\ k = KeyOf(w)
                  THEN Marked(sendLog[k], FinalStatus(w))
                  ELSE sendLog[k]]

(* UPDATE comms_send_log ... WHERE id: nothing happens if the row is gone. *)
UpdateRow(w) ==
    sendLog' = [k \in IdemKeys |->
                  IF sendLog[k] # NoRow /\ sendLog[k].id = rowId[w]
                  THEN Marked(sendLog[k], FinalStatus(w))
                  ELSE sendLog[k]]

(* What Send returns once the result is recorded, or recording it failed:  *)
(* an error before dispatch comes with the zero SendResult, one of the     *)
(* sender with the row's id and FAILED.                                    *)
Outcome(w) ==
    IF err[w] = "" THEN Result("ACCEPTED", rowId[w], FinalStatus(w), FALSE)
    ELSE IF err[w] \in {"notIntegrated", "provider"}
         THEN Result(writeSendError(err[w]), rowId[w], FinalStatus(w), FALSE)
         ELSE Result(writeSendError(err[w]), 0, "", FALSE)

ReturnOutcome(w) ==
    /\ Return(w, Outcome(w))
    /\ rowId' = [rowId EXCEPT ![w] = 0]
    /\ err' = [err EXCEPT ![w] = ""]

(* A mutant: only successes are recorded. *)
MarkSuccessOnly(w) ==
    /\ pc[w] = "mark"
    /\ ctx[w] = "live"
    /\ IF err[w] = "" THEN UpdateRow(w) ELSE UNCHANGED sendLog
    /\ ReturnOutcome(w)
    /\ UNCHANGED <<now, history, job, ctx>>

MarkResult(w) ==
    /\ pc[w] = "mark"
    /\ ctx[w] = "live"
    /\ UpdateRow(w)
    /\ ReturnOutcome(w)
    /\ UNCHANGED <<now, history, job, ctx>>

(* A mutant: recording the result is tried until it succeeds. *)
MarkRetriedForever(w) == pc[w] = "mark" /\ StatementFails(w) /\ UNCHANGED vars

(* The UPDATE reports an error, applied or not; Send logs it and returns   *)
(* as if it had been recorded.                                             *)
MarkResultFails(w) ==
    /\ pc[w] = "mark"
    /\ \/ /\ StatementFails(w)
          /\ faulted' = faulted \cup {rowId[w]}
          /\ UNCHANGED sendLog
       \/ /\ ctx[w] = "live"
          /\ "db" \in Faults
          /\ UpdateRow(w)
          /\ UNCHANGED faulted
    /\ ReturnOutcome(w)
    /\ UNCHANGED <<now, ledger, outbox, accepted, job, ctx>>

(* The handler answers, or the event handler logs; an HTTP request's       *)
(* context ends with it, the consumer's lives on.                          *)
Reply(w) ==
    /\ pc[w] = "reply"
    /\ pc' = [pc EXCEPT ![w] = "idle"]
    /\ job' = [job EXCEPT ![w] = NoJob]
    /\ res' = [res EXCEPT ![w] = NoResult]
    /\ ctx' = IF w \in Handlers THEN [ctx EXCEPT ![w] = "live"] ELSE ctx
    /\ UNCHANGED <<now, sendLog, history, rowId, err>>

-----------------------------------------------------------------------------
(* The client disconnects, or run() calls consumerCancel on shutdown. *)
Cancel(w) ==
    /\ "cancel" \in Faults
    /\ pc[w] \notin {"idle", "reply"}
    /\ ctx[w] = "live"
    /\ ctx' = [ctx EXCEPT ![w] = "done"]
    /\ UNCHANGED <<now, sendLog, history, pc, job, rowId, err, res>>

(* A replica dies (or exits without waiting for its consumer) and is       *)
(* started again.  Only the database survives.                             *)
Crash(r) ==
    LET dead == {w \in Workers : Home[w] = r}
    IN  /\ "crash" \in Faults
        /\ \E w \in dead : pc[w] # "idle" \/ ctx[w] = "done"
        /\ faulted' = faulted \cup {rowId[w] : w \in {v \in dead : Owns(v)}}
        /\ pc' = [w \in Workers |-> IF w \in dead THEN "idle" ELSE pc[w]]
        /\ job' = [w \in Workers |-> IF w \in dead THEN NoJob ELSE job[w]]
        /\ rowId' = [w \in Workers |-> IF w \in dead THEN 0 ELSE rowId[w]]
        /\ err' = [w \in Workers |-> IF w \in dead THEN "" ELSE err[w]]
        /\ ctx' = [w \in Workers |-> IF w \in dead THEN "live" ELSE ctx[w]]
        /\ res' = [w \in Workers |-> IF w \in dead THEN NoResult ELSE res[w]]
        /\ UNCHANGED <<now, sendLog, ledger, outbox, accepted>>

(* A mutant: created_at <= cutoff. *)
ExpiredInclusive(row) == row.createdAt <= now - Retention

Expired(row) == row.createdAt < now - Retention

(* The send_log DELETE of PurgeExpired and of task db:gc, in one statement. *)
Purge ==
    /\ \E k \in IdemKeys : sendLog[k] # NoRow /\ Expired(sendLog[k])
    /\ sendLog' = [k \in IdemKeys |->
                     IF sendLog[k] # NoRow /\ Expired(sendLog[k]) THEN NoRow
                                                                  ELSE sendLog[k]]
    /\ UNCHANGED <<now, history, pc, job, rowId, err, ctx, res>>

(* Time passes; an event that passed the freshness check is inserted       *)
(* within MaxStall.                                                        *)
Tick ==
    /\ now < MaxTime
    /\ \A w \in Consumers : pc[w] = "reserve" => now - job[w].since < MaxStall
    /\ now' = now + 1
    /\ UNCHANGED <<sendLog, history, pc, job, rowId, err, ctx, res>>

-----------------------------------------------------------------------------
(* Steps a worker takes without waiting for a provider. *)
Step(w) ==
    \/ ReserveClaims(w) \/ ReserveConflicts(w) \/ ReserveFails(w)
    \/ LoadExisting(w) \/ LoadExistingFails(w)
    \/ Compose(w) \/ ComposeFails(w)
    \/ DispatchUnavailable(w) \/ DispatchDev(w) \/ DispatchSMTP(w)
    \/ MarkResult(w) \/ MarkResultFails(w)
    \/ Reply(w)

Next ==
    \/ \E w \in Handlers, r \in Requests : HTTPSend(w, r)
    \/ \E w \in Consumers, e \in Events : Deliver(w, e)
    \/ \E w \in Workers : Step(w)
    \/ \E w \in Workers : ProviderAccepts(w) \/ ProviderFails(w)
    \/ \E w \in Workers : Cancel(w)
    \/ \E r \in Replicas : Crash(r)
    \/ Purge
    \/ Tick

Spec == Init /\ [][Next]_vars

(* Running goroutines are scheduled and database calls end.  Of the        *)
(* provider nothing is assumed: a silent one is cut off by the send        *)
(* timeout, so it is ProviderFails that is fair.                           *)
Fairness ==
    \A w \in Workers : WF_vars(Step(w)) /\ WF_vars(ProviderFails(w))

FairSpec == Spec /\ Fairness

-----------------------------------------------------------------------------
(* The type invariant of the module's state. *)
TypeOK ==
    /\ now \in Nat
    /\ sendLog \in [IdemKeys -> Row \cup {NoRow}]
    /\ ledger \in Seq(Claim)
    /\ outbox \in Seq(Nat)
    /\ accepted \in SUBSET Nat
    /\ faulted \in SUBSET Nat
    /\ pc \in [Workers -> {"idle", "reserve", "existing", "compose", "dispatch",
                           "sending", "mark", "reply"}]
    /\ job \in [Workers -> Jobs \cup {NoJob}]
    /\ \A w \in Workers : pc[w] # "idle" => job[w] \in Jobs
    /\ rowId \in [Workers -> Nat]
    /\ err \in [Workers -> ErrorClasses]
    /\ ctx \in [Workers -> {"live", "done"}]
    /\ res \in [Workers -> Results]

(* No send_log row ever leads to two calls of a sender: concurrent         *)
(* duplicates, retries of callers, crashes and late failures included.     *)
OneCallPerRow ==
    \A m, n \in DOMAIN outbox : outbox[m] = outbox[n] => m = n

(* The idempotency promise of Reserve: two calls of a sender for one key   *)
(* come from rows claimed more than the retention period apart.            *)
CallsOfAKeyAreSpaced ==
    \A m, n \in DOMAIN outbox :
        LET first  == ledger[outbox[m]]
            second == ledger[outbox[n]]
        IN  (outbox[m] < outbox[n] /\ first.key = second.key)
                => second.at > first.at + Retention

(* The replay guard of EventHandler.Handle: however often an event is      *)
(* delivered, to however many replicas, before and after its row is        *)
(* purged, it claims at most one row.                                      *)
EventSentOnce ==
    \A i, j \in DOMAIN ledger :
        (ledger[i].src # NoEvent /\ ledger[i].src = ledger[j].src) => i = j

(* A row says SENT only if a sender took the message. *)
SentMeansAccepted ==
    \A k \in IdemKeys :
        (sendLog[k] # NoRow /\ sendLog[k].status = "SENT")
            => sendLog[k].id \in accepted

(* A 202 with status SENT, deduped or not, answers for a row of the        *)
(* caller's own key whose message a sender took.                           *)
SentReplyIsTrue ==
    \A w \in Workers :
        (pc[w] = "reply" /\ res[w].status = "SENT")
            => /\ res[w].id \in DOMAIN ledger
               /\ ledger[res[w].id].key = KeyOf(w)
               /\ res[w].id \in accepted

(* A row still PENDING is in the hands of exactly one worker, or a fault   *)
(* (crash, canceled context, database error) kept its outcome out.         *)
PendingIsAccountedFor ==
    \A k \in IdemKeys :
        (sendLog[k] # NoRow /\ sendLog[k].status = "PENDING")
            => \/ sendLog[k].id \in faulted
               \/ \E w \in Workers : /\ Owns(w)
                                     /\ rowId[w] = sendLog[k].id
                                     /\ \A v \in Workers \ {w} :
                                           Owns(v) => rowId[v] # rowId[w]

(* MarkResult is final: while a row exists, a terminal status and its      *)
(* attempt count never change, also not by a slow worker whose own row was *)
(* purged and whose key was claimed anew.                                  *)
TerminalIsFinal ==
    [][\A k \in IdemKeys :
          (sendLog[k] # NoRow /\ sendLog[k].status # "PENDING"
             /\ sendLog'[k] # NoRow /\ sendLog'[k].id = sendLog[k].id)
               => sendLog'[k] = sendLog[k]]_vars

(* The promise of SendOnce, in terms of rows: a claim is an entry of the   *)
(* ledger, a row is the claim that holds its key, and a row still PENDING  *)
(* has no outcome.                                                         *)
ClaimsMade == [i \in DOMAIN ledger |-> [key |-> ledger[i].key, at |-> ledger[i].at]]

Holder == [k \in IdemKeys |-> IF sendLog[k] = NoRow THEN 0 ELSE sendLog[k].id]

Recorded ==
    [k \in IdemKeys |-> IF sendLog[k] = NoRow \/ sendLog[k].status = "PENDING"
                        THEN "" ELSE sendLog[k].status]

Promise ==
    INSTANCE SendOnce WITH
        Keys    <- IdemKeys,
        claims  <- ClaimsMade,
        holder  <- Holder,
        outcome <- Recorded,
        calls   <- outbox,
        taken   <- accepted

(* Service.Send with all its replicas, statements, faults and purges       *)
(* implements SendOnce: every step is a step of the promise or changes     *)
(* nothing of it.                                                          *)
KeepsPromise == Promise!Spec

(* Every call of Send returns, also when the provider never answers. *)
SendReturns == \A w \in Workers : pc[w] # "idle" ~> pc[w] = "idle"

(* A reserved row does not stay PENDING unless a fault hit its worker. *)
AttemptConcludes ==
    \A k \in IdemKeys :
        LET open == /\ sendLog[k] # NoRow
                    /\ sendLog[k].status = "PENDING"
                    /\ sendLog[k].id \notin faulted
        IN  open ~> ~open

-----------------------------------------------------------------------------
(***************************************************************************)
(* What comments and tests of the repository say of the send path and the  *)
(* code does not do; each is refuted by a run of its own.                  *)
(***************************************************************************)

(* service_test.go:193: "Any failure AFTER reservation must be recorded as *)
(* FAILED in send_log."                                                    *)
FailureRecorded ==
    \A w \in Workers, k \in IdemKeys :
        (/\ pc[w] = "reply" /\ res[w].status = "FAILED" /\ ~res[w].deduped
         /\ sendLog[k] # NoRow /\ sendLog[k].id = res[w].id)
            => sendLog[k].status = "FAILED"
=============================================================================
