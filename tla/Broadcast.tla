----------------------------- MODULE Broadcast -----------------------------
(***************************************************************************)
(* The life of a broadcast: the campaign endpoints of the API process that *)
(* write its row, the scheduler and the consumer of the worker process, the *)
(* RabbitMQ queue `broadcast.send` between them, and what LINE delivers.    *)
(*                                                                         *)
(* Every awaited call is a step of its own.  A request that a guard rejects *)
(* changes nothing, so it is a stuttering step and has no action.          *)
(***************************************************************************)
EXTENDS Naturals, Sequences, FiniteSets

CONSTANTS
  Broadcasts,   \* broadcast ids
  NoBroadcast,  \* the id of an idle handler, scheduler or request
  Requests,     \* calls of the campaign endpoints; each is made at most once
  Recipients,   \* followers of the LINE account
  Handlers,     \* runs of handleMessage that can overlap in the worker
  FreeStatuses, \* strings that users can write as a status, beside those of the program
  UpdateDtos,   \* status and scheduledFor of the bodies update() can get
  BatchSize,    \* MULTICAST_BATCH_SIZE (500) or PUSH_CONCURRENCY (10)
  MaxFaults     \* bound on the faults of the environment in one behaviour

ASSUME NoBroadcastAssumption == NoBroadcast \notin Broadcasts
ASSUME RecipientsAssumption  == IsFiniteSet(Recipients)
ASSUME BoundsAssumption      == BatchSize \in Nat \ {0} /\ MaxFaults \in Nat

VARIABLES
  status,   \* status of each row; "unborn" before create, "deleted" after remove
  due,      \* scheduledFor, relative to the clock
  tally,    \* messageCount, successCount and failureCount
  sentLog,  \* recipients with a broadcast_logs row of status "sent"
  request,  \* the campaign requests of the API process
  queue,    \* messages of broadcast.send that are ready for delivery
  sched,    \* BroadcastSchedulerService
  handler,  \* runs of BroadcastConsumerService.handleMessage
  reached,  \* how often LINE delivered a broadcast to a follower
  faults,   \* faults of the environment so far
  asked,    \* history: sendings the users asked for
  extra,    \* history: messages the broker delivers beyond those published
  dropped   \* history: broadcasts of which a message or a final status was lost

rows    == <<status, due, tally, sentLog>>
history == <<asked, extra, dropped>>
vars    == <<rows, request, queue, sched, handler, reached, faults, history>>

Statuses  == {"draft", "scheduled", "processing", "completed", "failed"}
Editable  == {"draft", "scheduled"}

(* What the column of a row that exists can hold: update() writes any string. *)
Stored    == Statuses \cup FreeStatuses
NotStored == {"unborn", "deleted", "keep"}

(* "unborn", "deleted" and "keep" are marks of this module, not strings. *)
ASSUME FreeStatusesAssumption == FreeStatuses \cap NotStored = {}

RowStates == Stored \cup {"unborn", "deleted"}
DueTimes  == {"none", "future", "past"}
Modes     == {"broadcast", "multicast", "push"}

(* The bodies of update(): the DTO of create() lists the status values, that of *)
(* update() takes any string.  "keep": not in the body.                        *)
Dtos == [status : Stored \cup {"keep"}, due : DueTimes \cup {"keep"}]

ASSUME DtosAssumption == UpdateDtos \subseteq Dtos

Exists(b) == status[b] \in Stored

NoTally == [total |-> 0, success |-> 0, failure |-> 0]

(* A request that is at point pc with broadcast b. *)
RequestAt(pc, b) == [pc |-> pc, b |-> b, status |-> "keep", due |-> "keep"]

IdleSched == [pc |-> "idle", todo |-> {}, b |-> NoBroadcast]

(* What a handler keeps while it sends. *)
Work(mode, targets, pending, ok, bad) ==
  [mode |-> mode, targets |-> targets, pending |-> pending, ok |-> ok, bad |-> bad]

NoWork == Work("broadcast", {}, {}, {}, {})
Idle   == [pc |-> "idle", b |-> NoBroadcast, live |-> FALSE, work |-> NoWork]

RequestPc == {"new", "update", "remove", "sendNow", "enqueue", "done"}
SchedPc   == {"idle", "claim", "publish"}
HandlerPc == {"idle", "load", "send", "log", "save", "ack", "mark", "giveUp"}

RowsOK ==
  /\ status  \in [Broadcasts -> RowStates]
  /\ due     \in [Broadcasts -> DueTimes]
  /\ tally   \in [Broadcasts -> [total : Nat, success : Nat, failure : Nat]]
  /\ sentLog \in [Broadcasts -> SUBSET Recipients]

RequestsOK ==
  /\ request \in [Requests -> [pc     : RequestPc,
                               b      : Broadcasts \cup {NoBroadcast},
                               status : Stored \cup {"keep"},
                               due    : DueTimes \cup {"keep"}]]
  /\ \A q \in Requests :
       request[q].pc \in RequestPc \ {"new", "done"} => request[q].b \in Broadcasts

SchedOK ==
  /\ sched \in [pc   : SchedPc,
                todo : SUBSET Broadcasts,
                b    : Broadcasts \cup {NoBroadcast}]
  /\ sched.pc = "publish" => sched.b \in Broadcasts

WorkType ==
  [mode : Modes, targets : SUBSET Recipients, pending : SUBSET Recipients,
   ok : SUBSET Recipients, bad : SUBSET Recipients]

HandlersOK ==
  /\ handler \in [Handlers -> [pc   : HandlerPc,
                               b    : Broadcasts \cup {NoBroadcast},
                               live : BOOLEAN,
                               work : WorkType]]
  /\ \A h \in Handlers : handler[h].pc # "idle" => handler[h].b \in Broadcasts
  /\ \A h \in Handlers : handler[h].live => handler[h].pc # "idle"

HistoryOK ==
  /\ reached \in [Broadcasts -> [Recipients -> Nat]]
  /\ faults  \in 0..MaxFaults
  /\ asked   \in [Broadcasts -> Nat]
  /\ extra   \in [Broadcasts -> Nat]
  /\ dropped \subseteq Broadcasts

(* The type invariant: every variable keeps to its range, and whoever is in    *)
(* the middle of something (a request, the scheduler about to publish, a       *)
(* handler) knows its broadcast.  A row has a status of the program or a       *)
(* string that a user wrote with update(), never one of another vocabulary     *)
(* that the program itself put there.                                          *)
TypeOK ==
  /\ RowsOK
  /\ RequestsOK
  /\ queue \in Seq(Broadcasts)
  /\ SchedOK
  /\ HandlersOK
  /\ HistoryOK

Init ==
  /\ status  = [b \in Broadcasts |-> "unborn"]
  /\ due     = [b \in Broadcasts |-> "none"]
  /\ tally   = [b \in Broadcasts |-> NoTally]
  /\ sentLog = [b \in Broadcasts |-> {}]
  /\ request = [q \in Requests |-> RequestAt("new", NoBroadcast)]
  /\ queue   = <<>>
  /\ sched   = IdleSched
  /\ handler = [h \in Handlers |-> Idle]
  /\ reached = [b \in Broadcasts |-> [r \in Recipients |-> 0]]
  /\ faults  = 0
  /\ asked   = [b \in Broadcasts |-> 0]
  /\ extra   = [b \in Broadcasts |-> 0]
  /\ dropped = {}

(* One more fault of the environment: a call that fails, a connection or a  *)
(* process that goes down.                                                  *)
Fault == faults < MaxFaults /\ faults' = faults + 1

(* Writing status s asks for a sending, unless it only takes over a schedule *)
(* that is still open.                                                       *)
Asks(b, s) == s \in {"scheduled", "processing"} /\ status[b] # "scheduled"

AskedAfter(b, s) == IF Asks(b, s) THEN [asked EXCEPT ![b] = @ + 1] ELSE asked

-----------------------------------------------------------------------------
(* The queue.  enqueue() waits for the broker's confirm.  A confirm lost with *)
(* the connection makes the client publish again: the message is there twice. *)

Publish(b) ==
  \/ /\ queue' = Append(queue, b)
     /\ UNCHANGED <<faults, extra>>
  \/ /\ Fault
     /\ queue' = Append(Append(queue, b), b)
     /\ extra' = [extra EXCEPT ![b] = @ + 1]

(* enqueue() rejects: no AMQP_URL, or the channel was closed by a shutdown. *)
PublishFails(b) ==
  /\ Fault
  /\ dropped' = dropped \cup {b}
  /\ UNCHANGED <<queue, extra>>

-----------------------------------------------------------------------------
(* CampaignsService, in the API process.  Requests check the row they read   *)
(* and later write it by id alone.                                           *)

Finished == RequestAt("done", NoBroadcast)

(* What a request still has to do once the row of b has status s. *)
ThenEnqueue(b, s) == IF s = "processing" THEN RequestAt("enqueue", b) ELSE Finished

(* create(): a scheduled broadcast needs a time in the future. *)
Create(q) == \E b \in Broadcasts, s \in Editable \cup {"processing"}, d \in DueTimes :
  /\ request[q].pc = "new"
  /\ status[b] = "unborn"
  /\ s = "scheduled" => d = "future"
  /\ status'  = [status EXCEPT ![b] = s]
  /\ due'     = [due EXCEPT ![b] = d]
  /\ asked'   = AskedAfter(b, s)
  /\ request' = [request EXCEPT ![q] = ThenEnqueue(b, s)]
  /\ UNCHANGED <<tally, sentLog, queue, sched, handler, reached, faults, extra, dropped>>

(* update(), the findOne() and the checks on what it returned.               *)
UpdateRead(q) == \E b \in Broadcasts, dto \in UpdateDtos :
  /\ request[q].pc = "new"
  /\ status[b] \in Editable
  /\ dto.status = "scheduled" => dto.due \notin {"keep", "none"}
  /\ request' = [request EXCEPT ![q] = [pc |-> "update", b |-> b,
                                       status |-> dto.status, due |-> dto.due]]
  /\ UNCHANGED <<rows, queue, sched, handler, reached, faults, history>>

UpdateWrite(q) == LET b == request[q].b  s == request[q].status  d == request[q].due IN
  /\ request[q].pc = "update"
  /\ IF Exists(b)
       THEN /\ status'  = IF s = "keep" THEN status ELSE [status EXCEPT ![b] = s]
            /\ due'     = IF d = "keep" THEN due ELSE [due EXCEPT ![b] = d]
            /\ asked'   = AskedAfter(b, s)
            /\ request' = [request EXCEPT ![q] = ThenEnqueue(b, s)]
       ELSE /\ request' = [request EXCEPT ![q] = Finished]
            /\ UNCHANGED <<status, due, asked>>
  /\ UNCHANGED <<tally, sentLog, queue, sched, handler, reached, faults, extra, dropped>>

(* remove(): the delete cascades to the logs. *)
RemoveRead(q) == \E b \in Broadcasts :
  /\ request[q].pc = "new"
  /\ status[b] \in Editable
  /\ request' = [request EXCEPT ![q] = RequestAt("remove", b)]
  /\ UNCHANGED <<rows, queue, sched, handler, reached, faults, history>>

RemoveWrite(q) == LET b == request[q].b IN
  /\ request[q].pc = "remove"
  /\ request' = [request EXCEPT ![q] = Finished]
  /\ IF Exists(b)
       THEN /\ status'  = [status EXCEPT ![b] = "deleted"]
            /\ due'     = [due EXCEPT ![b] = "none"]
            /\ tally'   = [tally EXCEPT ![b] = NoTally]
            /\ sentLog' = [sentLog EXCEPT ![b] = {}]
       ELSE UNCHANGED rows
  /\ UNCHANGED <<queue, sched, handler, reached, faults, history>>

(* sendNow(): only a completed broadcast is refused. *)
SendNowRead(q) == \E b \in Broadcasts :
  /\ request[q].pc = "new"
  /\ Exists(b) /\ status[b] # "completed"
  /\ request' = [request EXCEPT ![q] = RequestAt("sendNow", b)]
  /\ UNCHANGED <<rows, queue, sched, handler, reached, faults, history>>

SendNowWrite(q) == LET b == request[q].b IN
  /\ request[q].pc = "sendNow"
  /\ IF Exists(b)
       THEN /\ status'  = [status EXCEPT ![b] = "processing"]
            /\ due'     = [due EXCEPT ![b] = "none"]
            /\ asked'   = AskedAfter(b, "processing")
            /\ request' = [request EXCEPT ![q] = ThenEnqueue(b, "processing")]
       ELSE /\ request' = [request EXCEPT ![q] = Finished]
            /\ UNCHANGED <<status, due, asked>>
  /\ UNCHANGED <<tally, sentLog, queue, sched, handler, reached, faults, extra, dropped>>

(* queueBroadcast(): the row already says processing. *)
QueueBroadcast(q) ==
  /\ request[q].pc = "enqueue"
  /\ request' = [request EXCEPT ![q] = Finished]
  /\ \/ Publish(request[q].b) /\ UNCHANGED dropped
     \/ PublishFails(request[q].b)
  /\ UNCHANGED <<rows, sched, handler, reached, asked>>

(* The API process dies: its requests end where they are. *)
ApiCrash ==
  /\ Fault
  /\ \E q \in Requests : request[q].pc \notin {"new", "done"}
  /\ request' = [q \in Requests |-> IF request[q].pc = "new" THEN request[q]
                                    ELSE Finished]
  /\ dropped' = dropped \cup {request[q].b : q \in {p \in Requests : request[p].pc = "enqueue"}}
  /\ UNCHANGED <<rows, queue, sched, handler, reached, asked, extra>>

-----------------------------------------------------------------------------
(* BroadcastSchedulerService, in the worker process.  `processing` is set     *)
(* exactly while sched.pc # "idle".                                           *)

Due(b) == status[b] = "scheduled" /\ due[b] = "past"

(* The clock reaches the scheduledFor of b. *)
TimePasses(b) ==
  /\ due[b] = "future"
  /\ due' = [due EXCEPT ![b] = "past"]
  /\ UNCHANGED <<status, tally, sentLog, request, queue, sched, handler, reached, faults, history>>

(* The findMany of pollScheduledBroadcasts(). *)
Poll ==
  /\ sched.pc = "idle"
  /\ \E b \in Broadcasts : Due(b)
  /\ sched' = [pc |-> "claim", todo |-> {b \in Broadcasts : Due(b)}, b |-> NoBroadcast]
  /\ UNCHANGED <<rows, request, queue, handler, reached, faults, history>>

(* Faulty form: the update matches by id alone. *)
FaultyClaimable(b) == Exists(b)

(* The condition of the update's where clause. *)
Claimable(b) == status[b] = "scheduled"

(* One turn of the loop, up to the update.  An update that matches no row, or *)
(* that fails, is caught and the loop goes on.                                *)
Claim == \E b \in sched.todo :
  /\ sched.pc = "claim"
  /\ \/ /\ Claimable(b)
        /\ status' = [status EXCEPT ![b] = "processing"]
        /\ sched'  = [pc |-> "publish", todo |-> sched.todo \ {b}, b |-> b]
        /\ UNCHANGED faults
     \/ /\ IF Claimable(b) THEN Fault ELSE UNCHANGED faults
        /\ sched'  = [sched EXCEPT !.todo = @ \ {b}]
        /\ UNCHANGED status
  /\ UNCHANGED <<due, tally, sentLog, request, queue, handler, reached, history>>

(* The enqueue of the turn; a rejection is caught as well. *)
PublishClaimed ==
  /\ sched.pc = "publish"
  /\ sched' = [pc |-> "claim", todo |-> sched.todo, b |-> NoBroadcast]
  /\ \/ Publish(sched.b) /\ UNCHANGED dropped
     \/ PublishFails(sched.b)
  /\ UNCHANGED <<rows, request, handler, reached, asked>>

(* Faulty form: `processing` is not reset. *)
FaultyPollEnd == sched.pc = "claim" /\ sched.todo = {} /\ UNCHANGED vars

PollEnd ==
  /\ sched.pc = "claim" /\ sched.todo = {}
  /\ sched' = IdleSched
  /\ UNCHANGED <<rows, request, queue, handler, reached, faults, history>>

-----------------------------------------------------------------------------
(* BroadcastConsumerService and BroadcastDeliveryService, in the worker.      *)
(* handler[h].live: the channel the message came on is still open, and the    *)
(* broker waits for its ack.                                                  *)

LiveHandlers == {h \in Handlers : handler[h].live}

(* Handler h at another point of handleMessage(). *)
MovedTo(h, pc, work) ==
  [handler EXCEPT ![h] = [pc |-> pc, b |-> handler[h].b, live |-> handler[h].live, work |-> work]]

(* handleMessage() gets a message.  prefetch(1): one unacknowledged message   *)
(* at a time on the open channel.                                             *)
Receive(h) ==
  /\ handler[h].pc = "idle"
  /\ LiveHandlers = {}
  /\ queue # <<>>
  /\ handler' = [handler EXCEPT ![h] = [pc |-> "load", b |-> Head(queue), live |-> TRUE,
                                        work |-> NoWork]]
  /\ queue' = Tail(queue)
  /\ UNCHANGED <<rows, request, sched, reached, faults, history>>

(* deliverBroadcast(), up to the recipients.  The followers of the audience   *)
(* and the way to send (by merge tags and audience type) are read from rows   *)
(* this module does not model.  The status of the broadcast is not looked at. *)
Load(h) == \E followers \in SUBSET Recipients, m \in Modes :
  /\ handler[h].pc = "load"
  /\ Exists(handler[h].b)
  /\ handler' = MovedTo(h, IF followers = {} THEN "save" ELSE "send",
                           Work(m, followers, followers, {}, {}))
  /\ UNCHANGED <<rows, request, queue, sched, reached, faults, history>>

(* deliverBroadcast() throws: no row, no template, no LINE account, no        *)
(* message that can be sent, or a query that failed.                          *)
LoadFails(h) ==
  /\ handler[h].pc = "load"
  /\ handler' = MovedTo(h, "mark", NoWork)
  /\ UNCHANGED <<rows, request, queue, sched, reached, faults, history>>

(* The recipients of one call: everybody for client.broadcast, else the next  *)
(* slice.  The rows come in no particular order.                              *)
Batches(h) ==
  LET pending == handler[h].work.pending IN
  IF handler[h].work.mode = "broadcast" \/ Cardinality(pending) <= BatchSize
    THEN {pending}
    ELSE {batch \in SUBSET pending : Cardinality(batch) = BatchSize}

(* LINE accepts the messages of a subset of the batch and confirms it; a push *)
(* per recipient can go either way, a broadcast or a multicast is one call.   *)
(* A confirmation that does not come back is a fault.                         *)
Outcome(h, batch, accepted, confirmed) ==
  /\ handler[h].work.mode # "push" => {accepted, confirmed} \subseteq {{}, batch}
  /\ IF confirmed = accepted THEN UNCHANGED faults ELSE Fault

(* Faulty form: the loop ends with the first batch. *)
FaultyRest(pending, batch) == {}

(* The recipients left when the index has moved past the batch. *)
Rest(pending, batch) == pending \ batch

(* One call to LINE and the bookkeeping after it. *)
SendBatch(h, batch, accepted, confirmed) ==
  LET b == handler[h].b  w == handler[h].work  rest == Rest(w.pending, batch) IN
  /\ handler[h].pc = "send"
  /\ Outcome(h, batch, accepted, confirmed)
  /\ reached' = [reached EXCEPT ![b] =
                   [r \in Recipients |-> IF r \in accepted THEN @[r] + 1 ELSE @[r]]]
  /\ handler' = MovedTo(h, IF rest = {} THEN "log" ELSE "send",
                           Work(w.mode, w.targets, rest, w.ok \cup confirmed,
                                w.bad \cup (batch \ confirmed)))
  /\ UNCHANGED <<rows, request, queue, sched, history>>

Send(h) ==
  \E batch \in Batches(h) : \E accepted \in SUBSET batch : \E confirmed \in SUBSET accepted :
    SendBatch(h, batch, accepted, confirmed)

(* A write of handler h on row b throws: the row is gone, or the call failed. *)
WriteThrows(b) == IF Exists(b) THEN Fault ELSE UNCHANGED faults

(* Faulty forms: no logs for the recipients that succeeded; logs "sent" for   *)
(* every recipient.                                                           *)
FaultyNoSentRows(h) == {}
FaultyAllSentRows(h) == handler[h].work.targets

(* The recipients that the logs say were sent to. *)
SentRows(h) == handler[h].work.ok

(* finalizeBroadcast(), createMany. *)
WriteLogs(h) == LET b == handler[h].b IN
  /\ handler[h].pc = "log"
  /\ \/ /\ Exists(b)
        /\ sentLog' = [sentLog EXCEPT ![b] = @ \cup SentRows(h)]
        /\ handler' = MovedTo(h, "save", handler[h].work)
        /\ UNCHANGED faults
     \/ /\ WriteThrows(b)
        /\ handler' = MovedTo(h, "mark", NoWork)
        /\ UNCHANGED sentLog
  /\ UNCHANGED <<status, due, tally, request, queue, sched, reached, history>>

(* Faulty form: the status of a log row in the broadcast. *)
FaultyFinalStatus(h) == IF handler[h].work.ok = {} THEN "failed" ELSE "sent"

FinalStatus(h) ==
  IF handler[h].work.ok = {} /\ handler[h].work.bad # {} THEN "failed" ELSE "completed"

(* finalizeBroadcast(), the update. *)
Save(h) == LET b == handler[h].b IN
  /\ handler[h].pc = "save"
  /\ \/ /\ Exists(b)
        /\ status'  = [status EXCEPT ![b] = FinalStatus(h)]
        /\ tally'   = [tally EXCEPT ![b] = [total   |-> Cardinality(handler[h].work.targets),
                                           success |-> Cardinality(handler[h].work.ok),
                                           failure |-> Cardinality(handler[h].work.bad)]]
        /\ handler' = MovedTo(h, "ack", NoWork)
        /\ UNCHANGED faults
     \/ /\ WriteThrows(b)
        /\ handler' = MovedTo(h, "mark", NoWork)
        /\ UNCHANGED <<status, tally>>
  /\ UNCHANGED <<due, sentLog, request, queue, sched, reached, history>>

(* ack() after success.  On a closed channel it throws, inside the try. *)
Ack(h) ==
  /\ handler[h].pc = "ack"
  /\ handler' = IF handler[h].live THEN [handler EXCEPT ![h] = Idle]
                                   ELSE MovedTo(h, "mark", NoWork)
  /\ UNCHANGED <<rows, request, queue, sched, reached, faults, history>>

(* Faulty form: the catch block acknowledges and writes nothing. *)
FaultyMarkFailed(h) ==
  /\ handler[h].pc = "mark"
  /\ handler' = MovedTo(h, "giveUp", NoWork)
  /\ UNCHANGED <<rows, request, queue, sched, reached, faults, history>>

(* markBroadcastFailed(): it swallows an error of the update. *)
MarkFailed(h) == LET b == handler[h].b IN
  /\ handler[h].pc = "mark"
  /\ handler' = MovedTo(h, "giveUp", NoWork)
  /\ \/ /\ status' = IF Exists(b) THEN [status EXCEPT ![b] = "failed"] ELSE status
        /\ UNCHANGED <<faults, dropped>>
     \/ /\ Exists(b) /\ Fault
        /\ dropped' = dropped \cup {b}
        /\ UNCHANGED status
  /\ UNCHANGED <<due, tally, sentLog, request, queue, sched, reached, asked, extra>>

(* Faulty form: no ack() in the catch block. *)
FaultyAckFailed(h) == handler[h].pc = "giveUp" /\ handler[h].live /\ UNCHANGED vars

(* ack() after failure. *)
AckFailed(h) ==
  /\ handler[h].pc = "giveUp"
  /\ handler[h].live
  /\ handler' = [handler EXCEPT ![h] = Idle]
  /\ UNCHANGED <<rows, request, queue, sched, reached, faults, history>>

-----------------------------------------------------------------------------
(* Failures of the worker, of its connection and of the broker. *)

(* The message that waits for its ack. *)
Unacked == handler[CHOOSE h \in LiveHandlers : TRUE].b

(* Faulty form: consume with noAck. *)
FaultyRequeue == queue

(* It goes back to the head of the queue. *)
Requeue == IF LiveHandlers = {} THEN queue ELSE <<Unacked>> \o queue

Redelivered == IF LiveHandlers = {} THEN extra ELSE [extra EXCEPT ![Unacked] = @ + 1]

(* The worker process ends and its container restarts. *)
WorkerDies ==
  /\ queue'   = Requeue
  /\ extra'   = Redelivered
  /\ handler' = [h \in Handlers |-> Idle]
  /\ sched'   = IdleSched
  /\ dropped' = IF sched.pc = "publish" THEN dropped \cup {sched.b} ELSE dropped
  /\ UNCHANGED <<rows, request, reached, asked>>

WorkerCrash ==
  /\ Fault
  /\ LiveHandlers # {} \/ sched.pc # "idle"
  /\ WorkerDies

(* ack() in the catch block throws on a closed channel: the rejection of      *)
(* handleMessage() is not handled, and Node ends the process.                 *)
AckFailedThrows(h) ==
  /\ handler[h].pc = "giveUp"
  /\ ~handler[h].live
  /\ WorkerDies
  /\ UNCHANGED faults

(* The worker loses its connection; handleMessage() goes on by itself. *)
ConnectionLost ==
  /\ Fault
  /\ LiveHandlers # {}
  /\ queue'   = Requeue
  /\ extra'   = Redelivered
  /\ handler' = [h \in Handlers |-> [handler[h] EXCEPT !.live = FALSE]]
  /\ UNCHANGED <<rows, request, sched, reached, asked, dropped>>

(* The broker restarts: the queue is durable, but enqueue() publishes without *)
(* `persistent`, so its messages are gone.                                    *)
BrokerRestart ==
  /\ Fault
  /\ queue # <<>> \/ LiveHandlers # {}
  /\ queue'   = <<>>
  /\ handler' = [h \in Handlers |-> [handler[h] EXCEPT !.live = FALSE]]
  /\ dropped' = dropped \cup {queue[i] : i \in 1..Len(queue)}
                        \cup {handler[h].b : h \in LiveHandlers}
  /\ UNCHANGED <<rows, request, sched, reached, asked, extra>>

-----------------------------------------------------------------------------
RequestStep(q) ==
  Create(q) \/ UpdateRead(q) \/ UpdateWrite(q) \/ RemoveRead(q) \/ RemoveWrite(q)
  \/ SendNowRead(q) \/ SendNowWrite(q) \/ QueueBroadcast(q)

SchedulerStep == Poll \/ Claim \/ PublishClaimed \/ PollEnd

HandlerStep(h) ==
  Receive(h) \/ Load(h) \/ LoadFails(h) \/ Send(h) \/ WriteLogs(h) \/ Save(h)
  \/ Ack(h) \/ MarkFailed(h) \/ AckFailed(h) \/ AckFailedThrows(h)

Next ==
  \/ \E q \in Requests : RequestStep(q)
  \/ ApiCrash
  \/ \E b \in Broadcasts : TimePasses(b)
  \/ SchedulerStep
  \/ \E h \in Handlers : HandlerStep(h)
  \/ WorkerCrash
  \/ ConnectionLost
  \/ BrokerRestart

Spec == Init /\ [][Next]_vars

(* Node goes on with a request, a poll or a message whenever the awaited call *)
(* has answered, and the clock goes on.  Faults, and new requests, need not   *)
(* come.                                                                      *)
Fairness ==
  /\ \A q \in Requests : WF_vars(UpdateWrite(q) \/ RemoveWrite(q) \/ SendNowWrite(q)
                                 \/ QueueBroadcast(q))
  /\ \A b \in Broadcasts : WF_vars(TimePasses(b))
  /\ WF_vars(SchedulerStep)
  /\ \A h \in Handlers : WF_vars(HandlerStep(h))

FairSpec == Spec /\ Fairness

-----------------------------------------------------------------------------
(* Safety. *)

InQueue(b) == \E i \in 1..Len(queue) : queue[i] = b

(* A message for b is on its way: about to be published, in the queue, or in   *)
(* the hands of a handler that has yet to write the final status.              *)
OnItsWay(b) ==
  \/ \E q \in Requests : request[q].pc = "enqueue" /\ request[q].b = b
  \/ sched.pc = "publish" /\ sched.b = b
  \/ InQueue(b)
  \/ \E h \in LiveHandlers :
       handler[h].b = b /\ handler[h].pc \in {"load", "send", "log", "save", "mark"}

(* A broadcast stays in "processing" only while a message for it is on its     *)
(* way, whatever requests, polls and redeliveries overlap; the exceptions are  *)
(* the losses that `dropped` records: a failed enqueue, a process that dies    *)
(* between its update and its enqueue, a broker restart, and an error that     *)
(* markBroadcastFailed() swallows.                                             *)
StallsHaveACause ==
  \A b \in Broadcasts : status[b] = "processing" => OnItsWay(b) \/ b \in dropped

(* No follower gets a broadcast more often than users asked for it, except for *)
(* messages the broker delivers again.  A schedule that is still open is worth *)
(* one sending, whichever of the scheduler, sendNow() and update() takes it.   *)
DuplicatesHaveACause ==
  \A b \in Broadcasts, r \in Recipients : reached[b][r] <= asked[b] + extra[b]

(* The counts of a row add up, whichever calls to LINE failed and whichever    *)
(* handler wrote last.                                                         *)
CountsAddUp ==
  \A b \in Broadcasts : tally[b].success + tally[b].failure = tally[b].total

(* A row claims no more successes than its logs show: finalizeBroadcast()      *)
(* writes the logs first, so an interrupted run never leaves the count alone.  *)
SuccessIsLogged ==
  \A b \in Broadcasts : tally[b].success <= Cardinality(sentLog[b])

(* A log row "sent" is true: LINE delivered to that recipient.                 *)
LogsAreTrue ==
  \A b \in Broadcasts : sentLog[b] \subseteq {r \in Recipients : reached[b][r] > 0}

(* A message leaves broadcast.send only when the handler that holds it has       *)
(* written a final status or tried to, and acknowledges it, or by a restart of   *)
(* the broker; one handler at a time holds a message, and it comes back when its *)
(* connection is lost: the queue keeps what WorkQueue promises, with prefetch 1. *)
Queue == INSTANCE WorkQueue WITH
  Messages <- Broadcasts, NoMessage <- NoBroadcast, Slots <- Handlers, Prefetch <- 1,
  ready <- queue,
  held <- [h \in Handlers |-> IF handler[h].live THEN handler[h].b ELSE NoBroadcast],
  finished <- {h \in LiveHandlers : handler[h].pc \in {"ack", "giveUp"}}
KeepsWorkQueue == Queue!Spec

-----------------------------------------------------------------------------
(* Liveness, under FairSpec. *)

(* The worker never hangs on a message: every message is handled and           *)
(* acknowledged, failed ones too, and the queue runs empty.                    *)
QueueDrains == []<>(queue = <<>> /\ LiveHandlers = {})

(* The scheduler takes every due broadcast, also after crashes of the worker.  *)
DueIsClaimed == \A b \in Broadcasts : Due(b) ~> ~Due(b)

(* A broadcast in "processing" gets a final status, or one of the losses in    *)
(* `dropped` has hit it.                                                       *)
ProcessingEnds ==
  \A b \in Broadcasts : status[b] = "processing" ~> status[b] # "processing" \/ b \in dropped

-----------------------------------------------------------------------------
(* What the code or its documents say and the steps above do not keep. *)

(* "Only draft or scheduled broadcasts can be updated", and deleted.           *)
EditsOnlyEditable ==
  [][\A q \in Requests, b \in Broadcasts :
       (UpdateWrite(q) \/ RemoveWrite(q)) /\ request[q].b = b /\ Exists(b)
         => status[b] \in Editable]_vars

(* The scheduler takes scheduled broadcasts whose time has come.               *)
ClaimsOnlyDue ==
  [][\A b \in Broadcasts :
       sched'.pc = "publish" /\ sched'.b = b /\ sched.pc = "claim" => Due(b)]_vars

(* A message leaves the queue by being handed to the worker, and not otherwise. *)
MessagesStay ==
  [][\A b \in Broadcasts :
       InQueue(b) /\ ~InQueue(b)' => \E h \in Handlers : Receive(h) /\ Head(queue) = b]_vars
=============================================================================
