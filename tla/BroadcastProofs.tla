-------------------------- MODULE BroadcastProofs --------------------------
(***************************************************************************)
(* Safety of Broadcast for every number of broadcasts, requests, followers,  *)
(* handlers and faults.                                                      *)
(***************************************************************************)
EXTENDS Broadcast, TLAPS, FiniteSetTheorems

-----------------------------------------------------------------------------
(* Type correctness. *)

LEMMA InitTypeOK == Init => TypeOK
BY BoundsAssumption DEF Init, TypeOK, RowsOK, RequestsOK, SchedOK, HandlersOK, HistoryOK,
   RowStates, Stored, Statuses, DueTimes, Modes, NoTally, RequestAt, IdleSched, Idle,
   NoWork, Work, WorkType, RequestPc, SchedPc, HandlerPc

(* One more fault stays within the bound. *)
LEMMA FaultInBounds == HistoryOK /\ Fault => faults' \in 0..MaxFaults
BY BoundsAssumption DEF HistoryOK, Fault

(* Publishing keeps the queue a sequence of broadcasts. *)
LEMMA PublishTypeOK ==
  ASSUME TypeOK, NEW b \in Broadcasts, Publish(b)
  PROVE  /\ queue' \in Seq(Broadcasts)
         /\ faults' \in 0..MaxFaults
         /\ extra' \in [Broadcasts -> Nat]
<1>1. faults' \in 0..MaxFaults
  BY FaultInBounds DEF Publish, TypeOK, HistoryOK
<1>2. queue' \in Seq(Broadcasts)
  BY DEF Publish, TypeOK
<1>3. extra' \in [Broadcasts -> Nat]
  BY DEF Publish, TypeOK, HistoryOK
<1> QED BY <1>1, <1>2, <1>3

(* So do the steps that put the unacknowledged message back. *)
LEMMA RequeueTypeOK ==
  ASSUME TypeOK
  PROVE  /\ Requeue \in Seq(Broadcasts)
         /\ Redelivered \in [Broadcasts -> Nat]
<1>1. LiveHandlers # {} => Unacked \in Broadcasts
  BY DEF LiveHandlers, Unacked, TypeOK, HandlersOK
<1> QED BY <1>1 DEF Requeue, Redelivered, TypeOK, HistoryOK

(* A request that goes on, or ends, is well typed. *)
LEMMA RequestAtTypeOK ==
  ASSUME RequestsOK, NEW q \in Requests,
         NEW pc \in RequestPc, NEW b \in Broadcasts \cup {NoBroadcast},
         pc # "done" => b \in Broadcasts,
         request' = [request EXCEPT ![q] = RequestAt(pc, b)]
  PROVE  RequestsOK'
BY DEF RequestsOK, RequestAt, RequestPc

LEMMA ThenEnqueueTypeOK ==
  ASSUME RequestsOK, NEW q \in Requests, NEW b \in Broadcasts, NEW s,
         request' = [request EXCEPT ![q] = ThenEnqueue(b, s)]
             \/ request' = [request EXCEPT ![q] = Finished]
  PROVE  RequestsOK'
<1>1. CASE request' = [request EXCEPT ![q] = RequestAt("enqueue", b)]
  BY <1>1, RequestAtTypeOK DEF RequestPc
<1>2. CASE request' = [request EXCEPT ![q] = RequestAt("done", NoBroadcast)]
  BY <1>2, RequestAtTypeOK DEF RequestPc
<1> QED BY <1>1, <1>2 DEF ThenEnqueue, Finished

LEMMA AskedTypeOK ==
  ASSUME HistoryOK, NEW b \in Broadcasts, NEW s
  PROVE  AskedAfter(b, s) \in [Broadcasts -> Nat]
BY DEF HistoryOK, AskedAfter

LEMMA RequestTypeOK ==
  ASSUME TypeOK, NEW q \in Requests, RequestStep(q)
  PROVE  TypeOK'
<1>1. CASE Create(q)
  <2>1. PICK b \in Broadcasts, s \in Editable \cup {"processing"}, d \in DueTimes : Create(q)!(b, s, d)
    BY <1>1 DEF Create
  <2>2. RowsOK'
    BY <2>1 DEF TypeOK, RowsOK, RowStates, Stored, Statuses, Editable
  <2>3. RequestsOK'
    BY <2>1, ThenEnqueueTypeOK DEF TypeOK
  <2>4. HistoryOK'
    BY <2>1, AskedTypeOK DEF TypeOK, HistoryOK
  <2> QED BY <2>1, <2>2, <2>3, <2>4 DEF TypeOK, SchedOK, HandlersOK
<1>2. CASE UpdateRead(q)
  <2>1. PICK b \in Broadcasts, dto \in UpdateDtos :
          request' = [request EXCEPT ![q] = [pc |-> "update", b |-> b,
                                            status |-> dto.status, due |-> dto.due]]
    BY <1>2 DEF UpdateRead
  <2>2. dto.status \in Stored \cup {"keep"} /\ dto.due \in DueTimes \cup {"keep"}
    BY DtosAssumption DEF Dtos
  <2>3. RequestsOK'
    BY <2>1, <2>2 DEF TypeOK, RequestsOK, RequestPc
  <2> QED BY <1>2, <2>3 DEF UpdateRead, TypeOK, rows, history, RowsOK, SchedOK, HandlersOK, HistoryOK
<1>3. CASE UpdateWrite(q)
  <2> DEFINE b == request[q].b  s == request[q].status  d == request[q].due
  <2>1. b \in Broadcasts /\ s \in Stored \cup {"keep"} /\ d \in DueTimes \cup {"keep"}
    BY <1>3 DEF UpdateWrite, TypeOK, RequestsOK, RequestPc
  <2>2. /\ status' = IF s = "keep" THEN status ELSE [status EXCEPT ![b] = s]
        /\ due' = IF d = "keep" THEN due ELSE [due EXCEPT ![b] = d]
        /\ asked' = AskedAfter(b, s)
        /\ request' = [request EXCEPT ![q] = ThenEnqueue(b, s)]
     \/ /\ request' = [request EXCEPT ![q] = Finished]
        /\ UNCHANGED <<status, due, asked>>
    BY <1>3 DEF UpdateWrite
  <2>u. UNCHANGED <<tally, sentLog, queue, sched, handler, reached, faults, extra, dropped>>
    BY <1>3 DEF UpdateWrite
  <2> HIDE DEF b, s, d
  <2>3. RowsOK'
    BY <2>1, <2>2, <2>u DEF TypeOK, RowsOK, RowStates, Stored
  <2>4. RequestsOK'
    BY <2>1, <2>2, ThenEnqueueTypeOK DEF TypeOK
  <2>5. HistoryOK'
    BY <2>1, <2>2, <2>u, AskedTypeOK DEF TypeOK, HistoryOK
  <2> QED BY <2>u, <2>3, <2>4, <2>5 DEF TypeOK, SchedOK, HandlersOK
<1>4. CASE RemoveRead(q)
  <2>1. PICK b \in Broadcasts : request' = [request EXCEPT ![q] = RequestAt("remove", b)]
    BY <1>4 DEF RemoveRead
  <2>2. RequestsOK'
    BY <2>1, RequestAtTypeOK DEF TypeOK, RequestPc
  <2> QED BY <1>4, <2>2 DEF RemoveRead, TypeOK, rows, history, RowsOK, SchedOK, HandlersOK, HistoryOK
<1>5. CASE RemoveWrite(q)
  <2>1. request[q].b \in Broadcasts
    BY <1>5 DEF RemoveWrite, TypeOK, RequestsOK, RequestPc
  <2>t. NoTally \in [total : Nat, success : Nat, failure : Nat]
    BY DEF NoTally
  <2>2. RowsOK'
    BY <1>5, <2>1, <2>t DEF RemoveWrite, TypeOK, RowsOK, RowStates, Stored, DueTimes, rows
  <2>3. RequestsOK'
    BY <1>5, <2>1, ThenEnqueueTypeOK DEF RemoveWrite, TypeOK
  <2> QED BY <1>5, <2>2, <2>3 DEF RemoveWrite, TypeOK, history, SchedOK, HandlersOK, HistoryOK
<1>6. CASE SendNowRead(q)
  <2>1. PICK b \in Broadcasts : request' = [request EXCEPT ![q] = RequestAt("sendNow", b)]
    BY <1>6 DEF SendNowRead
  <2>2. RequestsOK'
    BY <2>1, RequestAtTypeOK DEF TypeOK, RequestPc
  <2> QED BY <1>6, <2>2 DEF SendNowRead, TypeOK, rows, history, RowsOK, SchedOK, HandlersOK, HistoryOK
<1>7. CASE SendNowWrite(q)
  <2> DEFINE b == request[q].b
  <2>1. b \in Broadcasts
    BY <1>7 DEF SendNowWrite, TypeOK, RequestsOK, RequestPc
  <2>2. \/ /\ status' = [status EXCEPT ![b] = "processing"]
           /\ due' = [due EXCEPT ![b] = "none"]
           /\ asked' = AskedAfter(b, "processing")
           /\ request' = [request EXCEPT ![q] = ThenEnqueue(b, "processing")]
        \/ /\ request' = [request EXCEPT ![q] = Finished]
           /\ UNCHANGED <<status, due, asked>>
    BY <1>7 DEF SendNowWrite
  <2>u. UNCHANGED <<tally, sentLog, queue, sched, handler, reached, faults, extra, dropped>>
    BY <1>7 DEF SendNowWrite
  <2> HIDE DEF b
  <2>3. RowsOK'
    BY <2>1, <2>2, <2>u DEF TypeOK, RowsOK, RowStates, Stored, Statuses, DueTimes
  <2>4. RequestsOK'
    BY <2>1, <2>2, ThenEnqueueTypeOK DEF TypeOK
  <2>5. HistoryOK'
    BY <2>1, <2>2, <2>u, AskedTypeOK DEF TypeOK, HistoryOK
  <2> QED BY <2>u, <2>3, <2>4, <2>5 DEF TypeOK, SchedOK, HandlersOK
<1>8. CASE QueueBroadcast(q)
  <2>1. request[q].b \in Broadcasts
    BY <1>8 DEF QueueBroadcast, TypeOK, RequestsOK, RequestPc
  <2>2. RequestsOK'
    BY <1>8, <2>1, ThenEnqueueTypeOK DEF QueueBroadcast, TypeOK
  <2>3. HistoryOK' /\ queue' \in Seq(Broadcasts)
    <3>1. CASE Publish(request[q].b) /\ UNCHANGED dropped
      BY <1>8, <2>1, <3>1, PublishTypeOK DEF QueueBroadcast, TypeOK, HistoryOK
    <3>2. CASE PublishFails(request[q].b)
      BY <1>8, <2>1, <3>2, FaultInBounds DEF QueueBroadcast, PublishFails, TypeOK, HistoryOK
    <3> QED BY <1>8, <3>1, <3>2 DEF QueueBroadcast
  <2> QED BY <1>8, <2>2, <2>3 DEF QueueBroadcast, TypeOK, rows, RowsOK, SchedOK, HandlersOK
<1> QED BY <1>1, <1>2, <1>3, <1>4, <1>5, <1>6, <1>7, <1>8 DEF RequestStep

LEMMA SchedulerTypeOK ==
  ASSUME TypeOK, SchedulerStep
  PROVE  TypeOK'
<1>1. CASE Poll
  <2>1. SchedOK'
    BY <1>1 DEF Poll, TypeOK, SchedOK, IdleSched, SchedPc
  <2> QED BY <1>1, <2>1 DEF Poll, TypeOK, rows, history, RowsOK, RequestsOK, HandlersOK, HistoryOK
<1>2. CASE Claim
  <2>1. PICK b \in sched.todo : Claim!(b)
    BY <1>2 DEF Claim
  <2>2. b \in Broadcasts
    BY DEF TypeOK, SchedOK
  <2>s. SchedOK'
    BY <2>1, <2>2 DEF TypeOK, SchedOK, SchedPc
  <2>r. RowsOK'
    BY <2>1, <2>2 DEF TypeOK, RowsOK, RowStates, Stored, Statuses
  <2>3. SchedOK' /\ RowsOK'
    BY <2>s, <2>r
  <2>4. HistoryOK'
    BY <2>1, FaultInBounds DEF TypeOK, HistoryOK, history
  <2> QED BY <2>1, <2>3, <2>4 DEF TypeOK, RequestsOK, HandlersOK
<1>3. CASE PublishClaimed
  <2>1. sched.b \in Broadcasts
    BY <1>3 DEF PublishClaimed, TypeOK, SchedOK
  <2>2. SchedOK'
    BY <1>3 DEF PublishClaimed, TypeOK, SchedOK, SchedPc
  <2>3. HistoryOK' /\ queue' \in Seq(Broadcasts)
    <3>1. CASE Publish(sched.b) /\ UNCHANGED dropped
      BY <1>3, <2>1, <3>1, PublishTypeOK DEF PublishClaimed, TypeOK, HistoryOK
    <3>2. CASE PublishFails(sched.b)
      BY <1>3, <2>1, <3>2, FaultInBounds DEF PublishClaimed, PublishFails, TypeOK, HistoryOK
    <3> QED BY <1>3, <3>1, <3>2 DEF PublishClaimed
  <2> QED BY <1>3, <2>2, <2>3 DEF PublishClaimed, TypeOK, rows, RowsOK, RequestsOK, HandlersOK
<1>4. CASE PollEnd
  BY <1>4 DEF PollEnd, IdleSched, SchedPc, TypeOK, SchedOK, rows, history, RowsOK, RequestsOK, HandlersOK, HistoryOK
<1> QED BY <1>1, <1>2, <1>3, <1>4 DEF SchedulerStep

(* The record of a handler. *)
HandlerType ==
  [pc : HandlerPc, b : Broadcasts \cup {NoBroadcast}, live : BOOLEAN, work : WorkType]

LEMMA NoWorkTypeOK == NoWork \in WorkType
BY DEF NoWork, Work, WorkType, Modes

(* A handler that moves on keeps its broadcast; an idle one needs none. *)
LEMMA HandlerUpdateTypeOK ==
  ASSUME HandlersOK, NEW h \in Handlers, NEW rec \in HandlerType,
         handler' = [handler EXCEPT ![h] = rec],
         rec.pc # "idle" => rec.b \in Broadcasts,
         rec.live => rec.pc # "idle"
  PROVE  HandlersOK'
BY DEF HandlersOK, HandlerType

LEMMA IdleTypeOK ==
  ASSUME HandlersOK, NEW h \in Handlers, handler' = [handler EXCEPT ![h] = Idle]
  PROVE  HandlersOK'
<1>1. Idle \in HandlerType /\ Idle.pc = "idle" /\ Idle.live = FALSE
  BY NoWorkTypeOK DEF Idle, HandlerType, HandlerPc
<1> QED BY <1>1, HandlerUpdateTypeOK

LEMMA MovedTypeOK ==
  ASSUME HandlersOK, NEW h \in Handlers, handler[h].pc # "idle",
         NEW pc \in HandlerPc \ {"idle"}, NEW work \in WorkType,
         handler' = MovedTo(h, pc, work)
  PROVE  HandlersOK'
<1> DEFINE rec == [pc |-> pc, b |-> handler[h].b, live |-> handler[h].live, work |-> work]
<1>1. handler[h].b \in Broadcasts /\ handler[h].live \in BOOLEAN
  BY DEF HandlersOK
<1>2. handler' = [handler EXCEPT ![h] = rec]
  BY DEF MovedTo
<1>3. rec \in HandlerType /\ rec.pc # "idle" /\ rec.b \in Broadcasts
  BY <1>1 DEF HandlerType
<1> HIDE DEF rec
<1> QED BY <1>2, <1>3, HandlerUpdateTypeOK

LEMMA WorkerDiesTypeOK ==
  ASSUME TypeOK, WorkerDies, faults' \in 0..MaxFaults
  PROVE  TypeOK'
<1>1. HandlersOK'
  BY NoWorkTypeOK DEF WorkerDies, Idle, HandlersOK, HandlerPc
<1>2. SchedOK'
  BY DEF WorkerDies, IdleSched, SchedOK, SchedPc
<1>3. HistoryOK'
  BY RequeueTypeOK DEF WorkerDies, TypeOK, SchedOK, HistoryOK
<1>4. queue' \in Seq(Broadcasts)
  BY RequeueTypeOK DEF WorkerDies
<1> QED BY <1>1, <1>2, <1>3, <1>4 DEF WorkerDies, TypeOK, rows, RowsOK, RequestsOK

LEMMA HandlerTypeOK ==
  ASSUME TypeOK, NEW h \in Handlers, HandlerStep(h)
  PROVE  TypeOK'
<1> DEFINE b == handler[h].b
<1>b. handler[h].pc # "idle" => b \in Broadcasts
  BY DEF TypeOK, HandlersOK
<1>1. CASE Receive(h)
  <2>1. Head(queue) \in Broadcasts /\ Tail(queue) \in Seq(Broadcasts)
    BY <1>1 DEF Receive, TypeOK
  <2> DEFINE rec == [pc |-> "load", b |-> Head(queue), live |-> TRUE, work |-> NoWork]
  <2>2. rec \in HandlerType /\ rec.pc # "idle" /\ rec.b \in Broadcasts
    BY <2>1, NoWorkTypeOK DEF HandlerType, HandlerPc
  <2>3. handler' = [handler EXCEPT ![h] = rec]
    BY <1>1 DEF Receive
  <2> HIDE DEF rec
  <2>4. HandlersOK'
    BY <2>2, <2>3, HandlerUpdateTypeOK DEF TypeOK
  <2> QED BY <1>1, <2>1, <2>4 DEF Receive, TypeOK, rows, history, RowsOK, RequestsOK, SchedOK, HistoryOK
<1>2. CASE Load(h)
  <2>1. PICK followers \in SUBSET Recipients, m \in Modes : Load(h)!(followers, m)
    BY <1>2 DEF Load
  <2>2. Work(m, followers, followers, {}, {}) \in WorkType
    BY DEF Work, WorkType
  <2>3. HandlersOK'
    BY <2>1, <2>2, MovedTypeOK DEF TypeOK, HandlerPc
  <2> QED BY <2>1, <2>3 DEF TypeOK, rows, history, RowsOK, RequestsOK, SchedOK, HistoryOK
<1>3. CASE LoadFails(h)
  <2>1. HandlersOK'
    BY <1>3, MovedTypeOK, NoWorkTypeOK DEF LoadFails, TypeOK, HandlerPc
  <2> QED BY <1>3, <2>1 DEF LoadFails, TypeOK, rows, history, RowsOK, RequestsOK, SchedOK, HistoryOK
<1>4. CASE Send(h)
  <2>1. Batches(h) \subseteq SUBSET handler[h].work.pending
    BY DEF Batches
  <2>2. PICK batch \in SUBSET handler[h].work.pending : \E accepted \in SUBSET batch :
          \E confirmed \in SUBSET accepted : SendBatch(h, batch, accepted, confirmed)
    BY <1>4, <2>1 DEF Send
  <2>3. PICK accepted \in SUBSET batch : \E confirmed \in SUBSET accepted :
          SendBatch(h, batch, accepted, confirmed)
    BY <2>2
  <2>a. PICK confirmed \in SUBSET accepted : SendBatch(h, batch, accepted, confirmed)
    BY <2>3
  <2> DEFINE w == handler[h].work
             sent == Work(w.mode, w.targets, Rest(w.pending, batch), w.ok \cup confirmed,
                          w.bad \cup (batch \ confirmed))
  <2>b. sent \in WorkType
    BY DEF TypeOK, HandlersOK, Work, WorkType, Rest
  <2>c. \/ handler' = MovedTo(h, "log", sent)
        \/ handler' = MovedTo(h, "send", sent)
    BY <2>a DEF SendBatch
  <2>d. handler[h].pc = "send"
    BY <2>a DEF SendBatch
  <2> HIDE DEF sent
  <2>4. HandlersOK'
    BY <2>b, <2>c, <2>d, MovedTypeOK DEF TypeOK, HandlerPc
  <2>5. reached' \in [Broadcasts -> [Recipients -> Nat]]
    BY <2>a, <1>b DEF SendBatch, TypeOK, HistoryOK
  <2>6. HistoryOK'
    BY <2>a, <2>5, FaultInBounds DEF SendBatch, Outcome, TypeOK, HistoryOK, history
  <2> QED BY <2>a, <2>4, <2>6 DEF SendBatch, TypeOK, rows, RowsOK, RequestsOK, SchedOK
<1>5. CASE WriteLogs(h)
  <2>1. HandlersOK'
    BY <1>5, MovedTypeOK, NoWorkTypeOK DEF WriteLogs, TypeOK, HandlersOK, HandlerPc
  <2>2. RowsOK'
    <3>1. handler[h].work.ok \subseteq Recipients
      BY DEF TypeOK, HandlersOK, WorkType
    <3>2. /\ UNCHANGED <<status, due, tally>>
          /\ sentLog' \in {sentLog, [sentLog EXCEPT ![b] = @ \cup handler[h].work.ok]}
      BY <1>5 DEF WriteLogs, SentRows
    <3>3. RowsOK
      BY DEF TypeOK
    <3> QED BY <3>1, <3>2, <3>3, <1>b DEF RowsOK
  <2>3. HistoryOK'
    BY <1>5, FaultInBounds DEF WriteLogs, WriteThrows, TypeOK, HistoryOK, history
  <2> QED BY <1>5, <2>1, <2>2, <2>3 DEF WriteLogs, TypeOK, RequestsOK, SchedOK
<1>6. CASE Save(h)
  <2>1. HandlersOK'
    BY <1>6, MovedTypeOK, NoWorkTypeOK DEF Save, TypeOK, HandlerPc
  <2>2. /\ Cardinality(handler[h].work.targets) \in Nat
        /\ Cardinality(handler[h].work.ok) \in Nat
        /\ Cardinality(handler[h].work.bad) \in Nat
    BY RecipientsAssumption, FS_Subset, FS_CardinalityType DEF TypeOK, HandlersOK, WorkType
  <2>t. [total |-> Cardinality(handler[h].work.targets), success |-> Cardinality(handler[h].work.ok),
         failure |-> Cardinality(handler[h].work.bad)]
           \in [total : Nat, success : Nat, failure : Nat]
    BY <2>2
  <2>f. FinalStatus(h) \in RowStates
    BY DEF FinalStatus, RowStates, Stored, Statuses
  <2>p. b \in Broadcasts
    BY <1>6, <1>b DEF Save
  <2>u. UNCHANGED <<due, sentLog>>
    BY <1>6 DEF Save
  <2>3. RowsOK'
    <3>1. CASE UNCHANGED <<status, tally>>
      BY <3>1, <2>u DEF TypeOK, RowsOK
    <3>2. CASE ~ UNCHANGED <<status, tally>>
      <4>1. status' = [status EXCEPT ![b] = FinalStatus(h)]
        BY <1>6, <3>2 DEF Save
      <4>2. PICK record \in [total : Nat, success : Nat, failure : Nat] :
              tally' = [tally EXCEPT ![b] = record]
        BY <1>6, <3>2, <2>t DEF Save
      <4> HIDE DEF b
      <4> QED BY <4>1, <4>2, <2>f, <2>p, <2>u DEF TypeOK, RowsOK
    <3> QED BY <3>1, <3>2
  <2>4. HistoryOK'
    BY <1>6, FaultInBounds DEF Save, WriteThrows, TypeOK, HistoryOK, history
  <2> QED BY <1>6, <2>1, <2>3, <2>4 DEF Save, TypeOK, RequestsOK, SchedOK
<1>7. CASE Ack(h)
  <2>1. HandlersOK'
    BY <1>7, MovedTypeOK, IdleTypeOK, NoWorkTypeOK DEF Ack, TypeOK, HandlerPc
  <2> QED BY <1>7, <2>1 DEF Ack, TypeOK, rows, history, RowsOK, RequestsOK, SchedOK, HistoryOK
<1>8. CASE MarkFailed(h)
  <2>1. HandlersOK'
    BY <1>8, MovedTypeOK, NoWorkTypeOK DEF MarkFailed, TypeOK, HandlerPc
  <2>2. RowsOK'
    BY <1>8, <1>b DEF MarkFailed, TypeOK, RowsOK, RowStates, Stored, Statuses
  <2>3. HistoryOK'
    BY <1>8, <1>b, FaultInBounds DEF MarkFailed, TypeOK, HistoryOK
  <2> QED BY <1>8, <2>1, <2>2, <2>3 DEF MarkFailed, TypeOK, RequestsOK, SchedOK
<1>9. CASE AckFailed(h)
  <2>1. HandlersOK'
    BY <1>9, IdleTypeOK DEF AckFailed, TypeOK
  <2> QED BY <1>9, <2>1 DEF AckFailed, TypeOK, rows, history, RowsOK, RequestsOK, SchedOK, HistoryOK
<1>10. CASE AckFailedThrows(h)
  BY <1>10, WorkerDiesTypeOK DEF AckFailedThrows, TypeOK, HistoryOK
<1> QED BY <1>1, <1>2, <1>3, <1>4, <1>5, <1>6, <1>7, <1>8, <1>9, <1>10 DEF HandlerStep

LEMMA StepTypeOK == TypeOK /\ [Next]_vars => TypeOK'
<1> SUFFICES ASSUME TypeOK, [Next]_vars PROVE TypeOK'
  OBVIOUS
<1>1. CASE \E q \in Requests : RequestStep(q)
  BY <1>1, RequestTypeOK
<1>2. CASE ApiCrash
  <2>1. RequestsOK'
    BY <1>2 DEF ApiCrash, TypeOK, RequestsOK, Finished, RequestAt, RequestPc
  <2>2. HistoryOK'
    <3>1. {request[q].b : q \in {p \in Requests : request[p].pc = "enqueue"}} \subseteq Broadcasts
      BY DEF TypeOK, RequestsOK, RequestPc
    <3> QED BY <1>2, <3>1, FaultInBounds DEF ApiCrash, TypeOK, HistoryOK
  <2> QED BY <1>2, <2>1, <2>2 DEF ApiCrash, TypeOK, rows, RowsOK, SchedOK, HandlersOK
<1>3. CASE \E b \in Broadcasts : TimePasses(b)
  <2>1. RowsOK'
    BY <1>3 DEF TimePasses, TypeOK, RowsOK, DueTimes
  <2> QED BY <1>3, <2>1 DEF TimePasses, TypeOK, history, RequestsOK, SchedOK, HandlersOK, HistoryOK
<1>4. CASE SchedulerStep
  BY <1>4, SchedulerTypeOK
<1>5. CASE \E h \in Handlers : HandlerStep(h)
  BY <1>5, HandlerTypeOK
<1>6. CASE WorkerCrash
  BY <1>6, WorkerDiesTypeOK, FaultInBounds DEF WorkerCrash, TypeOK
<1>7. CASE ConnectionLost
  <2>1. HandlersOK'
    BY <1>7 DEF ConnectionLost, TypeOK, HandlersOK
  <2>2. HistoryOK'
    BY <1>7, RequeueTypeOK, FaultInBounds DEF ConnectionLost, TypeOK, HistoryOK
  <2> QED BY <1>7, <2>1, <2>2, RequeueTypeOK DEF ConnectionLost, TypeOK, rows, RowsOK, RequestsOK, SchedOK
<1>8. CASE BrokerRestart
  <2>1. HandlersOK'
    BY <1>8 DEF BrokerRestart, TypeOK, HandlersOK
  <2>2. HistoryOK'
    BY <1>8, FaultInBounds DEF BrokerRestart, TypeOK, HistoryOK, HandlersOK, LiveHandlers
  <2> QED BY <1>8, <2>1, <2>2 DEF BrokerRestart, TypeOK, rows, RowsOK, RequestsOK, SchedOK
<1>9. CASE UNCHANGED vars
  BY <1>9 DEF vars, rows, history, TypeOK, RowsOK, RequestsOK, SchedOK, HandlersOK, HistoryOK
<1> QED BY <1>1, <1>2, <1>3, <1>4, <1>5, <1>6, <1>7, <1>8, <1>9 DEF Next

(* Broadcast is well typed in every state it can reach. *)
THEOREM TypeCorrect == Spec => []TypeOK
BY InitTypeOK, StepTypeOK, PTL DEF Spec

-----------------------------------------------------------------------------
(* Why a broadcast stays in "processing".  StallsHaveACause is not inductive  *)
(* by itself: a lost connection puts one message back, so it would lose a     *)
(* second broadcast in the hands of the worker.  prefetch(1) excludes that,   *)
(* which is OneLive.                                                          *)


(* The broker waits for the ack of at most one message: prefetch(1) of        *)
(* BroadcastConsumerService, and a closed channel gives its message back.     *)
OneLive == \A g, h \in LiveHandlers : g = h

StallInv == TypeOK /\ OneLive /\ StallsHaveACause

-----------------------------------------------------------------------------
(* What the steps of the parts do to the parts. *)

(* A handler that moves on changes neither its message nor another handler. *)
LEMMA MovedFields ==
  ASSUME HandlersOK, NEW h \in Handlers, NEW pc, NEW work, handler' = MovedTo(h, pc, work)
  PROVE  /\ handler'[h].pc = pc /\ handler'[h].work = work
         /\ \A g \in Handlers : handler'[g].live = handler[g].live /\ handler'[g].b = handler[g].b
         /\ \A g \in Handlers \ {h} : handler'[g] = handler[g]
         /\ LiveHandlers' = LiveHandlers
<1>1. handler'[h] = [pc |-> pc, b |-> handler[h].b, live |-> handler[h].live, work |-> work]
  BY DEF MovedTo, HandlersOK
<1>2. \A g \in Handlers \ {h} : handler'[g] = handler[g]
  BY DEF MovedTo, HandlersOK
<1>3. \A g \in Handlers : handler'[g].live = handler[g].live /\ handler'[g].b = handler[g].b
  BY <1>1, <1>2
<1> QED BY <1>1, <1>2, <1>3 DEF LiveHandlers

(* A handler that becomes idle leaves the others alone. *)
LEMMA IdleFields ==
  ASSUME HandlersOK, NEW h \in Handlers, handler' = [handler EXCEPT ![h] = Idle]
  PROVE  /\ \A g \in Handlers \ {h} : handler'[g] = handler[g]
         /\ LiveHandlers' = LiveHandlers \ {h}
<1>1. handler'[h].live = FALSE
  BY DEF Idle, HandlersOK
<1>2. \A g \in Handlers \ {h} : handler'[g] = handler[g]
  BY DEF HandlersOK
<1> QED BY <1>1, <1>2 DEF LiveHandlers

(* A published message is in the queue, and the others stay there. *)
LEMMA PublishInQueue ==
  ASSUME TypeOK, NEW b \in Broadcasts, Publish(b)
  PROVE  InQueue(b)' /\ \A c \in Broadcasts : InQueue(c) => InQueue(c)'
<1>1. queue' = Append(queue, b) \/ queue' = Append(Append(queue, b), b)
  BY DEF Publish
<1>2. /\ Len(queue') >= Len(queue) + 1
      /\ queue'[Len(queue) + 1] = b
      /\ \A i \in 1..Len(queue) : queue'[i] = queue[i]
  BY <1>1 DEF TypeOK
<1>3. Len(queue) \in Nat /\ Len(queue') \in Nat
  BY <1>1 DEF TypeOK
<1> QED BY <1>2, <1>3 DEF InQueue

(* The unacknowledged message goes back into the queue. *)
LEMMA RequeueInQueue ==
  ASSUME TypeOK, OneLive, queue' = Requeue
  PROVE  /\ \A c \in Broadcasts : InQueue(c) => InQueue(c)'
         /\ \A c \in Broadcasts, h \in LiveHandlers : handler[h].b = c => InQueue(c)'
<1>1. CASE LiveHandlers = {}
  BY <1>1 DEF Requeue, InQueue
<1>2. ASSUME NEW h \in LiveHandlers, NEW m \in Broadcasts, handler[h].b = m
      PROVE  InQueue(m)' /\ \A c \in Broadcasts : InQueue(c) => InQueue(c)'
  <2>1. Unacked = m
    BY <1>2 DEF Unacked, OneLive
  <2>2. queue' = <<m>> \o queue
    BY <1>2, <2>1 DEF Requeue
  <2>3. Len(queue) \in Nat /\ Len(queue') = Len(queue) + 1
    BY <2>2 DEF TypeOK
  <2>4. queue'[1] = m
    BY <2>2 DEF TypeOK
  <2>5. \A i \in 1..Len(queue) : queue'[i + 1] = queue[i]
    BY <2>2 DEF TypeOK
  <2>6. \A i \in 1..Len(queue) : i + 1 \in 1..Len(queue')
    BY <2>3
  <2>7. ASSUME NEW c \in Broadcasts, InQueue(c) PROVE InQueue(c)'
    <3>1. PICK i \in 1..Len(queue) : queue[i] = c
      BY <2>7 DEF InQueue
    <3> QED BY <3>1, <2>5, <2>6 DEF InQueue
  <2>8. InQueue(m)'
    BY <2>3, <2>4 DEF InQueue
  <2> QED BY <2>7, <2>8
<1>3. \A h \in LiveHandlers : handler[h].b \in Broadcasts
  BY DEF LiveHandlers, TypeOK, HandlersOK
<1> QED BY <1>1, <1>2, <1>3

-----------------------------------------------------------------------------
(* At most one live handler. *)

LEMMA StepOneLive == TypeOK /\ OneLive /\ [Next]_vars => OneLive'
<1> SUFFICES ASSUME TypeOK, OneLive, [Next]_vars PROVE OneLive'
  OBVIOUS
<1>t. HandlersOK
  BY DEF TypeOK
<1>1. ASSUME NEW h \in Handlers, HandlerStep(h) PROVE OneLive'
  <2>1. CASE Receive(h)
    <3>1. \A g \in Handlers \ {h} : handler'[g] = handler[g]
      BY <2>1, <1>t DEF Receive, HandlersOK
    <3> QED BY <2>1, <3>1 DEF Receive, OneLive, LiveHandlers
  <2>2. CASE \E pc, work : handler' = MovedTo(h, pc, work)
    BY <2>2, <1>t, MovedFields DEF OneLive
  <2>3. CASE handler' = [handler EXCEPT ![h] = Idle]
    BY <2>3, <1>t, IdleFields DEF OneLive
  <2>4. CASE Send(h)
    BY <2>2, <2>4 DEF Send, SendBatch
  <2>5. CASE WorkerDies
    BY <2>5 DEF WorkerDies, OneLive, LiveHandlers, Idle
  <2> QED BY <1>1, <2>1, <2>2, <2>3, <2>4, <2>5
        DEF HandlerStep, Load, LoadFails, WriteLogs, Save, Ack, MarkFailed, AckFailed, AckFailedThrows
<1>2. CASE handler' = handler
  BY <1>2 DEF OneLive, LiveHandlers
<1>3. ASSUME NEW q \in Requests, RequestStep(q) PROVE handler' = handler
  BY <1>3 DEF RequestStep, Create, UpdateRead, UpdateWrite, RemoveRead, RemoveWrite,
     SendNowRead, SendNowWrite, QueueBroadcast
<1>4. ASSUME SchedulerStep PROVE handler' = handler
  BY <1>4 DEF SchedulerStep, Poll, Claim, PublishClaimed, PollEnd
<1>5. CASE WorkerCrash
  BY <1>5 DEF WorkerCrash, WorkerDies, OneLive, LiveHandlers, Idle
<1>6. CASE ConnectionLost \/ BrokerRestart
  <2>1. LiveHandlers' = {}
    BY <1>6, <1>t DEF ConnectionLost, BrokerRestart, LiveHandlers, HandlersOK
  <2> QED BY <2>1 DEF OneLive
<1> QED BY <1>1, <1>2, <1>3, <1>4, <1>5, <1>6 DEF Next, ApiCrash, TimePasses, vars

-----------------------------------------------------------------------------
(* A broadcast in "processing" has a message on its way.  Each lemma takes   *)
(* one broadcast that the step leaves in "processing" and does not record as *)
(* lost; it was so before, or the step itself has put its message on the way.*)

(* The parts of OnItsWay. *)
BeingEnqueued(b) == \E q \in Requests : request[q].pc = "enqueue" /\ request[q].b = b
BeingClaimed(b)  == sched.pc = "publish" /\ sched.b = b
BeingHandled(b)  == \E h \in LiveHandlers :
  handler[h].b = b /\ handler[h].pc \in {"load", "send", "log", "save", "mark"}

LEMMA OnItsWayParts ==
  \A b \in Broadcasts :
    OnItsWay(b) <=> BeingEnqueued(b) \/ BeingClaimed(b) \/ InQueue(b) \/ BeingHandled(b)
BY DEF OnItsWay, BeingEnqueued, BeingClaimed, BeingHandled

(* A request that ends, or asks for a sending, keeps the other requests. *)
LEMMA RequestOnItsWay ==
  ASSUME RequestsOK, NEW q \in Requests, NEW b \in Broadcasts, NEW next,
         request' = [request EXCEPT ![q] = next],
         request[q].pc # "enqueue", BeingEnqueued(b)
  PROVE  BeingEnqueued(b)'
BY DEF BeingEnqueued, RequestsOK

LEMMA RequestStalls ==
  ASSUME StallInv, NEW q \in Requests, RequestStep(q),
         NEW b \in Broadcasts, status'[b] = "processing", b \notin dropped'
  PROVE  OnItsWay(b)'
<1> USE DEF StallInv, TypeOK
<1>1. CASE QueueBroadcast(q)
  <2>1. PICK c \in Broadcasts : c = request[q].b
    BY <1>1 DEF QueueBroadcast, RequestsOK, RequestPc
  <2>2. OnItsWay(b) /\ UNCHANGED <<sched, handler>>
    BY <1>1 DEF QueueBroadcast, PublishFails, rows, StallsHaveACause
  <2>3. \A p \in Requests \ {q} : request'[p] = request[p]
    BY <1>1 DEF QueueBroadcast, RequestsOK
  <2>4. BeingClaimed(b)' <=> BeingClaimed(b)
    BY <2>2 DEF BeingClaimed
  <2>5. BeingHandled(b)' <=> BeingHandled(b)
    BY <2>2 DEF BeingHandled, LiveHandlers
  <2>6. CASE Publish(c)
    <3>1. BeingEnqueued(b) /\ b # c => BeingEnqueued(b)'
      BY <2>1, <2>3 DEF BeingEnqueued
    <3>2. InQueue(c)' /\ (InQueue(b) => InQueue(b)')
      BY <2>6, PublishInQueue
    <3> QED BY <2>2, <2>4, <2>5, <3>1, <3>2, OnItsWayParts DEF OnItsWay, BeingEnqueued, BeingClaimed, BeingHandled
  <2>7. CASE PublishFails(c)
    <3>1. b # c
      BY <2>7 DEF PublishFails
    <3>2. BeingEnqueued(b) => BeingEnqueued(b)'
      BY <2>1, <2>3, <3>1 DEF BeingEnqueued
    <3>3. InQueue(b) => InQueue(b)'
      BY <2>7 DEF PublishFails, InQueue
    <3> QED BY <2>2, <2>4, <2>5, <3>2, <3>3 DEF OnItsWay, BeingEnqueued, BeingClaimed, BeingHandled
  <2> QED BY <1>1, <2>1, <2>6, <2>7 DEF QueueBroadcast
<1>2. ASSUME request[q].pc # "enqueue", UNCHANGED <<queue, sched, handler, dropped>>,
             NEW next, request' = [request EXCEPT ![q] = next],
             status[b] = "processing" \/ next = RequestAt("enqueue", b)
      PROVE  OnItsWay(b)'
  <2>1. CASE next = RequestAt("enqueue", b)
    <3>1. request'[q] = RequestAt("enqueue", b)
      BY <1>2, <2>1 DEF RequestsOK
    <3> QED BY <3>1 DEF OnItsWay, RequestAt
  <2>2. CASE status[b] = "processing"
    <3>1. OnItsWay(b)
      BY <1>2, <2>2 DEF StallsHaveACause
    <3>2. BeingEnqueued(b) => BeingEnqueued(b)'
      BY <1>2, RequestOnItsWay
    <3> QED BY <1>2, <3>1, <3>2 DEF OnItsWay, InQueue, LiveHandlers, BeingEnqueued
  <2> QED BY <1>2, <2>1, <2>2
<1>3. CASE Create(q)
  <2>1. PICK c \in Broadcasts, s \in Editable \cup {"processing"}, d \in DueTimes : Create(q)!(c, s, d)
    BY <1>3 DEF Create
  <2>2. status[b] = "processing" \/ ThenEnqueue(c, s) = RequestAt("enqueue", b)
    BY <2>1 DEF RowsOK, ThenEnqueue
  <2> QED BY <1>2, <2>1, <2>2
<1>4. CASE UpdateWrite(q) \/ SendNowWrite(q)
  <2> DEFINE c == request[q].b
  <2>1. PICK s \in Stored \cup {"keep"} :
          \/ status' = status /\ \E next : request' = [request EXCEPT ![q] = next]
          \/ /\ status' = [status EXCEPT ![c] = s]
             /\ request' = [request EXCEPT ![q] = ThenEnqueue(c, s)]
    BY <1>4 DEF UpdateWrite, SendNowWrite, RequestsOK, Stored, Statuses
  <2>2. request[q].pc # "enqueue" /\ UNCHANGED <<queue, sched, handler, dropped>>
    BY <1>4 DEF UpdateWrite, SendNowWrite
  <2>3. CASE status' = status /\ \E next : request' = [request EXCEPT ![q] = next]
    BY <1>2, <2>2, <2>3
  <2>4. CASE /\ status' = [status EXCEPT ![c] = s]
             /\ request' = [request EXCEPT ![q] = ThenEnqueue(c, s)]
    <3>1. status[b] = "processing" \/ ThenEnqueue(c, s) = RequestAt("enqueue", b)
      BY <2>4 DEF RowsOK, ThenEnqueue
    <3> QED BY <1>2, <2>2, <2>4, <3>1
  <2> QED BY <2>1, <2>3, <2>4
<1>5. CASE RemoveWrite(q)
  <2>1. status[b] = "processing"
    BY <1>5 DEF RemoveWrite, rows, RowsOK
  <2> QED BY <1>2, <1>5, <2>1 DEF RemoveWrite, history
<1>6. CASE UpdateRead(q) \/ RemoveRead(q) \/ SendNowRead(q)
  <2>1. status[b] = "processing"
    BY <1>6 DEF UpdateRead, RemoveRead, SendNowRead, rows
  <2>2. \E next : request' = [request EXCEPT ![q] = next]
    BY <1>6 DEF UpdateRead, RemoveRead, SendNowRead
  <2> QED BY <1>2, <1>6, <2>1, <2>2 DEF UpdateRead, RemoveRead, SendNowRead, history
<1> QED BY <1>1, <1>3, <1>4, <1>5, <1>6 DEF RequestStep

LEMMA SchedulerStalls ==
  ASSUME StallInv, SchedulerStep,
         NEW b \in Broadcasts, status'[b] = "processing", b \notin dropped'
  PROVE  OnItsWay(b)'
<1> USE DEF StallInv, TypeOK
<1>1. UNCHANGED <<request, handler>>
  BY DEF SchedulerStep, Poll, Claim, PublishClaimed, PollEnd
<1>2. (BeingEnqueued(b)' <=> BeingEnqueued(b)) /\ (BeingHandled(b)' <=> BeingHandled(b))
  BY <1>1 DEF BeingEnqueued, BeingHandled, LiveHandlers
<1>3. CASE PublishClaimed
  <2>1. PICK c \in Broadcasts : c = sched.b
    BY <1>3 DEF PublishClaimed, SchedOK
  <2>2. OnItsWay(b)
    BY <1>3 DEF PublishClaimed, PublishFails, rows, StallsHaveACause
  <2>3. CASE Publish(c)
    <3>1. InQueue(c)' /\ (InQueue(b) => InQueue(b)')
      BY <2>3, PublishInQueue
    <3> QED BY <1>2, <2>1, <2>2, <3>1 DEF OnItsWay, BeingEnqueued, BeingHandled
  <2>4. CASE PublishFails(c)
    <3>1. b # c /\ (InQueue(b) => InQueue(b)')
      BY <2>4 DEF PublishFails, InQueue
    <3> QED BY <1>2, <2>1, <2>2, <3>1 DEF OnItsWay, BeingEnqueued, BeingHandled
  <2> QED BY <1>3, <2>1, <2>3, <2>4 DEF PublishClaimed
<1>4. CASE Poll \/ Claim \/ PollEnd
  <2>1. sched.pc # "publish" /\ UNCHANGED <<queue, dropped>>
    BY <1>4 DEF Poll, Claim, PollEnd, history
  <2>2. status[b] = "processing" \/ (sched'.pc = "publish" /\ sched'.b = b)
    <3>1. CASE Claim
      <4>1. PICK c \in sched.todo : Claim!(c)
        BY <3>1 DEF Claim
      <4>2. CASE UNCHANGED status
        BY <4>2
      <4>3. CASE /\ status' = [status EXCEPT ![c] = "processing"]
                 /\ sched' = [pc |-> "publish", todo |-> sched.todo \ {c}, b |-> c]
        BY <4>3 DEF RowsOK
      <4> QED BY <4>1, <4>2, <4>3
    <3>2. CASE Poll \/ PollEnd
      BY <3>2 DEF Poll, PollEnd, rows
    <3> QED BY <1>4, <3>1, <3>2
  <2> QED BY <1>2, <2>1, <2>2 DEF StallsHaveACause, OnItsWay, InQueue, BeingEnqueued, BeingHandled
<1> QED BY <1>3, <1>4 DEF SchedulerStep

(* The worker loses its handlers, or its channel: the message in its hands     *)
(* goes back into the queue, and a broadcast about to be published is lost.    *)
LEMMA RequeueStalls ==
  ASSUME StallInv, queue' = Requeue, UNCHANGED <<status, request>>,
         NEW b \in Broadcasts, status'[b] = "processing", b \notin dropped,
         BeingClaimed(b) => BeingClaimed(b)'
  PROVE  OnItsWay(b)'
<1>1. OnItsWay(b)
  BY DEF StallInv, StallsHaveACause
<1>2. InQueue(b) \/ BeingHandled(b) => InQueue(b)'
  BY RequeueInQueue DEF StallInv, BeingHandled
<1>3. BeingEnqueued(b) => BeingEnqueued(b)'
  BY DEF BeingEnqueued
<1> QED BY <1>1, <1>2, <1>3 DEF OnItsWay, BeingEnqueued, BeingClaimed, BeingHandled

LEMMA WorkerDiesStalls ==
  ASSUME StallInv, WorkerDies,
         NEW b \in Broadcasts, status'[b] = "processing", b \notin dropped'
  PROVE  OnItsWay(b)'
<1>1. ~ BeingClaimed(b) /\ b \notin dropped
  BY DEF WorkerDies, BeingClaimed
<1> QED BY <1>1, RequeueStalls DEF WorkerDies, rows

(* The moves of a handler that neither take a message nor end its handling.    *)
LEMMA MovedStalls ==
  ASSUME StallInv, NEW h \in Handlers, UNCHANGED <<request, sched, queue>>,
         NEW pc, NEW work, handler' = MovedTo(h, pc, work),
         NEW b \in Broadcasts, status[b] = "processing", b \notin dropped,
         handler[h].b # b \/ handler[h].pc = "ack" \/ pc \in {"load", "send", "log", "save", "mark"}
  PROVE  OnItsWay(b)'
<1>1. OnItsWay(b)
  BY DEF StallInv, StallsHaveACause
<1>2. ASSUME BeingHandled(b) PROVE BeingHandled(b)'
  <2>1. PICK g \in LiveHandlers :
          handler[g].b = b /\ handler[g].pc \in {"load", "send", "log", "save", "mark"}
    BY <1>2 DEF BeingHandled
  <2>2. g \in Handlers /\ g \in LiveHandlers' /\ handler'[g].b = b
    BY <2>1, MovedFields DEF StallInv, TypeOK, LiveHandlers
  <2>3. handler'[g].pc \in {"load", "send", "log", "save", "mark"}
    BY <2>1, <2>2, MovedFields DEF StallInv, TypeOK
  <2> QED BY <2>2, <2>3 DEF BeingHandled
<1> QED BY <1>1, <1>2 DEF OnItsWay, InQueue, BeingHandled

LEMMA HandlerStalls ==
  ASSUME StallInv, NEW h \in Handlers, HandlerStep(h),
         NEW b \in Broadcasts, status'[b] = "processing", b \notin dropped'
  PROVE  OnItsWay(b)'
<1> USE DEF StallInv, TypeOK
<1>1. CASE Receive(h)
  <2>1. OnItsWay(b) /\ ~ BeingHandled(b)
    BY <1>1 DEF Receive, rows, history, StallsHaveACause, BeingHandled
  <2>2. handler'[h] = [pc |-> "load", b |-> Head(queue), live |-> TRUE, work |-> NoWork]
    BY <1>1 DEF Receive, HandlersOK
  <2>3. InQueue(b) => b = Head(queue) \/ InQueue(b)'
    <3>1. ASSUME NEW i \in 1..Len(queue), queue[i] = b, i # 1 PROVE InQueue(b)'
      <4>1. i - 1 \in 1..Len(queue') /\ queue'[i - 1] = queue[i]
        BY <1>1, <3>1 DEF Receive
      <4> QED BY <3>1, <4>1 DEF InQueue
    <3> QED BY <1>1, <3>1 DEF InQueue, Receive
  <2>4. b = Head(queue) => BeingHandled(b)'
    BY <2>2 DEF BeingHandled, LiveHandlers
  <2> QED BY <1>1, <2>1, <2>3, <2>4 DEF Receive, OnItsWay, BeingHandled
<1>2. CASE Load(h) \/ LoadFails(h) \/ WriteLogs(h)
  <2>1. PICK pc, work : /\ pc \in {"send", "log", "save", "mark"}
                        /\ handler' = MovedTo(h, pc, work)
    BY <1>2 DEF Load, LoadFails, WriteLogs
  <2> QED BY <1>2, <2>1, MovedStalls DEF Load, LoadFails, WriteLogs, rows, history
<1>3. CASE Send(h)
  <2>1. PICK pc, work : pc \in {"send", "log"} /\ handler' = MovedTo(h, pc, work)
    BY <1>3 DEF Send, SendBatch
  <2> QED BY <1>3, <2>1, MovedStalls DEF Send, SendBatch, rows, history
<1>4. CASE Save(h)
  <2>1. PICK pc, work : /\ pc \in {"ack", "mark"}
                        /\ handler' = MovedTo(h, pc, work)
                        /\ pc = "ack" => status' = [status EXCEPT ![handler[h].b] = FinalStatus(h)]
                        /\ pc = "mark" => status' = status
    BY <1>4 DEF Save
  <2>2. FinalStatus(h) # "processing"
    BY DEF FinalStatus
  <2>3. handler[h].b \in Broadcasts
    BY <1>4 DEF Save, HandlersOK
  <2>4. status[b] = "processing" /\ (pc = "ack" => handler[h].b # b)
    BY <2>1, <2>2, <2>3 DEF RowsOK
  <2> QED BY <1>4, <2>1, <2>4, MovedStalls DEF Save, history
<1>5. CASE MarkFailed(h)
  <2>1. handler[h].b \in Broadcasts
    BY <1>5 DEF MarkFailed, HandlersOK
  <2>2. status[b] = "processing" /\ b \notin dropped /\ handler[h].b # b
    BY <1>5, <2>1 DEF MarkFailed, RowsOK, Exists, Stored, Statuses
  <2> QED BY <1>5, <2>2, MovedStalls DEF MarkFailed
<1>6. CASE Ack(h) \/ AckFailed(h)
  <2>1. OnItsWay(b) /\ handler[h].pc \in {"ack", "giveUp"}
    BY <1>6 DEF Ack, AckFailed, rows, history, StallsHaveACause
  <2>2. CASE handler' = [handler EXCEPT ![h] = Idle]
    <3>1. ASSUME BeingHandled(b) PROVE BeingHandled(b)'
      <4>1. PICK g \in LiveHandlers :
              handler[g].b = b /\ handler[g].pc \in {"load", "send", "log", "save", "mark"}
        BY <3>1 DEF BeingHandled
      <4>2. g \in Handlers \ {h}
        BY <2>1, <4>1 DEF LiveHandlers
      <4>3. handler'[g] = handler[g] /\ g \in LiveHandlers'
        BY <2>2, <4>1, <4>2, IdleFields
      <4> QED BY <4>1, <4>3 DEF BeingHandled
    <3> QED BY <1>6, <2>1, <3>1 DEF Ack, AckFailed, OnItsWay, InQueue, BeingHandled
  <2>3. CASE Ack(h) /\ handler' = MovedTo(h, "mark", NoWork)
    BY <2>3, MovedStalls DEF Ack, rows, history
  <2> QED BY <1>6, <2>2, <2>3 DEF Ack, AckFailed
<1>7. CASE AckFailedThrows(h)
  BY <1>7, WorkerDiesStalls DEF AckFailedThrows
<1> QED BY <1>1, <1>2, <1>3, <1>4, <1>5, <1>6, <1>7 DEF HandlerStep

LEMMA FaultStalls ==
  ASSUME StallInv, ApiCrash \/ ConnectionLost \/ BrokerRestart,
         NEW b \in Broadcasts, status'[b] = "processing", b \notin dropped'
  PROVE  OnItsWay(b)'
<1>1. OnItsWay(b) /\ b \notin dropped
  BY DEF ApiCrash, ConnectionLost, BrokerRestart, rows, StallInv, StallsHaveACause
<1>2. CASE ApiCrash
  <2>1. ~ BeingEnqueued(b)
    BY <1>2 DEF ApiCrash, BeingEnqueued
  <2> QED BY <1>1, <1>2, <2>1 DEF ApiCrash, OnItsWay, BeingEnqueued, InQueue, LiveHandlers
<1>3. CASE ConnectionLost
  BY <1>1, <1>3, RequeueStalls DEF ConnectionLost, rows, BeingClaimed
<1>4. CASE BrokerRestart
  <2>1. ~ InQueue(b) /\ ~ BeingHandled(b)
    BY <1>4 DEF BrokerRestart, InQueue, BeingHandled
  <2> QED BY <1>1, <1>4, <2>1 DEF BrokerRestart, OnItsWay, BeingHandled
<1> QED BY <1>2, <1>3, <1>4

LEMMA InitStallInv == Init => StallInv
BY InitTypeOK DEF Init, StallInv, OneLive, LiveHandlers, StallsHaveACause, Idle

LEMMA StepStallInv == StallInv /\ [Next]_vars => StallInv'
<1> SUFFICES ASSUME StallInv, [Next]_vars PROVE StallInv'
  OBVIOUS
<1>1. TypeOK' /\ OneLive'
  BY StepTypeOK, StepOneLive DEF StallInv
<1>2. ASSUME NEW b \in Broadcasts, status'[b] = "processing", b \notin dropped'
      PROVE  OnItsWay(b)'
  <2>1. CASE \E q \in Requests : RequestStep(q)
    BY <1>2, <2>1, RequestStalls
  <2>2. CASE ApiCrash \/ ConnectionLost \/ BrokerRestart
    BY <1>2, <2>2, FaultStalls
  <2>3. CASE UNCHANGED <<status, request, queue, sched, handler, dropped>>
    BY <1>2, <2>3 DEF StallInv, StallsHaveACause, OnItsWay, InQueue, LiveHandlers
  <2>4. CASE SchedulerStep
    BY <1>2, <2>4, SchedulerStalls
  <2>5. CASE \E h \in Handlers : HandlerStep(h)
    BY <1>2, <2>5, HandlerStalls
  <2>6. CASE WorkerCrash
    BY <1>2, <2>6, WorkerDiesStalls DEF WorkerCrash
  <2> QED BY <2>1, <2>2, <2>3, <2>4, <2>5, <2>6 DEF Next, TimePasses, vars, rows, history
<1> QED BY <1>1, <1>2 DEF StallInv, StallsHaveACause

(* In every reachable state a broadcast in "processing" has a message on its   *)
(* way, or one of the recorded losses has hit it.                              *)
THEOREM StallsCorrect == Spec => []StallsHaveACause
<1>1. StallInv => StallsHaveACause
  BY DEF StallInv
<1> QED BY <1>1, InitStallInv, StepStallInv, PTL DEF Spec

-----------------------------------------------------------------------------
(* What the row and the logs of a broadcast say about its delivery.           *)
(* The counts of a row come from lists a handler fills over many steps, in    *)
(* which other handlers, requests and faults change the same rows.  WorkOK    *)
(* says what those lists mean at every point of a handler.                    *)

(* Every target of a handler is still to be sent to, or succeeded, or failed. *)
Partition(w) ==
  /\ w.targets = w.pending \cup w.ok \cup w.bad
  /\ w.ok \cap w.bad = {}
  /\ w.pending \cap (w.ok \cup w.bad) = {}

(* The successes of a handler at work are deliveries. *)
Delivered(h) ==
  handler[h].pc # "idle" => \A r \in handler[h].work.ok : reached[handler[h].b][r] > 0

(* Between finalizeBroadcast()'s two writes the logs have the successes, unless *)
(* the row and its logs were removed.                                           *)
Logged(h) ==
  handler[h].pc = "save" =>
    status[handler[h].b] = "deleted" \/ handler[h].work.ok \subseteq sentLog[handler[h].b]

WorkOK(h) ==
  /\ Partition(handler[h].work)
  /\ handler[h].pc \in {"log", "save"} => handler[h].work.pending = {}
  /\ Delivered(h)
  /\ Logged(h)

ResultInv ==
  /\ TypeOK
  /\ \A h \in Handlers : WorkOK(h)
  /\ CountsAddUp
  /\ SuccessIsLogged
  /\ LogsAreTrue

-----------------------------------------------------------------------------
(* No step takes back a delivery, a log, or a removal. *)

OnlyGrows ==
  /\ \A b \in Broadcasts, r \in Recipients : reached'[b][r] >= reached[b][r]
  /\ \A b \in Broadcasts : sentLog[b] \subseteq sentLog'[b] \/ status'[b] = "deleted"
  /\ \A b \in Broadcasts : status[b] = "deleted" => status'[b] = "deleted"

LEMMA SameGrows == TypeOK /\ UNCHANGED <<reached, sentLog, status>> => OnlyGrows
BY DEF OnlyGrows, TypeOK, HistoryOK

LEMMA StatusGrows ==
  ASSUME TypeOK, UNCHANGED <<reached, sentLog>>, NEW b \in Broadcasts, NEW s,
         status' = status \/ (status[b] # "deleted" /\ status' = [status EXCEPT ![b] = s])
  PROVE  OnlyGrows
<1>1. \A c \in Broadcasts : status[c] = "deleted" => status'[c] = "deleted"
  BY DEF TypeOK, RowsOK
<1>2. \A c \in Broadcasts, r \in Recipients : reached'[c][r] >= reached[c][r]
  BY DEF TypeOK, HistoryOK
<1> QED BY <1>1, <1>2 DEF OnlyGrows

(* A row that exists is neither unborn nor deleted, whatever users wrote to it. *)
LEMMA ExistsMeansStored ==
  \A b \in Broadcasts : Exists(b) => status[b] \notin {"unborn", "deleted"}
BY FreeStatusesAssumption DEF Exists, Stored, Statuses, NotStored

LEMMA RequestGrows == ASSUME TypeOK, NEW q \in Requests, RequestStep(q) PROVE OnlyGrows
<1> USE DEF TypeOK
<1>1. CASE Create(q)
  <2>1. PICK b \in Broadcasts, s \in Editable \cup {"processing"}, d \in DueTimes : Create(q)!(b, s, d)
    BY <1>1 DEF Create
  <2>2. UNCHANGED <<reached, sentLog>> /\ status[b] = "unborn" /\ status' = [status EXCEPT ![b] = s]
    BY <2>1
  <2> QED BY <2>2, StatusGrows
<1>2. CASE UpdateWrite(q) \/ SendNowWrite(q)
  <2> DEFINE b == request[q].b
  <2>1. PICK s : status' = status \/ (Exists(b) /\ status' = [status EXCEPT ![b] = s])
    BY <1>2 DEF UpdateWrite, SendNowWrite
  <2>2. UNCHANGED <<reached, sentLog>> /\ b \in Broadcasts
    BY <1>2 DEF UpdateWrite, SendNowWrite, RequestsOK, RequestPc
  <2> QED BY <2>1, <2>2, StatusGrows, ExistsMeansStored
<1>3. CASE RemoveWrite(q)
  <2> DEFINE b == request[q].b
  <2>1. reached' = reached
    BY <1>3 DEF RemoveWrite
  <2>2. CASE UNCHANGED rows
    BY <2>1, <2>2, SameGrows DEF rows
  <2>3. CASE status' = [status EXCEPT ![b] = "deleted"] /\ sentLog' = [sentLog EXCEPT ![b] = {}]
    BY <2>1, <2>3 DEF OnlyGrows, RowsOK, HistoryOK
  <2> QED BY <1>3, <2>2, <2>3 DEF RemoveWrite
<1>4. CASE UpdateRead(q) \/ RemoveRead(q) \/ SendNowRead(q) \/ QueueBroadcast(q)
  BY <1>4, SameGrows DEF UpdateRead, RemoveRead, SendNowRead, QueueBroadcast, rows
<1> QED BY <1>1, <1>2, <1>3, <1>4 DEF RequestStep

LEMMA HandlerGrows == ASSUME TypeOK, NEW h \in Handlers, HandlerStep(h) PROVE OnlyGrows
<1> USE DEF TypeOK
<1>1. CASE Send(h)
  <2>1. PICK batch, accepted, confirmed : SendBatch(h, batch, accepted, confirmed)
    BY <1>1 DEF Send
  <2>2. handler[h].b \in Broadcasts /\ UNCHANGED <<status, sentLog>>
    BY <2>1 DEF SendBatch, HandlersOK, rows
  <2>3. reached' = [reached EXCEPT ![handler[h].b] =
                      [r \in Recipients |-> IF r \in accepted THEN @[r] + 1 ELSE @[r]]]
    BY <2>1 DEF SendBatch
  <2> QED BY <2>2, <2>3 DEF OnlyGrows, RowsOK, HistoryOK
<1>2. CASE WriteLogs(h)
  <2>1. reached' = reached /\ status' = status
    BY <1>2 DEF WriteLogs
  <2>2. \A b \in Broadcasts : sentLog[b] \subseteq sentLog'[b]
    BY <1>2 DEF WriteLogs, RowsOK
  <2> QED BY <2>1, <2>2 DEF OnlyGrows, HistoryOK
<1>3. CASE Save(h) \/ MarkFailed(h)
  <2> DEFINE b == handler[h].b
  <2>1. PICK s : status' = status \/ (Exists(b) /\ status' = [status EXCEPT ![b] = s])
    BY <1>3 DEF Save, MarkFailed
  <2>2. UNCHANGED <<reached, sentLog>> /\ b \in Broadcasts
    BY <1>3 DEF Save, MarkFailed, HandlersOK
  <2> QED BY <2>1, <2>2, StatusGrows, ExistsMeansStored
<1>4. CASE Receive(h) \/ Load(h) \/ LoadFails(h) \/ Ack(h) \/ AckFailed(h) \/ AckFailedThrows(h)
  BY <1>4, SameGrows DEF Receive, Load, LoadFails, Ack, AckFailed, AckFailedThrows, WorkerDies, rows
<1> QED BY <1>1, <1>2, <1>3, <1>4 DEF HandlerStep

LEMMA StepGrows == TypeOK /\ [Next]_vars => OnlyGrows
<1> SUFFICES ASSUME TypeOK, [Next]_vars PROVE OnlyGrows
  OBVIOUS
<1>1. CASE Claim
  <2>1. PICK b \in sched.todo :
          status' = status \/ (Claimable(b) /\ status' = [status EXCEPT ![b] = "processing"])
    BY <1>1 DEF Claim
  <2>2. b \in Broadcasts /\ UNCHANGED <<reached, sentLog>>
    BY <1>1 DEF Claim, TypeOK, SchedOK
  <2> QED BY <2>1, <2>2, StatusGrows DEF Claimable
<1>2. CASE Poll \/ PublishClaimed \/ PollEnd \/ ApiCrash \/ WorkerCrash \/ ConnectionLost \/ BrokerRestart
  BY <1>2, SameGrows DEF Poll, PublishClaimed, PollEnd, ApiCrash, WorkerCrash, WorkerDies,
     ConnectionLost, BrokerRestart, rows
<1>3. CASE \E b \in Broadcasts : TimePasses(b)
  BY <1>3, SameGrows DEF TimePasses
<1>4. CASE UNCHANGED vars
  BY <1>4, SameGrows DEF vars, rows
<1> QED BY <1>1, <1>2, <1>3, <1>4, RequestGrows, HandlerGrows DEF Next, SchedulerStep

-----------------------------------------------------------------------------
(* The lists of the handlers. *)

(* A handler that keeps its place and its lists keeps their meaning. *)
LEMMA WorkKept ==
  ASSUME TypeOK, TypeOK', OnlyGrows, NEW h \in Handlers, WorkOK(h),
         handler'[h].pc = handler[h].pc, handler'[h].b = handler[h].b,
         handler'[h].work = handler[h].work
  PROVE  WorkOK(h)'
<1>1. WorkOK(h)!1' /\ WorkOK(h)!2'
  BY DEF WorkOK, Partition
<1>2. handler[h].pc # "idle" => handler[h].b \in Broadcasts
  BY DEF TypeOK, HandlersOK
<1>3. handler[h].work.ok \subseteq Recipients
  BY DEF TypeOK, HandlersOK, WorkType
<1>4. Delivered(h)'
  <2>1. ASSUME NEW b \in Broadcasts, NEW r \in Recipients, reached[b][r] > 0
        PROVE  reached'[b][r] > 0
    <3>1. reached[b][r] \in Nat /\ reached'[b][r] \in Nat
      BY DEF TypeOK, HistoryOK
    <3> QED BY <2>1, <3>1 DEF OnlyGrows
  <2> QED BY <1>2, <1>3, <2>1 DEF WorkOK, Delivered
<1>5. Logged(h)'
  BY <1>2 DEF OnlyGrows, WorkOK, Logged
<1> QED BY <1>1, <1>4, <1>5 DEF WorkOK

(* A handler with empty lists has nothing to say. *)
LEMMA NoWorkOK ==
  ASSUME NEW h \in Handlers, handler'[h].work = NoWork
  PROVE  WorkOK(h)'
BY DEF WorkOK, Partition, Delivered, Logged, NoWork, Work

(* One call to LINE and its bookkeeping. *)
LEMMA SendWork ==
  ASSUME TypeOK, TypeOK', OnlyGrows, NEW h \in Handlers, WorkOK(h), Send(h)
  PROVE  WorkOK(h)'
<1> DEFINE w == handler[h].work  b == handler[h].b
<1>1. PICK batch \in Batches(h) : \E accepted \in SUBSET batch : \E confirmed \in SUBSET accepted :
        SendBatch(h, batch, accepted, confirmed)
  BY DEF Send
<1>2. PICK accepted \in SUBSET batch : \E confirmed \in SUBSET accepted :
        SendBatch(h, batch, accepted, confirmed)
  BY <1>1
<1>3. PICK confirmed \in SUBSET accepted : SendBatch(h, batch, accepted, confirmed)
  BY <1>2
<1>4. batch \subseteq w.pending
  BY DEF Batches
<1> DEFINE next == Work(w.mode, w.targets, w.pending \ batch, w.ok \cup confirmed,
                        w.bad \cup (batch \ confirmed))
           pc == IF w.pending \ batch = {} THEN "log" ELSE "send"
<1>5. handler[h].pc = "send" /\ handler' = MovedTo(h, pc, next)
  BY <1>3 DEF SendBatch, Rest
<1>6. handler'[h].pc = pc /\ handler'[h].work = next /\ handler'[h].b = b
  <2> HIDE DEF next, pc
  <2>1. HandlersOK
    BY DEF TypeOK
  <2> QED BY <1>5, <2>1, MovedFields
<1>7. Partition(next)
  BY <1>4 DEF WorkOK, Partition, Work
<1>8. pc \in {"log", "save"} => next.pending = {}
  BY DEF Work
<1>9. ASSUME NEW r \in w.ok \cup confirmed PROVE reached'[b][r] > 0
  <2>1. b \in Broadcasts /\ r \in Recipients /\ reached[b][r] \in Nat
    <3>1. b \in Broadcasts /\ r \in Recipients
      BY <1>4, <1>5 DEF TypeOK, HandlersOK, WorkType
    <3> QED BY <3>1 DEF TypeOK, HistoryOK
  <2>2. CASE r \in w.ok
    <3>1. reached[b][r] > 0 /\ reached'[b][r] >= reached[b][r]
      BY <1>5, <2>1, <2>2 DEF WorkOK, Delivered, OnlyGrows
    <3>2. HistoryOK'
      BY DEF TypeOK
    <3>3. reached'[b][r] \in Nat
      BY <2>1, <3>2 DEF HistoryOK
    <3> QED BY <2>1, <3>1, <3>3
  <2>3. CASE r \in confirmed
    <3>1. reached'[b][r] = reached[b][r] + 1
      BY <1>3, <2>1, <2>3 DEF SendBatch, TypeOK, HistoryOK
    <3> QED BY <2>1, <3>1
  <2> QED BY <2>2, <2>3
<1>10. Delivered(h)'
  BY <1>6, <1>9 DEF Delivered, Work
<1>11. Logged(h)'
  BY <1>6 DEF Logged
<1> QED BY <1>6, <1>7, <1>8, <1>10, <1>11 DEF WorkOK

LEMMA HandlerWork ==
  ASSUME TypeOK, TypeOK', OnlyGrows, NEW h \in Handlers, WorkOK(h), HandlerStep(h)
  PROVE  WorkOK(h)'
<1>t. HandlersOK
  BY DEF TypeOK
<1>1. CASE \E pc : handler' = MovedTo(h, pc, NoWork)
  BY <1>1, <1>t, MovedFields, NoWorkOK
<1>2. CASE handler' = [handler EXCEPT ![h] = Idle]
  <2>1. handler'[h].work = NoWork
    BY <1>2, <1>t DEF HandlersOK, Idle
  <2> QED BY <2>1, NoWorkOK
<1>3. CASE Receive(h)
  <2>1. handler'[h].work = NoWork
    BY <1>3, <1>t DEF Receive, HandlersOK
  <2> QED BY <2>1, NoWorkOK
<1>4. CASE Load(h)
  <2>1. PICK followers \in SUBSET Recipients, m \in Modes : Load(h)!(followers, m)
    BY <1>4 DEF Load
  <2>2. /\ handler'[h].pc = IF followers = {} THEN "save" ELSE "send"
        /\ handler'[h].work = Work(m, followers, followers, {}, {})
    BY <1>t, <2>1, MovedFields
  <2> QED BY <2>2 DEF WorkOK, Partition, Delivered, Logged, Work
<1>5. CASE Send(h)
  BY <1>5, SendWork
<1>6. CASE WriteLogs(h) /\ handler' = MovedTo(h, "save", handler[h].work)
  <2>1. /\ handler'[h].pc = "save" /\ handler'[h].b = handler[h].b
        /\ handler'[h].work = handler[h].work
    BY <1>6, <1>t, MovedFields
  <2>2. handler[h].b \in Broadcasts /\ handler[h].pc = "log" /\ reached' = reached
    BY <1>6, <1>t DEF WriteLogs, HandlersOK
  <2>m. handler' # MovedTo(h, "mark", NoWork)
    BY <2>1, <1>t, MovedFields
  <2>3. sentLog' = [sentLog EXCEPT ![handler[h].b] = @ \cup handler[h].work.ok]
    BY <1>6, <2>m DEF WriteLogs, SentRows
  <2>4. handler[h].work.ok \subseteq sentLog'[handler[h].b]
    BY <2>2, <2>3 DEF TypeOK, RowsOK
  <2> QED BY <2>1, <2>2, <2>4 DEF WorkOK, Delivered, Logged
<1>7. CASE WorkerDies
  <2>1. handler'[h].work = NoWork
    BY <1>7 DEF WorkerDies, Idle
  <2> QED BY <2>1, NoWorkOK
<1> QED BY <1>1, <1>2, <1>3, <1>4, <1>5, <1>6, <1>7
     DEF HandlerStep, LoadFails, WriteLogs, Save, Ack, MarkFailed, AckFailed, AckFailedThrows

LEMMA StepWork ==
  ASSUME TypeOK, TypeOK', \A h \in Handlers : WorkOK(h), [Next]_vars, NEW h \in Handlers
  PROVE  WorkOK(h)'
<1>1. OnlyGrows
  BY StepGrows
<1>2. CASE HandlerStep(h)
  BY <1>1, <1>2, HandlerWork
<1>3. CASE WorkerDies
  <2>1. handler'[h].work = NoWork
    BY <1>3 DEF WorkerDies, Idle
  <2> QED BY <2>1, NoWorkOK
<1>4. CASE /\ handler'[h].pc = handler[h].pc /\ handler'[h].b = handler[h].b
           /\ handler'[h].work = handler[h].work
  BY <1>1, <1>4, WorkKept
<1>5. ASSUME NEW g \in Handlers, g # h, HandlerStep(g), ~ WorkerDies
      PROVE  handler'[h] = handler[h]
  <2>1. \E rec : handler' = [handler EXCEPT ![g] = rec]
    BY <1>5 DEF HandlerStep, Receive, Load, LoadFails, Send, SendBatch, WriteLogs, Save, Ack,
       MarkFailed, AckFailed, AckFailedThrows, MovedTo
  <2> QED BY <1>5, <2>1 DEF TypeOK, HandlersOK
<1>6. CASE ConnectionLost \/ BrokerRestart
  BY <1>4, <1>6 DEF ConnectionLost, BrokerRestart, TypeOK, HandlersOK
<1>7. ASSUME NEW q \in Requests, RequestStep(q) PROVE handler' = handler
  BY <1>7 DEF RequestStep, Create, UpdateRead, UpdateWrite, RemoveRead, RemoveWrite,
     SendNowRead, SendNowWrite, QueueBroadcast
<1>8. ASSUME SchedulerStep PROVE handler' = handler
  BY <1>8 DEF SchedulerStep, Poll, Claim, PublishClaimed, PollEnd
<1> QED BY <1>2, <1>3, <1>4, <1>5, <1>6, <1>7, <1>8
     DEF Next, ApiCrash, TimePasses, WorkerCrash, vars

-----------------------------------------------------------------------------
(* The rows and the logs. *)

(* Who writes counts and logs. *)
LEMMA Writers ==
  ASSUME [Next]_vars
  PROVE  \/ UNCHANGED <<tally, sentLog>>
         \/ \E q \in Requests : RemoveWrite(q)
         \/ \E h \in Handlers : WriteLogs(h) \/ Save(h)
<1>1. ASSUME NEW q \in Requests, RequestStep(q), ~ RemoveWrite(q) PROVE UNCHANGED <<tally, sentLog>>
  BY <1>1 DEF RequestStep, Create, UpdateRead, UpdateWrite, RemoveRead, SendNowRead,
     SendNowWrite, QueueBroadcast, rows
<1>2. ASSUME NEW h \in Handlers, Send(h) PROVE UNCHANGED <<tally, sentLog>>
  BY <1>2 DEF Send, SendBatch, rows
<1>3. ASSUME NEW h \in Handlers, Load(h) PROVE UNCHANGED <<tally, sentLog>>
  BY <1>3 DEF Load, rows
<1>4. ASSUME NEW h \in Handlers, HandlerStep(h), ~ (WriteLogs(h) \/ Save(h))
      PROVE  UNCHANGED <<tally, sentLog>>
  BY <1>2, <1>3, <1>4 DEF HandlerStep, Receive, LoadFails, Ack, MarkFailed, AckFailed,
     AckFailedThrows, WorkerDies, rows
<1>5. ASSUME SchedulerStep PROVE UNCHANGED <<tally, sentLog>>
  BY <1>5 DEF SchedulerStep, Poll, Claim, PublishClaimed, PollEnd, rows
<1>6. ASSUME ApiCrash \/ WorkerCrash \/ ConnectionLost \/ BrokerRestart
      PROVE  UNCHANGED <<tally, sentLog>>
  BY <1>6 DEF ApiCrash, WorkerCrash, WorkerDies, ConnectionLost, BrokerRestart, rows
<1>7. ASSUME NEW b \in Broadcasts, TimePasses(b) PROVE UNCHANGED <<tally, sentLog>>
  BY <1>7 DEF TimePasses
<1> QED BY <1>1, <1>4, <1>5, <1>6, <1>7 DEF Next, vars, rows

LEMMA StepLogsAreTrue ==
  ASSUME ResultInv, TypeOK', [Next]_vars
  PROVE  LogsAreTrue'
<1> SUFFICES ASSUME NEW b \in Broadcasts, NEW r \in sentLog'[b] PROVE reached'[b][r] > 0
  BY DEF LogsAreTrue, TypeOK, RowsOK
<1>r. r \in Recipients /\ reached[b][r] \in Nat /\ reached'[b][r] \in Nat
  BY DEF ResultInv, TypeOK, RowsOK, HistoryOK
<1>1. OnlyGrows
  BY StepGrows DEF ResultInv
<1>2. CASE r \in sentLog[b]
  BY <1>r, <1>1, <1>2 DEF ResultInv, LogsAreTrue, OnlyGrows
<1>3. ASSUME NEW h \in Handlers, WriteLogs(h), r \notin sentLog[b] PROVE reached'[b][r] > 0
  <2>1. sentLog' = [sentLog EXCEPT ![handler[h].b] = @ \cup handler[h].work.ok]
    BY <1>3 DEF WriteLogs, SentRows
  <2>2. b = handler[h].b /\ r \in handler[h].work.ok
    BY <1>3, <2>1 DEF ResultInv, TypeOK, RowsOK
  <2>3. handler[h].pc = "log"
    BY <1>3 DEF WriteLogs
  <2>4. reached[b][r] > 0
    BY <2>2, <2>3 DEF ResultInv, WorkOK, Delivered
  <2> QED BY <1>r, <1>1, <2>4 DEF OnlyGrows
<1>4. ASSUME NEW q \in Requests, RemoveWrite(q) PROVE r \in sentLog[b]
  BY <1>4 DEF RemoveWrite, rows, ResultInv, TypeOK, RowsOK
<1>5. CASE UNCHANGED sentLog
  BY <1>2, <1>5
<1>6. ASSUME NEW h \in Handlers, Save(h) PROVE UNCHANGED sentLog
  BY <1>6 DEF Save
<1> QED BY <1>2, <1>3, <1>4, <1>5, <1>6, Writers

(* The counts that Save() writes, from the lists of its handler. *)
LEMMA SaveCounts ==
  ASSUME ResultInv, NEW h \in Handlers, Save(h), handler[h].b \in Broadcasts,
         Exists(handler[h].b)
  PROVE  LET w == handler[h].work IN
         /\ Cardinality(w.ok) + Cardinality(w.bad) = Cardinality(w.targets)
         /\ Cardinality(w.ok) <= Cardinality(sentLog[handler[h].b])
<1> DEFINE w == handler[h].work
<1>1. w.targets = w.ok \cup w.bad /\ w.ok \cap w.bad = {}
  BY DEF Save, ResultInv, WorkOK, Partition
<1>2. IsFiniteSet(w.ok) /\ IsFiniteSet(w.bad)
  BY RecipientsAssumption, FS_Subset DEF ResultInv, TypeOK, HandlersOK, WorkType
<1>3. Cardinality(w.targets) = Cardinality(w.ok) + Cardinality(w.bad) - Cardinality({})
  BY <1>1, <1>2, FS_Union
<1>4. Cardinality(w.ok) \in Nat /\ Cardinality(w.bad) \in Nat /\ Cardinality({}) = 0
  BY <1>2, FS_CardinalityType, FS_EmptySet
<1>5. w.ok \subseteq sentLog[handler[h].b]
  BY ExistsMeansStored DEF Save, ResultInv, WorkOK, Logged
<1>6. IsFiniteSet(sentLog[handler[h].b])
  BY RecipientsAssumption, FS_Subset DEF ResultInv, TypeOK, RowsOK
<1>7. Cardinality(w.ok) <= Cardinality(sentLog[handler[h].b])
  BY <1>5, <1>6, FS_Subset
<1> QED BY <1>3, <1>4, <1>7

(* Logs only grow, as long as the row keeps its counts. *)
LEMMA StepCounts ==
  ASSUME ResultInv, TypeOK', [Next]_vars, NEW b \in Broadcasts
  PROVE  /\ tally'[b].success + tally'[b].failure = tally'[b].total
         /\ tally'[b].success <= Cardinality(sentLog'[b])
<1> DEFINE Good(t, logs) == t.success + t.failure = t.total /\ t.success <= Cardinality(logs)
<1> SUFFICES Good(tally'[b], sentLog'[b])
  OBVIOUS
<1>0. Good(tally[b], sentLog[b])
  BY DEF ResultInv, CountsAddUp, SuccessIsLogged
<1>1. CASE tally'[b] = tally[b] /\ sentLog[b] \subseteq sentLog'[b]
  <2>1. IsFiniteSet(sentLog'[b])
    BY RecipientsAssumption, FS_Subset DEF TypeOK, RowsOK
  <2>2. Cardinality(sentLog[b]) <= Cardinality(sentLog'[b])
    BY <1>1, <2>1, FS_Subset
  <2>3. Cardinality(sentLog[b]) \in Nat /\ Cardinality(sentLog'[b]) \in Nat
    BY <1>1, <2>1, FS_Subset, FS_CardinalityType
  <2>4. tally[b].success \in Nat
    BY DEF ResultInv, TypeOK, RowsOK
  <2> QED BY <1>0, <1>1, <2>2, <2>3, <2>4
<1>2. CASE UNCHANGED <<tally, sentLog>>
  BY <1>0, <1>2
<1>3. ASSUME NEW q \in Requests, RemoveWrite(q) PROVE Good(tally'[b], sentLog'[b])
  <2> DEFINE c == request[q].b
  <2>1. c \in Broadcasts
    BY <1>3 DEF RemoveWrite, ResultInv, TypeOK, RequestsOK, RequestPc
  <2>2. CASE tally' = [tally EXCEPT ![c] = NoTally] /\ sentLog' = [sentLog EXCEPT ![c] = {}]
    <3>1. Good(NoTally, {})
      BY FS_EmptySet DEF NoTally
    <3>2. CASE b = c
      <4>1. tally'[b] = NoTally /\ sentLog'[b] = {}
        BY <2>1, <2>2, <3>2 DEF ResultInv, TypeOK, RowsOK
      <4> QED BY <3>1, <4>1
    <3>3. CASE b # c
      BY <1>0, <2>2, <3>3 DEF ResultInv, TypeOK, RowsOK
    <3> QED BY <3>2, <3>3
  <2> QED BY <1>2, <1>3, <2>2 DEF RemoveWrite, rows
<1>4. ASSUME NEW h \in Handlers, Save(h) PROVE Good(tally'[b], sentLog'[b])
  <2> DEFINE c == handler[h].b  w == handler[h].work
             record == [total |-> Cardinality(w.targets), success |-> Cardinality(w.ok),
                        failure |-> Cardinality(w.bad)]
  <2>1. c \in Broadcasts /\ sentLog' = sentLog
    BY <1>4 DEF Save, ResultInv, TypeOK, HandlersOK
  <2>2. CASE Exists(c) /\ tally' = [tally EXCEPT ![c] = record]
    <3>1. Good(record, sentLog[c])
      BY <1>4, <2>1, <2>2, SaveCounts
    <3> HIDE DEF record, Good
    <3>2. CASE b = c
      BY <2>1, <2>2, <3>1, <3>2 DEF ResultInv, TypeOK, RowsOK
    <3>3. CASE b # c
      BY <1>0, <2>1, <2>2, <3>3 DEF ResultInv, TypeOK, RowsOK
    <3> QED BY <3>2, <3>3
  <2>3. CASE tally' = tally
    BY <1>2, <2>1, <2>3
  <2> QED BY <1>4, <2>2, <2>3 DEF Save
<1>5. ASSUME NEW h \in Handlers, WriteLogs(h) PROVE Good(tally'[b], sentLog'[b])
  <2>1. tally' = tally /\ sentLog[b] \subseteq sentLog'[b]
    BY <1>5 DEF WriteLogs, ResultInv, TypeOK, RowsOK
  <2> QED BY <1>1, <2>1
<1> QED BY <1>2, <1>3, <1>4, <1>5, Writers

LEMMA InitResultInv == Init => ResultInv
<1> SUFFICES ASSUME Init PROVE ResultInv
  OBVIOUS
<1>1. \A h \in Handlers : WorkOK(h)
  BY DEF Init, WorkOK, Partition, Delivered, Logged, Idle, NoWork, Work
<1>2. CountsAddUp /\ SuccessIsLogged /\ LogsAreTrue
  BY FS_EmptySet DEF Init, CountsAddUp, SuccessIsLogged, LogsAreTrue, NoTally
<1> QED BY <1>1, <1>2, InitTypeOK DEF ResultInv

LEMMA StepResultInv == ResultInv /\ [Next]_vars => ResultInv'
<1> SUFFICES ASSUME ResultInv, [Next]_vars PROVE ResultInv'
  OBVIOUS
<1>1. TypeOK'
  BY StepTypeOK DEF ResultInv
<1>2. \A h \in Handlers : WorkOK(h)'
  BY <1>1, StepWork DEF ResultInv
<1>3. CountsAddUp' /\ SuccessIsLogged'
  BY <1>1, StepCounts DEF CountsAddUp, SuccessIsLogged
<1> QED BY <1>1, <1>2, <1>3, StepLogsAreTrue DEF ResultInv

(* In every reachable state the counts of a row add up, its successes have log *)
(* rows, and every log row "sent" stands for a delivery.                       *)
THEOREM ResultsCorrect == Spec => [](CountsAddUp /\ SuccessIsLogged /\ LogsAreTrue)
<1>1. ResultInv => CountsAddUp /\ SuccessIsLogged /\ LogsAreTrue
  BY DEF ResultInv
<1> QED BY <1>1, InitResultInv, StepResultInv, PTL DEF Spec
=============================================================================
