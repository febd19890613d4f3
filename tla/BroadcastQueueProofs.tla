------------------------ MODULE BroadcastQueueProofs ------------------------
(***************************************************************************)
(* What goes through broadcast.send, for every number of broadcasts,         *)
(* requests, followers, handlers and faults.                                 *)
(*                                                                         *)
(* First, Broadcast implements WorkQueue: initial states map to initial      *)
(* states, and every step of Broadcast is a step of the queue or leaves it.  *)
(*                                                                         *)
(* Second, DuplicatesHaveACause.  It is not inductive: it says nothing of    *)
(* the sendings still to come.  The invariant counts every place from which  *)
(* a sending can still reach a follower, and their sum with the deliveries   *)
(* made stays within what was asked for or delivered again.                  *)
(***************************************************************************)
EXTENDS BroadcastProofs, SequenceTheorems

(* The state of WorkQueue that a state of Broadcast stands for. *)
Held    == [h \in Handlers |-> IF handler[h].live THEN handler[h].b ELSE NoBroadcast]
Settled == {h \in LiveHandlers : handler[h].pc \in {"ack", "giveUp"}}
QueueUnchanged == UNCHANGED <<queue, Held, Settled>>

-----------------------------------------------------------------------------
(* WorkQueue counts as this module does. *)
LEMMA QueueCardinality == \A S : Queue!Cardinality(S) = Cardinality(S)
BY DEF Queue!Cardinality, Cardinality

(* The handlers with an open channel are the busy slots of the queue. *)
LEMMA BusyIsLive == TypeOK => Queue!Busy = LiveHandlers
<1> SUFFICES ASSUME TypeOK PROVE Queue!Busy = LiveHandlers
  OBVIOUS
<1>1. \A h \in Handlers : handler[h].live => handler[h].b \in Broadcasts
  BY DEF TypeOK, HandlersOK
<1> QED BY <1>1, NoBroadcastAssumption DEF Queue!Busy, LiveHandlers

(* A handler that moves on stays the holder of its message; it finishes with   *)
(* it, or nothing happens to the queue.                                        *)
LEMMA MovedImplements ==
  ASSUME TypeOK, NEW h \in Handlers, NEW pc, NEW work,
         handler' = MovedTo(h, pc, work), queue' = queue,
         h \in Settled => pc \in {"ack", "giveUp"}
  PROVE  Queue!Next \/ QueueUnchanged
<1>t. HandlersOK
  BY DEF TypeOK
<1>1. Held' = Held /\ LiveHandlers' = LiveHandlers
  BY <1>t, MovedFields DEF Held
<1>2. /\ \A g \in Handlers \ {h} : handler'[g].pc = handler[g].pc
      /\ handler'[h].pc = pc
  BY <1>t, MovedFields
<1>3. Settled' = Settled \/ (h \in LiveHandlers \ Settled /\ Settled' = Settled \cup {h})
  BY <1>1, <1>2 DEF Settled, LiveHandlers
<1>4. CASE h \in LiveHandlers \ Settled /\ Settled' = Settled \cup {h}
  <2>1. Queue!Finish(h)
    BY <1>1, <1>4, BusyIsLive DEF Queue!Finish, Held, Settled
  <2> QED BY <2>1 DEF Queue!Next
<1> QED BY <1>1, <1>3, <1>4 DEF QueueUnchanged

(* The ack of a settled handler. *)
LEMMA AckImplements ==
  ASSUME TypeOK, NEW h \in Settled, handler' = [handler EXCEPT ![h] = Idle], queue' = queue
  PROVE  Queue!Next
<1>t. HandlersOK /\ h \in Handlers
  BY DEF TypeOK, Settled, LiveHandlers
<1>1. /\ \A g \in Handlers \ {h} : handler'[g] = handler[g]
      /\ LiveHandlers' = LiveHandlers \ {h}
  BY <1>t, IdleFields
<1>2. ~ handler'[h].live
  BY <1>t DEF Idle, HandlersOK
<1>3. Held' = [Held EXCEPT ![h] = NoBroadcast]
  <2>1. \A g \in Handlers \ {h} : Held'[g] = Held[g]
    BY <1>1 DEF Held
  <2>2. Held'[h] = NoBroadcast
    BY <1>t, <1>2 DEF Held
  <2> QED BY <2>1, <2>2 DEF Held
<1>4. Settled' = Settled \ {h}
  BY <1>1 DEF Settled, LiveHandlers
<1>5. Queue!Acknowledge(h)
  BY <1>3, <1>4 DEF Queue!Acknowledge, Held, Settled
<1> QED BY <1>t, <1>5 DEF Queue!Next

LEMMA ReceiveImplements ==
  ASSUME TypeOK, NEW h \in Handlers, Receive(h)
  PROVE  Queue!Next
<1>t. HandlersOK
  BY DEF TypeOK
<1>1. ~ handler[h].live /\ Held[h] = NoBroadcast
  BY DEF Receive, LiveHandlers, Held
<1>2. Cardinality(Queue!Busy) < 1
  BY BusyIsLive, FS_EmptySet DEF Receive
<1>3. /\ handler'[h].live /\ handler'[h].b = Head(queue) /\ handler'[h].pc = "load"
      /\ \A g \in Handlers \ {h} : handler'[g] = handler[g]
  BY <1>t DEF Receive, HandlersOK
<1>4. Held' = [Held EXCEPT ![h] = Head(queue)]
  BY <1>3 DEF Held
<1>5. Settled' = Settled
  BY <1>1, <1>3 DEF Settled, LiveHandlers
<1>6. queue # << >> /\ queue' = Tail(queue)
  BY DEF Receive
<1>7. Queue!Take(h)
  BY <1>1, <1>2, <1>4, <1>5, <1>6, QueueCardinality DEF Queue!Take, Held, Settled
<1> QED BY <1>7 DEF Queue!Next

LEMMA PublishImplements ==
  ASSUME NEW b \in Broadcasts, Publish(b), handler' = handler
  PROVE  Queue!Next
<1>1. Queue!Publish(b)
  BY DEF Queue!Publish, Publish, LiveHandlers
<1> QED BY <1>1 DEF Queue!Next

(* What was held comes back: at most one message, because of OneLive. *)
LEMMA RequeueImplements ==
  ASSUME TypeOK, OneLive, queue' = Requeue, \A h \in Handlers : ~ handler'[h].live
  PROVE  Queue!Next
<1>1. Held' = Queue!Nothing /\ Settled' = {}
  BY DEF Held, Settled, LiveHandlers, Queue!Nothing
<1>2. \E o \in Queue!Orders : queue' = [i \in 1..Cardinality(Queue!Busy) |-> Held[o[i]]] \o queue
  <2>1. CASE LiveHandlers = {}
    <3>1. Queue!Busy = {} /\ Cardinality(Queue!Busy) = 0
      BY <2>1, BusyIsLive, FS_EmptySet
    <3> DEFINE o == [i \in 1..0 |-> NoBroadcast]
    <3>2. o \in Queue!Orders
      BY <3>1, QueueCardinality DEF Queue!Orders
    <3>3. [i \in 1..0 |-> Held[o[i]]] = << >>
      OBVIOUS
    <3>4. queue' = << >> \o queue
      BY <2>1, ConcatEmptySeq DEF Requeue, TypeOK
    <3> QED BY <3>1, <3>2, <3>3, <3>4
  <2>2. ASSUME NEW h \in LiveHandlers
        PROVE  \E o \in Queue!Orders :
                 queue' = [i \in 1..Cardinality(Queue!Busy) |-> Held[o[i]]] \o queue
    <3>1. LiveHandlers = {h}
      BY DEF OneLive
    <3>2. Queue!Busy = {h} /\ Cardinality(Queue!Busy) = 1
      BY <3>1, BusyIsLive, FS_Singleton
    <3> DEFINE o == [i \in 1..1 |-> h]
    <3>3. o \in Queue!Orders
      BY <3>2, QueueCardinality DEF Queue!Orders
    <3>4. Held[h] = Unacked
      BY <3>1 DEF Held, Unacked, LiveHandlers
    <3>5. [i \in 1..1 |-> Held[o[i]]] = <<Unacked>>
      BY <3>4
    <3> QED BY <3>1, <3>2, <3>3, <3>5 DEF Requeue
  <2> QED BY <2>1, <2>2
<1>3. Queue!Disconnect
  <2>1. \E o \in Queue!Orders :
          queue' = [i \in 1..Cardinality(Queue!Busy) |-> 
                      [h \in Handlers |-> IF handler[h].live THEN handler[h].b
                                                             ELSE NoBroadcast][o[i]]] \o queue
    BY <1>2 DEF Held
  <2> QED BY <1>1, <2>1, QueueCardinality DEF Queue!Disconnect, Held, Settled
<1> QED BY <1>3 DEF Queue!Next

-----------------------------------------------------------------------------
LEMMA InitImplements == Init => Queue!Init
BY DEF Init, Queue!Init, Queue!Nothing, Idle, LiveHandlers

LEMMA HandlerImplements ==
  ASSUME TypeOK, OneLive, NEW h \in Handlers, HandlerStep(h)
  PROVE  Queue!Next \/ QueueUnchanged
<1>1. CASE Receive(h)
  BY <1>1, ReceiveImplements
<1>2. CASE Load(h) \/ LoadFails(h) \/ Send(h) \/ WriteLogs(h) \/ Save(h) \/ MarkFailed(h)
  <2>1. PICK pc, work : handler' = MovedTo(h, pc, work) /\ (handler[h].pc = "giveUp" => FALSE)
                        /\ handler[h].pc # "ack"
    BY <1>2 DEF Load, LoadFails, Send, SendBatch, WriteLogs, Save, MarkFailed
  <2>2. h \notin Settled
    BY <2>1 DEF Settled
  <2>3. queue' = queue
    BY <1>2 DEF Load, LoadFails, Send, SendBatch, WriteLogs, Save, MarkFailed
  <2> QED BY <2>1, <2>2, <2>3, MovedImplements
<1>3. CASE Ack(h)
  <2>1. CASE handler[h].live
    BY <1>3, <2>1, AckImplements DEF Ack, Settled, LiveHandlers
  <2>2. CASE ~ handler[h].live
    BY <1>3, <2>2, MovedImplements DEF Ack, Settled, LiveHandlers
  <2> QED BY <2>1, <2>2
<1>4. CASE AckFailed(h)
  BY <1>4, AckImplements DEF AckFailed, Settled, LiveHandlers
<1>5. CASE AckFailedThrows(h)
  BY <1>5, RequeueImplements DEF AckFailedThrows, WorkerDies, Idle
<1> QED BY <1>1, <1>2, <1>3, <1>4, <1>5 DEF HandlerStep

LEMMA StepImplements ==
  ASSUME TypeOK, OneLive, [Next]_vars
  PROVE  Queue!Next \/ QueueUnchanged
<1>1. CASE \E h \in Handlers : HandlerStep(h)
  BY <1>1, HandlerImplements
<1>2. CASE WorkerCrash
  BY <1>2, RequeueImplements DEF WorkerCrash, WorkerDies, Idle
<1>3. CASE ConnectionLost
  <2>1. \A h \in Handlers : ~ handler'[h].live
    BY <1>3 DEF ConnectionLost, TypeOK, HandlersOK
  <2> QED BY <1>3, <2>1, RequeueImplements DEF ConnectionLost
<1>4. CASE BrokerRestart
  <2>1. \A h \in Handlers : ~ handler'[h].live
    BY <1>4 DEF BrokerRestart, TypeOK, HandlersOK
  <2>2. Held' = Queue!Nothing /\ Settled' = {}
    BY <2>1 DEF Held, Settled, LiveHandlers, Queue!Nothing
  <2>3. Queue!Purge
    BY <1>4, <2>2 DEF BrokerRestart, Queue!Purge, Held, Settled
  <2> QED BY <2>3 DEF Queue!Next
<1>5. CASE UNCHANGED <<queue, handler>>
  BY <1>5 DEF QueueUnchanged, Held, Settled, LiveHandlers
<1>6. CASE \E q \in Requests : QueueBroadcast(q)
  <2>1. PICK q \in Requests : QueueBroadcast(q)
    BY <1>6
  <2>2. request[q].b \in Broadcasts
    BY <2>1 DEF QueueBroadcast, TypeOK, RequestsOK, RequestPc
  <2> QED BY <1>5, <2>1, <2>2, PublishImplements DEF QueueBroadcast, PublishFails
<1>7. CASE PublishClaimed
  <2>1. sched.b \in Broadcasts
    BY <1>7 DEF PublishClaimed, TypeOK, SchedOK
  <2> QED BY <1>5, <1>7, <2>1, PublishImplements DEF PublishClaimed, PublishFails
<1>8. CASE \E q \in Requests : RequestStep(q) /\ ~ QueueBroadcast(q)
  BY <1>5, <1>8 DEF RequestStep, Create, UpdateRead, UpdateWrite, RemoveRead, RemoveWrite,
     SendNowRead, SendNowWrite
<1>9. CASE Poll \/ Claim \/ PollEnd
  BY <1>5, <1>9 DEF Poll, Claim, PollEnd
<1> QED BY <1>1, <1>2, <1>3, <1>4, <1>5, <1>6, <1>7, <1>8, <1>9
        DEF Next, SchedulerStep, ApiCrash, TimePasses, vars

(* The queue broadcast.send with its publishers and its consumer keeps what a   *)
(* durable queue and a consumer with prefetch 1 promise.                        *)
THEOREM ImplementsWorkQueue == Spec => KeepsWorkQueue
<1> DEFINE Inv == TypeOK /\ OneLive
<1>1. Init => Inv /\ Queue!Init
  BY InitImplements, InitStallInv DEF StallInv
<1>2. Inv /\ [Next]_vars => Inv'
  BY StepTypeOK, StepOneLive
<1>3. Inv /\ [Next]_vars => [Queue!Next]_<<queue, Held, Settled>>
  BY StepImplements DEF QueueUnchanged
<1> HIDE DEF Inv
<1>4. Spec => [][Queue!Next]_<<queue, Held, Settled>>
  BY <1>1, <1>2, <1>3, PTL DEF Spec
<1> QED BY <1>1, <1>4, PTL DEF KeepsWorkQueue, Queue!Spec, Spec, Held, Settled

-----------------------------------------------------------------------------
(* The places from which a sending of b can still reach r: a schedule that is *)
(* open, a request before its enqueue, the scheduler before its enqueue, the  *)
(* messages in the queue, and the handlers that have yet to send to r.        *)

Opens(b)      == IF status[b] = "scheduled" THEN 1 ELSE 0
Enqueuers(b)  == {q \in Requests : request[q].pc = "enqueue" /\ request[q].b = b}
Claims(b)     == IF sched.pc = "publish" /\ sched.b = b THEN 1 ELSE 0
Places(s, b)  == {i \in 1..Len(s) : s[i] = b}
Senders(b, r) == {h \in Handlers :
  /\ handler[h].b = b
  /\ handler[h].pc = "load" \/ (handler[h].pc = "send" /\ r \in handler[h].work.pending)}

(* Only finitely many requests and handlers have begun. *)
FewActive(b, r) == IsFiniteSet(Enqueuers(b)) /\ IsFiniteSet(Senders(b, r))

SendingsFit(b, r) ==
  reached[b][r] + Opens(b) + Cardinality(Enqueuers(b)) + Claims(b)
    + Cardinality(Places(queue, b)) + Cardinality(Senders(b, r)) <= asked[b] + extra[b]

SendingsCounted == \A b \in Broadcasts, r \in Recipients : FewActive(b, r) /\ SendingsFit(b, r)

SendingInv == TypeOK /\ SendingsCounted

(* Counting sets that shrink, grow by one, lose one. *)
LEMMA FewerOf ==
  ASSUME NEW S, IsFiniteSet(S), NEW T \in SUBSET S
  PROVE  /\ IsFiniteSet(T) /\ Cardinality(T) <= Cardinality(S)
         /\ Cardinality(T) \in Nat /\ Cardinality(S) \in Nat
<1>1. IsFiniteSet(T) /\ Cardinality(T) <= Cardinality(S)
  BY FS_Subset
<1> QED BY <1>1, FS_CardinalityType

LEMMA OneMoreOf ==
  ASSUME NEW S, IsFiniteSet(S), NEW x, NEW T \in SUBSET (S \cup {x})
  PROVE  /\ IsFiniteSet(T) /\ Cardinality(T) <= Cardinality(S) + 1
         /\ Cardinality(T) \in Nat /\ Cardinality(S) \in Nat
<1>1. /\ IsFiniteSet(S \cup {x})
      /\ Cardinality(S \cup {x}) = Cardinality(S) \/ Cardinality(S \cup {x}) = Cardinality(S) + 1
  BY FS_AddElement
<1>2. IsFiniteSet(T) /\ Cardinality(T) <= Cardinality(S \cup {x}) /\ Cardinality(T) \in Nat
  BY <1>1, FewerOf
<1>3. Cardinality(S) \in Nat
  BY FS_CardinalityType
<1> QED BY <1>1, <1>2, <1>3

LEMMA OneLessOf ==
  ASSUME NEW S, IsFiniteSet(S), NEW x \in S, NEW T \in SUBSET (S \ {x})
  PROVE  /\ IsFiniteSet(T) /\ Cardinality(T) + 1 <= Cardinality(S)
         /\ Cardinality(T) \in Nat /\ Cardinality(S) \in Nat
<1>1. IsFiniteSet(S \ {x}) /\ Cardinality(S \ {x}) = Cardinality(S) - 1
  BY FS_RemoveElement
<1>2. IsFiniteSet(T) /\ Cardinality(T) <= Cardinality(S \ {x}) /\ Cardinality(T) \in Nat
  BY <1>1, FewerOf
<1>3. Cardinality(S) \in Nat
  BY FS_CardinalityType
<1> QED BY <1>1, <1>2, <1>3

(* How many messages of a broadcast the queue holds. *)
LEMMA PlacesType ==
  ASSUME NEW s \in Seq(Broadcasts), NEW b
  PROVE  IsFiniteSet(Places(s, b)) /\ Cardinality(Places(s, b)) \in Nat
<1>1. IsFiniteSet(1..Len(s))
  BY LenProperties, FS_Interval
<1>2. Places(s, b) \in SUBSET (1..Len(s))
  BY DEF Places
<1>3. IsFiniteSet(Places(s, b))
  BY <1>1, <1>2, FS_Subset
<1> QED BY <1>3, FS_CardinalityType

LEMMA PlacesEmpty == \A b : Cardinality(Places(<<>>, b)) = 0
<1>1. \A b : Places(<<>>, b) = {}
  BY DEF Places
<1> QED BY <1>1, FS_EmptySet

LEMMA PlacesAppend ==
  ASSUME NEW s \in Seq(Broadcasts), NEW x \in Broadcasts, NEW b
  PROVE  /\ Append(s, x) \in Seq(Broadcasts)
         /\ Cardinality(Places(Append(s, x), b)) <=
              Cardinality(Places(s, b)) + (IF x = b THEN 1 ELSE 0)
<1> DEFINE t == Append(s, x)
           n == Len(s)
<1>1. /\ t \in Seq(Broadcasts) /\ Len(t) = n + 1 /\ t[n + 1] = x /\ n \in Nat
      /\ \A i \in 1..n : t[i] = s[i]
  BY AppendProperties, LenProperties
<1> HIDE DEF t, n
<1>2. CASE x = b
  <2>1. Places(t, b) \in SUBSET (Places(s, b) \cup {n + 1})
    BY <1>1 DEF Places, n
  <2>2. Cardinality(Places(t, b)) <= Cardinality(Places(s, b)) + 1
    BY <2>1, PlacesType, OneMoreOf
  <2> QED BY <1>1, <1>2, <2>2 DEF t
<1>3. CASE x # b
  <2>1. Places(t, b) = Places(s, b)
    BY <1>1, <1>3 DEF Places, n
  <2> QED BY <1>1, <1>3, <2>1, PlacesType DEF t
<1> QED BY <1>2, <1>3

(* A shift by one of the places of s, into a finite set. *)
LEMMA PlacesTail ==
  ASSUME NEW s \in Seq(Broadcasts), s # <<>>, NEW b
  PROVE  /\ Tail(s) \in Seq(Broadcasts) /\ Head(s) \in Broadcasts
         /\ Cardinality(Places(Tail(s), b)) + (IF Head(s) = b THEN 1 ELSE 0)
              <= Cardinality(Places(s, b))
<1> DEFINE t == Tail(s)
           S == Places(t, b)
           T == Places(s, b) \ {1}
           f == [i \in S |-> i + 1]
<1>1. /\ t \in Seq(Broadcasts) /\ Len(t) = Len(s) - 1 /\ Len(s) \in Nat /\ Len(s) >= 1
      /\ \A i \in 1..Len(t) : t[i] = s[i + 1]
  BY HeadTailProperties, LenProperties
<1>2. Head(s) = s[1] /\ Head(s) \in Broadcasts
  BY <1>1
<1> HIDE DEF t
<1>3. \A i \in S : i \in Nat /\ i + 1 \in T
  BY <1>1 DEF Places
<1>4. f \in Injection(S, T)
  <2>1. f \in [S -> T]
    BY <1>3
  <2>2. \A i, j \in S : i + 1 = j + 1 => i = j
    BY <1>3
  <2>3. \A i, j \in S : f[i] = f[j] => i = j
    BY <2>2
  <2> QED BY <2>1, <2>3 DEF Injection, IsInjective
<1>5. /\ IsFiniteSet(Places(s, b)) /\ Cardinality(Places(s, b)) \in Nat
      /\ Cardinality(S) \in Nat
  BY <1>1, PlacesType
<1> HIDE DEF f
<1>6. /\ IsFiniteSet(T)
      /\ Cardinality(T) = IF 1 \in Places(s, b) THEN Cardinality(Places(s, b)) - 1
                                               ELSE Cardinality(Places(s, b))
  BY <1>5, FS_RemoveElement
<1> HIDE DEF S, T
<1>7. Cardinality(S) <= Cardinality(T)
  BY <1>4, <1>6, FS_Injection
<1>8. Head(s) = b => 1 \in Places(s, b)
  BY <1>1, <1>2 DEF Places
<1> QED BY <1>1, <1>2, <1>5, <1>6, <1>7, <1>8 DEF S, t

LEMMA PlacesBack ==
  ASSUME NEW s \in Seq(Broadcasts), NEW x \in Broadcasts, NEW b
  PROVE  /\ <<x>> \o s \in Seq(Broadcasts)
         /\ Cardinality(Places(<<x>> \o s, b)) <=
              Cardinality(Places(s, b)) + (IF x = b THEN 1 ELSE 0)
<1> DEFINE t == <<x>> \o s
           S == Places(t, b) \ {1}
           T == Places(s, b)
           f == [i \in S |-> i - 1]
<1>1. /\ t \in Seq(Broadcasts) /\ Len(t) = Len(s) + 1 /\ Len(s) \in Nat /\ t[1] = x
      /\ \A i \in 1..Len(t) : i # 1 => t[i] = s[i - 1]
  BY LenProperties
<1> HIDE DEF t
<1>2. \A i \in S : i \in Nat /\ i - 1 \in T
  BY <1>1 DEF Places
<1>3. f \in Injection(S, T)
  <2>1. f \in [S -> T]
    BY <1>2
  <2>2. \A i, j \in S : i - 1 = j - 1 => i = j
    BY <1>2
  <2>3. \A i, j \in S : f[i] = f[j] => i = j
    BY <2>2
  <2> QED BY <2>1, <2>3 DEF Injection, IsInjective
<1>4. /\ IsFiniteSet(T) /\ Cardinality(T) \in Nat
      /\ IsFiniteSet(Places(t, b)) /\ Cardinality(Places(t, b)) \in Nat
  BY <1>1, PlacesType
<1> HIDE DEF f
<1>5. /\ IsFiniteSet(S)
      /\ Cardinality(S) = IF 1 \in Places(t, b) THEN Cardinality(Places(t, b)) - 1
                                               ELSE Cardinality(Places(t, b))
  BY <1>4, FS_RemoveElement
<1> HIDE DEF S
<1>6. Cardinality(S) <= Cardinality(T)
  BY <1>3, <1>4, FS_Injection
<1>7. 1 \in Places(t, b) => x = b
  BY <1>1 DEF Places
<1> QED BY <1>1, <1>4, <1>5, <1>6, <1>7 DEF T, t

-----------------------------------------------------------------------------
(* What the steps do to the sum.  Each lemma takes one broadcast and one      *)
(* follower.                                                                 *)

LEMMA SumType ==
  ASSUME TypeOK, NEW b \in Broadcasts, NEW r \in Recipients, FewActive(b, r)
  PROVE  /\ reached[b][r] \in Nat /\ asked[b] \in Nat /\ extra[b] \in Nat
         /\ Opens(b) \in Nat /\ Claims(b) \in Nat
         /\ Cardinality(Enqueuers(b)) \in Nat /\ Cardinality(Senders(b, r)) \in Nat
         /\ Cardinality(Places(queue, b)) \in Nat
<1>1. reached[b][r] \in Nat /\ asked[b] \in Nat /\ extra[b] \in Nat
  BY DEF TypeOK, HistoryOK
<1>2. Opens(b) \in Nat /\ Claims(b) \in Nat
  BY DEF Opens, Claims
<1>3. Cardinality(Enqueuers(b)) \in Nat /\ Cardinality(Senders(b, r)) \in Nat
  BY FS_CardinalityType DEF FewActive
<1>4. Cardinality(Places(queue, b)) \in Nat
  BY PlacesType DEF TypeOK
<1> QED BY <1>1, <1>2, <1>3, <1>4

(* A step that adds to no part of the sum. *)
LEMMA NoMoreSendings ==
  ASSUME TypeOK, TypeOK', NEW b \in Broadcasts, NEW r \in Recipients,
         FewActive(b, r), SendingsFit(b, r),
         Enqueuers(b)' \subseteq Enqueuers(b), Senders(b, r)' \subseteq Senders(b, r),
         Opens(b)' <= Opens(b), Claims(b)' <= Claims(b),
         Cardinality(Places(queue, b)') <= Cardinality(Places(queue, b)),
         UNCHANGED <<reached, asked, extra>>
  PROVE  (FewActive(b, r) /\ SendingsFit(b, r))'
<1>1. /\ IsFiniteSet(Enqueuers(b)')
      /\ Cardinality(Enqueuers(b)') <= Cardinality(Enqueuers(b))
  BY FewerOf DEF FewActive
<1>2. /\ IsFiniteSet(Senders(b, r)')
      /\ Cardinality(Senders(b, r)') <= Cardinality(Senders(b, r))
  BY FewerOf DEF FewActive
<1>3. FewActive(b, r)'
  BY <1>1, <1>2 DEF FewActive
<1>4. Cardinality(Enqueuers(b)') \in Nat /\ Cardinality(Senders(b, r)') \in Nat
      /\ Cardinality(Places(queue, b)') \in Nat /\ Opens(b)' \in Nat /\ Claims(b)' \in Nat
  <2>1. Cardinality(Enqueuers(b)') \in Nat /\ Cardinality(Senders(b, r)') \in Nat
    BY <1>1, <1>2, FS_CardinalityType
  <2>2. queue' \in Seq(Broadcasts)
    BY DEF TypeOK
  <2>3. Cardinality(Places(queue', b)) \in Nat
    BY <2>2, PlacesType
  <2>4. Opens(b)' \in Nat /\ Claims(b)' \in Nat
    BY DEF Opens, Claims
  <2> QED BY <2>1, <2>3, <2>4 DEF Places
<1>5. SendingsFit(b, r)'
  BY <1>1, <1>2, <1>4, SumType DEF SendingsFit
<1> QED BY <1>3, <1>5

(* Request q writes status s to the row of c, and has to enqueue it when s is *)
(* "processing".  A schedule that is taken over pays for the enqueue, and     *)
(* otherwise `asked` grows with the sum.                                      *)
LEMMA WriteSendings ==
  ASSUME TypeOK, NEW b \in Broadcasts, NEW r \in Recipients,
         FewActive(b, r), SendingsFit(b, r),
         NEW q \in Requests, NEW c \in Broadcasts, NEW s \in Stored \cup {"keep"},
         request[q].pc # "enqueue",
         status' = IF s = "keep" THEN status ELSE [status EXCEPT ![c] = s],
         asked' = AskedAfter(c, s),
         request' = [request EXCEPT ![q] = ThenEnqueue(c, s)],
         UNCHANGED <<queue, sched, handler, reached, extra>>
  PROVE  (FewActive(b, r) /\ SendingsFit(b, r))'
<1>t. /\ request \in [Requests -> [pc : RequestPc, b : Broadcasts \cup {NoBroadcast},
                                   status : Stored \cup {"keep"}, due : DueTimes \cup {"keep"}]]
      /\ status \in [Broadcasts -> RowStates] /\ asked \in [Broadcasts -> Nat]
  BY DEF TypeOK, RowsOK, RequestsOK, HistoryOK
<1>1. /\ request'[q].pc = (IF s = "processing" THEN "enqueue" ELSE "done")
      /\ s = "processing" => request'[q].b = c
      /\ \A p \in Requests \ {q} : request'[p] = request[p]
  BY <1>t DEF ThenEnqueue, Finished, RequestAt
<1>2. /\ Senders(b, r)' = Senders(b, r) /\ Claims(b)' = Claims(b)
      /\ Places(queue, b)' = Places(queue, b)
      /\ reached'[b][r] = reached[b][r] /\ extra'[b] = extra[b]
  BY DEF Senders, Claims, Places
<1>3. CASE b = c /\ s = "processing"
  <2>1. Enqueuers(b)' \in SUBSET (Enqueuers(b) \cup {q})
    BY <1>1 DEF Enqueuers
  <2>2. /\ IsFiniteSet(Enqueuers(b)') /\ Cardinality(Enqueuers(b)') \in Nat
        /\ Cardinality(Enqueuers(b)') <= Cardinality(Enqueuers(b)) + 1
    BY <2>1, OneMoreOf DEF FewActive
  <2>3. Opens(b)' = 0
    BY <1>3, <1>t DEF Opens
  <2>4. asked'[b] = IF status[b] = "scheduled" THEN asked[b] ELSE asked[b] + 1
    BY <1>3, <1>t DEF AskedAfter, Asks
  <2>5. SendingsFit(b, r)'
    BY <1>2, <2>2, <2>3, <2>4, SumType DEF SendingsFit, Opens
  <2> QED BY <1>2, <2>2, <2>5 DEF FewActive
<1>4. CASE ~ (b = c /\ s = "processing")
  <2>1. Enqueuers(b)' \in SUBSET Enqueuers(b)
    BY <1>1, <1>4 DEF Enqueuers
  <2>2. /\ IsFiniteSet(Enqueuers(b)') /\ Cardinality(Enqueuers(b)') \in Nat
        /\ Cardinality(Enqueuers(b)') <= Cardinality(Enqueuers(b))
    BY <2>1, FewerOf DEF FewActive
  <2>3. /\ asked'[b] \in Nat
        /\ Opens(b)' - Opens(b) <= asked'[b] - asked[b]
    BY <1>4, <1>t DEF AskedAfter, Asks, Opens
  <2>4. SendingsFit(b, r)'
    <3>1. Opens(b)' \in Nat
      BY DEF Opens
    <3> QED BY <1>2, <2>2, <2>3, <3>1, SumType DEF SendingsFit
  <2> QED BY <1>2, <2>2, <2>4 DEF FewActive
<1> QED BY <1>3, <1>4

(* enqueue() of c, by request or by the scheduler: one part of the sum gives  *)
(* what the queue gets, and a second copy is in `extra`.                      *)
LEMMA PublishPlaces ==
  ASSUME TypeOK, NEW b \in Broadcasts, NEW c \in Broadcasts,
         (Publish(c) /\ UNCHANGED dropped) \/ PublishFails(c)
  PROVE  /\ extra'[b] \in Nat /\ Cardinality(Places(queue, b)') \in Nat
         /\ extra[b] <= extra'[b]
         /\ Cardinality(Places(queue, b)') - Cardinality(Places(queue, b))
              <= extra'[b] - extra[b] + (IF c = b THEN 1 ELSE 0)
<1>t. queue \in Seq(Broadcasts) /\ extra \in [Broadcasts -> Nat]
  BY DEF TypeOK, HistoryOK
<1>0. Cardinality(Places(queue, b)) \in Nat /\ Places(queue, b)' = Places(queue', b)
  BY <1>t, PlacesType DEF Places
<1>1. CASE queue' = Append(queue, c) /\ extra' = extra
  <2>1. /\ queue' \in Seq(Broadcasts)
        /\ Cardinality(Places(queue', b)) <=
             Cardinality(Places(queue, b)) + (IF c = b THEN 1 ELSE 0)
    BY <1>t, <1>1, PlacesAppend
  <2>2. Cardinality(Places(queue', b)) \in Nat
    BY <2>1, PlacesType
  <2> QED BY <1>t, <1>0, <1>1, <2>1, <2>2
<1>2. CASE queue' = Append(Append(queue, c), c) /\ extra' = [extra EXCEPT ![c] = @ + 1]
  <2> DEFINE one == Append(queue, c)
  <2>1. /\ one \in Seq(Broadcasts)
        /\ Cardinality(Places(one, b)) <=
             Cardinality(Places(queue, b)) + (IF c = b THEN 1 ELSE 0)
    BY <1>t, PlacesAppend
  <2>2. queue' = Append(one, c)
    BY <1>2
  <2> HIDE DEF one
  <2>3. /\ queue' \in Seq(Broadcasts)
        /\ Cardinality(Places(queue', b)) <=
             Cardinality(Places(one, b)) + (IF c = b THEN 1 ELSE 0)
    BY <2>1, <2>2, PlacesAppend
  <2>4. Cardinality(Places(queue', b)) \in Nat /\ Cardinality(Places(one, b)) \in Nat
    BY <2>1, <2>3, PlacesType
  <2>5. extra'[b] = (IF c = b THEN extra[b] + 1 ELSE extra[b]) /\ extra[b] \in Nat
    BY <1>t, <1>2
  <2> QED BY <1>0, <2>1, <2>3, <2>4, <2>5
<1>3. CASE queue' = queue /\ extra' = extra
  BY <1>t, <1>0, <1>3
<1> QED BY <1>1, <1>2, <1>3 DEF Publish, PublishFails

LEMMA QueueBroadcastSendings ==
  ASSUME TypeOK, NEW b \in Broadcasts, NEW r \in Recipients,
         FewActive(b, r), SendingsFit(b, r), NEW q \in Requests, QueueBroadcast(q)
  PROVE  (FewActive(b, r) /\ SendingsFit(b, r))'
<1> DEFINE c == request[q].b
<1>t. /\ request \in [Requests -> [pc : RequestPc, b : Broadcasts \cup {NoBroadcast},
                                   status : Stored \cup {"keep"}, due : DueTimes \cup {"keep"}]]
      /\ c \in Broadcasts
  BY DEF TypeOK, RequestsOK, QueueBroadcast, RequestPc
<1>1. /\ request'[q].pc = "done"
      /\ \A p \in Requests \ {q} : request'[p] = request[p]
  BY <1>t DEF QueueBroadcast, Finished, RequestAt
<1>2. /\ Senders(b, r)' = Senders(b, r) /\ Claims(b)' = Claims(b) /\ Opens(b)' = Opens(b)
      /\ reached'[b][r] = reached[b][r] /\ asked'[b] = asked[b]
  BY DEF QueueBroadcast, Senders, Claims, Opens, rows
<1>3. /\ extra'[b] \in Nat /\ Cardinality(Places(queue, b)') \in Nat
      /\ extra[b] <= extra'[b]
      /\ Cardinality(Places(queue, b)') - Cardinality(Places(queue, b))
           <= extra'[b] - extra[b] + (IF c = b THEN 1 ELSE 0)
  BY <1>t, PublishPlaces DEF QueueBroadcast
<1> HIDE DEF c
<1>4. CASE c = b
  <2>1. q \in Enqueuers(b) /\ Enqueuers(b)' \in SUBSET (Enqueuers(b) \ {q})
    BY <1>1, <1>4 DEF Enqueuers, QueueBroadcast, c
  <2>2. /\ IsFiniteSet(Enqueuers(b)') /\ Cardinality(Enqueuers(b)') \in Nat
        /\ Cardinality(Enqueuers(b)') + 1 <= Cardinality(Enqueuers(b))
    BY <2>1, OneLessOf DEF FewActive
  <2>3. SendingsFit(b, r)'
    BY <1>2, <1>3, <1>4, <2>2, SumType DEF SendingsFit
  <2> QED BY <1>2, <2>2, <2>3 DEF FewActive
<1>5. CASE c # b
  <2>1. Enqueuers(b)' \in SUBSET Enqueuers(b)
    BY <1>1 DEF Enqueuers
  <2>2. /\ IsFiniteSet(Enqueuers(b)') /\ Cardinality(Enqueuers(b)') \in Nat
        /\ Cardinality(Enqueuers(b)') <= Cardinality(Enqueuers(b))
    BY <2>1, FewerOf DEF FewActive
  <2>3. SendingsFit(b, r)'
    BY <1>2, <1>3, <1>5, <2>2, SumType DEF SendingsFit
  <2> QED BY <1>2, <2>2, <2>3 DEF FewActive
<1> QED BY <1>4, <1>5

LEMMA RequestSendings ==
  ASSUME TypeOK, TypeOK', NEW b \in Broadcasts, NEW r \in Recipients,
         FewActive(b, r), SendingsFit(b, r), NEW q \in Requests, RequestStep(q)
  PROVE  (FewActive(b, r) /\ SendingsFit(b, r))'
<1>t. /\ request \in [Requests -> [pc : RequestPc, b : Broadcasts \cup {NoBroadcast},
                                   status : Stored \cup {"keep"}, due : DueTimes \cup {"keep"}]]
      /\ status \in [Broadcasts -> RowStates]
      /\ request[q].pc \in {"update", "remove", "sendNow", "enqueue"} => request[q].b \in Broadcasts
  BY DEF TypeOK, RowsOK, RequestsOK, RequestPc
<1>1. CASE QueueBroadcast(q)
  BY <1>1, QueueBroadcastSendings
<1>2. CASE Create(q)
  <2>1. PICK c \in Broadcasts, s \in Editable \cup {"processing"} :
          /\ request[q].pc = "new"
          /\ status' = [status EXCEPT ![c] = s]
          /\ asked' = AskedAfter(c, s)
          /\ request' = [request EXCEPT ![q] = ThenEnqueue(c, s)]
          /\ UNCHANGED <<queue, sched, handler, reached, extra>>
    BY <1>2 DEF Create
  <2>2. s \in Stored \cup {"keep"} /\ s # "keep"
    BY DEF Editable, Stored, Statuses
  <2> QED BY <2>1, <2>2, WriteSendings
<1>3. CASE UpdateWrite(q) /\ Exists(request[q].b)
  <2>1. request[q].status \in Stored \cup {"keep"}
    BY <1>t
  <2> QED BY <1>3, <1>t, <2>1, WriteSendings DEF UpdateWrite
<1>4. CASE SendNowWrite(q) /\ Exists(request[q].b)
  <2>1. "processing" \in Stored \cup {"keep"}
    BY DEF Stored, Statuses
  <2> QED BY <1>4, <1>t, <2>1, WriteSendings DEF SendNowWrite
<1>5. CASE \/ UpdateRead(q) \/ RemoveRead(q) \/ SendNowRead(q) \/ RemoveWrite(q)
           \/ (UpdateWrite(q) /\ ~ Exists(request[q].b))
           \/ (SendNowWrite(q) /\ ~ Exists(request[q].b))
  <2>1. /\ UNCHANGED <<queue, sched, handler, reached, asked, extra>>
        /\ \E v : v.pc # "enqueue" /\ request' = [request EXCEPT ![q] = v]
        /\ status' = status \/ \E c : status' = [status EXCEPT ![c] = "deleted"]
    <3>1. /\ Finished.pc # "enqueue"
          /\ \A c : RequestAt("remove", c).pc # "enqueue" /\ RequestAt("sendNow", c).pc # "enqueue"
      BY DEF Finished, RequestAt
    <3> QED BY <1>5, <3>1 DEF UpdateRead, RemoveRead, SendNowRead, RemoveWrite, UpdateWrite, 
               SendNowWrite, rows, history
  <2>2. Enqueuers(b)' \subseteq Enqueuers(b)
    BY <1>t, <2>1 DEF Enqueuers
  <2>3. Opens(b)' <= Opens(b)
    BY <1>t, <2>1 DEF Opens
  <2>4. /\ Senders(b, r)' = Senders(b, r) /\ Claims(b)' = Claims(b)
        /\ Places(queue, b)' = Places(queue, b)
    BY <2>1 DEF Senders, Claims, Places
  <2>5. Claims(b) <= Claims(b) /\ Cardinality(Places(queue, b)) <= Cardinality(Places(queue, b))
    BY SumType
  <2> QED BY <2>1, <2>2, <2>3, <2>4, <2>5, NoMoreSendings
<1> QED BY <1>1, <1>2, <1>3, <1>4, <1>5 DEF RequestStep

(* The claim turns an open schedule into the enqueue of the scheduler, and    *)
(* that into messages.                                                       *)
LEMMA SchedulerSendings ==
  ASSUME TypeOK, TypeOK', NEW b \in Broadcasts, NEW r \in Recipients,
         FewActive(b, r), SendingsFit(b, r), SchedulerStep
  PROVE  (FewActive(b, r) /\ SendingsFit(b, r))'
<1>t. status \in [Broadcasts -> RowStates] /\ SchedOK
  BY DEF TypeOK, RowsOK
<1>0. /\ Enqueuers(b)' = Enqueuers(b) /\ Senders(b, r)' = Senders(b, r)
      /\ reached' = reached /\ asked' = asked
  BY DEF SchedulerStep, Poll, Claim, PublishClaimed, PollEnd, Enqueuers, Senders, history
<1>n. Claims(b) <= Claims(b) /\ Opens(b) <= Opens(b)
      /\ Cardinality(Places(queue, b)) <= Cardinality(Places(queue, b))
  BY SumType
<1>1. CASE PublishClaimed
  <2> DEFINE c == sched.b
  <2>1. c \in Broadcasts
    BY <1>1, <1>t DEF PublishClaimed, SchedOK
  <2>2. /\ extra'[b] \in Nat /\ Cardinality(Places(queue, b)') \in Nat
        /\ extra[b] <= extra'[b]
        /\ Cardinality(Places(queue, b)') - Cardinality(Places(queue, b))
             <= extra'[b] - extra[b] + (IF c = b THEN 1 ELSE 0)
    BY <1>1, <2>1, PublishPlaces DEF PublishClaimed
  <2>3. Claims(b) = (IF c = b THEN 1 ELSE 0) /\ Claims(b)' = 0
    BY <1>1 DEF PublishClaimed, Claims
  <2>4. Opens(b)' = Opens(b)
    BY <1>1 DEF PublishClaimed, Opens, rows
  <2> HIDE DEF c
  <2>5. SendingsFit(b, r)'
    BY <1>0, <2>2, <2>3, <2>4, SumType DEF SendingsFit
  <2> QED BY <1>0, <2>5 DEF FewActive
<1>2. CASE Claim
  <2>1. PICK c \in sched.todo :
          /\ sched.pc = "claim"
          /\ \/ /\ Claimable(c)
                /\ status' = [status EXCEPT ![c] = "processing"]
                /\ sched' = [pc |-> "publish", todo |-> sched.todo \ {c}, b |-> c]
             \/ /\ sched' = [sched EXCEPT !.todo = @ \ {c}]
                /\ status' = status
    BY <1>2 DEF Claim
  <2>2. Places(queue, b)' = Places(queue, b) /\ extra' = extra
    BY <1>2 DEF Claim, Places, history
  <2>3. CASE /\ Claimable(c)
             /\ status' = [status EXCEPT ![c] = "processing"]
             /\ sched' = [pc |-> "publish", todo |-> sched.todo \ {c}, b |-> c]
    <3>1. c \in Broadcasts
      BY <1>t DEF SchedOK
    <3>2. Opens(b)' + Claims(b)' <= Opens(b) + Claims(b)
      BY <1>t, <2>1, <2>3, <3>1 DEF Opens, Claims, Claimable
    <3>3. Opens(b)' \in Nat /\ Claims(b)' \in Nat
      BY DEF Opens, Claims
    <3>4. SendingsFit(b, r)'
      BY <1>0, <2>2, <3>2, <3>3, SumType DEF SendingsFit
    <3> QED BY <1>0, <3>4 DEF FewActive
  <2>4. CASE sched' = [sched EXCEPT !.todo = @ \ {c}] /\ status' = status
    <3>1. Claims(b)' <= Claims(b) /\ Opens(b)' = Opens(b)
      BY <1>t, <2>1, <2>4 DEF Claims, Opens, SchedOK
    <3> QED BY <1>0, <1>n, <2>2, <3>1, NoMoreSendings
  <2> QED BY <2>1, <2>3, <2>4
<1>3. CASE Poll \/ PollEnd
  <2>1. Claims(b)' <= Claims(b)
    BY <1>3 DEF Poll, PollEnd, Claims, IdleSched
  <2>2. Opens(b)' = Opens(b) /\ Places(queue, b)' = Places(queue, b) /\ extra' = extra
    BY <1>3 DEF Poll, PollEnd, Opens, Places, rows, history
  <2> QED BY <1>0, <1>n, <2>1, <2>2, NoMoreSendings
<1> QED BY <1>1, <1>2, <1>3 DEF SchedulerStep

(* A message leaves the queue for the handler that receives it. *)
LEMMA ReceiveSendings ==
  ASSUME TypeOK, NEW b \in Broadcasts, NEW r \in Recipients,
         FewActive(b, r), SendingsFit(b, r), NEW h \in Handlers, Receive(h)
  PROVE  (FewActive(b, r) /\ SendingsFit(b, r))'
<1> DEFINE c == Head(queue)
<1>t. queue \in Seq(Broadcasts) /\ HandlersOK
  BY DEF TypeOK
<1>1. /\ queue' \in Seq(Broadcasts)
      /\ Cardinality(Places(queue', b)) + (IF c = b THEN 1 ELSE 0) <= Cardinality(Places(queue, b))
  BY <1>t, PlacesTail DEF Receive
<1>2. Cardinality(Places(queue', b)) \in Nat /\ Places(queue, b)' = Places(queue', b)
  BY <1>1, PlacesType DEF Places
<1>3. /\ handler'[h].b = c
      /\ \A g \in Handlers \ {h} : handler'[g] = handler[g]
  BY <1>t DEF Receive, HandlersOK
<1>4. /\ Enqueuers(b)' = Enqueuers(b) /\ Claims(b)' = Claims(b) /\ Opens(b)' = Opens(b)
      /\ reached' = reached /\ asked' = asked /\ extra' = extra
  BY DEF Receive, Enqueuers, Claims, Opens, rows, history
<1> HIDE DEF c
<1>5. CASE c = b
  <2>1. Senders(b, r)' \in SUBSET (Senders(b, r) \cup {h})
    BY <1>3 DEF Senders
  <2>2. /\ IsFiniteSet(Senders(b, r)') /\ Cardinality(Senders(b, r)') \in Nat
        /\ Cardinality(Senders(b, r)') <= Cardinality(Senders(b, r)) + 1
    BY <2>1, OneMoreOf DEF FewActive
  <2>3. Cardinality(Places(queue, b)') + 1 <= Cardinality(Places(queue, b))
    BY <1>1, <1>2, <1>5
  <2>4. Cardinality(Places(queue, b)') \in Nat
    BY <1>2
  <2>5. SendingsFit(b, r)'
    BY <1>4, <2>2, <2>3, <2>4, SumType DEF SendingsFit
  <2> QED BY <1>4, <2>2, <2>5 DEF FewActive
<1>6. CASE c # b
  <2>1. Senders(b, r)' \in SUBSET Senders(b, r)
    BY <1>3, <1>6 DEF Senders
  <2>2. /\ IsFiniteSet(Senders(b, r)') /\ Cardinality(Senders(b, r)') \in Nat
        /\ Cardinality(Senders(b, r)') <= Cardinality(Senders(b, r))
    BY <2>1, FewerOf DEF FewActive
  <2>3. Cardinality(Places(queue, b)') <= Cardinality(Places(queue, b))
    BY <1>1, <1>2, <1>6
  <2>4. Cardinality(Places(queue, b)') \in Nat
    BY <1>2
  <2>5. SendingsFit(b, r)'
    BY <1>4, <2>2, <2>3, <2>4, SumType DEF SendingsFit
  <2> QED BY <1>4, <2>2, <2>5 DEF FewActive
<1> QED BY <1>5, <1>6

(* LINE delivers to followers that were pending, and they are not any more. *)
LEMMA SendSendings ==
  ASSUME TypeOK, NEW b \in Broadcasts, NEW r \in Recipients,
         FewActive(b, r), SendingsFit(b, r), NEW h \in Handlers, Send(h)
  PROVE  (FewActive(b, r) /\ SendingsFit(b, r))'
<1>t. HandlersOK /\ handler[h].b \in Broadcasts /\ reached \in [Broadcasts -> [Recipients -> Nat]]
  BY DEF TypeOK, HandlersOK, HistoryOK, Send, SendBatch
<1> DEFINE c == handler[h].b
           w == handler[h].work
<1>1. PICK batch \in Batches(h) : \E accepted \in SUBSET batch : \E confirmed \in SUBSET accepted :
        SendBatch(h, batch, accepted, confirmed)
  BY DEF Send
<1>2. PICK accepted \in SUBSET batch : \E confirmed \in SUBSET accepted :
        SendBatch(h, batch, accepted, confirmed)
  BY <1>1
<1>3. PICK confirmed \in SUBSET accepted : SendBatch(h, batch, accepted, confirmed)
  BY <1>2
<1>4. batch \subseteq w.pending
  BY DEF Batches
<1> DEFINE rest == w.pending \ batch
           work == Work(w.mode, w.targets, rest, w.ok \cup confirmed, w.bad \cup (batch \ confirmed))
           pc   == IF rest = {} THEN "log" ELSE "send"
<1>5. handler' = MovedTo(h, pc, work) /\ handler[h].pc = "send"
  BY <1>3 DEF SendBatch, Rest
<1>6. work.pending = rest
  BY DEF Work
<1> HIDE DEF work, pc
<1>7. /\ handler'[h].work.pending = rest /\ handler'[h].b = c
      /\ \A g \in Handlers \ {h} : handler'[g] = handler[g]
      /\ handler'[h].pc # "load"
  <2>1. /\ handler'[h].pc = pc /\ handler'[h].work = work
        /\ handler'[h].b = handler[h].b
        /\ \A g \in Handlers \ {h} : handler'[g] = handler[g]
    BY <1>t, <1>5, MovedFields
  <2> QED BY <1>6, <2>1 DEF pc
<1>8. /\ Enqueuers(b)' = Enqueuers(b) /\ Claims(b)' = Claims(b) /\ Opens(b)' = Opens(b)
      /\ Places(queue, b)' = Places(queue, b)
      /\ asked' = asked /\ extra' = extra
  BY <1>3 DEF SendBatch, Enqueuers, Claims, Opens, Places, rows, history
<1>9. reached'[b][r] = IF b = c /\ r \in accepted THEN reached[b][r] + 1 ELSE reached[b][r]
  BY <1>3, <1>t DEF SendBatch
<1> HIDE DEF rest, c
<1>10. CASE b = c /\ r \in accepted
  <2>1. h \in Senders(b, r)
    BY <1>4, <1>5, <1>10 DEF Senders, c
  <2>2. Senders(b, r)' \in SUBSET (Senders(b, r) \ {h})
    BY <1>7, <1>10 DEF Senders, rest
  <2>3. /\ IsFiniteSet(Senders(b, r)') /\ Cardinality(Senders(b, r)') \in Nat
        /\ Cardinality(Senders(b, r)') + 1 <= Cardinality(Senders(b, r))
    BY <2>1, <2>2, OneLessOf DEF FewActive
  <2>4. reached'[b][r] = reached[b][r] + 1
    BY <1>9, <1>10
  <2>5. SendingsFit(b, r)'
    BY <1>8, <2>3, <2>4, SumType DEF SendingsFit
  <2> QED BY <1>8, <2>3, <2>5 DEF FewActive
<1>11. CASE ~ (b = c /\ r \in accepted)
  <2>1. Senders(b, r)' \in SUBSET Senders(b, r)
    BY <1>5, <1>7 DEF Senders, rest, c
  <2>2. /\ IsFiniteSet(Senders(b, r)') /\ Cardinality(Senders(b, r)') \in Nat
        /\ Cardinality(Senders(b, r)') <= Cardinality(Senders(b, r))
    BY <2>1, FewerOf DEF FewActive
  <2>3. reached'[b][r] = reached[b][r]
    BY <1>9, <1>11
  <2>4. SendingsFit(b, r)'
    BY <1>8, <2>2, <2>3, SumType DEF SendingsFit
  <2> QED BY <1>8, <2>2, <2>4 DEF FewActive
<1> QED BY <1>10, <1>11

(* The other steps of a handler send nothing: a handler before its load       *)
(* becomes one with followers pending, and a final status closes a schedule.  *)
LEMMA MovedSendings ==
  ASSUME TypeOK, NEW b \in Broadcasts, NEW r \in Recipients, NEW h \in Handlers,
         NEW pc, NEW work, handler' = MovedTo(h, pc, work),
         pc \in {"load", "send"} => handler[h].pc = "load" /\ pc = "send"
  PROVE  Senders(b, r)' \subseteq Senders(b, r)
<1>1. /\ handler'[h].pc = pc
      /\ \A g \in Handlers : handler'[g].b = handler[g].b
      /\ \A g \in Handlers \ {h} : handler'[g] = handler[g]
  BY MovedFields DEF TypeOK
<1> QED BY <1>1 DEF Senders

LEMMA HandlerSendings ==
  ASSUME TypeOK, TypeOK', NEW b \in Broadcasts, NEW r \in Recipients,
         FewActive(b, r), SendingsFit(b, r), NEW h \in Handlers,
         Load(h) \/ LoadFails(h) \/ WriteLogs(h) \/ Save(h) \/ Ack(h) \/ MarkFailed(h) \/ AckFailed(h)
  PROVE  (FewActive(b, r) /\ SendingsFit(b, r))'
<1>t. status \in [Broadcasts -> RowStates] /\ HandlersOK
  BY DEF TypeOK, RowsOK
<1>1. Senders(b, r)' \subseteq Senders(b, r)
  <2>1. CASE handler' = [handler EXCEPT ![h] = Idle]
    <3>1. handler'[h].pc = "idle" /\ \A g \in Handlers \ {h} : handler'[g] = handler[g]
      BY <1>t, <2>1, IdleFields DEF Idle, HandlersOK
    <3> QED BY <3>1 DEF Senders
  <2>2. CASE \E pc, work : /\ handler' = MovedTo(h, pc, work)
                           /\ pc \in {"load", "send"} => handler[h].pc = "load" /\ pc = "send"
    BY <2>2, MovedSendings
  <2>3. CASE Load(h)
    <3>1. PICK pc, work : /\ handler' = MovedTo(h, pc, work) /\ handler[h].pc = "load"
                          /\ pc \in {"save", "send"}
      BY <2>3 DEF Load
    <3> QED BY <3>1, MovedSendings
  <2> QED BY <2>1, <2>2, <2>3 DEF LoadFails, WriteLogs, Save, Ack, MarkFailed, AckFailed
<1>2. /\ UNCHANGED <<request, queue, sched, reached, asked, extra>>
      /\ status' = status \/ \E c : \E s \in {"completed", "failed"} : status' = [status EXCEPT ![c] = s]
  <2>1. FinalStatus(h) \in {"completed", "failed"}
    BY DEF FinalStatus
  <2> QED BY <2>1 DEF Load, LoadFails, WriteLogs, Save, Ack, MarkFailed, AckFailed, rows, history
<1>3. Opens(b)' <= Opens(b)
  BY <1>t, <1>2 DEF Opens
<1>4. /\ Enqueuers(b)' = Enqueuers(b) /\ Claims(b)' = Claims(b)
      /\ Places(queue, b)' = Places(queue, b)
  BY <1>2 DEF Enqueuers, Claims, Places
<1>5. Claims(b) <= Claims(b) /\ Cardinality(Places(queue, b)) <= Cardinality(Places(queue, b))
  BY SumType
<1> QED BY <1>1, <1>2, <1>3, <1>4, <1>5, NoMoreSendings

(* A message that comes back is one more in `extra`. *)
LEMMA RequeueSendings ==
  ASSUME TypeOK, TypeOK', NEW b \in Broadcasts, NEW r \in Recipients,
         FewActive(b, r), SendingsFit(b, r),
         queue' = Requeue, extra' = Redelivered,
         Senders(b, r)' \subseteq Senders(b, r), Claims(b)' <= Claims(b),
         UNCHANGED <<rows, request, reached, asked>>
  PROVE  (FewActive(b, r) /\ SendingsFit(b, r))'
<1>t. queue \in Seq(Broadcasts) /\ extra \in [Broadcasts -> Nat]
  BY DEF TypeOK, HistoryOK
<1>1. Enqueuers(b)' = Enqueuers(b) /\ Opens(b)' = Opens(b)
  BY DEF Enqueuers, Opens, rows
<1>n. Opens(b) <= Opens(b) /\ Cardinality(Places(queue, b)) <= Cardinality(Places(queue, b))
  BY SumType
<1>2. CASE LiveHandlers = {}
  <2>1. queue' = queue /\ extra' = extra
    BY <1>2 DEF Requeue, Redelivered
  <2>2. Places(queue, b)' = Places(queue, b)
    BY <2>1 DEF Places
  <2> QED BY <1>1, <1>n, <2>1, <2>2, NoMoreSendings
<1>3. CASE LiveHandlers # {}
  <2> DEFINE c == Unacked
  <2>1. c \in Broadcasts
    <3>1. \A h \in LiveHandlers : handler[h].b \in Broadcasts
      BY DEF TypeOK, HandlersOK, LiveHandlers
    <3> QED BY <1>3, <3>1 DEF Unacked
  <2>2. queue' = <<c>> \o queue /\ extra' = [extra EXCEPT ![c] = @ + 1]
    BY <1>3 DEF Requeue, Redelivered
  <2> HIDE DEF c
  <2>3. /\ queue' \in Seq(Broadcasts)
        /\ Cardinality(Places(queue', b)) <= Cardinality(Places(queue, b)) + (IF c = b THEN 1 ELSE 0)
    BY <1>t, <2>1, <2>2, PlacesBack
  <2>4. Cardinality(Places(queue', b)) \in Nat /\ Places(queue, b)' = Places(queue', b)
    BY <2>3, PlacesType DEF Places
  <2>5. extra'[b] = extra[b] + (IF c = b THEN 1 ELSE 0) /\ extra[b] \in Nat
    BY <1>t, <2>1, <2>2
  <2>6. /\ Cardinality(Places(queue, b)') \in Nat /\ extra'[b] \in Nat
        /\ Cardinality(Places(queue, b)') - Cardinality(Places(queue, b)) <= extra'[b] - extra[b]
    <3>1. Cardinality(Places(queue, b)) \in Nat
      BY SumType
    <3> QED BY <2>3, <2>4, <2>5, <3>1
  <2>7. /\ IsFiniteSet(Senders(b, r)') /\ Cardinality(Senders(b, r)') \in Nat
        /\ Cardinality(Senders(b, r)') <= Cardinality(Senders(b, r))
    BY FewerOf DEF FewActive
  <2>8. Claims(b)' \in Nat
    BY DEF Claims
  <2>9. SendingsFit(b, r)'
    BY <1>1, <2>6, <2>7, <2>8, SumType DEF SendingsFit
  <2> QED BY <1>1, <2>7, <2>9 DEF FewActive
<1> QED BY <1>2, <1>3

LEMMA WorkerDiesSendings ==
  ASSUME TypeOK, TypeOK', NEW b \in Broadcasts, NEW r \in Recipients,
         FewActive(b, r), SendingsFit(b, r), WorkerDies
  PROVE  (FewActive(b, r) /\ SendingsFit(b, r))'
<1>1. Senders(b, r)' \subseteq Senders(b, r)
  BY DEF WorkerDies, Senders, Idle
<1>2. Claims(b)' <= Claims(b)
  BY DEF WorkerDies, Claims, IdleSched
<1> QED BY <1>1, <1>2, RequeueSendings DEF WorkerDies

LEMMA FaultSendings ==
  ASSUME TypeOK, TypeOK', NEW b \in Broadcasts, NEW r \in Recipients,
         FewActive(b, r), SendingsFit(b, r), ApiCrash \/ ConnectionLost \/ BrokerRestart
  PROVE  (FewActive(b, r) /\ SendingsFit(b, r))'
<1>n. /\ Opens(b) <= Opens(b) /\ Claims(b) <= Claims(b)
      /\ Cardinality(Places(queue, b)) <= Cardinality(Places(queue, b))
  BY SumType
<1>1. CASE ApiCrash
  <2>1. Enqueuers(b)' \subseteq Enqueuers(b)
    BY <1>1 DEF ApiCrash, Enqueuers, Finished, RequestAt
  <2>2. /\ Senders(b, r)' = Senders(b, r) /\ Opens(b)' = Opens(b) /\ Claims(b)' = Claims(b)
        /\ Places(queue, b)' = Places(queue, b)
        /\ UNCHANGED <<reached, asked, extra>>
    BY <1>1 DEF ApiCrash, Senders, Opens, Claims, Places, rows
  <2> QED BY <1>n, <2>1, <2>2, NoMoreSendings
<1>2. CASE ConnectionLost \/ BrokerRestart
  <2>1. \A h \in Handlers : /\ handler'[h].pc = handler[h].pc
                            /\ handler'[h].b = handler[h].b
                            /\ handler'[h].work = handler[h].work
    BY <1>2 DEF ConnectionLost, BrokerRestart, TypeOK, HandlersOK
  <2>2. Senders(b, r)' = Senders(b, r)
    BY <2>1 DEF Senders
  <2>3. Claims(b)' = Claims(b) /\ Opens(b)' = Opens(b) /\ Enqueuers(b)' = Enqueuers(b)
    BY <1>2 DEF ConnectionLost, BrokerRestart, Claims, Opens, Enqueuers, rows
  <2>4. CASE ConnectionLost
    BY <1>n, <2>2, <2>3, <2>4, RequeueSendings DEF ConnectionLost
  <2>5. CASE BrokerRestart
    <3>1. Cardinality(Places(queue, b)') <= Cardinality(Places(queue, b))
      <4>1. Places(queue, b)' = Places(<<>>, b)
        BY <2>5 DEF BrokerRestart, Places
      <4> QED BY <4>1, PlacesEmpty, SumType
    <3>2. UNCHANGED <<reached, asked, extra>>
      BY <2>5 DEF BrokerRestart
    <3> QED BY <1>n, <2>2, <2>3, <3>1, <3>2, NoMoreSendings
  <2> QED BY <1>2, <2>4, <2>5
<1> QED BY <1>1, <1>2

-----------------------------------------------------------------------------
LEMMA InitSendings == Init => SendingInv
<1> SUFFICES ASSUME Init PROVE SendingInv
  OBVIOUS
<1>1. TypeOK
  BY InitTypeOK
<1>2. ASSUME NEW b \in Broadcasts, NEW r \in Recipients PROVE FewActive(b, r) /\ SendingsFit(b, r)
  <2>1. Enqueuers(b) = {} /\ Senders(b, r) = {} /\ Places(queue, b) = {}
    BY DEF Init, Enqueuers, RequestAt, Senders, Idle, Places
  <2>2. /\ Opens(b) = 0 /\ Claims(b) = 0
        /\ reached[b][r] = 0 /\ asked[b] = 0 /\ extra[b] = 0
    BY DEF Init, Opens, Claims, IdleSched
  <2>3. IsFiniteSet({}) /\ Cardinality({}) = 0
    BY FS_EmptySet
  <2> QED BY <2>1, <2>2, <2>3 DEF FewActive, SendingsFit
<1> QED BY <1>1, <1>2 DEF SendingInv, SendingsCounted

LEMMA StepSendings == SendingInv /\ [Next]_vars => SendingInv'
<1> SUFFICES ASSUME SendingInv, [Next]_vars PROVE SendingInv'
  OBVIOUS
<1>1. TypeOK /\ TypeOK'
  BY StepTypeOK DEF SendingInv
<1>2. ASSUME NEW b \in Broadcasts, NEW r \in Recipients
      PROVE  (FewActive(b, r) /\ SendingsFit(b, r))'
  <2>1. FewActive(b, r) /\ SendingsFit(b, r)
    BY DEF SendingInv, SendingsCounted
  <2>2. CASE \E q \in Requests : RequestStep(q)
    BY <1>1, <2>1, <2>2, RequestSendings
  <2>3. CASE SchedulerStep
    BY <1>1, <2>1, <2>3, SchedulerSendings
  <2>4. CASE \E h \in Handlers : HandlerStep(h)
    <3>1. PICK h \in Handlers : HandlerStep(h)
      BY <2>4
    <3>2. CASE Receive(h)
      BY <1>1, <2>1, <3>2, ReceiveSendings
    <3>3. CASE Send(h)
      BY <1>1, <2>1, <3>3, SendSendings
    <3>4. CASE AckFailedThrows(h)
      BY <1>1, <2>1, <3>4, WorkerDiesSendings DEF AckFailedThrows
    <3> QED BY <1>1, <2>1, <3>1, <3>2, <3>3, <3>4, HandlerSendings DEF HandlerStep
  <2>5. CASE WorkerCrash
    BY <1>1, <2>1, <2>5, WorkerDiesSendings DEF WorkerCrash
  <2>6. CASE ApiCrash \/ ConnectionLost \/ BrokerRestart
    BY <1>1, <2>1, <2>6, FaultSendings
  <2>7. CASE (\E c \in Broadcasts : TimePasses(c)) \/ UNCHANGED vars
    <3>1. UNCHANGED <<status, request, queue, sched, handler, reached, asked, extra>>
      BY <2>7 DEF TimePasses, vars, rows, history
    <3>2. /\ Enqueuers(b)' = Enqueuers(b) /\ Senders(b, r)' = Senders(b, r)
          /\ Opens(b)' = Opens(b) /\ Claims(b)' = Claims(b) /\ Places(queue, b)' = Places(queue, b)
      BY <3>1 DEF Enqueuers, Senders, Opens, Claims, Places
    <3>3. /\ Opens(b) <= Opens(b) /\ Claims(b) <= Claims(b)
          /\ Cardinality(Places(queue, b)) <= Cardinality(Places(queue, b))
      BY <2>1, SumType, <1>1
    <3> QED BY <1>1, <2>1, <3>1, <3>2, <3>3, NoMoreSendings
  <2> QED BY <2>2, <2>3, <2>4, <2>5, <2>6, <2>7 DEF Next
<1> QED BY <1>1, <1>2 DEF SendingInv, SendingsCounted

(* No follower gets a broadcast more often than users asked for it and the      *)
(* broker delivered it again, whichever of create(), update(), sendNow() and    *)
(* the scheduler took it, and however requests, polls, handlers and faults      *)
(* overlap.                                                                     *)
THEOREM DuplicatesExplained == Spec => []DuplicatesHaveACause
<1>1. SendingInv => DuplicatesHaveACause
  <2> SUFFICES ASSUME SendingInv, NEW b \in Broadcasts, NEW r \in Recipients
               PROVE  reached[b][r] <= asked[b] + extra[b]
    BY DEF DuplicatesHaveACause
  <2>1. TypeOK /\ FewActive(b, r) /\ SendingsFit(b, r)
    BY DEF SendingInv, SendingsCounted
  <2> QED BY <2>1, SumType DEF SendingsFit
<1> QED BY <1>1, InitSendings, StepSendings, PTL DEF Spec
=============================================================================
