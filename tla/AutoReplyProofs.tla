--------------------------- MODULE AutoReplyProofs ---------------------------
(***************************************************************************)
(* The properties of AutoReply for every number of events, rules, overlapping *)
(* runs, changes of the rules and faults.                                   *)
(***************************************************************************)
EXTENDS AutoReply, FiniteSetTheorems, SequenceTheorems, TLAPS

HandlerType ==
  [pc : HandlerPc, e : Events \cup {NoEvent}, r : Rules \cup {NoRule}, live : BOOLEAN]

RunOK(k) ==
  /\ k \in HandlerType
  /\ k.pc # "idle" => k.e \in Events
  /\ k.pc \in {"reply", "push", "count"} => k.r \in Rules

HandlersOK ==
  /\ handler \in [Handlers -> HandlerType]
  /\ \A h \in Handlers : RunOK(handler[h])

RestOK ==
  /\ rule \in [Rules -> Forms \cup {NoRow}]
  /\ trigger \in [Rules -> Nat] /\ sent \in [Rules -> Nat]
  /\ hook \in [Events -> HookPc]
  /\ token \in [Events -> {"none", "fresh", "used"}]
  /\ recorded \subseteq Events /\ queue \in Seq(Events)
  /\ answered \in [Events -> Nat] /\ extra \in [Events -> Nat]
  /\ edits \in 0..MaxEdits /\ faults \in 0..MaxFaults
  /\ handled \subseteq Events /\ excused \subseteq Events /\ dropped \subseteq Events

(* The run comes to pc with rule r; its message and its channel stay. *)
Moved(h, pc, r) ==
  /\ handler'[h].pc = pc /\ handler'[h].r = r
  /\ handler'[h].e = handler[h].e /\ handler'[h].live = handler[h].live
  /\ \A g \in Handlers \ {h} : handler'[g] = handler[g]

(* An idle handler holds no message. *)
IdleHoldsNone == \A h \in Handlers : handler[h].pc = "idle" => ~ handler[h].live

(* The runs that hold a message of e on an open channel. *)
HeldOf(e) == {h \in LiveHandlers : handler[h].e = e}

-----------------------------------------------------------------------------
(* Type correctness. *)

(* The type invariant in two parts: the runs and the rest. *)
LEMMA TypeParts == TypeOK <=> HandlersOK /\ RestOK
BY DEF TypeOK, HandlersOK, RestOK, RunOK, HandlerType

LEMMA FaultInBounds == RestOK /\ Fault => faults' \in 0..MaxFaults
BY BoundsAssumption DEF RestOK, Fault

(* A run that moves on leaves the runs typed. *)
LEMMA MoveFields ==
  ASSUME HandlersOK, NEW h \in Handlers, handler[h].pc # "idle",
         NEW pc \in HandlerPc, NEW r \in Rules \cup {NoRule},
         pc \in {"reply", "push", "count"} => r \in Rules, MoveTo(h, pc, r)
  PROVE  HandlersOK' /\ Moved(h, pc, r)
<1> DEFINE k == [handler[h] EXCEPT !.pc = pc, !.r = r]
<1>1. handler \in [Handlers -> HandlerType] /\ handler[h].e \in Events
  BY DEF HandlersOK, RunOK
<1>2. /\ k \in HandlerType /\ k.pc = pc /\ k.r = r
      /\ k.e = handler[h].e /\ k.live = handler[h].live
  BY <1>1 DEF HandlerType
<1>3. handler' = [handler EXCEPT ![h] = k]
  BY <1>1 DEF MoveTo
<1> HIDE DEF k
<1>4. RunOK(k)
  BY <1>1, <1>2 DEF RunOK
<1>5. /\ handler' \in [Handlers -> HandlerType] /\ handler'[h] = k
      /\ \A g \in Handlers \ {h} : handler'[g] = handler[g]
  BY <1>1, <1>2, <1>3
<1>6. \A g \in Handlers : RunOK(handler'[g])
  BY <1>4, <1>5 DEF HandlersOK
<1> QED BY <1>2, <1>5, <1>6 DEF HandlersOK, RunOK, Moved

LEMMA IdleOK == RunOK(Idle)
BY DEF RunOK, HandlerType, Idle, HandlerPc, NoRule

(* Copies that come back: each held message, and nothing else. *)
LEMMA ReturnsTyped ==
  ASSUME HandlersOK, IdleHoldsNone, NEW back \in Returns
  PROVE  /\ IsFiniteSet(LiveHandlers) /\ Cardinality(LiveHandlers) \in Nat
         /\ back \in Seq(Events) /\ Len(back) = Cardinality(LiveHandlers)
         /\ \E o \in Surjection(1..Cardinality(LiveHandlers), LiveHandlers) :
              \A i \in 1..Cardinality(LiveHandlers) : back[i] = handler[o[i]].e
<1>1. LiveHandlers \in SUBSET Handlers
  BY DEF LiveHandlers
<1>2. IsFiniteSet(LiveHandlers)
  BY <1>1, HandlersAssumption, FS_Subset
<1>3. Cardinality(LiveHandlers) \in Nat
  BY <1>2, FS_CardinalityType
<1> DEFINE n == Cardinality(LiveHandlers)
<1>4. PICK o \in [1..n -> LiveHandlers] :
        /\ back = [i \in 1..n |-> handler[o[i]].e]
        /\ \A h \in LiveHandlers : \E i \in DOMAIN o : o[i] = h
  BY DEF Returns
<1>5. o \in Surjection(1..n, LiveHandlers)
  BY <1>4 DEF Surjection
<1> HIDE DEF n
<1>6. \A h \in LiveHandlers : handler[h].e \in Events
  BY DEF LiveHandlers, HandlersOK, RunOK, IdleHoldsNone
<1>7. \A i \in 1..n : handler[o[i]].e \in Events
  BY <1>4, <1>6
<1>8. back \in [1..n -> Events]
  BY <1>4, <1>7
<1>9. back \in Seq(Events) /\ Len(back) = n
  BY <1>3, <1>8 DEF n
<1> QED BY <1>2, <1>3, <1>4, <1>5, <1>9 DEF n

LEMMA RequeueTyped ==
  ASSUME HandlersOK, IdleHoldsNone, RestOK, Requeue, extra' = Redelivered
  PROVE  queue' \in Seq(Events) /\ extra' \in [Events -> Nat]
<1>1. PICK back \in Returns : queue' = back \o queue
  BY DEF Requeue
<1>2. queue' \in Seq(Events)
  BY <1>1, ReturnsTyped, ConcatProperties DEF RestOK
<1>3. ASSUME NEW e \in Events
      PROVE  Cardinality(HeldOf(e)) \in Nat
  <2>1. HeldOf(e) \in SUBSET Handlers
    BY DEF HeldOf, LiveHandlers
  <2>2. IsFiniteSet(HeldOf(e))
    BY <2>1, HandlersAssumption, FS_Subset
  <2> QED BY <2>2, FS_CardinalityType
<1>4. extra' = [e \in Events |-> extra[e] + Cardinality(HeldOf(e))]
  BY DEF Redelivered, HeldOf
<1>5. \A e \in Events : extra[e] \in Nat
  BY DEF RestOK
<1>6. extra' \in [Events -> Nat]
  BY <1>3, <1>4, <1>5
<1> QED BY <1>2, <1>6

(* The webhook, the rules and a crash of the API leave the runs alone. *)
LEMMA HookTypeOK ==
  ASSUME TypeOK, \/ \E r \in Rules : EditRule(r)
                 \/ \E e \in Events : HookStep(e)
                 \/ ApiCrash
  PROVE  TypeOK' /\ handler' = handler
<1>1. HandlersOK /\ RestOK
  BY TypeParts
<1>2. ASSUME handler' = handler PROVE HandlersOK'
  BY <1>1, <1>2 DEF HandlersOK
<1>3. ASSUME NEW r \in Rules, EditRule(r) PROVE TypeOK' /\ handler' = handler
  <2>1. edits' \in 0..MaxEdits
    BY <1>1, <1>3, BoundsAssumption DEF EditRule, RestOK
  <2>2. rule' \in [Rules -> Forms \cup {NoRow}] /\ trigger' \in [Rules -> Nat]
    BY <1>1, <1>3 DEF EditRule, RestOK
  <2>3. handler' = handler /\ RestOK'
    BY <1>1, <1>3, <2>1, <2>2 DEF EditRule, RestOK, events, history
  <2> QED BY <1>2, <2>3, TypeParts DEF TypeOK, HandlersOK, RestOK, RunOK, HandlerType
<1>4. ASSUME NEW e \in Events, HookStep(e) PROVE TypeOK' /\ handler' = handler
  <2>1. CASE Arrive(e) \/ LookUp(e) \/ Save(e) \/ LookUpAgain(e) \/ Record(e)
    <3>1. /\ hook' \in [Events -> HookPc] /\ token' \in [Events -> {"none", "fresh", "used"}]
          /\ recorded' \subseteq Events /\ faults' \in 0..MaxFaults
      BY <1>1, <2>1, FaultInBounds
         DEF Arrive, LookUp, Save, LookUpAgain, Record, Advance, RestOK, HookPc
    <3>2. HookUnchanged
      BY <2>1 DEF Arrive, LookUp, Save, LookUpAgain, Record
    <3>3. handler' = handler /\ RestOK'
      BY <1>1, <3>1, <3>2 DEF HookUnchanged, RestOK, rules, history
    <3> QED BY <1>2, <3>3 DEF TypeOK, HandlersOK, RestOK, RunOK, HandlerType
  <2>2. CASE Enqueue(e)
    <3>1. hook' \in [Events -> HookPc] /\ faults' \in 0..MaxFaults
      BY <1>1, <2>2, FaultInBounds DEF Enqueue, Advance, RestOK, HookPc
    <3>2. queue' \in Seq(Events)
      <4>1. queue' \in {queue, Append(queue, e), Append(Append(queue, e), e)}
        BY <2>2 DEF Enqueue
      <4>2. Append(queue, e) \in Seq(Events)
        BY <1>1, AppendProperties DEF RestOK
      <4>3. Append(Append(queue, e), e) \in Seq(Events)
        BY <4>2, AppendProperties
      <4> QED BY <1>1, <4>1, <4>2, <4>3 DEF RestOK
    <3>3. extra' \in [Events -> Nat] /\ dropped' \subseteq Events
      BY <1>1, <2>2 DEF Enqueue, RestOK
    <3>4. handler' = handler /\ RestOK'
      BY <1>1, <2>2, <3>1, <3>2, <3>3 DEF Enqueue, RestOK, rules
    <3> QED BY <1>2, <3>4 DEF TypeOK, HandlersOK, RestOK, RunOK, HandlerType
  <2> QED BY <1>4, <2>1, <2>2 DEF HookStep
<1>5. CASE ApiCrash
  <2>1. hook' \in [Events -> HookPc] /\ faults' \in 0..MaxFaults
    BY <1>1, <1>5, FaultInBounds DEF ApiCrash, RestOK, HookPc
  <2>2. handler' = handler /\ RestOK'
    BY <1>1, <1>5, <2>1 DEF ApiCrash, RestOK, rules
  <2> QED BY <1>2, <2>2 DEF TypeOK, HandlersOK, RestOK, RunOK, HandlerType
<1> QED BY <1>3, <1>4, <1>5

(* What the runs do to each other and to the rest. *)
LEMMA ReceiveStep ==
  ASSUME TypeOK, NEW h \in Handlers, Receive(h)
  PROVE  /\ TypeOK' /\ handler'[h].pc = "match" /\ handler'[h].e = Head(queue) /\ handler'[h].live
         /\ \A g \in Handlers \ {h} : handler'[g] = handler[g]
<1> DEFINE k == [pc |-> "match", e |-> Head(queue), r |-> NoRule, live |-> TRUE]
<1>1. HandlersOK /\ RestOK
  BY TypeParts
<1>2. Head(queue) \in Events /\ queue' \in Seq(Events)
  BY <1>1, HeadTailProperties DEF Receive, RestOK
<1>3. RunOK(k) /\ k.pc = "match" /\ k.e = Head(queue) /\ k.live
  BY <1>2 DEF RunOK, HandlerType, HandlerPc
<1>4. handler' = [handler EXCEPT ![h] = k]
  BY DEF Receive
<1> HIDE DEF k
<1>5. handler'[h] = k /\ (\A g \in Handlers \ {h} : handler'[g] = handler[g]) /\ HandlersOK'
  BY <1>1, <1>3, <1>4 DEF HandlersOK, RunOK
<1>6. RestOK'
  BY <1>1, <1>2 DEF Receive, RestOK, rules, events, history
<1> QED BY <1>3, <1>5, <1>6 DEF TypeOK, HandlersOK, RestOK, RunOK, HandlerType

LEMMA MatchStep ==
  ASSUME TypeOK, NEW h \in Handlers, Match(h)
  PROVE  /\ TypeOK'
         /\ \/ \E r \in Rules : Moved(h, "reply", r) /\ excused' = excused
            \/ /\ \E r : Moved(h, "ack", r) \/ Moved(h, "fail", r)
               /\ excused' = excused \cup {handler[h].e}
<1>1. HandlersOK /\ RestOK /\ handler[h].pc # "idle" /\ handler[h].e \in Events
  BY TypeParts DEF Match, HandlersOK, RunOK
<1>2. \/ \E r \in Rules : MoveTo(h, "reply", r) /\ excused' = excused
      \/ /\ MoveTo(h, "ack", NoRule) \/ MoveTo(h, "fail", NoRule)
         /\ excused' = excused \cup {handler[h].e}
  BY DEF Match, Matching
<1>3. HandlersOK' /\ (\/ \E r \in Rules : Moved(h, "reply", r) /\ excused' = excused
                      \/ /\ \E r : Moved(h, "ack", r) \/ Moved(h, "fail", r)
                         /\ excused' = excused \cup {handler[h].e})
  <2>1. {"reply", "ack", "fail"} \subseteq HandlerPc
    BY DEF HandlerPc
  <2>2. CASE \E r \in Rules : MoveTo(h, "reply", r) /\ excused' = excused
    BY <1>1, <2>1, <2>2, MoveFields
  <2>3. CASE MoveTo(h, "ack", NoRule) /\ excused' = excused \cup {handler[h].e}
    BY <1>1, <2>1, <2>3, MoveFields
  <2>4. CASE MoveTo(h, "fail", NoRule) /\ excused' = excused \cup {handler[h].e}
    BY <1>1, <2>1, <2>4, MoveFields
  <2> QED BY <1>2, <2>2, <2>3, <2>4
<1>4. excused' \subseteq Events /\ faults' \in 0..MaxFaults
  BY <1>1, FaultInBounds DEF Match, RestOK
<1>5. RestOK'
  BY <1>1, <1>4 DEF Match, HandlerUnchanged, RestOK
<1> QED BY <1>3, <1>5 DEF TypeOK, HandlersOK, RestOK, RunOK, HandlerType

(* The user got the messages of rule r as an answer to e, or nothing. *)
Once(f, x) == [f EXCEPT ![x] = @ + 1]

Gets(h) == answered' = Once(answered, handler[h].e) /\ sent' = Once(sent, handler[h].r)

GetsNone == answered' = answered /\ sent' = sent

LEMMA OnceTyped ==
  ASSUME NEW S, NEW f \in [S -> Nat], NEW x \in S
  PROVE  /\ Once(f, x) \in [S -> Nat] /\ Once(f, x)[x] = f[x] + 1
         /\ \A y \in S \ {x} : Once(f, x)[y] = f[y]
BY DEF Once

LEMMA ReplyStep ==
  ASSUME TypeOK, NEW h \in Handlers, Reply(h)
  PROVE  /\ TypeOK' /\ handler[h].e \in Events /\ handler[h].r \in Rules
         /\ \/ /\ Gets(h)
               /\ \/ Moved(h, "count", handler[h].r) /\ extra' = extra
                  \/ /\ Moved(h, "push", handler[h].r)
                     /\ extra' = Once(extra, handler[h].e)
            \/ GetsNone /\ Moved(h, "push", handler[h].r) /\ extra' = extra
<1> DEFINE e == handler[h].e
           r == handler[h].r
<1>1. HandlersOK /\ RestOK /\ handler[h].pc # "idle" /\ e \in Events /\ r \in Rules
  BY TypeParts DEF Reply, HandlersOK, RunOK
<1>2. \/ /\ Gets(h)
         /\ \/ MoveTo(h, "count", r) /\ extra' = extra
            \/ MoveTo(h, "push", r) /\ extra' = Once(extra, e)
      \/ GetsNone /\ MoveTo(h, "push", r) /\ extra' = extra
  BY DEF Reply, Delivered, Unconfirmed, AfterReply, AfterRefusal, Gets, GetsNone, Once
<1>3. ASSUME NEW pc \in {"count", "push"}, MoveTo(h, pc, r) PROVE HandlersOK' /\ Moved(h, pc, r)
  <2>1. pc \in HandlerPc
    BY DEF HandlerPc
  <2> QED BY <1>1, <1>3, <2>1, MoveFields
<1>4. /\ answered' \in [Events -> Nat] /\ sent' \in [Rules -> Nat] /\ extra' \in [Events -> Nat]
  <2>1. answered \in [Events -> Nat] /\ sent \in [Rules -> Nat] /\ extra \in [Events -> Nat]
    BY <1>1 DEF RestOK
  <2>2. Once(answered, e) \in [Events -> Nat] /\ Once(extra, e) \in [Events -> Nat]
    BY <1>1, <2>1, OnceTyped
  <2>3. Once(sent, r) \in [Rules -> Nat]
    BY <1>1, <2>1, OnceTyped
  <2>4. /\ answered' \in {answered, Once(answered, e)} /\ sent' \in {sent, Once(sent, r)}
        /\ extra' \in {extra, Once(extra, e)}
    BY <1>2 DEF Gets, GetsNone
  <2> QED BY <2>1, <2>2, <2>3, <2>4
<1>5. token' \in [Events -> {"none", "fresh", "used"}] /\ faults' \in 0..MaxFaults
  BY <1>1, FaultInBounds DEF Reply, Unconfirmed, RestOK
<1>6. RestOK'
  BY <1>1, <1>4, <1>5 DEF Reply, HandlerUnchanged, RestOK
<1>7. HandlersOK'
  BY <1>2, <1>3
<1>8. TypeOK'
  BY <1>6, <1>7 DEF TypeOK, HandlersOK, RestOK, RunOK, HandlerType
<1> QED BY <1>1, <1>2, <1>3, <1>8

LEMMA PushStep ==
  ASSUME TypeOK, NEW h \in Handlers, Push(h)
  PROVE  /\ TypeOK' /\ handler[h].e \in Events /\ handler[h].r \in Rules
         /\ \/ /\ Gets(h) /\ excused' = excused
               /\ \/ Moved(h, "count", handler[h].r) /\ extra' = extra
                  \/ /\ Moved(h, "fail", handler[h].r)
                     /\ extra' = Once(extra, handler[h].e)
            \/ /\ GetsNone /\ Moved(h, "fail", handler[h].r) /\ extra' = extra
               /\ excused' = excused \cup {handler[h].e}
<1> DEFINE e == handler[h].e
           r == handler[h].r
<1>1. HandlersOK /\ RestOK /\ handler[h].pc # "idle" /\ e \in Events /\ r \in Rules
  BY TypeParts DEF Push, HandlersOK, RunOK
<1>2. \/ /\ Gets(h) /\ excused' = excused
         /\ \/ MoveTo(h, "count", r) /\ extra' = extra
            \/ MoveTo(h, "fail", r) /\ extra' = Once(extra, e)
      \/ GetsNone /\ MoveTo(h, "fail", r) /\ extra' = extra /\ excused' = excused \cup {e}
  BY DEF Push, Delivered, Unconfirmed, AfterError, Gets, GetsNone, Once
<1>3. ASSUME NEW pc \in {"count", "fail"}, MoveTo(h, pc, r) PROVE HandlersOK' /\ Moved(h, pc, r)
  <2>1. pc \in HandlerPc
    BY DEF HandlerPc
  <2> QED BY <1>1, <1>3, <2>1, MoveFields
<1>4. /\ answered' \in [Events -> Nat] /\ sent' \in [Rules -> Nat] /\ extra' \in [Events -> Nat]
  <2>1. answered \in [Events -> Nat] /\ sent \in [Rules -> Nat] /\ extra \in [Events -> Nat]
    BY <1>1 DEF RestOK
  <2>2. Once(answered, e) \in [Events -> Nat] /\ Once(extra, e) \in [Events -> Nat]
    BY <1>1, <2>1, OnceTyped
  <2>3. Once(sent, r) \in [Rules -> Nat]
    BY <1>1, <2>1, OnceTyped
  <2>4. /\ answered' \in {answered, Once(answered, e)} /\ sent' \in {sent, Once(sent, r)}
        /\ extra' \in {extra, Once(extra, e)}
    BY <1>2 DEF Gets, GetsNone
  <2> QED BY <2>1, <2>2, <2>3, <2>4
<1>5. excused' \subseteq Events /\ faults' \in 0..MaxFaults
  BY <1>1, FaultInBounds DEF Push, Unconfirmed, RestOK
<1>6. RestOK'
  BY <1>1, <1>4, <1>5 DEF Push, HandlerUnchanged, RestOK
<1>7. HandlersOK'
  BY <1>2, <1>3
<1>8. TypeOK'
  BY <1>6, <1>7 DEF TypeOK, HandlersOK, RestOK, RunOK, HandlerType
<1> QED BY <1>1, <1>2, <1>3, <1>8

LEMMA CountStep ==
  ASSUME TypeOK, NEW h \in Handlers, Count(h)
  PROVE  /\ TypeOK' /\ handler[h].r \in Rules
         /\ \/ Moved(h, "ack", handler[h].r) /\ trigger' = Once(trigger, handler[h].r)
            \/ Moved(h, "fail", handler[h].r) /\ trigger' = trigger
<1> DEFINE r == handler[h].r
<1>1. HandlersOK /\ RestOK /\ handler[h].pc # "idle" /\ r \in Rules
  BY TypeParts DEF Count, HandlersOK, RunOK
<1>2. \/ MoveTo(h, "ack", r) /\ trigger' = Once(trigger, r)
      \/ MoveTo(h, "fail", r) /\ trigger' = trigger
  BY DEF Count, Once
<1>3. ASSUME NEW pc \in {"ack", "fail"}, MoveTo(h, pc, r) PROVE HandlersOK' /\ Moved(h, pc, r)
  <2>1. pc \in HandlerPc
    BY DEF HandlerPc
  <2> QED BY <1>1, <1>3, <2>1, MoveFields
<1>4. trigger' \in [Rules -> Nat] /\ faults' \in 0..MaxFaults
  <2>1. trigger \in [Rules -> Nat]
    BY <1>1 DEF RestOK
  <2>2. Once(trigger, r) \in [Rules -> Nat]
    BY <1>1, <2>1, OnceTyped
  <2>3. trigger' \in {trigger, Once(trigger, r)}
    BY <1>2
  <2>4. faults' \in 0..MaxFaults
    BY <1>1, FaultInBounds DEF Count, RestOK
  <2> QED BY <2>1, <2>2, <2>3, <2>4
<1>5. RestOK'
  BY <1>1, <1>4 DEF Count, HandlerUnchanged, RestOK, history
<1>6. HandlersOK'
  BY <1>2, <1>3
<1>7. TypeOK'
  BY <1>5, <1>6 DEF TypeOK, HandlersOK, RestOK, RunOK, HandlerType
<1> QED BY <1>1, <1>2, <1>3, <1>7

LEMMA AcknowledgeStep ==
  ASSUME TypeOK, NEW h \in Handlers, Acknowledge(h)
  PROVE  /\ TypeOK' /\ handler'[h] = Idle /\ handler[h].live
         /\ \A g \in Handlers \ {h} : handler'[g] = handler[g]
<1>1. HandlersOK /\ RestOK
  BY TypeParts
<1>2. handler[h].e \in Events
  BY <1>1 DEF Acknowledge, Done, HandlersOK, RunOK
<1>3. /\ handler'[h] = Idle /\ (\A g \in Handlers \ {h} : handler'[g] = handler[g])
      /\ handler' \in [Handlers -> HandlerType]
  BY <1>1, IdleOK DEF Acknowledge, HandlersOK, RunOK
<1>4. HandlersOK'
  BY <1>1, <1>3, IdleOK DEF HandlersOK
<1>5. RestOK'
  BY <1>1, <1>2 DEF Acknowledge, HandlerUnchanged, RestOK
<1> QED BY <1>3, <1>4, <1>5 DEF Acknowledge, TypeOK, HandlersOK, RestOK, RunOK, HandlerType

LEMMA AckThrowsStep ==
  ASSUME TypeOK, NEW h \in Handlers, AckThrows(h)
  PROVE  TypeOK' /\ Moved(h, "fail", handler[h].r)
<1>1. HandlersOK /\ RestOK /\ handler[h].pc # "idle" /\ handler[h].r \in Rules \cup {NoRule}
  BY TypeParts DEF AckThrows, HandlersOK, HandlerType
<1>2. "fail" \in HandlerPc
  BY DEF HandlerPc
<1>3. HandlersOK' /\ Moved(h, "fail", handler[h].r)
  BY <1>1, <1>2, MoveFields DEF AckThrows
<1>4. RestOK'
  BY <1>1 DEF AckThrows, HandlerUnchanged, RestOK, history
<1> QED BY <1>3, <1>4 DEF TypeOK, HandlersOK, RestOK, RunOK, HandlerType

LEMMA WorkerDiesStep ==
  ASSUME TypeOK, IdleHoldsNone, WorkerDies, faults' \in 0..MaxFaults
  PROVE  TypeOK' /\ \A h \in Handlers : handler'[h] = Idle
<1>1. HandlersOK /\ RestOK
  BY TypeParts
<1>2. queue' \in Seq(Events) /\ extra' \in [Events -> Nat]
  BY <1>1, RequeueTyped DEF WorkerDies
<1>3. handler' \in [Handlers -> HandlerType] /\ \A h \in Handlers : handler'[h] = Idle
  BY IdleOK DEF WorkerDies, RunOK
<1>4. HandlersOK'
  BY <1>3, IdleOK DEF HandlersOK
<1>5. RestOK'
  BY <1>1, <1>2 DEF WorkerDies, RestOK, rules, events
<1> QED BY <1>3, <1>4, <1>5 DEF TypeOK, HandlersOK, RestOK, RunOK, HandlerType

(* The handlers lose their channel and go on by themselves. *)
Unplugged == \A h \in Handlers : /\ handler'[h].pc = handler[h].pc /\ handler'[h].e = handler[h].e
                                 /\ handler'[h].r = handler[h].r /\ ~ handler'[h].live

LEMMA UnpluggedStep ==
  ASSUME TypeOK, IdleHoldsNone, ConnectionLost \/ BrokerRestart
  PROVE  TypeOK' /\ Unplugged
<1>1. HandlersOK /\ RestOK
  BY TypeParts
<1>2. handler' = [h \in Handlers |-> [handler[h] EXCEPT !.live = FALSE]]
  BY DEF ConnectionLost, BrokerRestart
<1>3. ASSUME NEW h \in Handlers
      PROVE  /\ handler'[h] \in HandlerType
             /\ handler'[h].pc = handler[h].pc /\ handler'[h].e = handler[h].e
             /\ handler'[h].r = handler[h].r /\ ~ handler'[h].live
  BY <1>1, <1>2 DEF HandlersOK, HandlerType
<1>4. HandlersOK' /\ Unplugged
  BY <1>1, <1>2, <1>3 DEF HandlersOK, RunOK, Unplugged
<1>5. queue' \in Seq(Events) /\ extra' \in [Events -> Nat]
  <2>1. CASE ConnectionLost
    BY <1>1, <2>1, RequeueTyped DEF ConnectionLost
  <2>2. CASE BrokerRestart
    <3>1. <<>> \in Seq(Events)
      BY EmptySeq
    <3>2. queue' = <<>> /\ extra' = extra
      BY <2>2 DEF BrokerRestart
    <3> QED BY <1>1, <3>1, <3>2 DEF RestOK
  <2> QED BY <2>1, <2>2
<1>6. dropped' \subseteq Events
  <2>1. {queue[i] : i \in 1..Len(queue)} \subseteq Events
    BY <1>1 DEF RestOK
  <2>2. {handler[h].e : h \in LiveHandlers} \subseteq Events
    BY <1>1 DEF LiveHandlers, HandlersOK, RunOK, IdleHoldsNone
  <2> QED BY <1>1, <2>1, <2>2 DEF ConnectionLost, BrokerRestart, RestOK
<1>7. RestOK'
  BY <1>1, <1>5, <1>6, FaultInBounds DEF ConnectionLost, BrokerRestart, RestOK, rules, events
<1> QED BY <1>4, <1>7 DEF TypeOK, HandlersOK, RestOK, RunOK, HandlerType

LEMMA StepTypeOK ==
  ASSUME TypeOK, IdleHoldsNone, [Next]_vars
  PROVE  TypeOK'
<1>1. HandlersOK /\ RestOK
  BY TypeParts
<1>2. ASSUME NEW h \in Handlers, HandlerStep(h) PROVE TypeOK'
  <2>1. CASE AckFailedThrows(h)
    BY <1>1, <2>1, WorkerDiesStep DEF AckFailedThrows, RestOK
  <2>2. CASE ~ AckFailedThrows(h)
    BY <1>2, <2>2, ReceiveStep, MatchStep, ReplyStep, PushStep, CountStep, AcknowledgeStep,
       AckThrowsStep DEF HandlerStep
  <2> QED BY <2>1, <2>2
<1>3. CASE WorkerCrash
  BY <1>1, <1>3, WorkerDiesStep, FaultInBounds DEF WorkerCrash
<1>4. CASE UNCHANGED vars
  BY <1>4 DEF vars, rules, events, history, TypeOK
<1> QED BY <1>2, <1>3, <1>4, HookTypeOK, UnpluggedStep DEF Next

LEMMA InitTypeOK == Init => TypeOK /\ IdleHoldsNone
<1> SUFFICES ASSUME Init PROVE TypeOK /\ IdleHoldsNone
  OBVIOUS
<1>1. handler \in [Handlers -> HandlerType] /\ \A h \in Handlers : handler[h] = Idle
  BY IdleOK DEF Init, RunOK
<1>2. HandlersOK
  BY <1>1, IdleOK DEF HandlersOK
<1>5. IdleHoldsNone
  BY <1>1 DEF IdleHoldsNone, Idle
<1>3. <<>> \in Seq(Events)
  BY EmptySeq
<1>4. RestOK
  BY <1>3, BoundsAssumption DEF Init, RestOK, HookPc
<1> QED BY <1>2, <1>5, <1>4, TypeParts

(* A run that takes a step moves on, takes a message, acknowledges its message, *)
(* or takes the worker down with it.                                           *)
LEMMA RunEffect ==
  ASSUME TypeOK, NEW h \in Handlers, HandlerStep(h)
  PROVE  \/ Receive(h)
         \/ handler[h].pc # "idle" /\ \E pc \in HandlerPc \ {"idle"} : \E r : Moved(h, pc, r)
         \/ Acknowledge(h)
         \/ WorkerDies
<1>1. {"reply", "push", "count", "ack", "fail"} \subseteq HandlerPc \ {"idle"}
  BY DEF HandlerPc
<1>2. CASE Match(h)
  BY <1>1, <1>2, MatchStep DEF Match
<1>3. CASE Reply(h)
  BY <1>1, <1>3, ReplyStep DEF Reply
<1>4. CASE Push(h)
  BY <1>1, <1>4, PushStep DEF Push
<1>5. CASE Count(h)
  BY <1>1, <1>5, CountStep DEF Count
<1>6. CASE AckThrows(h)
  BY <1>1, <1>6, AckThrowsStep DEF AckThrows
<1> QED BY <1>2, <1>3, <1>4, <1>5, <1>6 DEF HandlerStep, AckFailedThrows

LEMMA StepIdle ==
  ASSUME TypeOK, IdleHoldsNone, [Next]_vars
  PROVE  IdleHoldsNone'
<1>1. ASSUME NEW h \in Handlers, HandlerStep(h) PROVE IdleHoldsNone'
  <2>1. CASE Receive(h)
    BY <2>1, ReceiveStep DEF IdleHoldsNone
  <2>2. CASE \E pc \in HandlerPc \ {"idle"} : \E r : Moved(h, pc, r)
    BY <2>2 DEF IdleHoldsNone, Moved
  <2>3. CASE Acknowledge(h)
    BY <2>3, AcknowledgeStep DEF IdleHoldsNone, Idle
  <2>4. CASE WorkerDies
    BY <2>4 DEF WorkerDies, IdleHoldsNone, Idle
  <2> QED BY <1>1, <2>1, <2>2, <2>3, <2>4, RunEffect
<1>2. CASE WorkerCrash
  BY <1>2 DEF WorkerCrash, WorkerDies, IdleHoldsNone, Idle
<1>3. CASE ConnectionLost \/ BrokerRestart
  BY <1>3, UnpluggedStep DEF Unplugged, IdleHoldsNone
<1>4. ASSUME handler' = handler PROVE IdleHoldsNone'
  BY <1>4 DEF IdleHoldsNone
<1>5. CASE UNCHANGED vars
  BY <1>4, <1>5 DEF vars
<1> QED BY <1>1, <1>2, <1>3, <1>4, <1>5, HookTypeOK DEF Next

(* The webhook, the worker and the environment leave every variable in its type. *)
THEOREM ReplyTypesHold == Spec => []TypeOK
<1> DEFINE Inv == TypeOK /\ IdleHoldsNone
<1>1. Init => Inv
  BY InitTypeOK
<1>2. Inv /\ [Next]_vars => Inv'
  BY StepTypeOK, StepIdle
<1>3. Inv => TypeOK
  OBVIOUS
<1> HIDE DEF Inv
<1> QED BY <1>1, <1>2, <1>3, PTL DEF Spec

-----------------------------------------------------------------------------
(* No recorded event is forgotten. *)

Safe(e) == OnItsWay(e) \/ e \in handled \/ e \in dropped

(* Runs that keep their messages, and a webhook and a queue that stay. *)
LEMMA MovedKeeps ==
  ASSUME NEW e \in Events, Safe(e), hook' = hook, queue' = queue,
         handled \subseteq handled', dropped \subseteq dropped',
         \A g \in Handlers : handler'[g].e = handler[g].e /\ handler'[g].live = handler[g].live
  PROVE  Safe(e)'
<1>1. LiveHandlers' = LiveHandlers
  BY DEF LiveHandlers
<1>2. \A g \in LiveHandlers : handler'[g].e = handler[g].e
  BY DEF LiveHandlers
<1>3. OnItsWay(e) => OnItsWay(e)'
  BY <1>1, <1>2 DEF OnItsWay
<1> QED BY <1>3 DEF Safe

LEMMA ReceiveKeeps ==
  ASSUME TypeOK, IdleHoldsNone, NEW h \in Handlers, Receive(h), NEW e \in Events, Safe(e)
  PROVE  Safe(e)'
<1>1. /\ hook' = hook /\ queue # <<>> /\ queue' = Tail(queue) /\ queue \in Seq(Events)
      /\ handled' = handled /\ dropped' = dropped /\ ~ handler[h].live
  BY DEF Receive, events, history, IdleHoldsNone, TypeOK
<1>2. /\ h \in LiveHandlers' /\ handler'[h].e = Head(queue)
      /\ \A g \in LiveHandlers : g \in LiveHandlers' /\ handler'[g].e = handler[g].e
  BY <1>1, ReceiveStep DEF LiveHandlers
<1>3. ASSUME NEW i \in 1..Len(queue), queue[i] = e
      PROVE  OnItsWay(e)'
  <2>1. CASE i = 1
    BY <1>1, <1>2, <1>3, <2>1 DEF OnItsWay
  <2>2. CASE i # 1
    <3>1. i - 1 \in 1..Len(Tail(queue)) /\ Tail(queue)[i - 1] = queue[i]
      BY <1>1, <2>2
    <3> QED BY <1>1, <1>3, <3>1 DEF OnItsWay
  <2> QED BY <2>1, <2>2
<1>4. OnItsWay(e) => OnItsWay(e)'
  BY <1>1, <1>2, <1>3 DEF OnItsWay
<1> QED BY <1>1, <1>4 DEF Safe

LEMMA AcknowledgeKeeps ==
  ASSUME TypeOK, NEW h \in Handlers, Acknowledge(h), NEW e \in Events, Safe(e)
  PROVE  Safe(e)'
<1>1. /\ hook' = hook /\ queue' = queue /\ handled' = handled \cup {handler[h].e}
      /\ dropped' = dropped
  BY DEF Acknowledge, HandlerUnchanged
<1>2. \A g \in LiveHandlers \ {h} : g \in LiveHandlers' /\ handler'[g].e = handler[g].e
  BY AcknowledgeStep DEF LiveHandlers
<1>3. OnItsWay(e) => OnItsWay(e)' \/ e \in handled'
  BY <1>1, <1>2 DEF OnItsWay
<1> QED BY <1>1, <1>3 DEF Safe

(* Whatever was held is in the queue again, before what was there. *)
LEMMA RequeueKeeps ==
  ASSUME TypeOK, IdleHoldsNone, Requeue, hook' = hook, handled' = handled, dropped' = dropped,
         NEW e \in Events, Safe(e)
  PROVE  Safe(e)'
<1> DEFINE n == Cardinality(LiveHandlers)
<1>1. PICK back \in Returns : queue' = back \o queue
  BY DEF Requeue
<1>2. HandlersOK /\ queue \in Seq(Events)
  BY TypeParts DEF TypeOK
<1>3. back \in Seq(Events) /\ Len(back) = n /\ n \in Nat
  BY <1>2, ReturnsTyped
<1>4. PICK o \in Surjection(1..n, LiveHandlers) : \A i \in 1..n : back[i] = handler[o[i]].e
  BY <1>2, ReturnsTyped
<1> HIDE DEF n
<1>5. \A h \in LiveHandlers : \E i \in 1..n : o[i] = h
  BY <1>4 DEF Surjection
<1>6. /\ Len(queue') = n + Len(queue)
      /\ \A i \in 1..n : queue'[i] = back[i]
      /\ \A i \in 1..Len(queue) : queue'[n + i] = queue[i]
  <2>1. /\ Len(back \o queue) = Len(back) + Len(queue)
        /\ \A i \in 1..Len(back) + Len(queue) :
             (back \o queue)[i] = IF i <= Len(back) THEN back[i] ELSE queue[i - Len(back)]
    BY <1>2, <1>3, ConcatProperties
  <2>2. Len(queue) \in Nat
    BY <1>2, LenProperties
  <2> QED BY <1>1, <1>3, <2>1, <2>2
<1>7. Len(queue) \in Nat
  BY <1>2, LenProperties
<1>8. ASSUME NEW i \in 1..Len(queue), queue[i] = e PROVE OnItsWay(e)'
  <2>1. n + i \in 1..Len(queue') /\ queue'[n + i] = e
    BY <1>3, <1>6, <1>7, <1>8
  <2> QED BY <2>1 DEF OnItsWay
<1>9. ASSUME NEW h \in LiveHandlers, handler[h].e = e PROVE OnItsWay(e)'
  <2>1. PICK i \in 1..n : o[i] = h
    BY <1>5
  <2>2. i \in 1..Len(queue') /\ queue'[i] = e
    BY <1>3, <1>4, <1>6, <1>7, <1>9, <2>1
  <2> QED BY <2>2 DEF OnItsWay
<1>10. OnItsWay(e) => OnItsWay(e)'
  BY <1>8, <1>9 DEF OnItsWay
<1> QED BY <1>10 DEF Safe

LEMMA RestartKeeps ==
  ASSUME BrokerRestart, NEW e \in Events, Safe(e)
  PROVE  Safe(e)'
<1>1. /\ hook' = hook /\ handled' = handled
      /\ dropped' = dropped \cup {queue[i] : i \in 1..Len(queue)}
                            \cup {handler[h].e : h \in LiveHandlers}
  BY DEF BrokerRestart, events
<1> QED BY <1>1 DEF Safe, OnItsWay

LEMMA EnqueueKeeps ==
  ASSUME TypeOK, NEW x \in Events, Enqueue(x), NEW e \in Events, Safe(e)
  PROVE  Safe(e)'
<1>1. /\ handler' = handler /\ handled' = handled /\ queue \in Seq(Events)
      /\ dropped \subseteq dropped' /\ LiveHandlers' = LiveHandlers
      /\ e # x => hook'[e] = hook[e]
  BY DEF Enqueue, Advance, TypeOK, LiveHandlers
<1>2. CASE queue' = Append(queue, x)
  <2>1. /\ Len(queue') = Len(queue) + 1 /\ queue'[Len(queue) + 1] = x /\ Len(queue) \in Nat
        /\ \A i \in 1..Len(queue) : queue'[i] = queue[i]
    BY <1>1, <1>2, AppendProperties, LenProperties
  <2>2. \A i \in 1..Len(queue) : i \in 1..Len(queue')
    BY <2>1
  <2>3. e = x => OnItsWay(e)'
    BY <2>1 DEF OnItsWay
  <2>4. OnItsWay(e) => OnItsWay(e)'
    BY <1>1, <2>1, <2>2, <2>3 DEF OnItsWay
  <2> QED BY <1>1, <2>4 DEF Safe
<1>3. CASE queue' = Append(Append(queue, x), x)
  <2> DEFINE mid == Append(queue, x)
  <2>1. /\ mid \in Seq(Events) /\ Len(mid) = Len(queue) + 1
        /\ \A i \in 1..Len(queue) : mid[i] = queue[i]
    BY <1>1, AppendProperties
  <2>2. Len(queue) \in Nat
    BY <1>1, LenProperties
  <2> HIDE DEF mid
  <2>3. /\ Len(queue') = Len(mid) + 1 /\ queue'[Len(mid) + 1] = x
        /\ \A i \in 1..Len(mid) : queue'[i] = mid[i]
    BY <1>3, <2>1, AppendProperties DEF mid
  <2>4. \A i \in 1..Len(queue) : i \in 1..Len(queue') /\ queue'[i] = queue[i]
    BY <2>1, <2>2, <2>3
  <2>5. e = x => OnItsWay(e)'
    BY <2>1, <2>2, <2>3 DEF OnItsWay
  <2>6. OnItsWay(e) => OnItsWay(e)'
    BY <1>1, <2>4, <2>5 DEF OnItsWay
  <2> QED BY <1>1, <2>6 DEF Safe
<1>4. CASE queue' = queue /\ dropped' = dropped \cup {x}
  BY <1>1, <1>4 DEF Safe, OnItsWay
<1> QED BY <1>2, <1>3, <1>4 DEF Enqueue

(* A recorded event stays on its way, or it is handled or lost. *)
LEMMA StepKeeps ==
  ASSUME TypeOK, IdleHoldsNone, [Next]_vars, NEW e \in Events, Safe(e)
  PROVE  Safe(e)'
<1>1. CASE \E x \in Events : HookStep(x) /\ ~ Enqueue(x)
  <2>1. PICK x \in Events : HookStep(x) /\ ~ Enqueue(x)
    BY <1>1
  <2>2. HookUnchanged /\ hook[x] # "enqueue" /\ \A y \in Events \ {x} : hook'[y] = hook[y]
    BY <2>1 DEF HookStep, Arrive, LookUp, Save, LookUpAgain, Record, Advance, TypeOK
  <2>3. hook[e] = "enqueue" => hook'[e] = "enqueue"
    BY <2>2
  <2>4. /\ queue' = queue /\ handler' = handler /\ handled' = handled /\ dropped' = dropped
        /\ LiveHandlers' = LiveHandlers
    BY <2>2 DEF HookUnchanged, history, LiveHandlers
  <2> QED BY <2>3, <2>4 DEF Safe, OnItsWay
<1>2. CASE \E x \in Events : Enqueue(x)
  BY <1>2, EnqueueKeeps
<1>3. CASE ApiCrash
  <2>1. /\ hook[e] = "enqueue" => e \in dropped'
        /\ queue' = queue /\ handler' = handler /\ handled' = handled
        /\ dropped \subseteq dropped' /\ LiveHandlers' = LiveHandlers
    BY <1>3 DEF ApiCrash, LiveHandlers
  <2> QED BY <2>1 DEF Safe, OnItsWay
<1>4. CASE \E r \in Rules : EditRule(r)
  BY <1>4, MovedKeeps DEF EditRule, events, history
<1>5. ASSUME NEW h \in Handlers, HandlerStep(h) PROVE Safe(e)'
  <2>1. CASE Receive(h)
    BY <2>1, ReceiveKeeps
  <2>2. CASE Acknowledge(h)
    BY <2>2, AcknowledgeKeeps
  <2>3. CASE WorkerDies
    BY <2>3, RequeueKeeps DEF WorkerDies, events
  <2>4. CASE ~ Receive(h) /\ ~ Acknowledge(h) /\ ~ WorkerDies
    <3>1. \E pc, r : Moved(h, pc, r)
      BY <1>5, <2>4, RunEffect
    <3>2. \A g \in Handlers : handler'[g].e = handler[g].e /\ handler'[g].live = handler[g].live
      BY <3>1 DEF Moved
    <3>3. hook' = hook /\ queue' = queue /\ handled' = handled /\ dropped' = dropped
      BY <1>5, <2>4 DEF HandlerStep, Match, Reply, Push, Count, AckThrows, AckFailedThrows,
         HandlerUnchanged, history
    <3> QED BY <3>2, <3>3, MovedKeeps
  <2> QED BY <2>1, <2>2, <2>3, <2>4
<1>6. CASE WorkerCrash
  BY <1>6, RequeueKeeps DEF WorkerCrash, WorkerDies, events
<1>7. CASE ConnectionLost
  BY <1>7, RequeueKeeps DEF ConnectionLost, events
<1>8. CASE BrokerRestart
  BY <1>8, RestartKeeps
<1>9. CASE UNCHANGED vars
  BY <1>9, MovedKeeps DEF vars, events, history
<1> QED BY <1>1, <1>2, <1>3, <1>4, <1>5, <1>6, <1>7, <1>8, <1>9 DEF Next, HookStep

LEMMA StepRecorded ==
  ASSUME TypeOK, IdleHoldsNone, RecordedIsNotForgotten, [Next]_vars
  PROVE  RecordedIsNotForgotten'
<1>1. ASSUME NEW e \in recorded' \ recorded PROVE Safe(e)'
  <2>1. CASE \E x \in Events : Record(x)
    <3>1. PICK x \in Events : Record(x)
      BY <2>1
    <3>2. e = x /\ hook'[x] = "enqueue"
      BY <3>1 DEF Record, Advance, TypeOK
    <3> QED BY <3>2 DEF Safe, OnItsWay
  <2>2. CASE recorded' = recorded
    BY <2>2
  <2> QED BY <2>1, <2>2 DEF Next, vars, events, HookStep, HandlerStep, EditRule, Arrive, LookUp,
          Save, LookUpAgain, Enqueue, ApiCrash, Receive, Match, Reply, Push, Count, Acknowledge,
          AckThrows, AckFailedThrows, WorkerCrash, WorkerDies, ConnectionLost, BrokerRestart,
          HandlerUnchanged
<1>2. \A e \in recorded : Safe(e)
  BY DEF RecordedIsNotForgotten, Safe
<1>3. recorded \subseteq Events
  BY DEF TypeOK
<1>4. \A e \in recorded : Safe(e)'
  BY <1>2, <1>3, StepKeeps
<1>5. \A e \in recorded' : Safe(e)'
  BY <1>1, <1>4
<1> QED BY <1>5 DEF RecordedIsNotForgotten, Safe

(* An event with a row in webhook_events is on its way to the worker, handled,  *)
(* or lost with the API process, the publish or the broker.                     *)
THEOREM RecordedStaysKnown == Spec => []RecordedIsNotForgotten
<1> DEFINE Inv == TypeOK /\ IdleHoldsNone /\ RecordedIsNotForgotten
<1>1. Init => Inv
  BY InitTypeOK DEF Init, RecordedIsNotForgotten
<1>2. Inv /\ [Next]_vars => Inv'
  BY StepTypeOK, StepIdle, StepRecorded
<1>3. Inv => RecordedIsNotForgotten
  OBVIOUS
<1> HIDE DEF Inv
<1> QED BY <1>1, <1>2, <1>3, PTL DEF Spec

-----------------------------------------------------------------------------
(* What is acknowledged was answered. *)

Explained(e) == answered[e] > 0 \/ e \in excused

(* A run that is past its sends has reached the user or says why not. *)
RunsAnswer == \A h \in Handlers : handler[h].pc \in {"count", "ack", "fail"} => Explained(handler[h].e)

LEMMA ExplainedStays ==
  ASSUME TypeOK, NEW e \in Events, Explained(e), excused \subseteq excused',
         \/ answered' = answered
         \/ \E x \in Events : answered' = Once(answered, x)
  PROVE  Explained(e)'
<1>1. answered \in [Events -> Nat]
  BY DEF TypeOK
<1>2. answered'[e] >= answered[e]
  <2>1. CASE answered' = answered
    BY <1>1, <2>1
  <2>2. ASSUME NEW x \in Events, answered' = Once(answered, x) PROVE answered'[e] >= answered[e]
    <3>1. answered'[e] = answered[e] + 1 \/ answered'[e] = answered[e]
      BY <1>1, <2>2, OnceTyped
    <3>2. answered[e] \in Nat
      BY <1>1
    <3> QED BY <3>1, <3>2
  <2> QED BY <2>1, <2>2
<1>3. answered[e] \in Nat
  BY <1>1
<1>4. answered[e] > 0 => answered'[e] > 0
  <2>1. answered'[e] \in Nat
    BY <1>1, <1>3, OnceTyped
  <2> QED BY <1>2, <1>3, <2>1
<1> QED BY <1>4 DEF Explained

(* A step of one run that stays, or comes to a program counter it may come to. *)
LEMMA MoveAnswers ==
  ASSUME TypeOK, HandledIsAnswered, RunsAnswer, NEW h \in Handlers, handler[h].e \in Events,
         NEW pc, NEW r, Moved(h, pc, r), handled' = handled,
         pc \in {"count", "ack", "fail"} =>
           \A e \in Events : e = handler[h].e => Explained(e)',
         \A e \in Events : Explained(e) => Explained(e)'
  PROVE  HandledIsAnswered' /\ RunsAnswer'
<1>1. handled \subseteq Events /\ HandlersOK
  BY TypeParts DEF TypeOK
<1>2. \A e \in handled : Explained(e)
  BY DEF HandledIsAnswered, Explained
<1>3. \A e \in handled' : Explained(e)'
  BY <1>1, <1>2
<1>4. HandledIsAnswered'
  BY <1>3 DEF HandledIsAnswered, Explained
<1>5. ASSUME NEW g \in Handlers \ {h}, handler'[g].pc \in {"count", "ack", "fail"}
      PROVE  \A e \in Events : e = handler[g].e => Explained(e)'
  <2>1. handler'[g] = handler[g] /\ handler[g].e \in Events /\ Explained(handler[g].e)
    BY <1>1, <1>5 DEF Moved, HandlersOK, RunOK, RunsAnswer
  <2> QED BY <2>1
<1>6. \A g \in Handlers : handler'[g].e = handler[g].e
  BY DEF Moved
<1>7. /\ handler'[h].pc \in {"count", "ack", "fail"} =>
           \A e \in Events : e = handler[h].e => Explained(e)'
      /\ handler'[h].pc = pc
  BY DEF Moved
<1>8. \A g \in Handlers \ {h} : handler'[g].pc # "idle" => handler[g].e \in Events
  BY <1>1 DEF Moved, HandlersOK, RunOK
<1>9. ASSUME NEW g \in Handlers, handler'[g].pc \in {"count", "ack", "fail"}
      PROVE  answered'[handler'[g].e] > 0 \/ handler'[g].e \in excused'
  BY <1>5, <1>6, <1>7, <1>8, <1>9 DEF Explained
<1> QED BY <1>4, <1>9 DEF RunsAnswer, Explained

LEMMA RunAnswers ==
  ASSUME TypeOK, HandledIsAnswered, RunsAnswer, NEW h \in Handlers,
         Match(h) \/ Reply(h) \/ Push(h) \/ Count(h) \/ AckThrows(h)
  PROVE  HandledIsAnswered' /\ RunsAnswer'
<1>1. HandlersOK /\ answered \in [Events -> Nat]
  BY TypeParts DEF TypeOK
<1>2. handler[h].e \in Events /\ handled' = handled
  BY <1>1 DEF Match, Reply, Push, Count, AckThrows, HandlersOK, RunOK, history
<1>3. /\ excused \subseteq excused'
      /\ answered' = answered \/ \E x \in Events : answered' = Once(answered, x)
  BY <1>2 DEF Match, Reply, Push, Count, AckThrows, Delivered, Once, history
<1>4. \A e \in Events : Explained(e) => Explained(e)'
  BY <1>3, ExplainedStays
<1>5. ASSUME NEW e \in Events, answered' = Once(answered, e) PROVE Explained(e)'
  <2>1. answered'[e] = answered[e] + 1 /\ answered[e] \in Nat
    BY <1>1, <1>5, OnceTyped
  <2>2. answered'[e] > 0
    BY <2>1
  <2> QED BY <2>2 DEF Explained
<1>6. ASSUME NEW e \in Events, excused' = excused \cup {e} PROVE Explained(e)'
  BY <1>6 DEF Explained
<1>7. CASE Match(h)
  <2>1. \/ \E r : Moved(h, "reply", r)
        \/ (\E pc, r : Moved(h, pc, r)) /\ excused' = excused \cup {handler[h].e}
    BY <1>7, MatchStep
  <2> QED BY <1>2, <1>4, <1>6, <2>1, MoveAnswers
<1>8. CASE Reply(h)
  <2>1. \/ \E r : Moved(h, "push", r)
        \/ (\E pc, r : Moved(h, pc, r)) /\ answered' = Once(answered, handler[h].e)
    BY <1>8, ReplyStep DEF Gets
  <2> QED BY <1>2, <1>4, <1>5, <2>1, MoveAnswers
<1>9. CASE Push(h)
  <2>1. /\ \E pc, r : Moved(h, pc, r)
        /\ answered' = Once(answered, handler[h].e) \/ excused' = excused \cup {handler[h].e}
    BY <1>9, PushStep DEF Gets
  <2> QED BY <1>2, <1>4, <1>5, <1>6, <2>1, MoveAnswers
<1>10. CASE Count(h) \/ AckThrows(h)
  <2>1. \E pc, r : Moved(h, pc, r)
    BY <1>10, CountStep, AckThrowsStep
  <2>2. Explained(handler[h].e)
    BY <1>10 DEF Count, AckThrows, RunsAnswer
  <2> QED BY <1>2, <1>4, <2>1, <2>2, MoveAnswers
<1> QED BY <1>7, <1>8, <1>9, <1>10

LEMMA StepAnswers ==
  ASSUME TypeOK, IdleHoldsNone, HandledIsAnswered, RunsAnswer, [Next]_vars
  PROVE  HandledIsAnswered' /\ RunsAnswer'
<1>1. ASSUME NEW h \in Handlers, HandlerStep(h) PROVE HandledIsAnswered' /\ RunsAnswer'
  <2>1. CASE Receive(h)
    <3>1. answered' = answered /\ handled' = handled /\ excused' = excused
      BY <2>1 DEF Receive, history
    <3>2. handler'[h].pc = "match" /\ \A g \in Handlers \ {h} : handler'[g] = handler[g]
      BY <2>1, ReceiveStep
    <3> QED BY <3>1, <3>2 DEF HandledIsAnswered, RunsAnswer, Explained
  <2>2. CASE Acknowledge(h)
    <3>1. answered' = answered /\ handled' = handled \cup {handler[h].e} /\ excused' = excused
      BY <2>2 DEF Acknowledge, HandlerUnchanged
    <3>2. Explained(handler[h].e)
      BY <2>2 DEF Acknowledge, Done, RunsAnswer
    <3>3. handler'[h].pc = "idle" /\ \A g \in Handlers \ {h} : handler'[g] = handler[g]
      BY <2>2, AcknowledgeStep DEF Idle
    <3> QED BY <3>1, <3>2, <3>3 DEF HandledIsAnswered, RunsAnswer, Explained
  <2>3. CASE AckFailedThrows(h)
    BY <2>3 DEF AckFailedThrows, WorkerDies, HandledIsAnswered, RunsAnswer, Idle
  <2> QED BY <1>1, <2>1, <2>2, <2>3, RunAnswers DEF HandlerStep
<1>2. CASE WorkerCrash
  BY <1>2 DEF WorkerCrash, WorkerDies, HandledIsAnswered, RunsAnswer, Idle
<1>3. CASE ConnectionLost \/ BrokerRestart
  <2>1. answered' = answered /\ handled' = handled /\ excused' = excused
    BY <1>3 DEF ConnectionLost, BrokerRestart
  <2> QED BY <1>3, <2>1, UnpluggedStep DEF Unplugged, HandledIsAnswered, RunsAnswer, Explained
<1>4. CASE UNCHANGED <<handler, answered, handled, excused>>
  BY <1>4 DEF HandledIsAnswered, RunsAnswer, Explained
<1> QED BY <1>1, <1>2, <1>3, <1>4 DEF Next, vars, history, EditRule, HookStep, Arrive, LookUp,
        Save, LookUpAgain, Record, Enqueue, ApiCrash, HookUnchanged

(* What the worker acknowledges was answered, or a run says why it could not be. *)
THEOREM AcknowledgedIsAnswered == Spec => []HandledIsAnswered
<1> DEFINE Inv == TypeOK /\ IdleHoldsNone /\ HandledIsAnswered /\ RunsAnswer
<1>1. Init => Inv
  BY InitTypeOK DEF Init, HandledIsAnswered, RunsAnswer, Idle
<1>2. Inv /\ [Next]_vars => Inv'
  BY StepTypeOK, StepIdle, StepAnswers
<1>3. Inv => HandledIsAnswered
  OBVIOUS
<1> HIDE DEF Inv
<1> QED BY <1>1, <1>2, <1>3, PTL DEF Spec

-----------------------------------------------------------------------------
(* triggerCount is no more than what was sent. *)

(* The runs that have sent r and are about to count it. *)
Counting(r) == {h \in Handlers : handler[h].pc = "count" /\ handler[h].r = r}

CountsFit == \A r \in Rules : trigger[r] + Cardinality(Counting(r)) <= sent[r]

LEMMA CountingFinite ==
  ASSUME NEW r
  PROVE  /\ IsFiniteSet(Counting(r)) /\ Cardinality(Counting(r)) \in Nat
         /\ IsFiniteSet(Counting(r)') /\ Cardinality(Counting(r)') \in Nat
<1>1. Counting(r) \in SUBSET Handlers /\ Counting(r)' \in SUBSET Handlers
  BY DEF Counting
<1>2. IsFiniteSet(Counting(r)) /\ IsFiniteSet(Counting(r)')
  BY <1>1, HandlersAssumption, FS_Subset
<1> QED BY <1>2, FS_CardinalityType

(* Fewer runs that are to count, no more counted and no less sent. *)
LEMMA FewerCount ==
  ASSUME TypeOK, TypeOK', NEW r \in Rules, trigger[r] + Cardinality(Counting(r)) <= sent[r],
         trigger'[r] <= trigger[r], sent[r] <= sent'[r], Counting(r)' \subseteq Counting(r)
  PROVE  trigger'[r] + Cardinality(Counting(r)') <= sent'[r]
<1>1. Cardinality(Counting(r)') <= Cardinality(Counting(r))
  BY CountingFinite, FS_Subset
<1>2. /\ trigger[r] \in Nat /\ trigger'[r] \in Nat /\ sent[r] \in Nat /\ sent'[r] \in Nat
  BY DEF TypeOK
<1> QED BY <1>1, <1>2, CountingFinite

(* A run that moves on, and was or will be at the counting. *)
LEMMA MovedCounting ==
  ASSUME NEW h \in Handlers, NEW pc, NEW s, Moved(h, pc, s), NEW r,
         s = handler[h].r \/ (pc # "count" /\ handler[h].pc # "count")
  PROVE  /\ pc = "count" /\ s = r => Counting(r)' = Counting(r) \cup {h}
         /\ pc = "count" /\ s # r => Counting(r)' = Counting(r)
         /\ pc # "count" => Counting(r)' = Counting(r) \ {h}
BY DEF Moved, Counting

LEMMA SentStep ==
  ASSUME TypeOK, TypeOK', CountsFit, NEW h \in Handlers, Reply(h) \/ Push(h)
  PROVE  CountsFit'
<1> DEFINE s == handler[h].r
<1>1. /\ s \in Rules /\ handler[h].pc # "count" /\ trigger' = trigger
      /\ \/ sent' = Once(sent, s) /\ \E pc : Moved(h, pc, s)
         \/ sent' = sent /\ \E pc : pc # "count" /\ Moved(h, pc, s)
  BY ReplyStep, PushStep DEF Reply, Push, Gets, GetsNone
<1> HIDE DEF s
<1>2. sent \in [Rules -> Nat] /\ trigger \in [Rules -> Nat]
  BY DEF TypeOK
<1>3. ASSUME NEW r \in Rules PROVE trigger'[r] + Cardinality(Counting(r)') <= sent'[r]
  <2>1. trigger[r] + Cardinality(Counting(r)) <= sent[r]
    BY DEF CountsFit
  <2>2. trigger[r] \in Nat /\ sent[r] \in Nat
    BY <1>2
  <2>3. sent'[r] = sent[r] \/ sent'[r] = sent[r] + 1
    BY <1>1, <1>2, OnceTyped
  <2>4. sent[r] <= sent'[r] /\ trigger'[r] <= trigger[r]
    BY <1>1, <2>2, <2>3
  <2>5. CASE Counting(r)' \subseteq Counting(r)
    BY <2>1, <2>4, <2>5, FewerCount
  <2>6. CASE ~ (Counting(r)' \subseteq Counting(r))
    <3>1. s = r /\ Counting(r)' = Counting(r) \cup {h} /\ sent' = Once(sent, s)
      BY <1>1, <2>6, MovedCounting DEF s
    <3>2. h \notin Counting(r)
      BY <1>1 DEF Counting
    <3>3. Cardinality(Counting(r)') = Cardinality(Counting(r)) + 1
      BY <3>1, <3>2, CountingFinite, FS_AddElement
    <3>4. sent'[r] = sent[r] + 1
      BY <1>1, <1>2, <3>1, OnceTyped
    <3> QED BY <1>1, <2>1, <2>2, <3>3, <3>4, CountingFinite
  <2> QED BY <2>5, <2>6
<1> QED BY <1>3 DEF CountsFit

LEMMA CountedStep ==
  ASSUME TypeOK, TypeOK', CountsFit, NEW h \in Handlers, Count(h)
  PROVE  CountsFit'
<1> DEFINE s == handler[h].r
<1>1. /\ s \in Rules /\ h \in Counting(s) /\ sent' = sent
      /\ trigger' = Once(trigger, s) \/ trigger' = trigger
      /\ \E pc : pc # "count" /\ Moved(h, pc, s)
  BY CountStep DEF Count, Counting
<1>2. \A r : Counting(r)' = Counting(r) \ {h}
  BY <1>1 DEF Moved, Counting
<1> HIDE DEF s
<1>3. sent \in [Rules -> Nat] /\ trigger \in [Rules -> Nat]
  BY DEF TypeOK
<1>4. ASSUME NEW r \in Rules PROVE trigger'[r] + Cardinality(Counting(r)') <= sent'[r]
  <2>1. trigger[r] + Cardinality(Counting(r)) <= sent[r] /\ sent'[r] = sent[r]
    BY <1>1 DEF CountsFit
  <2>2. trigger[r] \in Nat /\ sent[r] \in Nat
    BY <1>3
  <2>3. CASE trigger'[r] = trigger[r]
    BY <1>2, <2>1, <2>2, <2>3, FewerCount
  <2>4. CASE trigger'[r] # trigger[r]
    <3>1. s = r /\ trigger'[r] = trigger[r] + 1
      BY <1>1, <1>3, <2>4, OnceTyped
    <3>2. Cardinality(Counting(r)') = Cardinality(Counting(r)) - 1
      BY <1>1, <1>2, <3>1, CountingFinite, FS_RemoveElement
    <3> QED BY <2>1, <2>2, <3>1, <3>2, CountingFinite
  <2> QED BY <2>3, <2>4
<1> QED BY <1>4 DEF CountsFit

LEMMA StepCounts ==
  ASSUME TypeOK, TypeOK', IdleHoldsNone, CountsFit, [Next]_vars
  PROVE  CountsFit'
<1>1. ASSUME sent' = sent, \A r \in Rules : trigger'[r] <= trigger[r],
             \A r : Counting(r)' \subseteq Counting(r)
      PROVE  CountsFit'
  <2>1. ASSUME NEW r \in Rules PROVE sent[r] <= sent'[r]
    <3>1. sent[r] \in Nat
      BY DEF TypeOK
    <3> QED BY <1>1, <3>1
  <2> QED BY <1>1, <2>1, FewerCount DEF CountsFit
<1>2. ASSUME trigger' = trigger PROVE \A r \in Rules : trigger'[r] <= trigger[r]
  <2>1. \A r \in Rules : trigger[r] \in Nat
    BY DEF TypeOK
  <2> QED BY <1>2, <2>1
<1>3. CASE \E r \in Rules : EditRule(r)
  <2>1. \A r \in Rules : trigger[r] \in Nat
    BY DEF TypeOK
  <2>2. /\ \A r \in Rules : trigger'[r] = trigger[r] \/ trigger'[r] = 0
        /\ handler' = handler /\ sent' = sent
    BY <1>3 DEF EditRule, TypeOK
  <2>3. \A r \in Rules : trigger'[r] <= trigger[r]
    BY <2>1, <2>2
  <2> QED BY <1>1, <2>2, <2>3 DEF Counting
<1>4. ASSUME NEW h \in Handlers, HandlerStep(h) PROVE CountsFit'
  <2>1. CASE Reply(h) \/ Push(h)
    BY <2>1, SentStep
  <2>2. CASE Count(h)
    BY <2>2, CountedStep
  <2>3. CASE ~ (Reply(h) \/ Push(h) \/ Count(h))
    <3>1. trigger' = trigger /\ sent' = sent
      BY <1>4, <2>3 DEF HandlerStep, Receive, Match, Acknowledge, AckThrows, AckFailedThrows,
         WorkerDies, rules
    <3>2. \A r : Counting(r)' \subseteq Counting(r)
      <4>1. CASE Receive(h)
        BY <4>1, ReceiveStep DEF Counting
      <4>2. CASE Match(h)
        BY <4>2, MatchStep DEF Moved, Counting
      <4>3. CASE Acknowledge(h)
        BY <4>3, AcknowledgeStep DEF Counting, Idle
      <4>4. CASE AckThrows(h)
        BY <4>4, AckThrowsStep DEF Moved, Counting
      <4>5. CASE AckFailedThrows(h)
        BY <4>5 DEF AckFailedThrows, WorkerDies, Counting, Idle
      <4> QED BY <1>4, <2>3, <4>1, <4>2, <4>3, <4>4, <4>5 DEF HandlerStep
    <3> QED BY <1>1, <1>2, <3>1, <3>2
  <2> QED BY <2>1, <2>2, <2>3
<1>5. CASE WorkerCrash
  <2>1. trigger' = trigger /\ sent' = sent /\ \A h \in Handlers : handler'[h] = Idle
    BY <1>5 DEF WorkerCrash, WorkerDies, rules
  <2> QED BY <1>1, <1>2, <2>1 DEF Counting, Idle
<1>6. CASE ConnectionLost \/ BrokerRestart
  <2>1. trigger' = trigger /\ sent' = sent
    BY <1>6 DEF ConnectionLost, BrokerRestart, rules
  <2> QED BY <1>1, <1>2, <1>6, <2>1, UnpluggedStep DEF Unplugged, Counting
<1>7. CASE UNCHANGED <<handler, trigger, sent>>
  BY <1>1, <1>2, <1>7 DEF Counting
<1> QED BY <1>3, <1>4, <1>5, <1>6, <1>7 DEF Next, vars, rules, HookStep, Arrive, LookUp, Save,
        LookUpAgain, Record, Enqueue, ApiCrash, HookUnchanged

(* triggerCount of a rule never claims a send that did not happen. *)
THEOREM TriggersWereSent == Spec => []TriggersAreAnswers
<1> DEFINE Inv == TypeOK /\ IdleHoldsNone /\ CountsFit
<1>1. Init => Inv
  <2> SUFFICES ASSUME Init PROVE Inv
    OBVIOUS
  <2>1. \A r : Counting(r) = {}
    BY DEF Init, Counting, Idle
  <2>2. \A r \in Rules : trigger[r] = 0 /\ sent[r] = 0 /\ Cardinality(Counting(r)) = 0
    BY <2>1, FS_EmptySet DEF Init
  <2>3. CountsFit
    BY <2>2 DEF CountsFit
  <2> QED BY <2>3, InitTypeOK
<1>2. Inv /\ [Next]_vars => Inv'
  BY StepTypeOK, StepIdle, StepCounts
<1>3. Inv => TriggersAreAnswers
  <2> SUFFICES ASSUME Inv, NEW r \in Rules PROVE trigger[r] <= sent[r]
    BY DEF TriggersAreAnswers
  <2>1. trigger[r] \in Nat /\ sent[r] \in Nat /\ trigger[r] + Cardinality(Counting(r)) <= sent[r]
    BY DEF TypeOK, CountsFit
  <2> QED BY <2>1, CountingFinite
<1> HIDE DEF Inv
<1> QED BY <1>1, <1>2, <1>3, PTL DEF Spec

-----------------------------------------------------------------------------
(* Every answer has a cause: how many messages of an event a queue holds. *)

Places(q, e) == {i \in 1..Len(q) : q[i] = e}

LEMMA PlacesType ==
  ASSUME NEW q \in Seq(Events), NEW e
  PROVE  IsFiniteSet(Places(q, e)) /\ Cardinality(Places(q, e)) \in Nat
<1>1. Len(q) \in Nat
  BY LenProperties
<1>2. IsFiniteSet(1..Len(q))
  BY <1>1, FS_Interval
<1>3. Places(q, e) \in SUBSET (1..Len(q))
  BY DEF Places
<1>4. IsFiniteSet(Places(q, e))
  BY <1>2, <1>3, FS_Subset
<1> QED BY <1>4, FS_CardinalityType

LEMMA PlacesEmpty == \A e : Places(<<>>, e) = {} /\ Cardinality(Places(<<>>, e)) = 0
<1>1. \A e : Places(<<>>, e) = {}
  BY DEF Places
<1> QED BY <1>1, FS_EmptySet

LEMMA PlacesAppend ==
  ASSUME NEW q \in Seq(Events), NEW x \in Events, NEW e
  PROVE  /\ Append(q, x) \in Seq(Events)
         /\ Cardinality(Places(Append(q, x), e)) =
              Cardinality(Places(q, e)) + (IF x = e THEN 1 ELSE 0)
<1> DEFINE q1 == Append(q, x)
           n == Len(q)
<1>1. /\ q1 \in Seq(Events) /\ Len(q1) = n + 1 /\ q1[n + 1] = x /\ n \in Nat
      /\ \A i \in 1..n : q1[i] = q[i]
  BY AppendProperties, LenProperties
<1> HIDE DEF q1, n
<1>2. CASE x = e
  <2>1. Places(q1, e) = Places(q, e) \cup {n + 1} /\ n + 1 \notin Places(q, e)
    BY <1>1, <1>2 DEF Places, n
  <2>2. Cardinality(Places(q, e) \cup {n + 1}) = Cardinality(Places(q, e)) + 1
    BY <2>1, PlacesType, FS_AddElement
  <2> QED BY <1>1, <1>2, <2>1, <2>2 DEF q1
<1>3. CASE x # e
  <2>1. Places(q1, e) = Places(q, e)
    BY <1>1, <1>3 DEF Places, n
  <2> QED BY <1>1, <1>3, <2>1, PlacesType DEF q1
<1> QED BY <1>2, <1>3

LEMMA PlacesTail ==
  ASSUME NEW q \in Seq(Events), q # <<>>, NEW e
  PROVE  /\ Tail(q) \in Seq(Events)
         /\ Cardinality(Places(Tail(q), e)) + (IF Head(q) = e THEN 1 ELSE 0)
              <= Cardinality(Places(q, e))
<1> DEFINE t == Tail(q)
           S == Places(t, e)
           T == Places(q, e) \ {1}
           f == [i \in S |-> i + 1]
<1>1. /\ t \in Seq(Events) /\ Len(t) = Len(q) - 1 /\ Len(q) \in Nat /\ Len(q) >= 1
      /\ \A i \in 1..Len(t) : t[i] = q[i + 1]
  BY HeadTailProperties, LenProperties
<1>2. Head(q) = q[1]
  OBVIOUS
<1> HIDE DEF t
<1>3. \A i \in S : i \in Nat /\ i + 1 \in T
  BY <1>1 DEF Places
<1>4. f \in Injection(S, T)
  <2>1. f \in [S -> T]
    BY <1>3
  <2>2. \A i, j \in S : i + 1 = j + 1 => i = j
    BY <1>3
  <2>3. \A i, j \in S : f[i] = f[j] => i = j
    BY <2>2
  <2> QED BY <2>1, <2>3 DEF Injection, IsInjective
<1>5. /\ IsFiniteSet(Places(q, e)) /\ Cardinality(Places(q, e)) \in Nat
      /\ Cardinality(S) \in Nat
  BY <1>1, PlacesType
<1> HIDE DEF f
<1>6. /\ IsFiniteSet(T)
      /\ Cardinality(T) = IF 1 \in Places(q, e) THEN Cardinality(Places(q, e)) - 1
                                               ELSE Cardinality(Places(q, e))
  BY <1>5, FS_RemoveElement
<1> HIDE DEF S, T
<1>7. Cardinality(S) <= Cardinality(T)
  BY <1>4, <1>6, FS_Injection
<1>8. Head(q) = e => 1 \in Places(q, e)
  BY <1>1, <1>2 DEF Places
<1> QED BY <1>1, <1>5, <1>6, <1>7, <1>8 DEF S, t

LEMMA PlacesConcat ==
  ASSUME NEW b \in Seq(Events), NEW q \in Seq(Events), NEW e
  PROVE  /\ b \o q \in Seq(Events)
         /\ Cardinality(Places(b \o q, e)) <= Cardinality(Places(b, e)) + Cardinality(Places(q, e))
<1> DEFINE c == b \o q
           n == Len(b)
           S == Places(c, e) \ (1..n)
           T == Places(q, e)
           B == Places(b, e)
           f == [i \in S |-> i - n]
<1>1. /\ c \in Seq(Events) /\ Len(c) = n + Len(q) /\ n \in Nat /\ Len(q) \in Nat
      /\ \A i \in 1..n + Len(q) : c[i] = IF i <= n THEN b[i] ELSE q[i - n]
  BY ConcatProperties, LenProperties
<1> HIDE DEF c, n
<1>2. Places(c, e) = B \cup S
  BY <1>1 DEF Places, n
<1>3. \A i \in S : i \in Nat /\ i - n \in T
  BY <1>1 DEF Places
<1>4. f \in Injection(S, T)
  <2>1. f \in [S -> T]
    BY <1>3
  <2>2. \A i, j \in S : i - n = j - n => i = j
    BY <1>1, <1>3
  <2>3. \A i, j \in S : f[i] = f[j] => i = j
    BY <2>2
  <2> QED BY <2>1, <2>3 DEF Injection, IsInjective
<1>5. /\ IsFiniteSet(T) /\ Cardinality(T) \in Nat /\ IsFiniteSet(B) /\ Cardinality(B) \in Nat
  BY PlacesType
<1>6. IsFiniteSet(Places(c, e)) /\ S \in SUBSET Places(c, e)
  BY <1>1, PlacesType
<1> HIDE DEF f, S, T, B
<1>7. IsFiniteSet(S)
  BY <1>6, FS_Subset
<1>8. Cardinality(S) <= Cardinality(T)
  BY <1>4, <1>5, FS_Injection
<1>9. Cardinality(B \cup S) = Cardinality(B) + Cardinality(S) - Cardinality(B \cap S)
  BY <1>5, <1>7, FS_Union
<1>10. B \cap S \in SUBSET B
  OBVIOUS
<1>11. IsFiniteSet(B \cap S)
  BY <1>5, <1>10, FS_Subset
<1>12. Cardinality(B \cap S) \in Nat /\ Cardinality(S) \in Nat
  BY <1>7, <1>11, FS_CardinalityType
<1>13. Cardinality(Places(c, e)) <= Cardinality(B) + Cardinality(T)
  BY <1>2, <1>5, <1>8, <1>9, <1>12
<1> QED BY <1>1, <1>13 DEF c, B, T

LEMMA HeldType == ASSUME NEW e PROVE IsFiniteSet(HeldOf(e)) /\ Cardinality(HeldOf(e)) \in Nat
<1>1. HeldOf(e) \in SUBSET Handlers
  BY DEF HeldOf, LiveHandlers
<1>2. IsFiniteSet(HeldOf(e))
  BY <1>1, HandlersAssumption, FS_Subset
<1> QED BY <1>2, FS_CardinalityType

(* No message comes back more often than it was held. *)
LEMMA PlacesBack ==
  ASSUME HandlersOK, IdleHoldsNone, NEW back \in Returns, NEW e
  PROVE  Cardinality(Places(back, e)) <= Cardinality(HeldOf(e))
<1> DEFINE n == Cardinality(LiveHandlers)
<1>1. /\ IsFiniteSet(LiveHandlers) /\ n \in Nat /\ back \in Seq(Events) /\ Len(back) = n
      /\ \E o \in Surjection(1..n, LiveHandlers) : \A i \in 1..n : back[i] = handler[o[i]].e
  BY ReturnsTyped
<1>2. PICK o \in Surjection(1..n, LiveHandlers) : \A i \in 1..n : back[i] = handler[o[i]].e
  BY <1>1
<1>3. IsFiniteSet(1..n) /\ Cardinality(1..n) = n
  BY <1>1, FS_Interval
<1>4. o \in Injection(1..n, LiveHandlers)
  BY <1>2, <1>3, FS_SurjSameCardinalityImpliesInj
<1> DEFINE S == Places(back, e)
           T == HeldOf(e)
           f == [i \in S |-> o[i]]
<1>5. S \subseteq 1..n
  BY <1>1 DEF Places
<1>6. \A i \in S : o[i] \in T
  BY <1>1, <1>2, <1>4 DEF Places, HeldOf, Injection
<1>7. \A i, j \in S : o[i] = o[j] => i = j
  BY <1>4, <1>5 DEF Injection, IsInjective
<1>8. f \in Injection(S, T)
  BY <1>6, <1>7 DEF Injection, IsInjective
<1>9. IsFiniteSet(T)
  BY HeldType
<1> HIDE DEF f
<1>10. Cardinality(S) <= Cardinality(T)
  BY <1>8, <1>9, FS_Injection
<1> QED BY <1>10

(* The runs that may still answer e. *)
Working(e) == {h \in Handlers : handler[h].pc \in {"match", "reply", "push"} /\ handler[h].e = e}

(* The webhook may still publish e. *)
Open(e) == IF hook[e] # "done" THEN 1 ELSE 0

(* Answers given and answers still possible. *)
Within(e) ==
  answered[e] + Open(e) + Cardinality(Places(queue, e)) + Cardinality(Working(e)) <= 1 + extra[e]

CausesFit == \A e \in Events : Within(e)

LEMMA WorkingType ==
  ASSUME NEW e
  PROVE  /\ IsFiniteSet(Working(e)) /\ Cardinality(Working(e)) \in Nat
         /\ IsFiniteSet(Working(e)') /\ Cardinality(Working(e)') \in Nat
<1>1. Working(e) \in SUBSET Handlers /\ Working(e)' \in SUBSET Handlers
  BY DEF Working
<1>2. IsFiniteSet(Working(e)) /\ IsFiniteSet(Working(e)')
  BY <1>1, HandlersAssumption, FS_Subset
<1> QED BY <1>2, FS_CardinalityType

LEMMA CausesType ==
  ASSUME TypeOK, TypeOK', NEW e \in Events
  PROVE  /\ answered[e] \in Nat /\ answered'[e] \in Nat
         /\ extra[e] \in Nat /\ extra'[e] \in Nat
         /\ Open(e) \in Nat /\ Open(e)' \in Nat
         /\ Cardinality(Places(queue, e)) \in Nat /\ Cardinality(Places(queue', e)) \in Nat
<1>1. queue \in Seq(Events) /\ queue' \in Seq(Events)
  BY DEF TypeOK
<1> QED BY <1>1, PlacesType DEF TypeOK, Open

(* Nothing answered or published, and no run more that may answer. *)
LEMMA NoMoreCauses ==
  ASSUME TypeOK, TypeOK', NEW e \in Events, Within(e), answered'[e] = answered[e],
         extra'[e] = extra[e], queue' = queue, hook[e] = "done" => hook'[e] = "done",
         Working(e)' \subseteq Working(e)
  PROVE  Within(e)'
<1>1. Cardinality(Working(e)') <= Cardinality(Working(e))
  BY WorkingType, FS_Subset
<1>2. Open(e)' <= Open(e)
  BY DEF Open
<1>3. Cardinality(Places(queue', e)) = Cardinality(Places(queue, e))
  OBVIOUS
<1>4. answered[e] + Open(e) + Cardinality(Places(queue, e)) + Cardinality(Working(e)) <= 1 + extra[e]
  BY DEF Within
<1>5. answered'[e] + Open(e)' + Cardinality(Places(queue', e)) + Cardinality(Working(e)') <= 1 + extra'[e]
  BY <1>1, <1>2, <1>3, <1>4, CausesType, WorkingType
<1> QED BY <1>5 DEF Within

LEMMA EnqueueCauses ==
  ASSUME TypeOK, TypeOK', NEW x \in Events, Enqueue(x), NEW e \in Events, Within(e)
  PROVE  Within(e)'
<1>1. /\ answered' = answered /\ handler' = handler /\ hook[x] = "enqueue" /\ hook'[x] = "done"
      /\ \A y \in Events \ {x} : hook'[y] = hook[y]
      /\ \/ queue' = Append(queue, x) /\ extra' = extra
         \/ queue' = Append(Append(queue, x), x) /\ extra' = Once(extra, x)
         \/ queue' = queue /\ extra' = extra
      /\ queue \in Seq(Events) /\ extra \in [Events -> Nat]
  BY DEF Enqueue, Advance, Once, TypeOK
<1> DEFINE one == IF x = e THEN 1 ELSE 0
<1>2. one \in Nat /\ Open(e)' = Open(e) - one
  BY <1>1 DEF Open
<1>3. Append(queue, x) \in Seq(Events)
      /\ Cardinality(Places(Append(queue, x), e)) = Cardinality(Places(queue, e)) + one
  BY <1>1, PlacesAppend
<1>4. Cardinality(Places(Append(Append(queue, x), x), e)) = Cardinality(Places(Append(queue, x), e)) + one
  BY <1>3, PlacesAppend
<1>5. Once(extra, x)[e] = extra[e] + one
  <2>1. x = e => Once(extra, x)[e] = extra[e] + 1
    BY <1>1, OnceTyped
  <2>2. x # e => Once(extra, x)[e] = extra[e]
    BY <1>1, OnceTyped
  <2> QED BY <2>1, <2>2, CausesType
<1> HIDE DEF one
<1>6. \/ Cardinality(Places(queue', e)) = Cardinality(Places(queue, e)) + one /\ extra'[e] = extra[e]
      \/ /\ Cardinality(Places(queue', e)) = Cardinality(Places(queue, e)) + one + one
         /\ extra'[e] = extra[e] + one
      \/ Cardinality(Places(queue', e)) = Cardinality(Places(queue, e)) /\ extra'[e] = extra[e]
  BY <1>1, <1>3, <1>4, <1>5
<1>7. Working(e)' = Working(e) /\ answered'[e] = answered[e]
  BY <1>1 DEF Working
<1>8. answered[e] + Open(e) + Cardinality(Places(queue, e)) + Cardinality(Working(e)) <= 1 + extra[e]
  BY DEF Within
<1>9. answered'[e] + Open(e)' + Cardinality(Places(queue', e)) + Cardinality(Working(e)') <= 1 + extra'[e]
  BY <1>2, <1>6, <1>7, <1>8, CausesType, WorkingType
<1> QED BY <1>9 DEF Within

LEMMA ReceiveCauses ==
  ASSUME TypeOK, TypeOK', NEW h \in Handlers, Receive(h), NEW e \in Events, Within(e)
  PROVE  Within(e)'
<1> DEFINE one == IF Head(queue) = e THEN 1 ELSE 0
<1>1. /\ queue \in Seq(Events) /\ queue # <<>> /\ queue' = Tail(queue) /\ hook' = hook
      /\ answered' = answered /\ extra' = extra /\ h \notin Working(e)
  BY DEF Receive, events, history, Working, TypeOK
<1>2. Cardinality(Places(queue', e)) + one <= Cardinality(Places(queue, e))
  BY <1>1, PlacesTail
<1>3. Working(e)' = IF Head(queue) = e THEN Working(e) \cup {h} ELSE Working(e)
  BY <1>1, ReceiveStep DEF Working
<1>4. Cardinality(Working(e) \cup {h}) = Cardinality(Working(e)) + 1
  BY <1>1, WorkingType, FS_AddElement
<1>5. Cardinality(Working(e)') = Cardinality(Working(e)) + one /\ one \in Nat
  BY <1>3, <1>4, WorkingType
<1> HIDE DEF one
<1>6. Open(e)' = Open(e) /\ answered'[e] = answered[e] /\ extra'[e] = extra[e]
  BY <1>1 DEF Open
<1>7. answered[e] + Open(e) + Cardinality(Places(queue, e)) + Cardinality(Working(e)) <= 1 + extra[e]
  BY DEF Within
<1>8. answered'[e] + Open(e)' + Cardinality(Places(queue', e)) + Cardinality(Working(e)') <= 1 + extra'[e]
  BY <1>2, <1>5, <1>6, <1>7, CausesType, WorkingType
<1> QED BY <1>8 DEF Within

(* An answer ends what a run may still do, unless its confirmation is lost. *)
LEMMA SendCauses ==
  ASSUME TypeOK, TypeOK', NEW h \in Handlers, Reply(h) \/ Push(h), NEW e \in Events, Within(e)
  PROVE  Within(e)'
<1> DEFINE x == handler[h].e
<1>1. /\ x \in Events /\ handler[h].pc \in {"reply", "push"} /\ queue' = queue /\ hook' = hook
      /\ answered \in [Events -> Nat] /\ extra \in [Events -> Nat]
  BY ReplyStep, PushStep DEF Reply, Push, HandlerUnchanged, TypeOK
<1>2. /\ \E pc, r : Moved(h, pc, r)
      /\ \/ /\ answered' = Once(answered, x)
            /\ \/ extra' = extra /\ handler'[h].pc = "count"
               \/ extra' = Once(extra, x)
         \/ answered' = answered /\ extra' = extra
  BY ReplyStep, PushStep DEF Gets, GetsNone, Moved
<1> HIDE DEF x
<1>3. Working(e)' \subseteq Working(e)
  BY <1>1, <1>2 DEF Moved, Working
<1>4. Cardinality(Working(e)') <= Cardinality(Working(e))
  BY <1>3, WorkingType, FS_Subset
<1>5. Open(e)' = Open(e)
  BY <1>1 DEF Open
<1>6. answered[e] + Open(e) + Cardinality(Places(queue, e)) + Cardinality(Working(e)) <= 1 + extra[e]
  BY DEF Within
<1>7. ASSUME answered'[e] <= answered[e] + 1, extra'[e] = extra[e] + 1 PROVE Within(e)'
  <2>1. answered'[e] + Open(e)' + Cardinality(Places(queue', e)) + Cardinality(Working(e)') <= 1 + extra'[e]
    BY <1>1, <1>4, <1>5, <1>6, <1>7, CausesType, WorkingType
  <2> QED BY <2>1 DEF Within
<1>8. CASE x = e /\ answered' = Once(answered, x) /\ extra' = Once(extra, x)
  <2>1. answered'[e] = answered[e] + 1 /\ extra'[e] = extra[e] + 1
    BY <1>1, <1>8, OnceTyped
  <2> QED BY <1>7, <2>1, CausesType
<1>9. CASE x = e /\ answered' = Once(answered, x) /\ extra' = extra /\ handler'[h].pc = "count"
  <2>1. answered'[e] = answered[e] + 1 /\ extra'[e] = extra[e]
    BY <1>1, <1>9, OnceTyped
  <2>2. h \in Working(e) /\ Working(e)' = Working(e) \ {h}
    BY <1>1, <1>2, <1>9 DEF Moved, Working, x
  <2>3. Cardinality(Working(e)') = Cardinality(Working(e)) - 1
    BY <2>2, WorkingType, FS_RemoveElement
  <2>4. answered'[e] + Open(e)' + Cardinality(Places(queue', e)) + Cardinality(Working(e)') <= 1 + extra'[e]
    BY <1>1, <1>5, <1>6, <2>1, <2>3, CausesType, WorkingType
  <2> QED BY <2>4 DEF Within
<1>10. CASE answered'[e] = answered[e] /\ extra'[e] = extra[e]
  BY <1>1, <1>3, <1>10, NoMoreCauses
<1>11. x # e => answered'[e] = answered[e] /\ extra'[e] = extra[e]
  BY <1>1, <1>2, OnceTyped
<1> QED BY <1>2, <1>8, <1>9, <1>10, <1>11

(* Every copy that comes back is one delivery more. *)
LEMMA RequeueCauses ==
  ASSUME TypeOK, TypeOK', IdleHoldsNone, Requeue, extra' = Redelivered, answered' = answered,
         hook' = hook, NEW e \in Events, Within(e), Working(e)' \subseteq Working(e)
  PROVE  Within(e)'
<1>1. HandlersOK /\ queue \in Seq(Events)
  BY TypeParts DEF TypeOK
<1>2. PICK back \in Returns : queue' = back \o queue
  BY DEF Requeue
<1>3. back \in Seq(Events)
  BY <1>1, ReturnsTyped
<1>4. Cardinality(Places(queue', e)) <= Cardinality(Places(back, e)) + Cardinality(Places(queue, e))
  BY <1>1, <1>2, <1>3, PlacesConcat
<1>5. Cardinality(Places(back, e)) <= Cardinality(HeldOf(e))
  BY <1>1, PlacesBack
<1>6. Cardinality(Places(back, e)) \in Nat /\ Cardinality(HeldOf(e)) \in Nat
  BY <1>3, PlacesType, HeldType
<1>7. extra'[e] = extra[e] + Cardinality(HeldOf(e))
  BY DEF Redelivered, HeldOf
<1>8. Cardinality(Working(e)') <= Cardinality(Working(e))
  BY WorkingType, FS_Subset
<1>9. Open(e)' = Open(e) /\ answered'[e] = answered[e]
  BY DEF Open
<1>10. answered[e] + Open(e) + Cardinality(Places(queue, e)) + Cardinality(Working(e)) <= 1 + extra[e]
  BY DEF Within
<1>11. answered'[e] + Open(e)' + Cardinality(Places(queue', e)) + Cardinality(Working(e)') <= 1 + extra'[e]
  BY <1>4, <1>5, <1>6, <1>7, <1>8, <1>9, <1>10, CausesType, WorkingType
<1> QED BY <1>11 DEF Within

LEMMA RestartCauses ==
  ASSUME TypeOK, TypeOK', IdleHoldsNone, BrokerRestart, NEW e \in Events, Within(e)
  PROVE  Within(e)'
<1>1. queue' = <<>> /\ answered' = answered /\ extra' = extra /\ hook' = hook
  BY DEF BrokerRestart, events
<1>2. Cardinality(Places(queue', e)) = 0
  BY <1>1, PlacesEmpty
<1>3. Working(e)' = Working(e)
  BY UnpluggedStep DEF Unplugged, Working
<1>4. Open(e)' = Open(e) /\ answered'[e] = answered[e] /\ extra'[e] = extra[e]
  BY <1>1 DEF Open
<1>5. answered[e] + Open(e) + Cardinality(Places(queue, e)) + Cardinality(Working(e)) <= 1 + extra[e]
  BY DEF Within
<1>6. answered'[e] + Open(e)' + Cardinality(Places(queue', e)) + Cardinality(Working(e)') <= 1 + extra'[e]
  BY <1>2, <1>3, <1>4, <1>5, CausesType, WorkingType
<1> QED BY <1>6 DEF Within

LEMMA StepCauses ==
  ASSUME TypeOK, TypeOK', IdleHoldsNone, [Next]_vars, NEW e \in Events, Within(e)
  PROVE  Within(e)'
<1>1. CASE \E x \in Events : HookStep(x) /\ ~ Enqueue(x)
  <2>1. PICK x \in Events : HookStep(x) /\ ~ Enqueue(x)
    BY <1>1
  <2>2. HookUnchanged /\ hook[x] # "done" /\ \A y \in Events \ {x} : hook'[y] = hook[y]
    BY <2>1 DEF HookStep, Arrive, LookUp, Save, LookUpAgain, Record, Advance, TypeOK
  <2>3. hook[e] = "done" => hook'[e] = "done"
    BY <2>2
  <2>4. queue' = queue /\ handler' = handler /\ answered' = answered /\ extra' = extra
    BY <2>2 DEF HookUnchanged, history
  <2> QED BY <2>3, <2>4, NoMoreCauses DEF Working
<1>2. CASE \E x \in Events : Enqueue(x)
  BY <1>2, EnqueueCauses
<1>3. CASE ApiCrash
  <2>1. /\ queue' = queue /\ handler' = handler /\ answered' = answered /\ extra' = extra
        /\ hook[e] = "done" => hook'[e] = "done"
    BY <1>3 DEF ApiCrash
  <2> QED BY <2>1, NoMoreCauses DEF Working
<1>4. CASE UNCHANGED <<hook, queue, handler, answered, extra>>
  BY <1>4, NoMoreCauses DEF Working
<1>5. ASSUME NEW h \in Handlers, HandlerStep(h) PROVE Within(e)'
  <2>1. CASE Receive(h)
    BY <2>1, ReceiveCauses
  <2>2. CASE Reply(h) \/ Push(h)
    BY <2>2, SendCauses
  <2>3. CASE AckFailedThrows(h)
    <3>1. Working(e)' = {}
      BY <2>3 DEF AckFailedThrows, WorkerDies, Working, Idle
    <3> QED BY <2>3, <3>1, RequeueCauses DEF AckFailedThrows, WorkerDies, events
  <2>4. CASE Match(h) \/ Count(h) \/ Acknowledge(h) \/ AckThrows(h)
    <3>1. queue' = queue /\ hook' = hook /\ answered' = answered /\ extra' = extra
      BY <2>4 DEF Match, Count, Acknowledge, AckThrows, HandlerUnchanged, history
    <3>2. Working(e)' \subseteq Working(e)
      <4>1. CASE Match(h)
        BY <4>1, MatchStep DEF Match, Moved, Working
      <4>2. CASE Count(h)
        BY <4>2, CountStep DEF Moved, Working
      <4>3. CASE Acknowledge(h)
        BY <4>3, AcknowledgeStep DEF Working, Idle
      <4>4. CASE AckThrows(h)
        BY <4>4, AckThrowsStep DEF Moved, Working
      <4> QED BY <2>4, <4>1, <4>2, <4>3, <4>4
    <3> QED BY <3>1, <3>2, NoMoreCauses
  <2> QED BY <1>5, <2>1, <2>2, <2>3, <2>4 DEF HandlerStep
<1>6. CASE WorkerCrash
  <2>1. Working(e)' = {}
    BY <1>6 DEF WorkerCrash, WorkerDies, Working, Idle
  <2> QED BY <1>6, <2>1, RequeueCauses DEF WorkerCrash, WorkerDies, events
<1>7. CASE ConnectionLost
  <2>1. Working(e)' = Working(e)
    BY <1>7, UnpluggedStep DEF Unplugged, Working
  <2> QED BY <1>7, <2>1, RequeueCauses DEF ConnectionLost, events
<1>8. CASE BrokerRestart
  BY <1>8, RestartCauses
<1> QED BY <1>1, <1>2, <1>3, <1>4, <1>5, <1>6, <1>7, <1>8
        DEF Next, HookStep, EditRule, vars, events, history

(* A user gets one answer to an event, and one more at most for each redelivery, *)
(* double publication and lost confirmation.                                    *)
THEOREM AnswersAreCaused == Spec => []AnswersHaveACause
<1> DEFINE Inv == TypeOK /\ IdleHoldsNone /\ CausesFit
<1>1. Init => Inv
  <2> SUFFICES ASSUME Init PROVE Inv
    OBVIOUS
  <2>1. ASSUME NEW e \in Events PROVE Within(e)
    <3>1. Working(e) = {} /\ queue = <<>>
      BY DEF Init, Working, Idle
    <3>2. Cardinality(Working(e)) = 0 /\ Cardinality(Places(queue, e)) = 0
      BY <3>1, FS_EmptySet, PlacesEmpty
    <3>3. answered[e] = 0 /\ extra[e] = 0 /\ Open(e) = 1
      BY DEF Init, Open
    <3> QED BY <3>2, <3>3 DEF Within
  <2> QED BY <2>1, InitTypeOK DEF CausesFit
<1>2. Inv /\ [Next]_vars => Inv'
  BY StepTypeOK, StepIdle, StepCauses DEF CausesFit
<1>3. Inv => AnswersHaveACause
  <2> SUFFICES ASSUME Inv, NEW e \in Events PROVE answered[e] <= 1 + extra[e]
    BY DEF AnswersHaveACause
  <2>1. queue \in Seq(Events) /\ answered[e] \in Nat /\ extra[e] \in Nat /\ Open(e) \in Nat
    BY DEF TypeOK, Open
  <2>2. Cardinality(Places(queue, e)) \in Nat /\ Cardinality(Working(e)) \in Nat
    BY <2>1, PlacesType, WorkingType
  <2>3. answered[e] + Open(e) + Cardinality(Places(queue, e)) + Cardinality(Working(e)) <= 1 + extra[e]
    BY DEF CausesFit, Within
  <2> QED BY <2>1, <2>2, <2>3
<1> HIDE DEF Inv
<1> QED BY <1>1, <1>2, <1>3, PTL DEF Spec

-----------------------------------------------------------------------------
(* AutoReply implements WorkQueue.  The state of the queue it stands for: *)
Held    == [h \in Handlers |-> IF handler[h].live THEN handler[h].e ELSE NoEvent]
Settled == {h \in LiveHandlers : Done(h)}
QueueUnchanged == UNCHANGED <<queue, Held, Settled>>

(* WorkQueue counts as this module does. *)
LEMMA QueueCardinality == \A S : Queue!Cardinality(S) = Cardinality(S)
BY DEF Queue!Cardinality, Cardinality

(* The runs with an open channel are the busy slots of the queue. *)
LEMMA BusyIsLive ==
  ASSUME TypeOK, IdleHoldsNone
  PROVE  /\ Queue!Busy = LiveHandlers
         /\ \A h \in LiveHandlers : Held[h] = handler[h].e
<1>1. \A h \in Handlers : handler[h].live => handler[h].e \in Events
  BY TypeParts DEF HandlersOK, RunOK, IdleHoldsNone
<1> QED BY <1>1, EventsAssumption DEF Queue!Busy, LiveHandlers, Held

(* A run that moves on stays the holder of its message; it finishes with it, or *)
(* nothing happens to the queue.                                               *)
LEMMA MovedImplements ==
  ASSUME TypeOK, IdleHoldsNone, NEW h \in Handlers, NEW pc, NEW r, Moved(h, pc, r),
         queue' = queue, h \notin Settled
  PROVE  Queue!Next \/ QueueUnchanged
<1>1. Held' = Held /\ LiveHandlers' = LiveHandlers
  BY DEF Moved, Held, LiveHandlers
<1>2. \A g \in Handlers \ {h} : Done(g)' = Done(g)
  BY DEF Moved, Done
<1>3. Settled' = Settled \/ (h \in LiveHandlers \ Settled /\ Settled' = Settled \cup {h})
  BY <1>1, <1>2 DEF Settled, LiveHandlers
<1>4. CASE h \in LiveHandlers \ Settled /\ Settled' = Settled \cup {h}
  <2>1. Queue!Finish(h)
    BY <1>1, <1>4, BusyIsLive DEF Queue!Finish, Held, Settled
  <2> QED BY <2>1 DEF Queue!Next
<1> QED BY <1>1, <1>3, <1>4 DEF QueueUnchanged

LEMMA AcknowledgeImplements ==
  ASSUME TypeOK, NEW h \in Handlers, Acknowledge(h)
  PROVE  Queue!Next
<1>1. /\ handler'[h] = Idle /\ \A g \in Handlers \ {h} : handler'[g] = handler[g]
      /\ queue' = queue /\ h \in Settled
  BY AcknowledgeStep DEF Acknowledge, HandlerUnchanged, Settled, LiveHandlers
<1>2. ~ handler'[h].live
  BY <1>1 DEF Idle
<1>3. Held' = [Held EXCEPT ![h] = NoEvent]
  <2>1. \A g \in Handlers \ {h} : Held'[g] = Held[g]
    BY <1>1 DEF Held
  <2>2. Held'[h] = NoEvent
    BY <1>2 DEF Held
  <2> QED BY <2>1, <2>2 DEF Held
<1>4. Settled' = Settled \ {h}
  BY <1>1, <1>2 DEF Settled, LiveHandlers, Done
<1>5. Queue!Acknowledge(h)
  BY <1>1, <1>3, <1>4 DEF Queue!Acknowledge, Held, Settled
<1> QED BY <1>5 DEF Queue!Next

LEMMA ReceiveImplements ==
  ASSUME TypeOK, IdleHoldsNone, NEW h \in Handlers, Receive(h)
  PROVE  Queue!Next
<1>1. ~ handler[h].live /\ Held[h] = NoEvent
  BY DEF Receive, IdleHoldsNone, Held
<1>2. Cardinality(Queue!Busy) < Prefetch
  BY BusyIsLive DEF Receive
<1>3. /\ handler'[h].live /\ handler'[h].e = Head(queue) /\ handler'[h].pc = "match"
      /\ \A g \in Handlers \ {h} : handler'[g] = handler[g]
  BY ReceiveStep
<1>4. Held' = [Held EXCEPT ![h] = Head(queue)]
  BY <1>3 DEF Held
<1>5. Settled' = Settled
  BY <1>1, <1>3 DEF Settled, LiveHandlers, Done
<1>6. queue # << >> /\ queue' = Tail(queue)
  BY DEF Receive
<1>7. Queue!Take(h)
  BY <1>1, <1>2, <1>4, <1>5, <1>6, QueueCardinality DEF Queue!Take, Held, Settled
<1> QED BY <1>7 DEF Queue!Next

LEMMA EnqueueImplements ==
  ASSUME NEW e \in Events, Enqueue(e)
  PROVE  Queue!Next \/ QueueUnchanged
<1>1. Held' = Held /\ Settled' = Settled
  BY DEF Enqueue, Held, Settled, LiveHandlers, Done
<1>2. CASE queue' \in {Append(queue, e), Append(Append(queue, e), e)}
  <2>1. Queue!Publish(e)
    BY <1>1, <1>2 DEF Queue!Publish, Held, Settled
  <2> QED BY <2>1 DEF Queue!Next
<1>3. CASE queue' = queue
  BY <1>1, <1>3 DEF QueueUnchanged
<1> QED BY <1>2, <1>3 DEF Enqueue

(* Whatever is held comes back, in any order. *)
LEMMA RequeueImplements ==
  ASSUME TypeOK, IdleHoldsNone, Requeue, \A h \in Handlers : ~ handler'[h].live
  PROVE  Queue!Next
<1>1. Held' = Queue!Nothing /\ Settled' = {}
  BY DEF Held, Settled, LiveHandlers, Queue!Nothing
<1> DEFINE n == Cardinality(LiveHandlers)
<1>2. PICK o \in [1..n -> LiveHandlers] :
        /\ queue' = [i \in 1..n |-> handler[o[i]].e] \o queue
        /\ \A h \in LiveHandlers : \E i \in DOMAIN o : o[i] = h
  BY DEF Requeue, Returns
<1>3. [i \in 1..n |-> handler[o[i]].e] = [i \in 1..n |-> Held[o[i]]]
  <2>1. \A i \in 1..n : handler[o[i]].e = Held[o[i]]
    BY <1>2, BusyIsLive
  <2> QED BY <2>1
<1>4. o \in Queue!Orders
  BY <1>2, BusyIsLive, QueueCardinality DEF Queue!Orders
<1>5. queue' = [i \in 1..Queue!Cardinality(Queue!Busy) |-> Held[o[i]]] \o queue
  BY <1>2, <1>3, BusyIsLive, QueueCardinality
<1>6. Queue!Disconnect
  <2>1. \E p \in Queue!Orders :
          queue' = [i \in 1..Queue!Cardinality(Queue!Busy) |->
                      [h \in Handlers |-> IF handler[h].live THEN handler[h].e
                                                             ELSE NoEvent][p[i]]] \o queue
    BY <1>4, <1>5 DEF Held
  <2> QED BY <1>1, <2>1 DEF Queue!Disconnect, Held, Settled
<1> QED BY <1>6 DEF Queue!Next

LEMMA RestartImplements ==
  ASSUME TypeOK, IdleHoldsNone, BrokerRestart
  PROVE  Queue!Next
<1>1. \A h \in Handlers : ~ handler'[h].live
  BY UnpluggedStep DEF Unplugged
<1>2. Held' = Queue!Nothing /\ Settled' = {}
  BY <1>1 DEF Held, Settled, LiveHandlers, Queue!Nothing
<1>3. Queue!Purge
  BY <1>2 DEF BrokerRestart, Queue!Purge, Held, Settled
<1> QED BY <1>3 DEF Queue!Next

LEMMA RunImplements ==
  ASSUME TypeOK, IdleHoldsNone, NEW h \in Handlers, HandlerStep(h)
  PROVE  Queue!Next \/ QueueUnchanged
<1>1. CASE Receive(h)
  BY <1>1, ReceiveImplements
<1>2. CASE Acknowledge(h)
  BY <1>2, AcknowledgeImplements
<1>3. CASE AckFailedThrows(h)
  BY <1>3, RequeueImplements DEF AckFailedThrows, WorkerDies, Idle
<1>4. CASE Match(h) \/ Reply(h) \/ Push(h) \/ Count(h) \/ AckThrows(h)
  <2>1. \E pc, r : Moved(h, pc, r)
    BY <1>4, MatchStep, ReplyStep, PushStep, CountStep, AckThrowsStep
  <2>2. queue' = queue /\ h \notin Settled
    BY <1>4 DEF Match, Reply, Push, Count, AckThrows, HandlerUnchanged, Settled, Done, LiveHandlers
  <2> QED BY <2>1, <2>2, MovedImplements
<1> QED BY <1>1, <1>2, <1>3, <1>4 DEF HandlerStep

LEMMA StepImplements ==
  ASSUME TypeOK, IdleHoldsNone, [Next]_vars
  PROVE  Queue!Next \/ QueueUnchanged
<1>1. CASE \E h \in Handlers : HandlerStep(h)
  BY <1>1, RunImplements
<1>2. CASE WorkerCrash
  BY <1>2, RequeueImplements DEF WorkerCrash, WorkerDies, Idle
<1>3. CASE ConnectionLost
  <2>1. \A h \in Handlers : ~ handler'[h].live
    BY <1>3, UnpluggedStep DEF Unplugged
  <2> QED BY <1>3, <2>1, RequeueImplements DEF ConnectionLost
<1>4. CASE BrokerRestart
  BY <1>4, RestartImplements
<1>5. CASE \E e \in Events : Enqueue(e)
  BY <1>5, EnqueueImplements
<1>6. CASE UNCHANGED <<queue, handler>>
  BY <1>6 DEF QueueUnchanged, Held, Settled, LiveHandlers, Done
<1> QED BY <1>1, <1>2, <1>3, <1>4, <1>5, <1>6
        DEF Next, vars, EditRule, HookStep, Arrive, LookUp, Save, LookUpAgain, Record, ApiCrash,
        HookUnchanged

(* auto-reply.process with the webhook that fills it and the consumer keeps what *)
(* a queue and a consumer with a prefetch promise.                              *)
THEOREM ImplementsWorkQueue == Spec => KeepsWorkQueue
<1> DEFINE Inv == TypeOK /\ IdleHoldsNone
<1>1. Init => Inv /\ Queue!Init
  BY InitTypeOK DEF Init, Queue!Init, Queue!Nothing, Idle, LiveHandlers
<1>2. Inv /\ [Next]_vars => Inv'
  BY StepTypeOK, StepIdle
<1>3. Inv /\ [Next]_vars => [Queue!Next]_<<queue, Held, Settled>>
  BY StepImplements DEF QueueUnchanged
<1> HIDE DEF Inv
<1>4. Spec => [][Queue!Next]_<<queue, Held, Settled>>
  BY <1>1, <1>2, <1>3, PTL DEF Spec
<1> QED BY <1>1, <1>4, PTL DEF KeepsWorkQueue, Queue!Spec, Spec, Held, Settled
=============================================================================
