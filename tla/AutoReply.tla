----------------------------- MODULE AutoReply -----------------------------
(***************************************************************************)
(* Answers to what users write: the message and postback webhooks of         *)
(* LineService in the API process, the queue `auto-reply.process`, and       *)
(* AutoReplyConsumerService with AutoReplyService in the worker.  The rules  *)
(* are the rows of AutoMessagesService.                                      *)
(*                                                                         *)
(* LINE takes a reply token once, and refuses it when it is old; a refused   *)
(* reply is pushed instead.                                                  *)
(***************************************************************************)
EXTENDS Naturals, Sequences, FiniteSets

CONSTANTS
  Events,     \* webhook events that users cause
  NoEvent,    \* the event of an idle handler
  KindOf,     \* "text", "media" or "postback" for every event
  Rules,      \* ids of auto messages, numbered in the order of createdAt
  Forms,      \* what a rule can say: on, rank (priority) and the events it hits
  Handlers,   \* runs of handleMessage that can overlap in the worker
  Prefetch,   \* unacknowledged messages on the open channel (5)
  MaxEdits,   \* bound on the changes of the rules in one behaviour
  MaxFaults   \* bound on the faults of the environment in one behaviour

NoRow == [on |-> FALSE, rank |-> 0, hits |-> {}]

ASSUME EventsAssumption == NoEvent \notin Events /\ KindOf \in [Events -> {"text", "media", "postback"}]
ASSUME RulesAssumption  == Rules \subseteq Nat \ {0} /\ IsFiniteSet(Rules)
ASSUME FormsAssumption  == Forms \subseteq [on : BOOLEAN, rank : Nat, hits : SUBSET Events] \ {NoRow}
ASSUME HandlersAssumption == IsFiniteSet(Handlers)
ASSUME BoundsAssumption == {Prefetch, MaxEdits, MaxFaults} \subseteq Nat

VARIABLES
  rule,      \* the rows: a form, or NoRow
  trigger,   \* triggerCount
  hook,      \* how far the webhook has come with an event
  recorded,  \* events with a row in webhook_events
  token,     \* the reply token of an event: "none", "fresh" or "used"
  queue,     \* messages of auto-reply.process that are ready for delivery
  handler,   \* runs of handleMessage
  answered,  \* how often the user got an answer to an event
  sent,      \* how often a rule has been sent
  edits,     \* changes of the rules so far
  faults,    \* faults of the environment so far
  handled,   \* history: events whose message was acknowledged
  excused,   \* history: events with a run that could not answer
  extra,     \* history: deliveries and sends beyond those meant
  dropped    \* history: events whose message was lost

rules   == <<rule, trigger, edits>>
events  == <<hook, recorded, token>>
history == <<handled, excused, extra, dropped>>
vars    == <<rules, events, queue, handler, answered, sent, faults, history>>

HookPc    == {"new", "lookup", "save", "again", "record", "enqueue", "done"}
HandlerPc == {"idle", "match", "reply", "push", "count", "ack", "fail"}

NoRule == 0
Idle   == [pc |-> "idle", e |-> NoEvent, r |-> NoRule, live |-> FALSE]

(* The type invariant; a run that is to send or to count knows its rule. *)
TypeOK ==
  /\ rule     \in [Rules -> Forms \cup {NoRow}]
  /\ trigger  \in [Rules -> Nat] /\ sent \in [Rules -> Nat]
  /\ hook     \in [Events -> HookPc]
  /\ token    \in [Events -> {"none", "fresh", "used"}]
  /\ recorded \subseteq Events
  /\ queue    \in Seq(Events)
  /\ handler  \in [Handlers -> [pc : HandlerPc, e : Events \cup {NoEvent},
                                r : Rules \cup {NoRule}, live : BOOLEAN]]
  /\ \A h \in Handlers : handler[h].pc # "idle" => handler[h].e \in Events
  /\ \A h \in Handlers : handler[h].pc \in {"reply", "push", "count"} => handler[h].r \in Rules
  /\ answered \in [Events -> Nat] /\ extra \in [Events -> Nat]
  /\ edits \in 0..MaxEdits /\ faults \in 0..MaxFaults
  /\ UNION {handled, excused, dropped} \subseteq Events

Init ==
  /\ rule \in [Rules -> Forms \cup {NoRow}]
  /\ trigger  = [r \in Rules |-> 0] /\ sent = [r \in Rules |-> 0]
  /\ hook     = [e \in Events |-> "new"]
  /\ token    = [e \in Events |-> "none"]
  /\ recorded = {}
  /\ queue    = <<>>
  /\ handler  = [h \in Handlers |-> Idle]
  /\ answered = [e \in Events |-> 0] /\ extra = [e \in Events |-> 0]
  /\ edits = 0 /\ faults = 0
  /\ handled = {} /\ excused = {} /\ dropped = {}

(* One more fault of the environment. *)
Fault == faults < MaxFaults /\ faults' = faults + 1

-----------------------------------------------------------------------------
(* The rules: create(), update() and remove() of AutoMessagesService, and the *)
(* change of isActive of a template.  The write is by id and fails without    *)
(* the row, so the check before it decides nothing.                           *)

EditRule(r) ==
  /\ edits < MaxEdits /\ edits' = edits + 1
  /\ \/ \E f \in Forms : rule' = [rule EXCEPT ![r] = f]
     \/ rule' = [rule EXCEPT ![r] = NoRow]
  /\ trigger' = IF rule'[r] = NoRow THEN [trigger EXCEPT ![r] = 0] ELSE trigger
  /\ UNCHANGED <<events, queue, handler, answered, sent, faults, history>>

-----------------------------------------------------------------------------
(* The webhook. *)

Advance(e, pc) == hook' = [hook EXCEPT ![e] = pc]

HookUnchanged == UNCHANGED <<rules, queue, handler, answered, sent, history>>

(* handleEvent(): LINE calls the webhook. *)
Arrive(e) ==
  /\ hook[e] = "new"
  /\ \E t \in {"none", "fresh"} : token' = [token EXCEPT ![e] = t]
  /\ Advance(e, "lookup")
  /\ HookUnchanged /\ UNCHANGED <<recorded, faults>>

(* getOrCreateLineUser() returns null without a LINE account and on any error. *)
LookUp(e) ==
  /\ hook[e] = "lookup"
  /\ \/ Advance(e, IF KindOf[e] = "postback" THEN "record" ELSE "save")
     \/ Advance(e, IF KindOf[e] = "media" THEN "done" ELSE "again")
  /\ HookUnchanged /\ UNCHANGED <<recorded, token, faults>>

(* The row in messages, then lastActivity; either can fail, and the handler    *)
(* ends.  Only a text goes on.                                                *)
Save(e) ==
  /\ hook[e] = "save"
  /\ \/ /\ Advance(e, IF KindOf[e] = "text" THEN "record" ELSE "done")
        /\ UNCHANGED faults
     \/ /\ Fault
        /\ Advance(e, "done")
  /\ HookUnchanged /\ UNCHANGED <<recorded, token>>

(* enqueueAutoReply() looks the user up again if it has to. *)
LookUpAgain(e) ==
  /\ hook[e] = "again"
  /\ Advance(e, "record") \/ Advance(e, "done")
  /\ HookUnchanged /\ UNCHANGED <<recorded, token, faults>>

(* The row in webhook_events, or the end: no LINE account, or an error. *)
Record(e) ==
  /\ hook[e] = "record"
  /\ \/ recorded' = recorded \cup {e} /\ Advance(e, "enqueue")
     \/ UNCHANGED recorded /\ Advance(e, "done")
  /\ HookUnchanged /\ UNCHANGED <<token, faults>>

(* enqueue(): a confirm that is lost makes the client publish again. *)
Enqueue(e) ==
  /\ hook[e] = "enqueue"
  /\ Advance(e, "done")
  /\ \/ queue' = Append(queue, e) /\ UNCHANGED <<faults, extra, dropped>>
     \/ /\ Fault
        /\ queue' = Append(Append(queue, e), e)
        /\ extra' = [extra EXCEPT ![e] = @ + 1]
        /\ UNCHANGED dropped
     \/ Fault /\ dropped' = dropped \cup {e} /\ UNCHANGED <<queue, extra>>
  /\ UNCHANGED <<rules, recorded, token, handler, answered, sent, handled, excused>>

(* The API process dies.  LINE does not send the event again. *)
ApiCrash ==
  /\ Fault
  /\ \E e \in Events : hook[e] \notin {"new", "done"}
  /\ hook' = [e \in Events |-> IF hook[e] = "new" THEN "new" ELSE "done"]
  /\ dropped' = dropped \cup {e \in Events : hook[e] = "enqueue"}
  /\ UNCHANGED <<rules, recorded, token, queue, handler, answered, sent,
                 handled, excused, extra>>

-----------------------------------------------------------------------------
(* The worker. *)

LiveHandlers == {h \in Handlers : handler[h].live}

MoveTo(h, pc, r) == handler' = [handler EXCEPT ![h].pc = pc, ![h].r = r]

HandlerUnchanged == UNCHANGED <<edits, rule, hook, recorded, queue>>

(* handleMessage() gets a message. *)
Receive(h) ==
  /\ handler[h].pc = "idle"
  /\ Cardinality(LiveHandlers) < Prefetch
  /\ queue # <<>>
  /\ handler' = [handler EXCEPT ![h] = [pc |-> "match", e |-> Head(queue), r |-> NoRule,
                                        live |-> TRUE]]
  /\ queue' = Tail(queue)
  /\ UNCHANGED <<rules, events, answered, sent, faults, history>>

(* Faulty form: nothing found is not noticed. *)
FaultyMatching(e) == IF \E r \in Rules : e \in rule[r].hits THEN Rules ELSE {NoRule}

(* The rules that findMatchingRule() finds for e: at most one, the first by    *)
(* priority and createdAt of those that are active and hit e.                 *)
Matching(e) ==
  LET hit == {r \in Rules : rule[r] # NoRow /\ rule[r].on /\ e \in rule[r].hits}
  IN {r \in hit : \A s \in hit : \/ rule[r].rank < rule[s].rank
                                 \/ rule[r].rank = rule[s].rank /\ r <= s}

(* processAutoReply(), up to the call to LINE.  Without a rule there is no      *)
(* answer, nor without a LINE account or a valid message; a query that fails   *)
(* ends in the catch block.                                                   *)
Match(h) == LET e == handler[h].e IN
  /\ handler[h].pc = "match"
  /\ \/ \E r \in Matching(e) : MoveTo(h, "reply", r) /\ UNCHANGED <<excused, faults>>
     \/ /\ excused' = excused \cup {e}
        /\ IF Matching(e) = {} THEN UNCHANGED faults ELSE Fault
        /\ MoveTo(h, "ack", NoRule) \/ MoveTo(h, "fail", NoRule)
  /\ HandlerUnchanged
  /\ UNCHANGED <<trigger, token, answered, sent, handled, extra, dropped>>

(* The user gets the messages of the rule.  A send whose confirmation is lost  *)
(* looks like a failure.                                                      *)
Delivered(h) == LET e == handler[h].e  r == handler[h].r IN
  /\ answered' = [answered EXCEPT ![e] = @ + 1]
  /\ sent' = [sent EXCEPT ![r] = @ + 1]

Unconfirmed(h) == Fault /\ extra' = [extra EXCEPT ![handler[h].e] = @ + 1]

(* Faulty forms: a reply is followed by a push all the same; the reply that was *)
(* refused, and the push that was refused, end the run too early or too late.   *)
FaultyAfterReply   == "push"
FaultyAfterRefusal == "fail"
FaultyAfterError   == "count"

(* Where the run goes on: after a send that LINE confirmed, after an error of   *)
(* the reply, and after an error of the push in the catch block.                *)
AfterReply   == "count"
AfterRefusal == "push"
AfterError   == "fail"

(* The reply by token, or the push of an event without one. *)
Reply(h) == LET e == handler[h].e  r == handler[h].r IN
  /\ handler[h].pc = "reply"
  /\ \/ /\ token[e] # "used"
        /\ Delivered(h)
        /\ token' = IF token[e] = "fresh" THEN [token EXCEPT ![e] = "used"] ELSE token
        /\ \/ MoveTo(h, AfterReply, r) /\ UNCHANGED <<faults, extra>>
           \/ MoveTo(h, AfterRefusal, r) /\ Unconfirmed(h)
     \/ /\ MoveTo(h, AfterRefusal, r)
        /\ UNCHANGED <<answered, sent, token, faults, extra>>
  /\ HandlerUnchanged
  /\ UNCHANGED <<trigger, handled, excused, dropped>>

(* The push in the catch block. *)
Push(h) == LET e == handler[h].e  r == handler[h].r IN
  /\ handler[h].pc = "push"
  /\ \/ /\ Delivered(h)
        /\ \/ MoveTo(h, "count", r) /\ UNCHANGED <<faults, extra>>
           \/ MoveTo(h, AfterError, r) /\ Unconfirmed(h)
        /\ UNCHANGED excused
     \/ /\ MoveTo(h, AfterError, r)
        /\ excused' = excused \cup {e}
        /\ UNCHANGED <<answered, sent, faults, extra>>
  /\ HandlerUnchanged
  /\ UNCHANGED <<trigger, token, handled, dropped>>

(* The increment of triggerCount.  It throws when the rule is gone. *)
Count(h) == LET r == handler[h].r IN
  /\ handler[h].pc = "count"
  /\ \/ /\ rule[r] # NoRow
        /\ trigger' = [trigger EXCEPT ![r] = @ + 1]
        /\ MoveTo(h, "ack", r)
        /\ UNCHANGED faults
     \/ /\ IF rule[r] = NoRow THEN UNCHANGED faults ELSE Fault
        /\ MoveTo(h, "fail", r)
        /\ UNCHANGED trigger
  /\ HandlerUnchanged
  /\ UNCHANGED <<token, answered, sent, history>>

(* Faulty form: no ack() in the catch block. *)
FaultyDone(h) == handler[h].pc = "ack"

Done(h) == handler[h].pc \in {"ack", "fail"}

(* ack(): on a closed channel it throws, after success into the catch block. *)
Acknowledge(h) ==
  /\ Done(h) /\ handler[h].live
  /\ handler' = [handler EXCEPT ![h] = Idle]
  /\ handled' = handled \cup {handler[h].e}
  /\ HandlerUnchanged
  /\ UNCHANGED <<trigger, token, answered, sent, faults, excused, extra, dropped>>

AckThrows(h) ==
  /\ handler[h].pc = "ack" /\ ~ handler[h].live
  /\ MoveTo(h, "fail", handler[h].r)
  /\ HandlerUnchanged
  /\ UNCHANGED <<trigger, token, answered, sent, faults, history>>

-----------------------------------------------------------------------------
(* Failures of the worker, of its connection and of the broker. *)

(* The orders in which the unacknowledged messages can come back. *)
Returns ==
  {[i \in 1..Cardinality(LiveHandlers) |-> handler[o[i]].e] :
     o \in {f \in [1..Cardinality(LiveHandlers) -> LiveHandlers] :
              \A h \in LiveHandlers : \E i \in DOMAIN f : f[i] = h}}

(* Faulty form: consume with noAck. *)
FaultyRequeue == queue' = queue

Requeue == \E back \in Returns : queue' = back \o queue

Redelivered ==
  [e \in Events |-> extra[e] + Cardinality({h \in LiveHandlers : handler[h].e = e})]

(* The worker process ends and its container restarts. *)
WorkerDies ==
  /\ Requeue
  /\ extra'   = Redelivered
  /\ handler' = [h \in Handlers |-> Idle]
  /\ UNCHANGED <<rules, events, answered, sent, handled, excused, dropped>>

WorkerCrash == Fault /\ LiveHandlers # {} /\ WorkerDies

(* ack() in the catch block throws on a closed channel, and the process ends. *)
AckFailedThrows(h) ==
  /\ handler[h].pc = "fail" /\ ~ handler[h].live
  /\ WorkerDies
  /\ UNCHANGED faults

(* The worker loses its connection; the handlers go on by themselves. *)
ConnectionLost ==
  /\ Fault
  /\ LiveHandlers # {}
  /\ Requeue
  /\ extra'   = Redelivered
  /\ handler' = [h \in Handlers |-> [handler[h] EXCEPT !.live = FALSE]]
  /\ UNCHANGED <<rules, events, answered, sent, handled, excused, dropped>>

(* The broker restarts without the transient messages. *)
BrokerRestart ==
  /\ Fault
  /\ queue # <<>> \/ LiveHandlers # {}
  /\ queue'   = <<>>
  /\ handler' = [h \in Handlers |-> [handler[h] EXCEPT !.live = FALSE]]
  /\ dropped' = dropped \cup {queue[i] : i \in 1..Len(queue)}
                        \cup {handler[h].e : h \in LiveHandlers}
  /\ UNCHANGED <<rules, events, answered, sent, handled, excused, extra>>

-----------------------------------------------------------------------------
HookStep(e) ==
  Arrive(e) \/ LookUp(e) \/ Save(e) \/ LookUpAgain(e) \/ Record(e) \/ Enqueue(e)

HandlerStep(h) ==
  Receive(h) \/ Match(h) \/ Reply(h) \/ Push(h) \/ Count(h) \/ Acknowledge(h)
  \/ AckThrows(h) \/ AckFailedThrows(h)

Next ==
  \/ \E r \in Rules : EditRule(r)
  \/ \E e \in Events : HookStep(e)
  \/ ApiCrash
  \/ \E h \in Handlers : HandlerStep(h)
  \/ WorkerCrash
  \/ ConnectionLost
  \/ BrokerRestart

Spec == Init /\ [][Next]_vars

(* Node goes on with an event or a message when the awaited call has answered. *)
FairSpec ==
  /\ Spec
  /\ \A e \in Events : WF_vars(Enqueue(e))
  /\ \A h \in Handlers : WF_vars(HandlerStep(h))

-----------------------------------------------------------------------------
OnItsWay(e) ==
  \/ hook[e] = "enqueue"
  \/ \E i \in 1..Len(queue) : queue[i] = e
  \/ \E h \in LiveHandlers : handler[h].e = e

(* A user gets at most one answer to an event, plus one for each redelivery,   *)
(* double publication or lost confirmation of LINE, whatever token and         *)
(* fallback do.                                                               *)
AnswersHaveACause == \A e \in Events : answered[e] <= 1 + extra[e]

(* An event that has its row in webhook_events is on its way to the worker, or *)
(* the worker has acknowledged it, or `dropped` says how it was lost.          *)
RecordedIsNotForgotten ==
  \A e \in recorded : OnItsWay(e) \/ e \in handled \/ e \in dropped

(* An event that the worker has acknowledged was answered, unless a run of its *)
(* found no rule or no account, failed to read them, or could not even push.   *)
HandledIsAnswered == \A e \in handled : answered[e] > 0 \/ e \in excused

(* triggerCount never claims more than what was sent, however runs overlap.    *)
TriggersAreAnswers == \A r \in Rules : trigger[r] <= sent[r]

(* A message leaves auto-reply.process only when the run that holds it is done,  *)
(* or by a restart of the broker, and never are more than Prefetch held.        *)
Queue == INSTANCE WorkQueue WITH
  Messages <- Events, NoMessage <- NoEvent, Slots <- Handlers, ready <- queue,
  held <- [h \in Handlers |-> IF handler[h].live THEN handler[h].e ELSE NoEvent],
  finished <- {h \in LiveHandlers : Done(h)}
KeepsWorkQueue == Queue!Spec

(* Every recorded event is handled in the end, or lost in a recorded way. *)
RecordedIsHandled == \A e \in Events : e \in recorded ~> e \in handled \/ e \in dropped
=============================================================================
