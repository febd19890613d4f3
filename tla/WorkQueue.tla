----------------------------- MODULE WorkQueue -----------------------------
(***************************************************************************)
(* What a durable queue and a consumer that acknowledges by hand promise      *)
(* together: a message is ready or held by one run of the consumer, at most   *)
(* Prefetch are held, and a message leaves only after the run that holds it    *)
(* has finished with it.  A lost connection makes what was held ready again;   *)
(* a purge takes everything.                                                 *)
(***************************************************************************)
EXTENDS Naturals, Sequences, FiniteSets

CONSTANTS Messages, NoMessage, Slots, Prefetch

VARIABLES ready, held, finished

Busy    == {s \in Slots : held[s] # NoMessage}
Nothing == [s \in Slots |-> NoMessage]

Init == ready = <<>> /\ held = Nothing /\ finished = {}

(* A publisher that misses the confirm publishes again. *)
Publish(m) ==
  /\ ready' \in {Append(ready, m), Append(Append(ready, m), m)}
  /\ UNCHANGED <<held, finished>>

Take(s) ==
  /\ ready # <<>>
  /\ held[s] = NoMessage /\ Cardinality(Busy) < Prefetch
  /\ held'  = [held EXCEPT ![s] = Head(ready)]
  /\ ready' = Tail(ready)
  /\ UNCHANGED finished

Finish(s) ==
  /\ s \in Busy \ finished
  /\ finished' = finished \cup {s}
  /\ UNCHANGED <<ready, held>>

Acknowledge(s) ==
  /\ s \in finished
  /\ held' = [held EXCEPT ![s] = NoMessage]
  /\ finished' = finished \ {s}
  /\ UNCHANGED ready

(* The orders in which what is held can come back. *)
Orders == {o \in [1..Cardinality(Busy) -> Busy] : \A s \in Busy : \E i \in DOMAIN o : o[i] = s}

Disconnect ==
  /\ \E o \in Orders : ready' = [i \in 1..Cardinality(Busy) |-> held[o[i]]] \o ready
  /\ held' = Nothing /\ finished' = {}

Purge == ready' = <<>> /\ held' = Nothing /\ finished' = {}

Next ==
  \/ \E m \in Messages : Publish(m)
  \/ \E s \in Slots : Take(s) \/ Finish(s) \/ Acknowledge(s)
  \/ Disconnect
  \/ Purge

Spec == Init /\ [][Next]_<<ready, held, finished>>
=============================================================================
