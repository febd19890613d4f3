------------------------------- MODULE Follows -------------------------------
(***************************************************************************)
(* Whether a LINE user follows the account, and what the status of the row *)
(* in line_users says of it.  LINE sends an event for what the user does;  *)
(* the handlers of LineService write the status from the kind of the event *)
(* alone.  The events of one request, and those of different requests, are *)
(* handled side by side, and nothing compares the times they happened at.  *)
(*                                                                         *)
(* Rows of different users are independent, so there is one user here.     *)
(***************************************************************************)
EXTENDS Naturals, Sequences

CONSTANT MaxEvents   \* bound on the events of the user in one behaviour

ASSUME MaxEventsAssumption == MaxEvents \in Nat

VARIABLES
  follows,    \* the user follows the account, as LINE knows
  rowStatus,  \* status of the row; "none" before there is a row
  webhooks,   \* the events, in the order in which they happened
  writer      \* history: the event that had the last word on the row, 0 if none

followVars == <<follows, rowStatus, webhooks, writer>>

(* "text" stands for a text message or a postback, "message" for the other *)
(* messages: only the former are looked at again, for an automatic reply.  *)
EventKinds == {"follow", "unfollow", "text", "message"}
EventPc == {"new", "upsert", "revert", "over"}

WebhookEvents == [kind : EventKinds, pc : EventPc, attempt : {1, 2}]

Event(kind) == [kind |-> kind, pc |-> "new", attempt |-> 1]

(***************************************************************************)
(* The user, at LINE (external).                                           *)
(***************************************************************************)
Happens(kind) ==
  /\ Len(webhooks) < MaxEvents
  /\ webhooks' = Append(webhooks, Event(kind))
  /\ UNCHANGED <<rowStatus, writer>>

UserFollows == ~follows /\ follows' = TRUE /\ Happens("follow")
UserLeaves  == follows /\ follows' = FALSE /\ Happens("unfollow")
UserWrites  == follows /\ UNCHANGED follows /\ \E kind \in {"text", "message"} : Happens(kind)

(***************************************************************************)
(* The handlers.                                                           *)
(***************************************************************************)
GoOn(i, pc) == webhooks' = [webhooks EXCEPT ![i].pc = pc]

(* An error is logged, and LINE gets its 200: only the automatic reply     *)
(* calls getOrCreateLineUser a second time.                                *)
GiveUp(i) ==
  webhooks' = [webhooks EXCEPT ![i] =
    IF @.kind = "text" /\ @.attempt = 1 THEN [@ EXCEPT !.pc = "new", !.attempt = 2]
                                        ELSE [@ EXCEPT !.pc = "over"]]

(* getProfile and the LINE account, before the upsert. *)
LookUp(i) ==
  /\ webhooks[i].pc = "new" /\ webhooks[i].kind # "unfollow"
  /\ GoOn(i, "upsert")
  /\ UNCHANGED <<follows, rowStatus, writer>>

(* Faulty form: the update of the upsert leaves the status alone. *)
FaultyUpserted == IF rowStatus = "none" THEN "following" ELSE rowStatus

(* The status that the upsert leaves, in its create and in its update. *)
Upserted == "following"

(* The upsert; its answer may get lost. *)
Upsert(i) ==
  /\ webhooks[i].pc = "upsert"
  /\ rowStatus' = Upserted
  /\ writer' = i
  /\ GoOn(i, "over") \/ GiveUp(i)
  /\ UNCHANGED follows

(* revertLineUserToGuest, the read: without a row there is nothing to do. *)
FindRow(i) ==
  /\ webhooks[i].pc = "new" /\ webhooks[i].kind = "unfollow"
  /\ IF rowStatus = "none" THEN GoOn(i, "over") /\ writer' = i
                           ELSE GoOn(i, "revert") /\ UNCHANGED writer
  /\ UNCHANGED <<follows, rowStatus>>

(* Its transaction. *)
RevertRow(i) ==
  /\ webhooks[i].pc = "revert"
  /\ rowStatus' = "blocked"
  /\ writer' = i
  /\ GoOn(i, "over")
  /\ UNCHANGED follows

(* A look-up or a write fails, or there is no LINE account. *)
EventFails(i) ==
  /\ webhooks[i].pc # "over"
  /\ GiveUp(i)
  /\ UNCHANGED <<follows, rowStatus, writer>>

(* The events as LINE sent them: their handlers have not got far, or have  *)
(* not begun.                                                              *)
Waiting == {i \in DOMAIN webhooks : webhooks[i] = Event(webhooks[i].kind)}

(* The API dies: what it was handling is over. *)
ApiDies == \E later \in SUBSET Waiting :
  /\ webhooks' = [i \in DOMAIN webhooks |->
       IF i \in later THEN webhooks[i] ELSE [webhooks[i] EXCEPT !.pc = "over"]]
  /\ UNCHANGED <<follows, rowStatus, writer>>

(* LINE sends an event again that it got no answer for, when its handling  *)
(* is over; that it is a redelivery is not looked at.                      *)
SentAgain(i) ==
  /\ webhooks[i].pc = "over"
  /\ webhooks' = [webhooks EXCEPT ![i] = Event(@.kind)]
  /\ UNCHANGED <<follows, rowStatus, writer>>

(***************************************************************************)
(* The specification.                                                      *)
(***************************************************************************)
FollowInit ==
  /\ follows = FALSE
  /\ rowStatus = "none"
  /\ webhooks = <<>>
  /\ writer = 0

FollowNext ==
  \/ UserFollows \/ UserLeaves \/ UserWrites
  \/ \E i \in DOMAIN webhooks :
       LookUp(i) \/ Upsert(i) \/ FindRow(i) \/ RevertRow(i) \/ EventFails(i) \/ SentAgain(i)
  \/ ApiDies

FollowSpec == FollowInit /\ [][FollowNext]_followVars

(***************************************************************************)
(* Property.                                                               *)
(***************************************************************************)

(* The status is wrong only as long as the event that had the last word on *)
(* the row is older than the last follow or unfollow: the events since are *)
(* still to be handled, were lost, or have been overtaken by it.  Any one  *)
(* of them that is handled last puts the row right, whatever was handled,  *)
(* lost, repeated or sent again before.                                    *)
WrongStatusIsOld ==
  (rowStatus = "following") # follows =>
    \E i \in DOMAIN webhooks : i > writer /\ webhooks[i].kind \in {"follow", "unfollow"}
=============================================================================
