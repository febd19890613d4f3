----------------------------- MODULE ListCaches -----------------------------
(***************************************************************************)
(* The two answers the API keeps in Redis and takes out again when it      *)
(* knows they are wrong: the list of message templates and the dashboard   *)
(* overview of one user.  A request that misses reads the database and     *)
(* fills the cache; a request that writes deletes the key afterwards.      *)
(* Nothing orders these steps, and Redis may fail at each of them.         *)
(*                                                                         *)
(* What an answer says is abstracted to the number of changes of each kind *)
(* that it includes.                                                       *)
(***************************************************************************)
EXTENDS Naturals, FiniteSets

CONSTANT Callers   \* the requests of users, and the worker; each acts once

VARIABLES
  template,   \* the template of the user: "none", "there" or "removed"
  changes,    \* how many changes of each kind the database has seen
  kept,       \* what Redis holds under each key
  callers     \* what each caller is about to do

listVars == <<template, changes, kept, callers>>

Answers == {"list", "overview"}

(* Writes of templates; CampaignsService.create; every other change of a   *)
(* campaign: update(), remove(), sendNow(), and what the worker delivers.  *)
Kinds == {"template", "campaign", "delivery"}

(* What an answer shows: the list counts the broadcasts of each template.  *)
Shows(a) == IF a = "list" THEN Kinds ELSE {"campaign", "delivery"}

(* Faulty form: the writes of templates delete nothing. *)
FaultyDrops(kind) == IF kind = "campaign" THEN {"overview"} ELSE {}

(* The keys that a change deletes afterwards. *)
Drops(kind) ==
  CASE kind = "template" -> {"list"}
    [] kind = "campaign" -> {"overview"}
    [] OTHER -> {}

Fresh == [pc |-> "idle"]
Served == [pc |-> "done"]
Empty == [full |-> FALSE]

(* The changes whose callers delete the key of an answer. *)
Dropper(a) == IF a = "list" THEN "template" ELSE "campaign"

(* What the database would answer now. *)
Current(a) == [k \in Shows(a) |-> changes[k]]

Turn(c, s) == callers' = [callers EXCEPT ![c] = s]

(***************************************************************************)
(* Reading: findAll of the templates, getOverview of the dashboard.        *)
(***************************************************************************)

(* getJson: an error of Redis is a miss. *)
GetAnswer(c, a) ==
  /\ callers[c] = Fresh
  /\ \/ kept[a].full /\ Turn(c, Served)
     \/ Turn(c, [pc |-> "load", answer |-> a])
  /\ UNCHANGED <<template, changes, kept>>

(* loadTemplateList, buildOverview *)
LoadAnswer(c) ==
  /\ callers[c].pc = "load"
  /\ Turn(c, [pc |-> "set", answer |-> callers[c].answer, value |-> Current(callers[c].answer)])
  /\ UNCHANGED <<template, changes, kept>>

(* setJson: what was loaded is stored, whatever has happened since; an     *)
(* error is ignored.  "excused" is history: a change that deletes the key   *)
(* came between the load and this step.                                    *)
SetAnswer(c) ==
  LET a == callers[c].answer  kind == Dropper(a) IN
  /\ callers[c].pc = "set"
  /\ \/ kept' = [kept EXCEPT ![a] =
          [full |-> TRUE, value |-> callers[c].value,
           excused |-> callers[c].value[kind] # changes[kind]]]
     \/ UNCHANGED kept
  /\ Turn(c, Served)
  /\ UNCHANGED <<template, changes>>

(* The query fails, and with it the request. *)
LoadAnswerFails(c) ==
  /\ callers[c].pc = "load" /\ Turn(c, Served)
  /\ UNCHANGED <<template, changes, kept>>

(***************************************************************************)
(* Writing.                                                                *)
(***************************************************************************)
Commit(c, kind) ==
  /\ changes' = [changes EXCEPT ![kind] = @ + 1]
  /\ Turn(c, IF Drops(kind) = {} THEN Served ELSE [pc |-> "drop", kind |-> kind])
  /\ UNCHANGED kept

CreateTemplate(c) ==
  /\ callers[c] = Fresh /\ template = "none"
  /\ template' = "there" /\ Commit(c, "template")

(* update() and remove() look for the row first. *)
FindTemplate(c) ==
  /\ callers[c] = Fresh /\ template = "there"
  /\ \E what \in {"update", "remove"} : Turn(c, [pc |-> what])
  /\ UNCHANGED <<template, changes, kept>>

UpdateTemplate(c) ==
  /\ callers[c].pc = "update" /\ template = "there"
  /\ Commit(c, "template") /\ UNCHANGED template

RemoveTemplate(c) ==
  /\ callers[c].pc = "remove" /\ template = "there"
  /\ template' = "removed" /\ Commit(c, "template")

(* The row is gone, or a reply rule still refers to it: nothing is deleted. *)
WriteFails(c) ==
  /\ \/ callers[c].pc = "update" /\ template = "removed"
     \/ callers[c].pc = "remove"
  /\ Turn(c, Served)
  /\ UNCHANGED <<template, changes, kept>>

ChangeCampaign(c) ==
  /\ callers[c] = Fresh
  /\ \E kind \in {"campaign", "delivery"} : Commit(c, kind)
  /\ UNCHANGED template

(* invalidateListCache, invalidateOverviewCache *)
Drop(c) ==
  /\ callers[c].pc = "drop"
  /\ kept' = [a \in Answers |-> IF a \in Drops(callers[c].kind) THEN Empty ELSE kept[a]]
  /\ Turn(c, Served)
  /\ UNCHANGED <<template, changes>>

(* Redis does not delete the keys, or the API dies before it asks. *)
DropFails(c) ==
  /\ callers[c].pc = "drop"
  /\ kept' = [a \in Answers |->
       IF a \in Drops(callers[c].kind) /\ kept[a].full
         THEN [kept[a] EXCEPT !.excused = TRUE] ELSE kept[a]]
  /\ Turn(c, Served)
  /\ UNCHANGED <<template, changes>>

(* EX: Redis forgets a key when its time has passed. *)
Forget(a) ==
  /\ kept[a].full
  /\ kept' = [kept EXCEPT ![a] = Empty]
  /\ UNCHANGED <<template, changes, callers>>

(***************************************************************************)
(* The specification.                                                      *)
(***************************************************************************)
ListInit ==
  /\ template \in {"none", "there"}
  /\ changes = [k \in Kinds |-> 0]
  /\ kept = [a \in Answers |-> Empty]
  /\ callers = [c \in Callers |-> Fresh]

ListNext ==
  \/ \E c \in Callers :
       \/ \E a \in Answers : GetAnswer(c, a)
       \/ LoadAnswer(c) \/ SetAnswer(c) \/ LoadAnswerFails(c)
       \/ CreateTemplate(c) \/ FindTemplate(c) \/ UpdateTemplate(c) \/ RemoveTemplate(c)
       \/ WriteFails(c) \/ ChangeCampaign(c) \/ Drop(c) \/ DropFails(c)
  \/ \E a \in Answers : Forget(a)

ListSpec == ListInit /\ [][ListNext]_listVars

(***************************************************************************)
(* Properties.                                                             *)
(***************************************************************************)

(* Of the changes that delete the key of an answer, the one in Redis shows *)
(* every one that is complete: it only does not when it was loaded before  *)
(* the change and stored after it, or when the deletion has failed.        *)
StaleHasACause ==
  \A a \in Answers :
    LET kind == Dropper(a) IN
    kept[a].full /\ ~kept[a].excused /\ kept[a].value[kind] # changes[kind]
      => \E c \in Callers : callers[c].pc = "drop" /\ callers[c].kind = kind
=============================================================================
