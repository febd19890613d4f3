----------------------------- MODULE LineQuota -----------------------------
(***************************************************************************)
(* The LINE account of one user and the message quota that is stored with  *)
(* it.  Three kinds of process write the row: the load behind              *)
(* GET message-quota, the refresh the worker asks for when it has finished *)
(* a broadcast, and the requests that save or test the credentials.        *)
(*                                                                         *)
(* Every awaited call is a step of its own.  LINE's own counter is         *)
(* external: it may lag behind what was sent, and it starts again at zero  *)
(* every month.  A broadcast is the set element b, Count[b] is the number  *)
(* of users that received it and Units[b] the number of messages that is.  *)
(***************************************************************************)
EXTENDS Integers, FiniteSets

CONSTANTS
  Broadcasts,   \* the broadcasts the worker delivers for this user
  Count,        \* successCount of each
  Units,        \* deliveredMessageUnits of each: messages times recipients
  Limit,        \* the monthly limit LINE reports
  Savers,       \* requests POST account and POST account/test
  MaxWork       \* bound: how many of these take place

ASSUME QuotaAssumption ==
  /\ IsFiniteSet(Broadcasts) /\ "api" \notin Broadcasts
  /\ Count \in [Broadcasts -> Nat \ {0}] /\ Units \in [Broadcasts -> Nat \ {0}]
  /\ \A b \in Broadcasts : Count[b] <= Units[b]
  /\ Limit \in Nat /\ MaxWork \in Nat

VARIABLES
  acc,      \* the row of line_accounts, with what its figure is made of
  lastId,   \* the id given out last
  phase,    \* what the worker has done with each broadcast
  at,       \* the order of sentAt, 0 when the broadcast is not finished
  month,    \* the broadcasts that were sent this month
  reported, \* those of them that LINE's counter includes
  loads,    \* the loads in flight: that of the API and one per broadcast
  saves     \* the requests that save or test the account

vars == <<acc, lastId, phase, at, month, reported, loads, saves>>

(* The value null of a column, and what ?? 0 makes of it. *)
Unknown == -1
OrZero(n) == IF n = Unknown THEN 0 ELSE n

Larger(m, n) == IF m > n THEN m ELSE n

(* The messages of the broadcasts in S, f[b] of each, and their number. *)
Messages(f, S) == UNION {{b} \X (1..f[b]) : b \in S}
Total(f, S) == Cardinality(Messages(f, S))

(* The number of sentAt times so far: a time is its place in their order. *)
Finished == Cardinality({b \in Broadcasts : at[b] > 0})

(* Math.max(0, limit - used), null when either is. *)
Left(limit, used) ==
  IF limit = Unknown \/ used = Unknown THEN Unknown ELSE Larger(0, limit - used)

(* A row without its figures.  "of", "again" and "stale" are history: the  *)
(* broadcasts the figure counts, whether it counts one of them twice, and  *)
(* whether LINE's counter lagged or another write overtook the figure.     *)
Blank(id) == [id |-> id, limit |-> Unknown, used |-> Unknown, left |-> Unknown,
              synced |-> Unknown,
              of |-> {}, again |-> FALSE, stale |-> FALSE]
NoAccount == Blank(0)
Connected == acc.id # 0

Idle == [pc |-> "idle"]
Done == [pc |-> "done"]
Loaders == {"api"} \cup Broadcasts

(***************************************************************************)
(* What LINE answers, and the statements that write the row.               *)
(***************************************************************************)

(* fetchMessageQuota: null everywhere when one of the two calls fails. *)
NoAnswer == [limit |-> Unknown, used |-> Unknown, of |-> {}, again |-> FALSE, stale |-> TRUE]
Answer == [limit |-> Limit, used |-> Total(Units, reported), of |-> reported,
           again |-> FALSE, stale |-> reported # month]

(* The quota columns of a create() or update(). *)
Written(row, q) == [row EXCEPT !.limit = q.limit, !.used = q.used,
                               !.of = q.of, !.again = q.again, !.stale = q.stale]

(* Faulty form: what is left is not written with what is used. *)
FaultyStamped(id, q) ==
  IF acc.id # id THEN acc ELSE [Written(acc, q) EXCEPT !.synced = Finished]

(* updateMessageQuota: the four columns and the time, by id. *)
Stamped(id, q) ==
  IF acc.id # id THEN acc
  ELSE [Written(acc, q) EXCEPT !.left = Left(q.limit, q.used),
                               !.synced = Finished]

(* A write overtakes every figure that is still to be written. *)
Overtake(ps) == [p \in DOMAIN ps |->
  IF ps[p].pc \in {"usage", "line", "write", "catch", "delete", "create", "update", "stamp"}
    THEN [ps[p] EXCEPT !.late = TRUE] ELSE ps[p]]

(***************************************************************************)
(* The load of the quota.                                                  *)
(***************************************************************************)
Forced(p) == p \in Broadcasts

Begin == [pc |-> "account", row |-> NoAccount, extra |-> {},
          quota |-> NoAnswer, late |-> FALSE]

unwritten == <<acc, lastId, at, month, reported, saves>>

Step(p, l) == loads' = [loads EXCEPT ![p] = l] /\ UNCHANGED <<phase, unwritten>>

(* A load that fails, or that writes nothing, has missed its broadcast. *)
End(p, ph) ==
  /\ loads' = [loads EXCEPT ![p] = Idle]
  /\ phase' = IF Forced(p) THEN [phase EXCEPT ![p] = ph] ELSE phase
  /\ UNCHANGED unwritten

(* getMessageQuotaForUser: requests that find a load in flight share it. *)
Ask == loads["api"].pc = "idle" /\ Step("api", Begin)

(* The row is found by user, then its figures are read by id.  One step: a  *)
(* row that is replaced in between is one that the write does not find.    *)
ReadAccount(p) ==
  /\ loads[p].pc = "account"
  /\ \/ ~Connected /\ End(p, "missed")
     \/ Connected /\ Step(p, [loads[p] EXCEPT
          !.row = [acc EXCEPT !.left = Unknown,
                              !.synced = IF Forced(p) THEN 0 ELSE @],
          !.pc = IF Forced(p) \/ acc.synced = Unknown THEN "line" ELSE "usage"])

(* getBroadcastUsageSince: the broadcasts with sentAt after the sync that  *)
(* was read.  A forced load asks too, but uses nothing of the answer.      *)
Newer(p) == {b \in Broadcasts : at[b] > loads[p].row.synced}

AskUsage(p) ==
  loads[p].pc = "usage" /\ Step(p, [loads[p] EXCEPT !.extra = Newer(p), !.row.synced = 0, !.pc = "line"])

(* What is added to the stored figure: the messages the worker reports, or *)
(* else the recipients of the newer broadcasts.                            *)
ExtraOf(p) == IF Forced(p) THEN {p} ELSE loads[p].extra
ExtraUsed(p) == IF Forced(p) THEN Units[p] ELSE Total(Count, loads[p].extra)

(* Faulty form: a refresh after a broadcast is answered from the row too. *)
FaultyMayUseCache(p) ==
  loads[p].extra = {} /\ loads[p].row.synced # Unknown /\ loads[p].row.used # Unknown

(* Whether MESSAGE_QUOTA_CACHE_MS have passed is left open: the time since  *)
(* the last sync may be anything.                                          *)
MayUseCache(p) ==
  ~Forced(p) /\ loads[p].extra = {} /\ loads[p].row.synced # Unknown /\ loads[p].row.used # Unknown

FromCache(p) == loads[p].pc = "line" /\ MayUseCache(p) /\ End(p, "counted")

(* fetchMessageQuota: from here on only what LINE said can be overtaken. *)
AskLine(p) ==
  /\ loads[p].pc = "line"
  /\ LET l == [loads[p] EXCEPT !.row.synced = 0, !.row.stale = FALSE] IN
     \/ Step(p, [l EXCEPT !.pc = "write", !.quota = Answer, !.late = FALSE])
     \/ Step(p, [loads[p] EXCEPT !.pc = "catch"])

StoredPlusExtra(p) == OrZero(loads[p].row.used) + ExtraUsed(p)

(* Faulty form: what is new is added to LINE's counter, which has it already. *)
FaultyMergedUsed(p, lineUsed) == OrZero(lineUsed) + ExtraUsed(p)

(* mergeQuotaUsage *)
MergedUsed(p, lineUsed) ==
  IF ExtraUsed(p) > 0 THEN Larger(OrZero(lineUsed), StoredPlusExtra(p)) ELSE OrZero(lineUsed)

(* The merged figure, with its history: it is the stored one plus what is  *)
(* new when that is larger than the one it is compared with.               *)
Merge(p, q) ==
  LET row  == loads[p].row
      sum  == ExtraUsed(p) > 0 /\ StoredPlusExtra(p) > OrZero(q.used)
  IN [limit |-> q.limit, used |-> MergedUsed(p, q.used),
      of    |-> IF sum THEN row.of \cup ExtraOf(p) ELSE q.of,
      again |-> IF sum THEN row.again \/ row.of \cap ExtraOf(p) # {} ELSE q.again,
      stale |-> q.stale \/ loads[p].late]

Save(p, q) ==
  /\ acc.id = loads[p].row.id
  /\ acc' = Stamped(acc.id, q)
  /\ loads' = [Overtake(loads) EXCEPT ![p] = Idle]
  /\ saves' = Overtake(saves)
  /\ phase' = IF Forced(p) THEN [phase EXCEPT ![p] = "counted"] ELSE phase
  /\ UNCHANGED <<lastId, at, month, reported>>

(* The row has been replaced: the update matches nothing. *)
SaveNothing(p) == acc.id # loads[p].row.id /\ End(p, "missed")

Write(p) ==
  loads[p].pc = "write" /\ (Save(p, Merge(p, loads[p].quota)) \/ SaveNothing(p))

(* LINE is out of reach: what is new is added to what is stored. *)
HasStored(p) == loads[p].row.limit # Unknown \/ OrZero(loads[p].row.used) > 0

Catch(p) ==
  /\ loads[p].pc = "catch"
  /\ \/ ExtraUsed(p) > 0 /\ HasStored(p) /\ (Save(p, Merge(p, loads[p].row)) \/ SaveNothing(p))
     \/ ~(ExtraUsed(p) > 0 /\ HasStored(p)) /\ End(p, "missed")

(* The write fails: the code goes on as if LINE had not answered. *)
WriteFails(p) ==
  /\ loads[p].pc = "write"
  /\ loads' = [loads EXCEPT ![p].pc = "catch", ![p].quota = NoAnswer, ![p].late = TRUE]
  /\ UNCHANGED <<phase, unwritten>>

(* A read fails, the write of the catch block fails, or the process dies. *)
LoadFails(p) == loads[p].pc # "idle" /\ End(p, "missed")

(***************************************************************************)
(* The worker.                                                             *)
(***************************************************************************)

Work == Cardinality({b \in Broadcasts : phase[b] # "new"})
          + Cardinality({s \in Savers : saves[s].pc # "idle"})

(* The messages are out; LINE may count them at once or later. *)
Deliver(b) ==
  /\ phase[b] = "new" /\ Connected /\ Work < MaxWork
  /\ phase' = [phase EXCEPT ![b] = "sent"]
  /\ month' = month \cup {b}
  /\ reported' \in {reported, reported \cup {b}}
  /\ UNCHANGED <<acc, lastId, at, loads, saves>>

(* finalizeBroadcast sets sentAt, then the quota is refreshed. *)
Finalize(b) ==
  /\ phase[b] = "sent"
  /\ phase' = [phase EXCEPT ![b] = "refreshing"]
  /\ at' = [at EXCEPT ![b] = Finished + 1]
  /\ loads' = [loads EXCEPT ![b] = Begin]
  /\ UNCHANGED <<acc, lastId, month, reported, saves>>

LineCatchesUp ==
  /\ reported # month /\ reported' = month
  /\ UNCHANGED <<acc, lastId, phase, at, month, loads, saves>>

NewMonth ==
  /\ month # {}
  /\ month' = {} /\ reported' = {}
  /\ UNCHANGED <<acc, lastId, phase, at, loads, saves>>

(***************************************************************************)
(* Saving and testing the credentials.                                     *)
(***************************************************************************)
unsaved == <<acc, lastId, phase, at, month, reported, loads>>

Move(s, r) == saves' = [saves EXCEPT ![s] = r] /\ UNCHANGED unsaved

(* upsertLineAccount reads the row: its credentials are the default. *)
SaveRead(s) ==
  /\ saves[s].pc = "idle" /\ Work < MaxWork
  /\ \E kind \in {"save", "test"} :
       Move(s, [pc |-> "verify", kind |-> kind, id |-> acc.id, quota |-> NoAnswer, late |-> FALSE])

AfterVerify(s) ==
  CASE saves[s].kind = "save" -> "delete"
    [] saves[s].kind = "test" /\ saves[s].id # 0 -> "update"
    [] OTHER -> "done"

(* verifyConnection: LINE refuses the credentials, or sends what it knows  *)
(* of the account; the quota may be missing.                               *)
Verify(s) ==
  /\ saves[s].pc = "verify"
  /\ \/ Move(s, Done)
     \/ /\ AfterVerify(s) # "done"
        /\ \E q \in {Answer, NoAnswer} :
             Move(s, [saves[s] EXCEPT !.pc = AfterVerify(s), !.quota = q])

(* Every write overtakes what the others have still to write. *)
Put(s, row, next) ==
  /\ acc' = row
  /\ loads' = Overtake(loads)
  /\ saves' = [Overtake(saves) EXCEPT ![s] = next]
  /\ UNCHANGED <<phase, at, month, reported>>

Fetched(s) == [saves[s].quota EXCEPT !.stale = @ \/ saves[s].late]

DeleteAccount(s) ==
  /\ saves[s].pc = "delete"
  /\ Put(s, NoAccount, [saves[s] EXCEPT !.pc = "create"])
  /\ UNCHANGED lastId

(* Faulty form: a create that fails cleans up after itself. *)
FaultyConflict(s) == Put(s, NoAccount, Done) /\ UNCHANGED lastId

(* A row that somebody else has created in between is a conflict. *)
Conflict(s) == Move(s, Done)

CreateAccount(s) ==
  /\ saves[s].pc = "create"
  /\ \/ /\ ~Connected
        /\ lastId' = lastId + 1
        /\ Put(s, Written(Blank(lastId + 1), Fetched(s)),
               [saves[s] EXCEPT !.pc = "stamp", !.id = lastId + 1])
     \/ Connected /\ Conflict(s)

(* updateOaInfo by the id that was read: it throws when that row is gone. *)
UpdateInfo(s) ==
  /\ saves[s].pc = "update"
  /\ \/ /\ acc.id = saves[s].id
        /\ Put(s, Written(acc, Fetched(s)), [saves[s] EXCEPT !.pc = "stamp"])
        /\ UNCHANGED lastId
     \/ acc.id # saves[s].id /\ Move(s, Done)

Stamp(s) ==
  /\ saves[s].pc = "stamp"
  /\ Put(s, Stamped(saves[s].id, Fetched(s)), Done)
  /\ UNCHANGED lastId

(* A statement fails, or the API dies: what was written stays. *)
SaveFails(s) ==
  /\ saves[s].pc \notin {"idle", "done", "broken"}
  /\ saves' = [saves EXCEPT ![s] = IF @.pc \in {"create", "stamp"}
                                    THEN [pc |-> "broken", id |-> @.id] ELSE Done]
  /\ UNCHANGED unsaved

(***************************************************************************)
(* The specification.  The user starts without an account, or with one     *)
(* that was saved when nothing had been sent.                              *)
(***************************************************************************)
Init ==
  /\ \/ acc = NoAccount /\ lastId = 0
     \/ /\ acc = [Blank(1) EXCEPT !.limit = Limit, !.used = 0, !.left = Limit,
                                  !.synced = 0]
        /\ lastId = 1
  /\ phase = [b \in Broadcasts |-> "new"]
  /\ at = [b \in Broadcasts |-> 0]
  /\ month = {} /\ reported = {}
  /\ loads = [p \in Loaders |-> Idle]
  /\ saves = [s \in Savers |-> Idle]

LoadStep(p) ==
  \/ ReadAccount(p) \/ AskUsage(p) \/ FromCache(p)
  \/ AskLine(p) \/ Write(p) \/ Catch(p) \/ WriteFails(p) \/ LoadFails(p)

SaveStep(s) ==
  \/ SaveRead(s) \/ Verify(s) \/ DeleteAccount(s) \/ CreateAccount(s)
  \/ UpdateInfo(s) \/ Stamp(s) \/ SaveFails(s)

Next ==
  \/ Ask \/ LineCatchesUp \/ NewMonth
  \/ \E p \in Loaders : LoadStep(p)
  \/ \E b \in Broadcasts : Deliver(b) \/ Finalize(b)
  \/ \E s \in Savers : SaveStep(s)

Spec == Init /\ [][Next]_vars

(***************************************************************************)
(* Properties                                                              *)
(***************************************************************************)

(* The figure exceeds what was really sent this month only if a broadcast  *)
(* that it counted already was added to it once more, or if it was carried *)
(* over from an earlier month: these are the two ways in which "stored     *)
(* plus extra" can go wrong, and there is no third one.                    *)
OverstatedIsExplained ==
  OrZero(acc.used) > Total(Units, month) => acc.again \/ ~(acc.of \subseteq month)

(* A broadcast whose refresh has written the row stays in the figure: it   *)
(* can only be lost through a write that was overtaken by another between  *)
(* its own question to LINE and its write, or by LINE's lag.               *)
CountedStaysCounted ==
  Connected /\ OrZero(acc.used) < Total(Units, {b \in month : phase[b] = "counted"}) => acc.stale

(* What the row says is left of the quota is the limit less what is used,  *)
(* unless a request is between its two writes, or has failed there.        *)
LeftFitsUsed ==
  acc.left \in {Unknown, Left(acc.limit, acc.used)}
    \/ \E s \in Savers : saves[s].pc \in {"stamp", "broken"} /\ saves[s].id = acc.id

(* A user who has connected an account keeps one: it is gone only while a  *)
(* save is between its delete and its create, or has failed there.         *)
AccountStays ==
  lastId > 0 /\ ~Connected => \E s \in Savers : saves[s].pc \in {"create", "broken"}
=============================================================================
