---------------------------- MODULE MemberLogin ----------------------------
(***************************************************************************)
(* How a follower becomes a Member of the LINE account: requestOtp() and     *)
(* verifyOtp() of MemberLoginService, and the follow and unfollow webhooks   *)
(* of LineService, which write the same rows of line_users and otp_sessions. *)
(*                                                                         *)
(* The calls interleave at every await.  A call that a guard rejects ends    *)
(* and changes nothing, which is a stuttering step unless it had begun.      *)
(***************************************************************************)
EXTENDS Naturals, Sequences, FiniteSets

CONSTANTS
  Users,        \* LINE users of the one LINE account
  NoUser,       \* the user of an idle call
  Phones,       \* phone numbers, normalised
  NoPhone,      \* phone = null
  Calls,        \* calls and webhooks that can overlap in the API process
  MaxAttempts,  \* wrong codes that a session stands (5)
  MaxSessions   \* bound on the rows of otp_sessions in one behaviour

ASSUME UsersAssumption  == NoUser \notin Users /\ NoPhone \notin Phones
ASSUME CallsAssumption  == IsFiniteSet(Calls)
ASSUME LimitsAssumption == MaxAttempts \in Nat \ {0} /\ MaxSessions \in Nat

VARIABLES
  type,      \* userType: "Guest" or "Member"
  phone,     \* phone
  status,    \* "unknown" (no row), "following" or "blocked"
  sessions,  \* otp_sessions in the order of createdAt
  menu,      \* LINE shows the member rich menu to the user
  call,      \* the calls in flight
  left,      \* history: how many sessions there were when the user last left
  crossed    \* history: users whose menu a race, a failure or a crash left behind

rows    == <<type, phone, status>>
history == <<left, crossed>>
vars    == <<rows, sessions, menu, call, history>>

SessionState == {"open", "expired", "deleted"}

Session == [user : Users, phone : Phones, attempts : Nat, verified : BOOLEAN,
            state : SessionState]

CallPc ==
  {"idle",
   "owner", "expire", "create",             \* requestOtp()
   "find", "wrong", "check", "promote", "link",  \* verifyOtp()
   "revert", "unlink"}                      \* the unfollow webhook

(* A call at point pc.  right: the code is right; session: the row it read;   *)
(* wasMember: what the unfollow webhook read.                                 *)
CallAt(pc, u, p, right, session, wasMember) ==
  [pc |-> pc, user |-> u, phone |-> p, right |-> right, session |-> session,
   wasMember |-> wasMember]

Free == CallAt("idle", NoUser, NoPhone, FALSE, 0, FALSE)

(* The type invariant; a call in flight knows its user, and one that goes on   *)
(* with a session or a phone knows which.                                      *)
TypeOK ==
  /\ type     \in [Users -> {"Guest", "Member"}]
  /\ phone    \in [Users -> Phones \cup {NoPhone}]
  /\ status   \in [Users -> {"unknown", "following", "blocked"}]
  /\ sessions \in Seq(Session)
  /\ menu     \in [Users -> BOOLEAN]
  /\ call     \in [Calls -> [pc : CallPc, user : Users \cup {NoUser},
                             phone : Phones \cup {NoPhone}, right : BOOLEAN,
                             session : Nat, wasMember : BOOLEAN]]
  /\ left     \in [Users -> Nat]
  /\ crossed  \subseteq Users
  /\ \A c \in Calls : call[c].pc # "idle" => call[c].user \in Users
  /\ \A c \in Calls : call[c].pc \notin {"idle", "revert", "unlink"} => call[c].phone \in Phones
  /\ \A c \in Calls : call[c].pc \in {"wrong", "check", "promote"} =>
                        call[c].session \in 1..Len(sessions)

Init ==
  /\ type     = [u \in Users |-> "Guest"]
  /\ phone    = [u \in Users |-> NoPhone]
  /\ status   = [u \in Users |-> "unknown"]
  /\ sessions = <<>>
  /\ menu     = [u \in Users |-> FALSE]
  /\ call     = [c \in Calls |-> Free]
  /\ left     = [u \in Users |-> 0]
  /\ crossed  = {}

Known(u) == status[u] # "unknown"

(* Call c goes on at point pc with the user, phone and session it has. *)
Continue(c, pc) ==
  call' = [call EXCEPT ![c] = CallAt(pc, call[c].user, call[c].phone, call[c].right,
                                     call[c].session, call[c].wasMember)]

Return(c) == call' = [call EXCEPT ![c] = Free]

(* The findFirst for another row with this phone. *)
OwnedByOther(p, u) == \E o \in Users \ {u} : phone[o] = p

-----------------------------------------------------------------------------
(* requestOtp(). *)

RequestOtp(c) == \E u \in Users, p \in Phones :
  /\ call[c].pc = "idle"
  /\ Known(u) /\ type[u] = "Guest"
  /\ call' = [call EXCEPT ![c] = CallAt("owner", u, p, FALSE, 0, FALSE)]
  /\ UNCHANGED <<rows, sessions, menu, history>>

RequestOwner(c) == LET u == call[c].user IN
  /\ call[c].pc = "owner"
  /\ IF OwnedByOther(call[c].phone, u) THEN Return(c) ELSE Continue(c, "expire")
  /\ UNCHANGED <<rows, sessions, menu, history>>

(* The sessions that are not verified yet expire. *)
ExpireOld(c) == LET u == call[c].user IN
  /\ call[c].pc = "expire"
  /\ sessions' = [i \in 1..Len(sessions) |->
       IF sessions[i].user = u /\ sessions[i].state = "open" /\ ~ sessions[i].verified
         THEN [sessions[i] EXCEPT !.state = "expired"] ELSE sessions[i]]
  /\ Continue(c, "create")
  /\ UNCHANGED <<rows, menu, history>>

CreateSession(c) ==
  /\ call[c].pc = "create"
  /\ Len(sessions) < MaxSessions
  /\ sessions' = Append(sessions, [user |-> call[c].user, phone |-> call[c].phone,
                                   attempts |-> 0, verified |-> FALSE, state |-> "open"])
  /\ Return(c)
  /\ UNCHANGED <<rows, menu, history>>

(* The time to live of a session ends. *)
TimeToLiveEnds == \E i \in 1..Len(sessions) :
  /\ sessions[i].state = "open" /\ ~ sessions[i].verified
  /\ sessions' = [sessions EXCEPT ![i].state = "expired"]
  /\ UNCHANGED <<rows, menu, call, history>>

-----------------------------------------------------------------------------
(* verifyOtp(). *)

VerifyOtp(c) == \E u \in Users, p \in Phones, right \in BOOLEAN :
  /\ call[c].pc = "idle"
  /\ Known(u) /\ type[u] = "Guest"
  /\ call' = [call EXCEPT ![c] = CallAt("find", u, p, right, 0, FALSE)]
  /\ UNCHANGED <<rows, sessions, menu, history>>

(* The sessions that findFirst looks at, of which it takes the newest. *)
Unverified(u, p) ==
  {i \in 1..Len(sessions) : /\ sessions[i].user = u /\ sessions[i].phone = p
                            /\ sessions[i].state # "deleted" /\ ~ sessions[i].verified}

(* Faulty form: the limit is not looked at. *)
FaultyUsable(i) == sessions[i].state = "open"

Usable(i) == sessions[i].state = "open" /\ sessions[i].attempts < MaxAttempts

FindSession(c) == LET found == Unverified(call[c].user, call[c].phone) IN
  /\ call[c].pc = "find"
  /\ IF \E i \in found : Usable(i) /\ \A j \in found : j <= i
       THEN \E i \in found :
              /\ \A j \in found : j <= i
              /\ call' = [call EXCEPT ![c] =
                   CallAt(IF call[c].right THEN "check" ELSE "wrong", call[c].user,
                          call[c].phone, call[c].right, i, FALSE)]
       ELSE Return(c)
  /\ UNCHANGED <<rows, sessions, menu, history>>

(* A wrong code counts, unless the row is gone. *)
WrongCode(c) == LET i == call[c].session IN
  /\ call[c].pc = "wrong"
  /\ sessions' = IF sessions[i].state = "deleted" THEN sessions
                 ELSE [sessions EXCEPT ![i].attempts = @ + 1]
  /\ Return(c)
  /\ UNCHANGED <<rows, menu, history>>

VerifyOwner(c) ==
  /\ call[c].pc = "check"
  /\ IF OwnedByOther(call[c].phone, call[c].user) THEN Return(c) ELSE Continue(c, "promote")
  /\ UNCHANGED <<rows, sessions, menu, history>>

(* Faulty forms: the transaction without the update of the session; without    *)
(* the unique index on (lineAccountId, phone).                                 *)
FaultyTransaction(i, p, u) == ~ OwnedByOther(p, u)
FaultyIndex(i, p, u) == sessions[i].state # "deleted"

(* The transaction commits: its session still exists, and the unique index     *)
(* on (lineAccountId, phone) holds.                                            *)
Commits(i, p, u) == sessions[i].state # "deleted" /\ ~ OwnedByOther(p, u)

(* An unfollow webhook has read the row as a Guest's and not written it yet. *)
GuestLeaves(u) ==
  \E c \in Calls : call[c].pc = "revert" /\ call[c].user = u /\ ~ call[c].wasMember

Promote(c) == LET u == call[c].user  p == call[c].phone  i == call[c].session IN
  /\ call[c].pc = "promote"
  /\ IF Commits(i, p, u)
       THEN /\ sessions' = [sessions EXCEPT ![i].verified = TRUE]
            /\ type'  = [type EXCEPT ![u] = "Member"]
            /\ phone' = [phone EXCEPT ![u] = p]
            /\ crossed' = IF GuestLeaves(u) THEN crossed \cup {u} ELSE crossed
            /\ Continue(c, "link")
       ELSE /\ Return(c)
            /\ UNCHANGED <<type, phone, sessions, crossed>>
  /\ UNCHANGED <<status, menu, left>>

(* linkMemberRichMenu(): there may be no member menu, and LINE may fail. *)
LinkMenu(c) == LET u == call[c].user IN
  /\ call[c].pc = "link"
  /\ \/ /\ menu' = [menu EXCEPT ![u] = TRUE]
        /\ crossed' = IF type[u] = "Guest" THEN crossed \cup {u} ELSE crossed
     \/ UNCHANGED <<menu, crossed>>
  /\ Return(c)
  /\ UNCHANGED <<rows, sessions, left>>

-----------------------------------------------------------------------------
(* The webhooks. *)

(* handleFollowEvent() and getOrCreateLineUser(): the upsert. *)
Follow(u) ==
  /\ status[u] # "following"
  /\ status' = [status EXCEPT ![u] = "following"]
  /\ UNCHANGED <<type, phone, sessions, menu, call, history>>

(* revertLineUserToGuest(), the read of the row. *)
Unfollow(c) == \E u \in Users :
  /\ call[c].pc = "idle"
  /\ Known(u)
  /\ call' = [call EXCEPT ![c] = CallAt("revert", u, NoPhone, FALSE, 0, type[u] = "Member")]
  /\ UNCHANGED <<rows, sessions, menu, history>>

(* Faulty form: the sessions stay. *)
FaultyWithout(u) == sessions

(* deleteMany on the sessions of u. *)
Without(u) == [i \in 1..Len(sessions) |->
  IF sessions[i].user = u THEN [sessions[i] EXCEPT !.state = "deleted"] ELSE sessions[i]]

(* Faulty forms: the member rich menu stays; it is linked, not unlinked. *)
FaultyAfterRevert(c) == "idle"
FaultyMenuCall(c) == IF call[c].wasMember THEN "link" ELSE "idle"

AfterRevert(c) == IF call[c].wasMember THEN "unlink" ELSE "idle"

(* Its transaction. *)
Revert(c) == LET u == call[c].user IN
  /\ call[c].pc = "revert"
  /\ sessions' = Without(u)
  /\ type'   = [type EXCEPT ![u] = "Guest"]
  /\ phone'  = [phone EXCEPT ![u] = NoPhone]
  /\ status' = [status EXCEPT ![u] = "blocked"]
  /\ IF AfterRevert(c) = "idle" THEN Return(c) ELSE Continue(c, AfterRevert(c))
  /\ left' = [left EXCEPT ![u] = Len(sessions)]
  /\ UNCHANGED <<menu, crossed>>

(* unlinkMemberRichMenu(): an error of LINE is logged. *)
UnlinkMenu(c) == LET u == call[c].user IN
  /\ call[c].pc = "unlink"
  /\ \/ menu' = [menu EXCEPT ![u] = FALSE] /\ UNCHANGED crossed
     \/ crossed' = crossed \cup {u} /\ UNCHANGED menu
  /\ Return(c)
  /\ UNCHANGED <<rows, sessions, left>>

(* The API process dies with the calls in flight. *)
Crash ==
  /\ \E c \in Calls : call[c].pc # "idle"
  /\ call' = [c \in Calls |-> Free]
  /\ crossed' = crossed \cup {call[c].user : c \in {d \in Calls : call[d].pc = "unlink"}}
  /\ UNCHANGED <<rows, sessions, menu, left>>

-----------------------------------------------------------------------------
CallStep(c) ==
  \/ RequestOtp(c) \/ RequestOwner(c) \/ ExpireOld(c) \/ CreateSession(c)
  \/ VerifyOtp(c) \/ FindSession(c) \/ WrongCode(c) \/ VerifyOwner(c) \/ Promote(c) \/ LinkMenu(c)
  \/ Unfollow(c) \/ Revert(c) \/ UnlinkMenu(c)

Next ==
  \/ \E c \in Calls : CallStep(c)
  \/ \E u \in Users : Follow(u)
  \/ TimeToLiveEnds
  \/ Crash

Spec == Init /\ [][Next]_vars

-----------------------------------------------------------------------------
(* Safety. *)

(* A Member has the phone of a session that he verified, and that was created  *)
(* after he last left, whichever of his logins and unfollows overlap.          *)
MembersAreVerified ==
  \A u \in Users : type[u] = "Member" =>
    \E i \in 1..Len(sessions) :
      /\ i > left[u]
      /\ sessions[i].user = u /\ sessions[i].phone = phone[u] /\ sessions[i].verified

(* Logins that overlap can pass the check of the limit together, but no more   *)
(* than all the calls in flight at once: the count stays bounded.              *)
AttemptsBounded ==
  \A i \in 1..Len(sessions) :
    sessions[i].attempts
      + Cardinality({c \in Calls : call[c].pc = "wrong" /\ call[c].session = i})
      <= MaxAttempts + Cardinality(Calls) - 1

(* A Guest sees the member rich menu only while the unlink is still to come, or *)
(* when one of the cases in `crossed` left it behind: the link or the promotion *)
(* overlapped an unfollow, LINE refused the unlink, or the process died.        *)
GuestMenusHaveACause ==
  \A u \in Users : type[u] = "Guest" /\ menu[u] =>
    \/ u \in crossed
    \/ \E c \in Calls : call[c].pc = "unlink" /\ call[c].user = u

(* No two users hold a phone at once, and a phone changes hands only through    *)
(* somebody without it: member login implements the phone book.                 *)
Book == INSTANCE PhoneBook
KeepsPhoneBook == Book!Spec

(* "... so they must verify again after re-following."                         *)
VerifyAgain ==
  [][\A u \in Users : status[u] = "blocked" /\ status'[u] = "following" => type[u] = "Guest"]_vars
=============================================================================
