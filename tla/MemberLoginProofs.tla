------------------------- MODULE MemberLoginProofs -------------------------
(***************************************************************************)
(* Safety of MemberLogin for every number of users, phones, overlapping      *)
(* calls and sessions.                                                       *)
(***************************************************************************)
EXTENDS MemberLogin, FiniteSetTheorems, SequenceTheorems, TLAPS

(* The session that a call goes on with. *)
CallSession(c) == sessions[call[c].session]

(* A call that goes on with a session goes on with one of its own user and     *)
(* phone.                                                                      *)
CallsMatch ==
  \A c \in Calls : call[c].pc \in {"wrong", "check", "promote"} =>
    CallSession(c).user = call[c].user /\ CallSession(c).phone = call[c].phone

(* The unfollow webhook deletes every session the user had: those that are     *)
(* left are younger.                                                           *)
LeftBehind ==
  /\ \A u \in Users : left[u] <= Len(sessions)
  /\ \A i \in 1..Len(sessions) :
       sessions[i].state # "deleted" => i > left[sessions[i].user]

LoginInv == TypeOK /\ CallsMatch /\ LeftBehind /\ MembersAreVerified

(* What every step does to the rows of otp_sessions: none is lost, changes its *)
(* owner, or becomes open or unverified again.                                 *)
RowsKept ==
  /\ sessions' \in Seq(Session)
  /\ Len(sessions') >= Len(sessions)
  /\ \A i \in 1..Len(sessions) :
       /\ sessions'[i].user = sessions[i].user
       /\ sessions'[i].phone = sessions[i].phone
       /\ sessions[i].verified => sessions'[i].verified
       /\ sessions[i].state = "deleted" => sessions'[i].state = "deleted"

-----------------------------------------------------------------------------
(* Type correctness. *)

LEMMA InitLogin == Init => LoginInv
BY UsersAssumption DEF Init, LoginInv, TypeOK, CallsMatch, LeftBehind, MembersAreVerified,
   Free, CallAt, CallPc, Session

(* The parts of TypeOK that a step on one call has to keep. *)
CallOK(k, len) ==
  /\ k \in [pc : CallPc, user : Users \cup {NoUser}, phone : Phones \cup {NoPhone},
            right : BOOLEAN, session : Nat, wasMember : BOOLEAN]
  /\ k.pc # "idle" => k.user \in Users
  /\ k.pc \notin {"idle", "revert", "unlink"} => k.phone \in Phones
  /\ k.pc \in {"wrong", "check", "promote"} => k.session \in 1..len

LEMMA OneCall ==
  ASSUME TypeOK, NEW c \in Calls, NEW k, CallOK(k, Len(sessions')),
         call' = [call EXCEPT ![c] = k],
         Len(sessions') \in Nat, Len(sessions') >= Len(sessions)
  PROVE  /\ call' \in [Calls -> [pc : CallPc, user : Users \cup {NoUser},
                                 phone : Phones \cup {NoPhone}, right : BOOLEAN,
                                 session : Nat, wasMember : BOOLEAN]]
         /\ \A d \in Calls : CallOK(call'[d], Len(sessions'))
<1>1. \A d \in Calls : CallOK(call[d], Len(sessions'))
  BY DEF TypeOK, CallOK
<1> QED BY <1>1 DEF TypeOK, CallOK

LEMMA FreeOK == \A n \in Nat : CallOK(Free, n)
BY DEF CallOK, Free, CallAt, CallPc

(* A call that goes on with what it has. *)
LEMMA ContinueOK ==
  ASSUME TypeOK, NEW c \in Calls, NEW pc \in CallPc, call[c].pc # "idle",
         pc \notin {"wrong", "check"},
         pc \notin {"idle", "revert", "unlink"} => call[c].phone \in Phones,
         pc = "promote" => call[c].session \in 1..Len(sessions)
  PROVE  CallOK(CallAt(pc, call[c].user, call[c].phone, call[c].right,
                       call[c].session, call[c].wasMember), Len(sessions))
BY DEF TypeOK, CallOK, CallAt

(* ExpireOld, TimeToLiveEnds, WrongCode, Promote and Revert change rows in      *)
(* place.                                                                      *)
LEMMA ChangedRows ==
  ASSUME NEW s \in Seq(Session), NEW t, t = [i \in 1..Len(s) |-> t[i]],
         \A i \in 1..Len(s) : t[i] \in Session
  PROVE  t \in Seq(Session) /\ Len(t) = Len(s)
<1>1. Len(s) \in Nat
  OBVIOUS
<1>2. t \in [1..Len(s) -> Session]
  OBVIOUS
<1> QED BY <1>1, <1>2

LEMMA CallsTyped ==
  ASSUME TypeOK, NEW c \in Calls, NEW k, CallOK(k, Len(sessions')),
         call' = [call EXCEPT ![c] = k], RowsKept,
         type' \in [Users -> {"Guest", "Member"}],
         phone' \in [Users -> Phones \cup {NoPhone}],
         status' \in [Users -> {"unknown", "following", "blocked"}],
         menu' \in [Users -> BOOLEAN], left' \in [Users -> Nat], crossed' \subseteq Users
  PROVE  TypeOK'
<1>1. Len(sessions') \in Nat
  BY DEF RowsKept
<1>2. /\ call' \in [Calls -> [pc : CallPc, user : Users \cup {NoUser},
                              phone : Phones \cup {NoPhone}, right : BOOLEAN,
                              session : Nat, wasMember : BOOLEAN]]
      /\ \A d \in Calls : CallOK(call'[d], Len(sessions'))
  BY <1>1, OneCall DEF RowsKept
<1> QED BY <1>2 DEF TypeOK, CallOK, RowsKept

-----------------------------------------------------------------------------
(* The other three parts of the invariant. *)

LEMMA KeepsMatch ==
  ASSUME TypeOK, CallsMatch, RowsKept, NEW c \in Calls, NEW k, call' = [call EXCEPT ![c] = k],
         k.pc \in {"wrong", "check", "promote"} =>
           /\ k.session \in 1..Len(sessions)
           /\ sessions[k.session].user = k.user /\ sessions[k.session].phone = k.phone
  PROVE  CallsMatch'
<1> SUFFICES ASSUME NEW d \in Calls, call'[d].pc \in {"wrong", "check", "promote"}
             PROVE  CallSession(d)'.user = call'[d].user /\ CallSession(d)'.phone = call'[d].phone
  BY DEF CallsMatch
<1>1. CASE d = c
  BY <1>1 DEF TypeOK, RowsKept, CallSession
<1>2. CASE d # c
  BY <1>2 DEF TypeOK, RowsKept, CallSession, CallsMatch
<1> QED BY <1>1, <1>2

LEMMA KeepsLeft ==
  ASSUME TypeOK, LeftBehind, RowsKept, left' = left
  PROVE  LeftBehind'
<1>1. Len(sessions) \in Nat /\ Len(sessions') \in Nat /\ left \in [Users -> Nat]
  BY DEF TypeOK, RowsKept
<1>2. ASSUME NEW i \in 1..Len(sessions'), sessions'[i].state # "deleted"
      PROVE  i > left[sessions'[i].user]
  <2>1. CASE i \in 1..Len(sessions)
    BY <2>1, <1>2 DEF LeftBehind, RowsKept
  <2>2. CASE i \notin 1..Len(sessions)
    <3>1. sessions'[i] \in Session
      BY DEF RowsKept
    <3>2. sessions'[i].user \in Users
      BY <3>1 DEF Session
    <3> QED BY <1>1, <2>2, <3>2 DEF LeftBehind
  <2> QED BY <2>1, <2>2
<1> QED BY <1>1, <1>2 DEF LeftBehind, RowsKept

LEMMA KeepsMembers ==
  ASSUME TypeOK, MembersAreVerified, RowsKept, left' = left, type' = type, phone' = phone
  PROVE  MembersAreVerified'
<1> SUFFICES ASSUME NEW u \in Users, type[u] = "Member"
             PROVE  \E i \in 1..Len(sessions') :
                      /\ i > left[u]
                      /\ sessions'[i].user = u /\ sessions'[i].phone = phone[u]
                      /\ sessions'[i].verified
  BY DEF MembersAreVerified
<1>1. PICK i \in 1..Len(sessions) :
        /\ i > left[u]
        /\ sessions[i].user = u /\ sessions[i].phone = phone[u] /\ sessions[i].verified
  BY DEF MembersAreVerified
<1>2. i \in 1..Len(sessions')
  BY DEF RowsKept, TypeOK
<1> QED BY <1>1, <1>2 DEF RowsKept

(* A step of call c that leaves the rows of line_users alone.                  *)
LEMMA StepOfCall ==
  ASSUME LoginInv, NEW c \in Calls, NEW k, CallOK(k, Len(sessions')),
         call' = [call EXCEPT ![c] = k], RowsKept, UNCHANGED <<rows, left>>,
         menu' \in [Users -> BOOLEAN], crossed' \subseteq Users,
         k.pc \in {"wrong", "check", "promote"} =>
           /\ k.session \in 1..Len(sessions)
           /\ sessions[k.session].user = k.user /\ sessions[k.session].phone = k.phone
  PROVE  LoginInv'
<1>1. TypeOK /\ CallsMatch /\ LeftBehind /\ MembersAreVerified
  BY DEF LoginInv
<1>2. UNCHANGED <<type, phone, status>>
  BY DEF rows
<1>3. TypeOK'
  BY <1>1, <1>2, CallsTyped DEF TypeOK
<1>4. CallsMatch'
  BY <1>1, KeepsMatch
<1>5. LeftBehind'
  BY <1>1, KeepsLeft
<1>6. MembersAreVerified'
  BY <1>1, <1>2, KeepsMembers
<1> QED BY <1>3, <1>4, <1>5, <1>6 DEF LoginInv

LEMMA SameRows ==
  ASSUME TypeOK, sessions' = sessions
  PROVE  RowsKept
BY DEF TypeOK, RowsKept

(* The call returns. *)
LEMMA StepReturns ==
  ASSUME LoginInv, NEW c \in Calls, Return(c), RowsKept, UNCHANGED <<rows, left>>,
         menu' \in [Users -> BOOLEAN], crossed' \subseteq Users
  PROVE  LoginInv'
<1>1. Len(sessions') \in Nat
  BY DEF RowsKept
<1>2. CallOK(Free, Len(sessions')) /\ Free.pc = "idle"
  BY <1>1, FreeOK DEF Free, CallAt
<1>3. call' = [call EXCEPT ![c] = Free]
  BY DEF Return
<1> QED BY <1>2, <1>3, StepOfCall

(* The call goes on, at a point that has no session or with the session it has. *)
LEMMA StepContinues ==
  ASSUME LoginInv, NEW c \in Calls, NEW pc \in CallPc, Continue(c, pc), call[c].pc # "idle",
         pc \notin {"wrong", "check"},
         pc \notin {"idle", "revert", "unlink"} => call[c].phone \in Phones,
         pc = "promote" => call[c].pc = "check",
         RowsKept, UNCHANGED <<rows, left>>,
         menu' \in [Users -> BOOLEAN], crossed' \subseteq Users
  PROVE  LoginInv'
<1> DEFINE k == CallAt(pc, call[c].user, call[c].phone, call[c].right,
                       call[c].session, call[c].wasMember)
<1>1. TypeOK /\ CallsMatch
  BY DEF LoginInv
<1>2. pc = "promote" => call[c].session \in 1..Len(sessions)
  BY <1>1 DEF TypeOK
<1>3. CallOK(k, Len(sessions))
  BY <1>1, <1>2, ContinueOK
<1>4. CallOK(k, Len(sessions'))
  BY <1>1, <1>3 DEF RowsKept, CallOK, TypeOK
<1>5. k.pc = pc /\ k.session = call[c].session /\ k.user = call[c].user /\ k.phone = call[c].phone
  BY DEF CallAt
<1>6. pc = "promote" => CallSession(c).user = call[c].user /\ CallSession(c).phone = call[c].phone
  BY <1>1 DEF CallsMatch
<1>7. call' = [call EXCEPT ![c] = k]
  BY DEF Continue
<1> HIDE DEF k
<1> QED BY <1>2, <1>4, <1>5, <1>6, <1>7, StepOfCall DEF CallSession

-----------------------------------------------------------------------------
(* The steps. *)

LEMMA RequestSteps ==
  ASSUME LoginInv, NEW c \in Calls,
         RequestOtp(c) \/ RequestOwner(c) \/ ExpireOld(c) \/ CreateSession(c)
  PROVE  LoginInv'
<1>t. TypeOK
  BY DEF LoginInv
<1>1. CASE RequestOtp(c)
  <2>1. PICK u \in Users, p \in Phones :
          call' = [call EXCEPT ![c] = CallAt("owner", u, p, FALSE, 0, FALSE)]
    BY <1>1 DEF RequestOtp
  <2>2. UNCHANGED <<rows, sessions, menu, history>>
    BY <1>1 DEF RequestOtp
  <2> DEFINE k == CallAt("owner", u, p, FALSE, 0, FALSE)
  <2>3. CallOK(k, Len(sessions')) /\ k.pc = "owner"
    BY DEF CallOK, CallAt, CallPc
  <2>4. RowsKept
    BY <1>t, <2>2, SameRows
  <2> HIDE DEF k
  <2> QED BY <1>t, <2>1, <2>2, <2>3, <2>4, StepOfCall DEF history, TypeOK, k
<1>2. CASE RequestOwner(c)
  <2>1. RowsKept /\ UNCHANGED <<rows, left, menu, crossed>> /\ call[c].pc = "owner"
    BY <1>t, <1>2, SameRows DEF RequestOwner, history
  <2>2. Return(c) \/ Continue(c, "expire")
    BY <1>2 DEF RequestOwner
  <2> QED BY <1>t, <2>1, <2>2, StepReturns, StepContinues DEF CallPc, TypeOK
<1>3. CASE ExpireOld(c)
  <2>1. UNCHANGED <<rows, left, menu, crossed>> /\ call[c].pc = "expire" /\ Continue(c, "create")
    BY <1>3 DEF ExpireOld, history
  <2>2. RowsKept
    <3> DEFINE new(i) == IF /\ sessions[i].user = call[c].user /\ sessions[i].state = "open"
                            /\ ~ sessions[i].verified
                           THEN [sessions[i] EXCEPT !.state = "expired"] ELSE sessions[i]
    <3>1. sessions' = [i \in 1..Len(sessions) |-> new(i)]
      BY <1>3 DEF ExpireOld
    <3>2. sessions \in Seq(Session)
      BY <1>t DEF TypeOK
    <3>3. \A i \in 1..Len(sessions) : sessions[i] \in Session
      BY <3>2
    <3>4. \A i \in 1..Len(sessions) :
            /\ new(i) \in Session /\ new(i).user = sessions[i].user
            /\ new(i).phone = sessions[i].phone /\ new(i).verified = sessions[i].verified
            /\ sessions[i].state = "deleted" => new(i).state = "deleted"
      BY <3>3 DEF Session, SessionState
    <3> HIDE DEF new
    <3>5. sessions' = [i \in 1..Len(sessions) |-> sessions'[i]]
      BY <3>1
    <3>6. \A i \in 1..Len(sessions) : sessions'[i] = new(i)
      BY <3>1
    <3>7. sessions' \in Seq(Session) /\ Len(sessions') = Len(sessions)
      BY <3>2, <3>4, <3>5, <3>6, ChangedRows
    <3> QED BY <3>2, <3>4, <3>6, <3>7 DEF RowsKept
  <2> QED BY <1>t, <2>1, <2>2, StepContinues DEF CallPc, TypeOK
<1>4. CASE CreateSession(c)
  <2>1. UNCHANGED <<rows, left, menu, crossed>> /\ call[c].pc = "create" /\ Return(c)
    BY <1>4 DEF CreateSession, history
  <2> DEFINE s == [user |-> call[c].user, phone |-> call[c].phone,
                   attempts |-> 0, verified |-> FALSE, state |-> "open"]
  <2>2. s \in Session
    BY <1>t, <2>1 DEF TypeOK, Session, SessionState
  <2>3. sessions' = Append(sessions, s)
    BY <1>4 DEF CreateSession
  <2> HIDE DEF s
  <2>4. RowsKept
    BY <1>t, <2>2, <2>3 DEF RowsKept, TypeOK
  <2> QED BY <1>t, <2>1, <2>4, StepReturns DEF TypeOK
<1> QED BY <1>1, <1>2, <1>3, <1>4

(* A step that changes one row, or none. *)
LEMMA OneRow ==
  ASSUME TypeOK, NEW i \in 1..Len(sessions), NEW s \in Session,
         sessions' = [sessions EXCEPT ![i] = s],
         s.user = sessions[i].user, s.phone = sessions[i].phone,
         sessions[i].verified => s.verified,
         sessions[i].state = "deleted" => s.state = "deleted"
  PROVE  RowsKept
<1>1. sessions \in Seq(Session)
  BY DEF TypeOK
<1>2. sessions' \in Seq(Session) /\ Len(sessions') = Len(sessions)
  BY <1>1
<1>3. \A j \in 1..Len(sessions) : sessions'[j] = IF j = i THEN s ELSE sessions[j]
  BY <1>1
<1> QED BY <1>1, <1>2, <1>3 DEF RowsKept

LEMMA VerifySteps ==
  ASSUME LoginInv, NEW c \in Calls,
         VerifyOtp(c) \/ FindSession(c) \/ WrongCode(c) \/ VerifyOwner(c) \/ LinkMenu(c)
  PROVE  LoginInv'
<1>t. TypeOK
  BY DEF LoginInv
<1>1. CASE VerifyOtp(c)
  <2>1. PICK u \in Users, p \in Phones, right \in BOOLEAN :
          call' = [call EXCEPT ![c] = CallAt("find", u, p, right, 0, FALSE)]
    BY <1>1 DEF VerifyOtp
  <2>2. UNCHANGED <<rows, sessions, menu, history>>
    BY <1>1 DEF VerifyOtp
  <2> DEFINE k == CallAt("find", u, p, right, 0, FALSE)
  <2>3. CallOK(k, Len(sessions')) /\ k.pc = "find"
    BY DEF CallOK, CallAt, CallPc
  <2>4. RowsKept
    BY <1>t, <2>2, SameRows
  <2> HIDE DEF k
  <2> QED BY <1>t, <2>1, <2>2, <2>3, <2>4, StepOfCall DEF history, TypeOK, k
<1>2. CASE FindSession(c)
  <2>1. RowsKept /\ UNCHANGED <<rows, left, menu, crossed, sessions>> /\ call[c].pc = "find"
    BY <1>t, <1>2, SameRows DEF FindSession, history
  <2>2. CASE Return(c)
    BY <1>t, <2>1, <2>2, StepReturns DEF TypeOK
  <2>3. CASE ~ Return(c)
    <3>1. PICK i \in Unverified(call[c].user, call[c].phone) :
            call' = [call EXCEPT ![c] =
              CallAt(IF call[c].right THEN "check" ELSE "wrong", call[c].user,
                     call[c].phone, call[c].right, i, FALSE)]
      BY <1>2, <2>3 DEF FindSession
    <3> DEFINE k == CallAt(IF call[c].right THEN "check" ELSE "wrong", call[c].user,
                           call[c].phone, call[c].right, i, FALSE)
    <3>2. /\ i \in 1..Len(sessions)
          /\ sessions[i].user = call[c].user /\ sessions[i].phone = call[c].phone
      BY <3>1 DEF Unverified
    <3>3. /\ call[c].user \in Users /\ call[c].phone \in Phones /\ call[c].right \in BOOLEAN
          /\ sessions' = sessions /\ Len(sessions) \in Nat
      <4>1. call[c] \in [pc : CallPc, user : Users \cup {NoUser}, phone : Phones \cup {NoPhone},
                        right : BOOLEAN, session : Nat, wasMember : BOOLEAN]
        BY <1>t DEF TypeOK
      <4>2. call[c].user \in Users /\ call[c].phone \in Phones /\ Len(sessions) \in Nat
        BY <1>t, <2>1 DEF TypeOK
      <4> QED BY <2>1, <4>1, <4>2
    <3>4. CallOK(k, Len(sessions')) /\ k.session = i /\ k.user = call[c].user
                                   /\ k.phone = call[c].phone
      BY <3>2, <3>3 DEF CallOK, CallAt, CallPc
    <3>5. call' = [call EXCEPT ![c] = k]
      BY <3>1
    <3> HIDE DEF k
    <3> QED BY <1>t, <2>1, <3>2, <3>4, <3>5, StepOfCall DEF TypeOK
  <2> QED BY <2>2, <2>3
<1>3. CASE WrongCode(c)
  <2> DEFINE i == call[c].session
  <2>1. UNCHANGED <<rows, left, menu, crossed>> /\ call[c].pc = "wrong" /\ Return(c)
    BY <1>3 DEF WrongCode, history
  <2>2. i \in 1..Len(sessions) /\ sessions[i] \in Session
    BY <1>t, <2>1 DEF TypeOK
  <2>3. RowsKept
    <3> DEFINE s == [sessions[i] EXCEPT !.attempts = @ + 1]
    <3>1. s \in Session /\ s.user = sessions[i].user /\ s.phone = sessions[i].phone
          /\ s.verified = sessions[i].verified /\ s.state = sessions[i].state
      BY <2>2 DEF Session
    <3>2. sessions' = sessions \/ sessions' = [sessions EXCEPT ![i] = s]
      BY <1>3, <2>2 DEF WrongCode, Session
    <3> HIDE DEF s, i
    <3> QED BY <1>t, <2>2, <3>1, <3>2, SameRows, OneRow
  <2> QED BY <1>t, <2>1, <2>3, StepReturns DEF TypeOK
<1>4. CASE VerifyOwner(c)
  <2>1. RowsKept /\ UNCHANGED <<rows, left, menu, crossed>> /\ call[c].pc = "check"
    BY <1>t, <1>4, SameRows DEF VerifyOwner, history
  <2>2. Return(c) \/ Continue(c, "promote")
    BY <1>4 DEF VerifyOwner
  <2> QED BY <1>t, <2>1, <2>2, StepReturns, StepContinues DEF CallPc, TypeOK
<1>5. CASE LinkMenu(c)
  <2>1. RowsKept /\ UNCHANGED <<rows, left>> /\ Return(c)
    BY <1>t, <1>5, SameRows DEF LinkMenu
  <2>2. call[c].user \in Users
    BY <1>t, <1>5 DEF LinkMenu, TypeOK
  <2>3. menu' \in [Users -> BOOLEAN] /\ crossed' \subseteq Users
    BY <1>t, <1>5, <2>2 DEF LinkMenu, TypeOK
  <2> QED BY <2>1, <2>3, StepReturns
<1> QED BY <1>1, <1>2, <1>3, <1>4, <1>5

(* The promotion: the user becomes a Member with the phone of a session that    *)
(* is his, was just verified, and is younger than his last unfollow.            *)
LEMMA PromoteStep ==
  ASSUME LoginInv, NEW c \in Calls, Promote(c)
  PROVE  LoginInv'
<1> DEFINE u == call[c].user  p == call[c].phone  i == call[c].session
<1>t. TypeOK /\ CallsMatch /\ LeftBehind /\ MembersAreVerified
  BY DEF LoginInv
<1>1. call[c].pc = "promote" /\ UNCHANGED <<status, menu, left>>
  BY DEF Promote
<1>2. /\ u \in Users /\ p \in Phones /\ i \in 1..Len(sessions) /\ sessions[i] \in Session
      /\ sessions[i].user = u /\ sessions[i].phone = p
  <2>1. u \in Users /\ p \in Phones /\ i \in 1..Len(sessions)
    BY <1>t, <1>1 DEF TypeOK
  <2>2. CallSession(c).user = u /\ CallSession(c).phone = p
    BY <1>t, <1>1 DEF CallsMatch
  <2>3. sessions \in Seq(Session)
    BY <1>t DEF TypeOK
  <2> HIDE DEF u, p
  <2> QED BY <2>1, <2>2, <2>3 DEF CallSession
<1>3. CASE ~ Commits(i, p, u)
  <2>1. Return(c) /\ UNCHANGED <<type, phone, sessions, crossed>>
    BY <1>3 DEF Promote
  <2>2. RowsKept /\ UNCHANGED rows
    BY <1>t, <1>1, <2>1, SameRows DEF rows
  <2> QED BY <1>t, <1>1, <2>1, <2>2, StepReturns DEF TypeOK
<1>4. CASE Commits(i, p, u)
  <2>1. /\ sessions' = [sessions EXCEPT ![i].verified = TRUE]
        /\ type' = [type EXCEPT ![u] = "Member"] /\ phone' = [phone EXCEPT ![u] = p]
        /\ crossed' \in {crossed, crossed \cup {u}} /\ Continue(c, "link")
        /\ sessions[i].state # "deleted"
    BY <1>4 DEF Promote, Commits
  <2> DEFINE s == [sessions[i] EXCEPT !.verified = TRUE]
             k == CallAt("link", u, p, call[c].right, i, call[c].wasMember)
  <2>2. s \in Session /\ s.user = u /\ s.phone = p /\ s.verified /\ s.state = sessions[i].state
    BY <1>2 DEF Session
  <2>3. sessions' = [sessions EXCEPT ![i] = s]
    BY <2>1
  <2>4. sessions'[i] = s
    <3>1. sessions \in Seq(Session)
      BY <1>t DEF TypeOK
    <3> HIDE DEF s, i
    <3> QED BY <1>2, <2>3, <3>1
  <2>k. CallOK(k, Len(sessions)) /\ call' = [call EXCEPT ![c] = k] /\ k.pc = "link"
    BY <1>t, <1>1, <1>2, <2>1, ContinueOK DEF Continue, CallPc, CallAt
  <2> HIDE DEF s, k
  <2>5. RowsKept
    BY <1>t, <1>2, <2>2, <2>3, OneRow
  <2>6. CallOK(k, Len(sessions'))
    BY <1>t, <2>k, <2>5 DEF CallOK, RowsKept, TypeOK
  <2>7. TypeOK'
    <3> HIDE DEF u, p, i
    <3> QED BY <1>t, <1>1, <1>2, <2>1, <2>5, <2>6, <2>k, CallsTyped DEF TypeOK
  <2>8. CallsMatch'
    BY <1>t, <2>5, <2>k, KeepsMatch
  <2>9. LeftBehind'
    BY <1>t, <1>1, <2>5, KeepsLeft
  <2>10. MembersAreVerified'
    <3> SUFFICES ASSUME NEW v \in Users, type'[v] = "Member"
                 PROVE  \E j \in 1..Len(sessions') :
                          /\ j > left[v]
                          /\ sessions'[j].user = v /\ sessions'[j].phone = phone'[v]
                          /\ sessions'[j].verified
      BY <1>1 DEF MembersAreVerified
    <3> HIDE DEF u, p, i
    <3>1. CASE v = u
      <4>1. i \in 1..Len(sessions')
        BY <1>t, <1>2, <2>5 DEF RowsKept, TypeOK
      <4>2. i > left[u]
        BY <1>t, <1>2, <2>1 DEF LeftBehind
      <4>3. phone'[u] = p
        BY <1>t, <1>2, <2>1 DEF TypeOK
      <4> QED BY <2>2, <2>4, <3>1, <4>1, <4>2, <4>3
    <3>2. CASE v # u
      <4>1. type[v] = "Member" /\ phone'[v] = phone[v]
        BY <1>t, <2>1, <3>2 DEF TypeOK
      <4>2. PICK j \in 1..Len(sessions) :
              /\ j > left[v]
              /\ sessions[j].user = v /\ sessions[j].phone = phone[v] /\ sessions[j].verified
        BY <1>t, <4>1 DEF MembersAreVerified
      <4>3. j \in 1..Len(sessions')
        BY <1>t, <2>5 DEF RowsKept, TypeOK
      <4> QED BY <2>5, <4>1, <4>2, <4>3 DEF RowsKept
    <3> QED BY <3>1, <3>2
  <2> QED BY <2>7, <2>8, <2>9, <2>10 DEF LoginInv
<1> QED BY <1>3, <1>4

(* The unfollow: the sessions of the user are deleted, the ones that stay are    *)
(* other users'.                                                               *)
LEMMA RevertStep ==
  ASSUME LoginInv, NEW c \in Calls, Revert(c)
  PROVE  LoginInv'
<1> DEFINE u == call[c].user
<1>t. TypeOK /\ CallsMatch /\ LeftBehind /\ MembersAreVerified
  BY DEF LoginInv
<1>s. sessions \in Seq(Session) /\ Len(sessions) \in Nat
  BY <1>t DEF TypeOK
<1>1. /\ call[c].pc = "revert" /\ sessions' = Without(u)
      /\ type' = [type EXCEPT ![u] = "Guest"] /\ phone' = [phone EXCEPT ![u] = NoPhone]
      /\ status' = [status EXCEPT ![u] = "blocked"]
      /\ left' = [left EXCEPT ![u] = Len(sessions)] /\ UNCHANGED <<menu, crossed>>
  BY DEF Revert
<1>2. u \in Users
  BY <1>t, <1>1 DEF TypeOK
<1>3. /\ sessions' \in Seq(Session) /\ Len(sessions') = Len(sessions)
      /\ \A i \in 1..Len(sessions) :
           sessions'[i] = IF sessions[i].user = u THEN [sessions[i] EXCEPT !.state = "deleted"]
                          ELSE sessions[i]
  <2> DEFINE new(i) == IF sessions[i].user = u THEN [sessions[i] EXCEPT !.state = "deleted"]
                       ELSE sessions[i]
  <2>1. sessions' = [i \in 1..Len(sessions) |-> new(i)]
    BY <1>1 DEF Without
  <2>2. \A i \in 1..Len(sessions) : new(i) \in Session
    <3>1. \A i \in 1..Len(sessions) : sessions[i] \in Session
      BY <1>s
    <3> QED BY <3>1 DEF Session, SessionState
  <2> HIDE DEF new
  <2>3. /\ sessions' = [i \in 1..Len(sessions) |-> sessions'[i]]
        /\ \A i \in 1..Len(sessions) : sessions'[i] = new(i)
    BY <2>1
  <2>4. sessions' \in Seq(Session) /\ Len(sessions') = Len(sessions)
    BY <1>s, <2>2, <2>3, ChangedRows
  <2> QED BY <2>3, <2>4 DEF new
<1> HIDE DEF u
<1>4. \A i \in 1..Len(sessions) :
        /\ sessions'[i].user = sessions[i].user /\ sessions'[i].phone = sessions[i].phone
        /\ sessions'[i].verified = sessions[i].verified
        /\ sessions[i].user = u => sessions'[i].state = "deleted"
        /\ sessions[i].user # u => sessions'[i].state = sessions[i].state
  <2>1. \A i \in 1..Len(sessions) : sessions[i] \in Session
    BY <1>s
  <2> QED BY <1>3, <2>1 DEF Session
<1>5. \A i \in 1..Len(sessions) : sessions[i].state = "deleted" => sessions'[i].state = "deleted"
  BY <1>4
<1>6. RowsKept
  BY <1>s, <1>3, <1>4, <1>5 DEF RowsKept
<1>7. PICK k : /\ CallOK(k, Len(sessions')) /\ call' = [call EXCEPT ![c] = k]
               /\ k.pc \in {"idle", "unlink"}
  <2>1. CASE Return(c)
    <3>1. CallOK(Free, Len(sessions')) /\ Free.pc = "idle"
      BY <1>s, <1>3, FreeOK DEF Free, CallAt
    <3> QED BY <2>1, <3>1 DEF Return
  <2>2. CASE ~ Return(c)
    <3>1. Continue(c, "unlink")
      BY <2>2 DEF Revert, AfterRevert
    <3> DEFINE k == CallAt("unlink", call[c].user, call[c].phone, call[c].right,
                           call[c].session, call[c].wasMember)
    <3>2. CallOK(k, Len(sessions)) /\ k.pc = "unlink"
      BY <1>t, <1>1, ContinueOK DEF CallPc, CallAt
    <3>3. call' = [call EXCEPT ![c] = k]
      BY <3>1 DEF Continue
    <3> HIDE DEF k
    <3> QED BY <1>3, <3>2, <3>3
  <2> QED BY <2>1, <2>2
<1>8. TypeOK'
  BY <1>t, <1>s, <1>1, <1>2, <1>6, <1>7, CallsTyped DEF TypeOK
<1>9. CallsMatch'
  BY <1>t, <1>6, <1>7, KeepsMatch
<1>10. LeftBehind'
  <2>1. ASSUME NEW i \in 1..Len(sessions'), sessions'[i].state # "deleted"
        PROVE  i > left'[sessions'[i].user]
    <3>1. sessions[i].user # u /\ sessions[i].state # "deleted"
      BY <1>3, <1>4, <1>5, <2>1
    <3>2. left'[sessions'[i].user] = left[sessions[i].user]
      BY <1>t, <1>s, <1>1, <1>3, <1>4, <3>1 DEF TypeOK
    <3> QED BY <1>t, <1>3, <3>1, <3>2 DEF LeftBehind
  <2>2. \A v \in Users : left'[v] <= Len(sessions')
    BY <1>t, <1>s, <1>1, <1>2, <1>3 DEF LeftBehind, TypeOK
  <2> QED BY <2>1, <2>2 DEF LeftBehind
<1>11. MembersAreVerified'
  <2> SUFFICES ASSUME NEW v \in Users, type'[v] = "Member"
               PROVE  \E j \in 1..Len(sessions') :
                        /\ j > left'[v]
                        /\ sessions'[j].user = v /\ sessions'[j].phone = phone'[v]
                        /\ sessions'[j].verified
    BY DEF MembersAreVerified
  <2>1. v # u /\ type[v] = "Member" /\ phone'[v] = phone[v] /\ left'[v] = left[v]
    BY <1>t, <1>1, <1>2 DEF TypeOK
  <2>2. PICK j \in 1..Len(sessions) :
          /\ j > left[v]
          /\ sessions[j].user = v /\ sessions[j].phone = phone[v] /\ sessions[j].verified
    BY <1>t, <2>1 DEF MembersAreVerified
  <2> QED BY <1>3, <1>4, <2>1, <2>2
<1> QED BY <1>8, <1>9, <1>10, <1>11 DEF LoginInv

LEMMA WebhookSteps ==
  ASSUME LoginInv, NEW c \in Calls, Unfollow(c) \/ UnlinkMenu(c)
  PROVE  LoginInv'
<1>t. TypeOK
  BY DEF LoginInv
<1>1. CASE Unfollow(c)
  <2>1. PICK u \in Users :
          call' = [call EXCEPT ![c] = CallAt("revert", u, NoPhone, FALSE, 0, type[u] = "Member")]
    BY <1>1 DEF Unfollow
  <2>2. UNCHANGED <<rows, sessions, menu, history>>
    BY <1>1 DEF Unfollow
  <2> DEFINE k == CallAt("revert", u, NoPhone, FALSE, 0, type[u] = "Member")
  <2>3. CallOK(k, Len(sessions')) /\ k.pc = "revert"
    BY DEF CallOK, CallAt, CallPc
  <2>4. RowsKept
    BY <1>t, <2>2, SameRows
  <2> HIDE DEF k
  <2> QED BY <1>t, <2>1, <2>2, <2>3, <2>4, StepOfCall DEF history, TypeOK, k
<1>2. CASE UnlinkMenu(c)
  <2>1. RowsKept /\ UNCHANGED <<rows, left>> /\ Return(c)
    BY <1>t, <1>2, SameRows DEF UnlinkMenu
  <2>2. call[c].user \in Users
    BY <1>t, <1>2 DEF UnlinkMenu, TypeOK
  <2>3. menu' \in [Users -> BOOLEAN] /\ crossed' \subseteq Users
    BY <1>t, <1>2, <2>2 DEF UnlinkMenu, TypeOK
  <2> QED BY <2>1, <2>3, StepReturns
<1> QED BY <1>1, <1>2

(* Follow(), the expiry of a session and a crash.                              *)
LEMMA OtherSteps ==
  ASSUME LoginInv, (\E u \in Users : Follow(u)) \/ TimeToLiveEnds \/ Crash \/ UNCHANGED vars
  PROVE  LoginInv'
<1>t. TypeOK /\ CallsMatch /\ LeftBehind /\ MembersAreVerified
  BY DEF LoginInv
<1>1. CASE \E u \in Users : Follow(u)
  BY <1>t, <1>1 DEF Follow, history, LoginInv, TypeOK, CallsMatch, CallSession, LeftBehind,
     MembersAreVerified
<1>2. CASE TimeToLiveEnds
  <2>1. PICK i \in 1..Len(sessions) :
          /\ sessions[i].state = "open"
          /\ sessions' = [sessions EXCEPT ![i].state = "expired"]
    BY <1>2 DEF TimeToLiveEnds
  <2>2. UNCHANGED <<rows, menu, call, history>>
    BY <1>2 DEF TimeToLiveEnds
  <2>3. RowsKept
    <3> DEFINE s == [sessions[i] EXCEPT !.state = "expired"]
    <3>1. sessions[i] \in Session
      BY <1>t DEF TypeOK
    <3>2. /\ s \in Session /\ s.user = sessions[i].user /\ s.phone = sessions[i].phone
          /\ s.verified = sessions[i].verified
      BY <3>1 DEF Session, SessionState
    <3>3. sessions' = [sessions EXCEPT ![i] = s]
      BY <2>1
    <3> HIDE DEF s
    <3> QED BY <1>t, <2>1, <3>2, <3>3, OneRow
  <2>4. TypeOK'
    BY <1>t, <2>2, <2>3 DEF TypeOK, RowsKept, rows, history
  <2>5. CallsMatch'
    BY <1>t, <2>2, <2>3 DEF TypeOK, RowsKept, CallsMatch, CallSession
  <2>6. LeftBehind' /\ MembersAreVerified'
    BY <1>t, <2>2, <2>3, KeepsLeft, KeepsMembers DEF rows, history
  <2> QED BY <2>4, <2>5, <2>6 DEF LoginInv
<1>3. CASE Crash
  <2>1. /\ call' = [c \in Calls |-> Free] /\ UNCHANGED <<rows, sessions, menu, left>>
        /\ crossed' = crossed \cup {call[c].user : c \in {d \in Calls : call[d].pc = "unlink"}}
    BY <1>3 DEF Crash
  <2>2. crossed' \subseteq Users
    BY <1>t, <2>1 DEF TypeOK
  <2>3. Free.pc = "idle" /\ CallOK(Free, Len(sessions))
    <3>1. Len(sessions) \in Nat
      BY <1>t DEF TypeOK
    <3> QED BY <3>1, FreeOK DEF Free, CallAt
  <2>4. /\ call' \in [Calls -> [pc : CallPc, user : Users \cup {NoUser},
                               phone : Phones \cup {NoPhone}, right : BOOLEAN,
                               session : Nat, wasMember : BOOLEAN]]
        /\ \A c \in Calls : call'[c].pc = "idle"
    BY <2>1, <2>3 DEF CallOK
  <2>5. TypeOK'
    BY <1>t, <2>1, <2>2, <2>4 DEF TypeOK, rows
  <2>6. CallsMatch' /\ LeftBehind' /\ MembersAreVerified'
    BY <1>t, <2>1, <2>4 DEF CallsMatch, LeftBehind, MembersAreVerified, rows
  <2> QED BY <2>5, <2>6 DEF LoginInv
<1>4. CASE UNCHANGED vars
  BY <1>t, <1>4 DEF vars, rows, history, LoginInv, TypeOK, CallsMatch, CallSession, LeftBehind,
     MembersAreVerified
<1> QED BY <1>1, <1>2, <1>3, <1>4

LEMMA StepLogin ==
  ASSUME LoginInv, [Next]_vars
  PROVE  LoginInv'
<1>1. CASE \E c \in Calls : CallStep(c)
  <2>1. PICK c \in Calls : CallStep(c)
    BY <1>1
  <2> QED BY <2>1, RequestSteps, VerifySteps, PromoteStep, RevertStep, WebhookSteps DEF CallStep
<1>2. CASE ~ \E c \in Calls : CallStep(c)
  BY <1>2, OtherSteps DEF Next
<1> QED BY <1>1, <1>2

-----------------------------------------------------------------------------
(* The theorems. *)

(* Every reachable state is well typed: a call in flight knows its user, its     *)
(* phone and a session that there is.                                          *)
THEOREM LoginTypeCorrect == Spec => []TypeOK
<1>1. LoginInv => TypeOK
  BY DEF LoginInv
<1> QED BY <1>1, InitLogin, StepLogin, PTL DEF Spec

(* A Member holds the phone of a session that he verified after he last left,    *)
(* for every number of users, phones, overlapping calls and sessions.          *)
THEOREM LoginVerified == Spec => []MembersAreVerified
<1>1. LoginInv => MembersAreVerified
  BY DEF LoginInv
<1> QED BY <1>1, InitLogin, StepLogin, PTL DEF Spec

(* Every step is a step of the phone book or leaves it alone. *)
LEMMA StepBook ==
  ASSUME LoginInv, [Next]_vars
  PROVE  [Book!Next]_phone
<1>t. TypeOK
  BY DEF LoginInv
<1>1. ASSUME NEW c \in Calls, Promote(c)
      PROVE  [Book!Next]_phone
  <2>1. call[c].user \in Users /\ call[c].phone \in Phones
    BY <1>t, <1>1 DEF Promote, TypeOK
  <2>2. CASE phone' # phone
    BY <1>1, <2>1, <2>2 DEF Promote, Commits, OwnedByOther, Book!Next, Book!Join, Book!Free
  <2> QED BY <2>2
<1>2. ASSUME NEW c \in Calls, Revert(c)
      PROVE  [Book!Next]_phone
  <2>1. call[c].user \in Users
    BY <1>t, <1>2 DEF Revert, TypeOK
  <2> QED BY <1>2, <2>1 DEF Revert, Book!Next, Book!Leave
<1>3. ASSUME NEW c \in Calls, CallStep(c), ~ Promote(c), ~ Revert(c)
      PROVE  phone' = phone
  BY <1>3 DEF CallStep, RequestOtp, RequestOwner, ExpireOld, CreateSession, VerifyOtp,
     FindSession, WrongCode, VerifyOwner, LinkMenu, Unfollow, UnlinkMenu, rows
<1>4. CASE (\E u \in Users : Follow(u)) \/ TimeToLiveEnds \/ Crash \/ UNCHANGED vars
  BY <1>4 DEF Follow, TimeToLiveEnds, Crash, vars, rows
<1> QED BY <1>1, <1>2, <1>3, <1>4 DEF Next

(* Member login implements the phone book: whatever calls overlap, no step       *)
(* gives a user a phone that somebody else has.                                *)
THEOREM ImplementsPhoneBook == Spec => KeepsPhoneBook
<1>1. Init => Book!Init
  BY DEF Init, Book!Init
<1> QED BY <1>1, InitLogin, StepLogin, StepBook, PTL DEF Spec, KeepsPhoneBook, Book!Spec

(* A phone has one owner: what the phone book gives to member login, whose      *)
(* checks of the owner are awaited long before the phone is written.           *)
OneOwner == \A u, o \in Users : u # o /\ phone[u] = phone[o] => phone[u] = NoPhone

Owned == DOMAIN phone = Users /\ OneOwner

THEOREM PhonesHaveOneOwner == Spec => []OneOwner
<1>1. Book!Init => Owned
  BY DEF Book!Init, Owned, OneOwner
<1>2. Owned /\ [Book!Next]_phone => Owned'
  <2> SUFFICES ASSUME Owned, [Book!Next]_phone PROVE Owned'
    OBVIOUS
  <2>1. ASSUME NEW u \in Users, NEW p \in Phones, Book!Join(u, p) PROVE Owned'
    BY <2>1 DEF Book!Join, Book!Free, Owned, OneOwner
  <2>2. ASSUME NEW u \in Users, Book!Leave(u) PROVE Owned'
    BY <2>2 DEF Book!Leave, Owned, OneOwner
  <2>3. CASE UNCHANGED phone
    BY <2>3 DEF Owned, OneOwner
  <2> QED BY <2>1, <2>2, <2>3 DEF Book!Next
<1>3. Owned => OneOwner
  BY DEF Owned
<1> QED BY <1>1, <1>2, <1>3, ImplementsPhoneBook, PTL DEF KeepsPhoneBook, Book!Spec

-----------------------------------------------------------------------------
(* The member rich menu of a Guest. *)

(* An unfollow webhook that has read its user as a Guest's, and whose user has   *)
(* become a Member since, is one of the recorded races.                        *)
LeavesKnown ==
  \A c \in Calls : call[c].pc = "revert" /\ ~ call[c].wasMember /\ type[call[c].user] = "Member"
                     => call[c].user \in crossed

MenusExplained == GuestMenusHaveACause /\ LeavesKnown

LEMMA OthersStay ==
  ASSUME TypeOK, NEW c \in Calls, NEW k, call' = [call EXCEPT ![c] = k]
  PROVE  call'[c] = k /\ \A d \in Calls \ {c} : call'[d] = call[d]
BY DEF TypeOK

(* A call that does not unlink ends, or goes on without reading the user. *)
LEMMA QuietCall ==
  ASSUME TypeOK, MenusExplained, NEW c \in Calls, call[c].pc # "unlink", call'[c].pc # "revert",
         \A d \in Calls \ {c} : call'[d] = call[d], UNCHANGED <<type, menu, crossed>>
  PROVE  MenusExplained'
<1>1. GuestMenusHaveACause'
  BY DEF MenusExplained, GuestMenusHaveACause
<1>2. LeavesKnown'
  BY DEF MenusExplained, LeavesKnown
<1> QED BY <1>1, <1>2 DEF MenusExplained

LEMMA QuietSteps ==
  ASSUME TypeOK, MenusExplained, NEW c \in Calls,
         \/ RequestOtp(c) \/ RequestOwner(c) \/ ExpireOld(c) \/ CreateSession(c)
         \/ VerifyOtp(c) \/ FindSession(c) \/ WrongCode(c) \/ VerifyOwner(c)
  PROVE  MenusExplained'
<1>1. UNCHANGED <<type, menu, crossed>> /\ call[c].pc # "unlink"
  BY DEF RequestOtp, RequestOwner, ExpireOld, CreateSession, VerifyOtp, FindSession, WrongCode,
     VerifyOwner, rows, history
<1>2. \E k : call' = [call EXCEPT ![c] = k] /\ k.pc # "revert"
  BY DEF RequestOtp, RequestOwner, ExpireOld, CreateSession, VerifyOtp, FindSession, WrongCode,
     VerifyOwner, Continue, Return, CallAt, Free
<1>3. call'[c].pc # "revert" /\ \A d \in Calls \ {c} : call'[d] = call[d]
  BY <1>2, OthersStay
<1> QED BY <1>1, <1>3, QuietCall

LEMMA PromoteMenus ==
  ASSUME TypeOK, MenusExplained, NEW c \in Calls, Promote(c)
  PROVE  MenusExplained'
<1> DEFINE u == call[c].user
<1>1. /\ call[c].pc = "promote" /\ menu' = menu /\ u \in Users
      /\ \E k : call' = [call EXCEPT ![c] = k] /\ k.pc \in {"idle", "link"}
  BY DEF Promote, Continue, Return, CallAt, Free, TypeOK
<1>2. call'[c].pc \notin {"revert", "unlink"} /\ \A d \in Calls \ {c} : call'[d] = call[d]
  BY <1>1, OthersStay
<1>3. CASE type' = type /\ crossed' = crossed
  BY <1>1, <1>2, <1>3, QuietCall
<1>4. CASE /\ type' = [type EXCEPT ![u] = "Member"]
           /\ crossed' = IF GuestLeaves(u) THEN crossed \cup {u} ELSE crossed
  <2>1. \A v \in Users : type'[v] = IF v = u THEN "Member" ELSE type[v]
    BY <1>4 DEF TypeOK
  <2>2. crossed \subseteq crossed' /\ (GuestLeaves(u) => u \in crossed')
    BY <1>4
  <2> HIDE DEF u
  <2>3. GuestMenusHaveACause'
    BY <1>1, <1>2, <2>1, <2>2 DEF MenusExplained, GuestMenusHaveACause
  <2>4. ASSUME NEW d \in Calls, call'[d].pc = "revert", ~ call'[d].wasMember,
               type'[call'[d].user] = "Member"
        PROVE  call'[d].user \in crossed'
    <3>1. d # c /\ call'[d] = call[d]
      BY <1>2, <2>4
    <3>2. call[d].user \in Users
      BY <2>4, <3>1 DEF TypeOK
    <3>3. CASE call[d].user = u
      BY <2>2, <2>4, <3>1, <3>3 DEF GuestLeaves
    <3>4. CASE call[d].user # u
      BY <2>1, <2>2, <2>4, <3>1, <3>2, <3>4 DEF MenusExplained, LeavesKnown
    <3> QED BY <3>3, <3>4
  <2> QED BY <2>3, <2>4 DEF MenusExplained, LeavesKnown
<1> QED BY <1>3, <1>4 DEF Promote

LEMMA MenuSteps ==
  ASSUME TypeOK, MenusExplained, NEW c \in Calls, LinkMenu(c) \/ UnlinkMenu(c)
  PROVE  MenusExplained'
<1> DEFINE u == call[c].user
<1>1. /\ u \in Users /\ type' = type /\ crossed \subseteq crossed'
      /\ call' = [call EXCEPT ![c] = Free]
  BY DEF LinkMenu, UnlinkMenu, Return, rows, TypeOK
<1>2. call'[c].pc = "idle" /\ \A d \in Calls \ {c} : call'[d] = call[d]
  <2>1. Free.pc = "idle"
    BY DEF Free, CallAt
  <2>2. call'[c] = Free /\ \A d \in Calls \ {c} : call'[d] = call[d]
    BY <1>1, OthersStay
  <2> QED BY <2>1, <2>2
<1>3. LeavesKnown'
  BY <1>1, <1>2 DEF MenusExplained, LeavesKnown
<1>4. \A v \in Users \ {u} : menu'[v] = menu[v]
  BY DEF LinkMenu, UnlinkMenu, TypeOK
<1>5. menu'[u] => u \in crossed' \/ type[u] # "Guest" \/ (menu'[u] = menu[u] /\ call[c].pc # "unlink")
  BY <1>1 DEF LinkMenu, UnlinkMenu, TypeOK
<1>6. ASSUME NEW v \in Users, type'[v] = "Guest", menu'[v]
      PROVE  v \in crossed' \/ \E d \in Calls : call'[d].pc = "unlink" /\ call'[d].user = v
  <2>1. CASE v = u /\ ~ (menu'[u] = menu[u] /\ call[c].pc # "unlink")
    BY <1>1, <1>5, <1>6, <2>1
  <2>2. CASE v # u \/ (menu'[u] = menu[u] /\ call[c].pc # "unlink")
    <3>1. menu[v] /\ type[v] = "Guest"
      BY <1>1, <1>4, <1>6, <2>2
    <3>2. v \in crossed \/ \E d \in Calls : call[d].pc = "unlink" /\ call[d].user = v
      BY <3>1 DEF MenusExplained, GuestMenusHaveACause
    <3> QED BY <1>1, <1>2, <2>2, <3>2
  <2> QED BY <2>1, <2>2
<1> QED BY <1>3, <1>6 DEF MenusExplained, GuestMenusHaveACause

LEMMA LeaveMenus ==
  ASSUME TypeOK, MenusExplained, NEW c \in Calls, Unfollow(c) \/ Revert(c)
  PROVE  MenusExplained'
<1>1. CASE Unfollow(c)
  <2>1. PICK u \in Users :
          call' = [call EXCEPT ![c] = CallAt("revert", u, NoPhone, FALSE, 0, type[u] = "Member")]
    BY <1>1 DEF Unfollow
  <2>2. call[c].pc = "idle" /\ UNCHANGED <<type, menu, crossed>>
    BY <1>1 DEF Unfollow, rows, history
  <2> DEFINE k == CallAt("revert", u, NoPhone, FALSE, 0, type[u] = "Member")
  <2>3. k.user = u /\ k.pc = "revert" /\ (k.wasMember <=> type[u] = "Member")
    BY DEF CallAt
  <2> HIDE DEF k
  <2>4. call'[c] = k /\ \A d \in Calls \ {c} : call'[d] = call[d]
    BY <2>1, OthersStay DEF k
  <2>5. /\ call'[c].user = u /\ (call'[c].wasMember <=> type[u] = "Member")
        /\ \A d \in Calls \ {c} : call'[d] = call[d]
    BY <2>3, <2>4
  <2>6. GuestMenusHaveACause'
    BY <2>2, <2>5 DEF MenusExplained, GuestMenusHaveACause
  <2>7. LeavesKnown'
    BY <2>2, <2>5 DEF MenusExplained, LeavesKnown
  <2> QED BY <2>6, <2>7 DEF MenusExplained
<1>2. CASE Revert(c)
  <2> DEFINE u == call[c].user
  <2>1. /\ u \in Users /\ call[c].pc = "revert" /\ menu' = menu /\ crossed' = crossed
        /\ type' = [type EXCEPT ![u] = "Guest"]
    BY <1>2 DEF Revert, TypeOK
  <2>2. \E k : /\ call' = [call EXCEPT ![c] = k] /\ k.pc # "revert"
               /\ call[c].wasMember => k.pc = "unlink" /\ k.user = u
    <3>1. CASE call[c].wasMember
      <4> DEFINE k == CallAt("unlink", u, call[c].phone, call[c].right, call[c].session,
                             call[c].wasMember)
      <4>1. call' = [call EXCEPT ![c] = k]
        BY <1>2, <3>1 DEF Revert, AfterRevert, Continue
      <4>2. k.pc = "unlink" /\ k.user = u
        BY DEF CallAt
      <4> HIDE DEF k, u
      <4> QED BY <4>1, <4>2
    <3>2. CASE ~ call[c].wasMember
      <4>1. call' = [call EXCEPT ![c] = Free]
        BY <1>2, <3>2 DEF Revert, AfterRevert, Return
      <4>2. Free.pc = "idle"
        BY DEF Free, CallAt
      <4> HIDE DEF u
      <4> QED BY <3>2, <4>1, <4>2
    <3> QED BY <3>1, <3>2
  <2>3. /\ call'[c].pc # "revert" /\ (call[c].wasMember => call'[c].pc = "unlink" /\ call'[c].user = u)
        /\ \A d \in Calls \ {c} : call'[d] = call[d]
    BY <2>2, OthersStay
  <2>4. \A v \in Users : type'[v] = IF v = u THEN "Guest" ELSE type[v]
    BY <2>1 DEF TypeOK
  <2>5. ~ call[c].wasMember /\ type[u] = "Member" => u \in crossed
    BY <2>1 DEF MenusExplained, LeavesKnown
  <2>6. type[u] = "Member" \/ type[u] = "Guest"
    BY <2>1 DEF TypeOK
  <2> HIDE DEF u
  <2>7. GuestMenusHaveACause'
    BY <2>1, <2>3, <2>4, <2>5, <2>6 DEF MenusExplained, GuestMenusHaveACause
  <2>8. ASSUME NEW d \in Calls, call'[d].pc = "revert", ~ call'[d].wasMember,
               type'[call'[d].user] = "Member"
        PROVE  call'[d].user \in crossed'
    <3>1. d # c /\ call'[d] = call[d]
      BY <2>3, <2>8
    <3>2. call[d].user \in Users
      BY <2>8, <3>1 DEF TypeOK
    <3> QED BY <2>1, <2>4, <2>8, <3>1, <3>2 DEF MenusExplained, LeavesKnown
  <2> QED BY <2>7, <2>8 DEF MenusExplained, LeavesKnown
<1> QED BY <1>1, <1>2

LEMMA StepMenus ==
  ASSUME TypeOK, MenusExplained, [Next]_vars
  PROVE  MenusExplained'
<1>1. CASE \E c \in Calls : CallStep(c)
  BY <1>1, QuietSteps, PromoteMenus, MenuSteps, LeaveMenus DEF CallStep
<1>2. CASE UNCHANGED <<type, menu, call, crossed>>
  <2>1. GuestMenusHaveACause'
    BY <1>2 DEF MenusExplained, GuestMenusHaveACause
  <2>2. LeavesKnown'
    BY <1>2 DEF MenusExplained, LeavesKnown
  <2> QED BY <2>1, <2>2 DEF MenusExplained
<1>3. CASE Crash
  <2>1. /\ \A c \in Calls : call'[c].pc = "idle"
        /\ type' = type /\ menu' = menu /\ crossed \subseteq crossed'
        /\ \A c \in Calls : call[c].pc = "unlink" => call[c].user \in crossed'
    BY <1>3 DEF Crash, rows, Free, CallAt
  <2>2. GuestMenusHaveACause'
    BY <2>1 DEF MenusExplained, GuestMenusHaveACause
  <2>3. LeavesKnown'
    BY <2>1 DEF LeavesKnown
  <2> QED BY <2>2, <2>3 DEF MenusExplained
<1> QED BY <1>1, <1>2, <1>3 DEF Next, Follow, TimeToLiveEnds, vars, rows, history

(* A Guest sees the member rich menu only while its unlink is still to come, or  *)
(* after one of the recorded races, failures or crashes.                        *)
THEOREM GuestMenusExplained == Spec => []GuestMenusHaveACause
<1> DEFINE Inv == LoginInv /\ MenusExplained
<1>1. Init => Inv
  BY InitLogin DEF Init, MenusExplained, GuestMenusHaveACause, LeavesKnown, Free, CallAt
<1>2. Inv /\ [Next]_vars => Inv'
  BY StepLogin, StepMenus DEF LoginInv
<1>3. Inv => GuestMenusHaveACause
  BY DEF MenusExplained
<1> HIDE DEF Inv
<1> QED BY <1>1, <1>2, <1>3, PTL DEF Spec

-----------------------------------------------------------------------------
(* Wrong codes. *)

(* The calls that are about to count a wrong code on session i. *)
Trying(i) == {c \in Calls : call[c].pc = "wrong" /\ call[c].session = i}

Bounded(i) == sessions[i].attempts + Cardinality(Trying(i)) <= MaxAttempts + Cardinality(Calls) - 1

LEMMA TryingType ==
  ASSUME NEW i
  PROVE  /\ IsFiniteSet(Trying(i)) /\ Cardinality(Trying(i)) \in Nat
         /\ IsFiniteSet(Trying(i)') /\ Cardinality(Trying(i)') \in Nat
         /\ Cardinality(Calls) \in Nat /\ Cardinality(Trying(i)') <= Cardinality(Calls)
<1>1. Trying(i) \in SUBSET Calls /\ Trying(i)' \in SUBSET Calls
  BY DEF Trying
<1>2. IsFiniteSet(Trying(i)) /\ IsFiniteSet(Trying(i)') /\ Cardinality(Trying(i)') <= Cardinality(Calls)
  BY <1>1, CallsAssumption, FS_Subset
<1> QED BY <1>2, CallsAssumption, FS_CardinalityType

LEMMA RowType ==
  ASSUME TypeOK
  PROVE  \A i \in 1..Len(sessions) : sessions[i] \in Session /\ sessions[i].attempts \in Nat
<1>1. sessions \in Seq(Session)
  BY DEF TypeOK
<1>2. \A i \in 1..Len(sessions) : sessions[i] \in Session
  BY <1>1
<1> QED BY <1>2 DEF Session

(* No session counts a wrong code, and no call more is about to. *)
AttemptsStay ==
  /\ Len(sessions') >= Len(sessions)
  /\ \A i \in 1..Len(sessions') :
       IF i <= Len(sessions) THEN sessions'[i].attempts = sessions[i].attempts
                             ELSE sessions'[i].attempts = 0

LEMMA QuietTries ==
  ASSUME TypeOK, TypeOK', AttemptsBounded, AttemptsStay,
         \A i : Trying(i)' \subseteq Trying(i)
  PROVE  AttemptsBounded'
<1>1. Len(sessions) \in Nat /\ Len(sessions') \in Nat
  BY LenProperties DEF TypeOK
<1>2. ASSUME NEW i \in 1..Len(sessions') PROVE Bounded(i)'
  <2>1. Cardinality(Trying(i)') <= Cardinality(Trying(i))
    BY TryingType, FS_Subset
  <2>2. CASE i <= Len(sessions)
    <3>1. i \in 1..Len(sessions) /\ sessions'[i].attempts = sessions[i].attempts
      BY <1>1, <2>2 DEF AttemptsStay
    <3>2. sessions[i].attempts \in Nat
      BY <3>1, RowType
    <3>3. sessions[i].attempts + Cardinality(Trying(i)) <= MaxAttempts + Cardinality(Calls) - 1
      BY <3>1 DEF AttemptsBounded, Trying
    <3>4. sessions'[i].attempts + Cardinality(Trying(i)') <= MaxAttempts + Cardinality(Calls) - 1
      BY <2>1, <3>1, <3>2, <3>3, TryingType, LimitsAssumption
    <3> QED BY <3>4 DEF Bounded
  <2>3. CASE ~ (i <= Len(sessions))
    <3>1. sessions'[i].attempts = 0
      BY <2>3 DEF AttemptsStay
    <3>2. Trying(i) = {}
      BY <1>1, <2>3 DEF Trying, TypeOK
    <3>3. Trying(i)' = {}
      BY <3>2
    <3>4. Cardinality(Trying(i)') = 0
      BY <3>3, FS_EmptySet
    <3>5. sessions'[i].attempts + Cardinality(Trying(i)') <= MaxAttempts + Cardinality(Calls) - 1
      BY <3>1, <3>4, TryingType, LimitsAssumption
    <3> QED BY <3>5 DEF Bounded
  <2> QED BY <2>2, <2>3
<1> QED BY <1>2 DEF AttemptsBounded, Bounded, Trying

LEMMA SameAttempts == sessions' = sessions /\ TypeOK => AttemptsStay
<1> SUFFICES ASSUME sessions' = sessions, TypeOK PROVE AttemptsStay
  OBVIOUS
<1>1. Len(sessions) \in Nat
  BY LenProperties DEF TypeOK
<1> QED BY <1>1 DEF AttemptsStay

(* Rows that change in another column. *)
LEMMA ColumnAttempts ==
  ASSUME TypeOK, sessions' = [i \in 1..Len(sessions) |-> sessions'[i]],
         \A i \in 1..Len(sessions) : sessions'[i].attempts = sessions[i].attempts
  PROVE  AttemptsStay
<1>1. Len(sessions) \in Nat
  BY LenProperties DEF TypeOK
<1>2. Len(sessions') = Len(sessions)
  BY <1>1
<1> QED BY <1>1, <1>2 DEF AttemptsStay

LEMMA RowsAttempts ==
  ASSUME TypeOK,
         \/ TimeToLiveEnds
         \/ \E c \in Calls : ExpireOld(c) \/ CreateSession(c) \/ Promote(c) \/ Revert(c)
  PROVE  AttemptsStay
<1>1. sessions \in Seq(Session) /\ Len(sessions) \in Nat /\ \A i \in 1..Len(sessions) : sessions[i] \in Session
  BY LenProperties DEF TypeOK
<1>2. ASSUME NEW i \in 1..Len(sessions), NEW s, s.attempts = sessions[i].attempts,
             sessions' = [sessions EXCEPT ![i] = s]
      PROVE  AttemptsStay
  <2>1. /\ sessions' = [j \in 1..Len(sessions) |-> sessions'[j]]
        /\ \A j \in 1..Len(sessions) : sessions'[j] = IF j = i THEN s ELSE sessions[j]
    <3>1. DOMAIN sessions = 1..Len(sessions)
      BY <1>1
    <3>2. sessions' = [j \in 1..Len(sessions) |-> IF j = i THEN s ELSE sessions[j]]
      BY <1>2, <3>1
    <3> QED BY <3>2
  <2> QED BY <1>2, <2>1, ColumnAttempts
<1>3. CASE TimeToLiveEnds
  <2>1. PICK i \in 1..Len(sessions) : sessions' = [sessions EXCEPT ![i].state = "expired"]
    BY <1>3 DEF TimeToLiveEnds
  <2> DEFINE s == [sessions[i] EXCEPT !.state = "expired"]
  <2>2. s.attempts = sessions[i].attempts
    BY <1>1 DEF Session
  <2>3. sessions' = [sessions EXCEPT ![i] = s]
    BY <2>1
  <2> HIDE DEF s
  <2> QED BY <1>2, <2>2, <2>3
<1>4. ASSUME NEW c \in Calls, ExpireOld(c) PROVE AttemptsStay
  <2> DEFINE new(i) == IF /\ sessions[i].user = call[c].user /\ sessions[i].state = "open"
                          /\ ~ sessions[i].verified
                         THEN [sessions[i] EXCEPT !.state = "expired"] ELSE sessions[i]
  <2>1. sessions' = [i \in 1..Len(sessions) |-> new(i)]
    BY <1>4 DEF ExpireOld
  <2>2. \A i \in 1..Len(sessions) : new(i).attempts = sessions[i].attempts
    BY <1>1 DEF Session
  <2> HIDE DEF new
  <2>3. /\ sessions' = [i \in 1..Len(sessions) |-> sessions'[i]]
        /\ \A i \in 1..Len(sessions) : sessions'[i] = new(i)
    BY <2>1
  <2> QED BY <2>2, <2>3, ColumnAttempts
<1>5. ASSUME NEW c \in Calls, CreateSession(c) PROVE AttemptsStay
  <2> DEFINE s == [user |-> call[c].user, phone |-> call[c].phone,
                   attempts |-> 0, verified |-> FALSE, state |-> "open"]
  <2>1. sessions' = Append(sessions, s) /\ s.attempts = 0
    BY <1>5 DEF CreateSession
  <2> HIDE DEF s
  <2>2. /\ Len(sessions') = Len(sessions) + 1 /\ sessions'[Len(sessions) + 1] = s
        /\ \A i \in 1..Len(sessions) : sessions'[i] = sessions[i]
    BY <1>1, <2>1
  <2> QED BY <1>1, <2>1, <2>2 DEF AttemptsStay
<1>6. ASSUME NEW c \in Calls, Promote(c) PROVE AttemptsStay
  <2> DEFINE i == call[c].session
             s == [sessions[i] EXCEPT !.verified = TRUE]
  <2>1. sessions' = sessions \/ sessions' = [sessions EXCEPT ![i].verified = TRUE]
    BY <1>6 DEF Promote
  <2>2. i \in 1..Len(sessions)
    BY <1>6 DEF Promote, TypeOK
  <2>3. s.attempts = sessions[i].attempts
    BY <1>1, <2>2 DEF Session
  <2>4. sessions' = sessions \/ sessions' = [sessions EXCEPT ![i] = s]
    BY <2>1
  <2> HIDE DEF s, i
  <2> QED BY <1>2, <2>2, <2>3, <2>4, SameAttempts
<1>7. ASSUME NEW c \in Calls, Revert(c) PROVE AttemptsStay
  <2> DEFINE u == call[c].user
             new(i) == IF sessions[i].user = u THEN [sessions[i] EXCEPT !.state = "deleted"]
                       ELSE sessions[i]
  <2>1. sessions' = [i \in 1..Len(sessions) |-> new(i)]
    BY <1>7 DEF Revert, Without
  <2>2. \A i \in 1..Len(sessions) : new(i).attempts = sessions[i].attempts
    BY <1>1 DEF Session
  <2> HIDE DEF new
  <2>3. /\ sessions' = [i \in 1..Len(sessions) |-> sessions'[i]]
        /\ \A i \in 1..Len(sessions) : sessions'[i] = new(i)
    BY <2>1
  <2> QED BY <2>2, <2>3, ColumnAttempts
<1> QED BY <1>3, <1>4, <1>5, <1>6, <1>7

(* No call but the one that finds a session starts to count on it. *)
LEMMA FewerTries ==
  ASSUME TypeOK, NEW c \in Calls, CallStep(c), ~ FindSession(c)
  PROVE  \A i : Trying(i)' \subseteq Trying(i)
<1>1. \E k : call' = [call EXCEPT ![c] = k] /\ k.pc # "wrong"
  <2>1. Free.pc = "idle"
    BY DEF Free, CallAt
  <2>2. ASSUME NEW pc, Continue(c, pc), pc # "wrong"
        PROVE  \E k : call' = [call EXCEPT ![c] = k] /\ k.pc # "wrong"
    <3> DEFINE k == CallAt(pc, call[c].user, call[c].phone, call[c].right, call[c].session,
                           call[c].wasMember)
    <3>1. call' = [call EXCEPT ![c] = k]
      BY <2>2 DEF Continue
    <3>2. k.pc = pc
      BY DEF CallAt
    <3> HIDE DEF k
    <3> QED BY <2>2, <3>1, <3>2
  <2>3. CASE RequestOtp(c) \/ VerifyOtp(c) \/ Unfollow(c)
    <3>1. \A u, p, right, m :
            /\ CallAt("owner", u, p, right, 0, m).pc # "wrong"
            /\ CallAt("find", u, p, right, 0, m).pc # "wrong"
            /\ CallAt("revert", u, p, right, 0, m).pc # "wrong"
      BY DEF CallAt
    <3>2. CASE RequestOtp(c)
      <4>1. PICK u \in Users, p \in Phones : call' = [call EXCEPT ![c] = CallAt("owner", u, p, FALSE, 0, FALSE)]
        BY <3>2 DEF RequestOtp
      <4> DEFINE k == CallAt("owner", u, p, FALSE, 0, FALSE)
      <4>2. k.pc # "wrong"
        BY <3>1
      <4>3. call' = [call EXCEPT ![c] = k]
        BY <4>1
      <4> HIDE DEF k
      <4> QED BY <4>2, <4>3
    <3>3. CASE VerifyOtp(c)
      <4>1. PICK u \in Users, p \in Phones, right \in BOOLEAN : call' = [call EXCEPT ![c] = CallAt("find", u, p, right, 0, FALSE)]
        BY <3>3 DEF VerifyOtp
      <4> DEFINE k == CallAt("find", u, p, right, 0, FALSE)
      <4>2. k.pc # "wrong"
        BY <3>1
      <4>3. call' = [call EXCEPT ![c] = k]
        BY <4>1
      <4> HIDE DEF k
      <4> QED BY <4>2, <4>3
    <3>4. CASE Unfollow(c)
      <4>1. PICK u \in Users : call' = [call EXCEPT ![c] = CallAt("revert", u, NoPhone, FALSE, 0, type[u] = "Member")]
        BY <3>4 DEF Unfollow
      <4> DEFINE k == CallAt("revert", u, NoPhone, FALSE, 0, type[u] = "Member")
      <4>2. k.pc # "wrong"
        BY DEF CallAt
      <4>3. call' = [call EXCEPT ![c] = k]
        BY <4>1
      <4> HIDE DEF k
      <4> QED BY <4>2, <4>3
    <3> QED BY <2>3, <3>2, <3>3, <3>4
  <2>4. CASE \/ RequestOwner(c) \/ ExpireOld(c) \/ CreateSession(c) \/ WrongCode(c)
             \/ VerifyOwner(c) \/ Promote(c) \/ LinkMenu(c) \/ Revert(c) \/ UnlinkMenu(c)
    <3>1. Return(c) \/ \E pc \in {"expire", "create", "promote", "link", "unlink"} : Continue(c, pc)
      BY <2>4 DEF RequestOwner, ExpireOld, CreateSession, WrongCode, VerifyOwner, Promote, LinkMenu,
         Revert, AfterRevert, UnlinkMenu
    <3> QED BY <2>1, <2>2, <3>1 DEF Return
  <2> QED BY <2>3, <2>4 DEF CallStep
<1>2. call'[c].pc # "wrong" /\ \A d \in Calls \ {c} : call'[d] = call[d]
  BY <1>1, OthersStay
<1> QED BY <1>2 DEF Trying

(* A call finds a session that still stands a wrong code: with it, all the calls *)
(* at once can count one more.                                                 *)
LEMMA FindTries ==
  ASSUME TypeOK, TypeOK', AttemptsBounded, NEW c \in Calls, FindSession(c)
  PROVE  AttemptsBounded'
<1>1. sessions' = sessions /\ call[c].pc = "find"
  BY DEF FindSession
<1>2. CASE Return(c)
  <2>1. call'[c] = Free /\ \A d \in Calls \ {c} : call'[d] = call[d]
    BY <1>2, OthersStay DEF Return
  <2>2. Free.pc # "wrong"
    BY DEF Free, CallAt
  <2>3. \A i : Trying(i)' \subseteq Trying(i)
    BY <2>1, <2>2 DEF Trying
  <2> QED BY <1>1, <2>3, QuietTries, SameAttempts
<1>3. CASE ~ Return(c)
  <2>1. PICK i : /\ Usable(i)
                 /\ call' = [call EXCEPT ![c] =
                      CallAt(IF call[c].right THEN "check" ELSE "wrong", call[c].user,
                             call[c].phone, call[c].right, i, FALSE)]
    <3> DEFINE found == Unverified(call[c].user, call[c].phone)
    <3>1. found \subseteq Nat
      BY LenProperties DEF Unverified, TypeOK
    <3>2. (\E i \in found : Usable(i) /\ \A j \in found : j <= i)
          /\ \E i \in found : /\ \A j \in found : j <= i
                              /\ call' = [call EXCEPT ![c] =
                                   CallAt(IF call[c].right THEN "check" ELSE "wrong", call[c].user,
                                          call[c].phone, call[c].right, i, FALSE)]
      BY <1>3 DEF FindSession
    <3> HIDE DEF found
    <3>3. PICK i \in found : Usable(i) /\ \A j \in found : j <= i
      BY <3>2
    <3>4. \A j \in found : (\A k \in found : k <= j) => j = i
      BY <3>1, <3>3
    <3> QED BY <3>2, <3>3, <3>4
  <2> DEFINE k == CallAt(IF call[c].right THEN "check" ELSE "wrong", call[c].user,
                         call[c].phone, call[c].right, i, FALSE)
  <2>2. k.session = i
    BY DEF CallAt
  <2> HIDE DEF k
  <2>3. call'[c] = k /\ \A d \in Calls \ {c} : call'[d] = call[d]
    BY <2>1, OthersStay DEF k
  <2>4. \A j : j # i => Trying(j)' \subseteq Trying(j)
    BY <2>2, <2>3 DEF Trying
  <2>5. ASSUME NEW j \in 1..Len(sessions) PROVE Bounded(j)'
    <3>1. sessions[j].attempts \in Nat
      BY RowType
    <3>2. CASE j = i
      <4>1. sessions[j].attempts < MaxAttempts /\ Cardinality(Trying(j)') <= Cardinality(Calls)
        BY <2>1, <3>2, TryingType DEF Usable
      <4>2. sessions'[j].attempts + Cardinality(Trying(j)') <= MaxAttempts + Cardinality(Calls) - 1
        BY <1>1, <3>1, <4>1, TryingType, LimitsAssumption
      <4> QED BY <4>2 DEF Bounded
    <3>3. CASE j # i
      <4>1. Cardinality(Trying(j)') <= Cardinality(Trying(j))
        BY <2>4, <3>3, TryingType, FS_Subset
      <4>2. sessions[j].attempts + Cardinality(Trying(j)) <= MaxAttempts + Cardinality(Calls) - 1
        BY DEF AttemptsBounded, Trying
      <4>3. sessions'[j].attempts + Cardinality(Trying(j)') <= MaxAttempts + Cardinality(Calls) - 1
        BY <1>1, <3>1, <4>1, <4>2, TryingType, LimitsAssumption
      <4> QED BY <4>3 DEF Bounded
    <3> QED BY <3>2, <3>3
  <2> QED BY <1>1, <2>5 DEF AttemptsBounded, Bounded, Trying
<1> QED BY <1>2, <1>3

(* A wrong code is counted by a call that was about to. *)
LEMMA WrongTries ==
  ASSUME TypeOK, TypeOK', AttemptsBounded, NEW c \in Calls, WrongCode(c)
  PROVE  AttemptsBounded'
<1> DEFINE i == call[c].session
<1>1. /\ c \in Trying(i) /\ i \in 1..Len(sessions)
      /\ \A j \in 1..Len(sessions) : sessions[j] \in Session
  BY DEF WrongCode, Trying, TypeOK
<1>2. call'[c] = Free /\ \A d \in Calls \ {c} : call'[d] = call[d]
  BY OthersStay DEF WrongCode, Return
<1>3. Free.pc # "wrong"
  BY DEF Free, CallAt
<1>4. \A j : Trying(j)' = Trying(j) \ {c}
  BY <1>2, <1>3 DEF Trying
<1>5. /\ Len(sessions') = Len(sessions)
      /\ \A j \in 1..Len(sessions) :
           \/ sessions'[j].attempts = sessions[j].attempts
           \/ j = i /\ sessions'[j].attempts = sessions[j].attempts + 1
  <2>1. CASE sessions' = sessions
    BY <2>1
  <2>2. CASE sessions' = [sessions EXCEPT ![i].attempts = @ + 1]
    <3> DEFINE s == [sessions[i] EXCEPT !.attempts = @ + 1]
    <3>1. s.attempts = sessions[i].attempts + 1
      BY <1>1 DEF Session
    <3>2. sessions' = [sessions EXCEPT ![i] = s] /\ sessions \in Seq(Session)
      BY <2>2 DEF TypeOK
    <3> HIDE DEF s, i
    <3>3. Len(sessions') = Len(sessions)
      BY <1>1, <3>2
    <3>4. \A j \in 1..Len(sessions) : sessions'[j] = IF j = i THEN s ELSE sessions[j]
      BY <1>1, <3>2
    <3> QED BY <3>1, <3>3, <3>4
  <2> QED BY <2>1, <2>2 DEF WrongCode
<1> HIDE DEF i
<1>6. ASSUME NEW j \in 1..Len(sessions) PROVE Bounded(j)'
  <2>1. sessions[j].attempts \in Nat
    BY <1>1 DEF Session
  <2>2. sessions[j].attempts + Cardinality(Trying(j)) <= MaxAttempts + Cardinality(Calls) - 1
    BY DEF AttemptsBounded, Trying
  <2>3. Cardinality(Trying(j)') = IF c \in Trying(j) THEN Cardinality(Trying(j)) - 1
                                                     ELSE Cardinality(Trying(j))
    BY <1>4, TryingType, FS_RemoveElement
  <2>4. j = i => c \in Trying(j)
    BY <1>1
  <2>5. sessions'[j].attempts + Cardinality(Trying(j)') <= MaxAttempts + Cardinality(Calls) - 1
    BY <1>5, <2>1, <2>2, <2>3, <2>4, TryingType, LimitsAssumption
  <2> QED BY <2>5 DEF Bounded
<1> QED BY <1>5, <1>6 DEF AttemptsBounded, Bounded, Trying

LEMMA StepAttempts ==
  ASSUME TypeOK, TypeOK', AttemptsBounded, [Next]_vars
  PROVE  AttemptsBounded'
<1>1. ASSUME NEW c \in Calls, CallStep(c) PROVE AttemptsBounded'
  <2>1. CASE FindSession(c)
    BY <2>1, FindTries
  <2>2. CASE WrongCode(c)
    BY <2>2, WrongTries
  <2>3. CASE ~ FindSession(c) /\ ~ WrongCode(c)
    <3>1. sessions' = sessions \/ ExpireOld(c) \/ CreateSession(c) \/ Promote(c) \/ Revert(c)
      BY <1>1, <2>3 DEF CallStep, RequestOtp, RequestOwner, VerifyOtp, VerifyOwner, LinkMenu,
         Unfollow, UnlinkMenu
    <3>2. AttemptsStay
      BY <3>1, SameAttempts, RowsAttempts
    <3> QED BY <1>1, <2>3, <3>2, FewerTries, QuietTries
  <2> QED BY <2>1, <2>2, <2>3
<1>2. CASE TimeToLiveEnds
  <2>1. call' = call
    BY <1>2 DEF TimeToLiveEnds
  <2> QED BY <1>2, <2>1, RowsAttempts, QuietTries DEF Trying
<1>3. CASE Crash
  <2>1. sessions' = sessions /\ \A c \in Calls : call'[c].pc = "idle"
    BY <1>3 DEF Crash, Free, CallAt
  <2> QED BY <2>1, SameAttempts, QuietTries DEF Trying
<1>4. CASE UNCHANGED <<sessions, call>>
  BY <1>4, SameAttempts, QuietTries DEF Trying
<1> QED BY <1>1, <1>2, <1>3, <1>4 DEF Next, Follow, vars

(* However many logins pass the check of the limit together, a session counts    *)
(* no more wrong codes than the limit and the calls in flight allow.            *)
THEOREM AttemptsStayBounded == Spec => []AttemptsBounded
<1> DEFINE Inv == LoginInv /\ AttemptsBounded
<1>1. Init => Inv
  BY InitLogin DEF Init, AttemptsBounded
<1>2. Inv /\ [Next]_vars => Inv'
  BY StepLogin, StepAttempts DEF LoginInv
<1>3. Inv => AttemptsBounded
  OBVIOUS
<1> HIDE DEF Inv
<1> QED BY <1>1, <1>2, <1>3, PTL DEF Spec
=============================================================================
