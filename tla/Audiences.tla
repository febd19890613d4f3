----------------------------- MODULE Audiences -----------------------------
(***************************************************************************)
(* One audience of a user, the requests that create, change, remove, show  *)
(* and estimate it, and the number of its members: it is counted by one    *)
(* load per key, which all the requests that ask meanwhile share, and      *)
(* cached.  Every awaited call is a step of its own.                       *)
(***************************************************************************)
EXTENDS AudienceCriteria

CONSTANTS
  Requests,   \* the requests; each is made once
  Forms       \* the bodies they may have: a type and criteria, either may be missing

ASSUME FormsAssumption ==
  Forms \subseteq [type : WritableTypes \cup {"none"}, given : BOOLEAN, criteria : Criteria]

VARIABLES
  row,      \* the audience row; "mixed" is history, see UpdateWrite
  reqs,     \* what each request is about to do
  loading,  \* countInflight: what the load of each key is about to do
  cached    \* the keys that Redis holds a number for

audienceVars == <<row, reqs, loading, cached>>

NoRow == [type |-> "none", criteria |-> NoCriteria, mixed |-> FALSE]
Removed == [NoRow EXCEPT !.type = "removed"]
Exists == row \notin {NoRow, Removed}

Idle == [pc |-> "idle"]
Done == [pc |-> "done"]

(* The keys that can be asked for: stored criteria may meet another type. *)
Keys ==
  {CountKey(q.type, q.criteria) : q \in
     {q \in [type : WritableTypes, criteria : {Normalized(t, f.criteria) : t \in WritableTypes, f \in Forms}] :
        HasWhere(q.type, q.criteria)}}

Go(r, q) == reqs' = [reqs EXCEPT ![r] = q]
Count(type, c) == [pc |-> "account", type |-> type, criteria |-> ParseCriteria(c)]

(***************************************************************************)
(* The requests.                                                           *)
(***************************************************************************)

(* create: refused forms change nothing. *)
Create(r, f) ==
  /\ row = NoRow /\ f.type # "none"
  /\ reqs[r] = Idle /\ Accepts(f.type, f.criteria)
  /\ row' = [type |-> f.type, criteria |-> Normalized(f.type, f.criteria), mixed |-> FALSE]
  /\ Go(r, Count(row'.type, row'.criteria))
  /\ UNCHANGED <<loading, cached>>

(* The criteria an update normalizes: its own, or those that it has read. *)
Source(f) == IF f.given THEN f.criteria ELSE ParseCriteria(row.criteria)

(* Faulty form: they are normalized by the type the row had. *)
FaultyNextType(f) == row.type

NextType(f) == IF f.type # "none" THEN f.type ELSE row.type

(* The columns that an update writes: those left out are undefined. *)
Change(f) ==
  [pc |-> "update", type |-> f.type, writes |-> f.given \/ f.type # "none",
   criteria |-> Normalized(NextType(f), Source(f)), read |-> row.type]

UpdateRead(r, f) ==
  /\ reqs[r] = Idle /\ Exists
  /\ Accepts(NextType(f), Source(f))
  /\ Go(r, Change(f))
  /\ UNCHANGED <<row, loading, cached>>

(* By id alone: criteria that go without their type may meet another type. *)
UpdateWrite(r) ==
  LET q == reqs[r] IN
  /\ q.pc = "update"
  /\ \/ ~Exists /\ Go(r, Done) /\ UNCHANGED row
     \/ /\ Exists
        /\ row' = [type |-> IF q.type # "none" THEN q.type ELSE row.type,
                   criteria |-> IF q.writes THEN q.criteria ELSE row.criteria,
                   mixed |-> IF q.writes THEN q.type = "none" /\ row.type # q.read
                             ELSE row.mixed]
        /\ Go(r, Count(row'.type, row'.criteria))
  /\ UNCHANGED <<loading, cached>>

RemoveRead(r) ==
  /\ reqs[r] = Idle /\ Exists
  /\ Go(r, [pc |-> "remove"])
  /\ UNCHANGED <<row, loading, cached>>

RemoveWrite(r) ==
  /\ reqs[r].pc = "remove"
  /\ row' = Removed /\ Go(r, Done)
  /\ UNCHANGED <<loading, cached>>

(* findOne, findAll *)
Find(r) ==
  /\ reqs[r] = Idle /\ Exists
  /\ Go(r, Count(row.type, row.criteria))
  /\ UNCHANGED <<row, loading, cached>>

Estimate(r, f) ==
  /\ reqs[r] = Idle /\ f.type # "none" /\ Accepts(f.type, f.criteria)
  /\ Go(r, Count(f.type, Normalized(f.type, f.criteria)))
  /\ UNCHANGED <<row, loading, cached>>

(***************************************************************************)
(* The number of members.                                                  *)
(***************************************************************************)

(* getLineAccountId: without an account, or without a clause, it is 0. *)
ZeroMembers(r) ==
  /\ reqs[r].pc = "account"
  /\ Go(r, Done)
  /\ UNCHANGED <<row, loading, cached>>

(* getCachedCount: a load that is running for the key is shared. *)
AskCount(r) ==
  LET k == CountKey(reqs[r].type, reqs[r].criteria) IN
  /\ reqs[r].pc = "account" /\ HasWhere(reqs[r].type, reqs[r].criteria)
  /\ Go(r, [pc |-> "wait", key |-> k])
  /\ loading' = IF loading[k] = "none" THEN [loading EXCEPT ![k] = "get"] ELSE loading
  /\ UNCHANGED <<row, cached>>

(* Faulty form: the entry is only removed when the load succeeds. *)
FaultyAfterLoad(ok) == IF ok THEN "none" ELSE "failed"

(* The end of a load: its entry goes, and those that wait have an answer. *)
AfterLoad(ok) == "none"

Settle(k, ok) ==
  /\ loading' = [loading EXCEPT ![k] = AfterLoad(ok)]
  /\ reqs' = [r \in Requests |->
       IF reqs[r].pc = "wait" /\ reqs[r].key = k THEN Done ELSE reqs[r]]

(* loadCachedCount: Redis has the number, or not, or does not answer. *)
GetCount(k) ==
  /\ loading[k] = "get"
  /\ \/ k \in cached /\ Settle(k, TRUE)
     \/ loading' = [loading EXCEPT ![k] = "count"] /\ UNCHANGED reqs
  /\ UNCHANGED <<row, cached>>

CountMembers(k) ==
  /\ loading[k] = "count"
  /\ \/ loading' = [loading EXCEPT ![k] = "set"] /\ UNCHANGED reqs
     \/ Settle(k, FALSE)
  /\ UNCHANGED <<row, cached>>

SetCount(k) ==
  /\ loading[k] = "set"
  /\ cached' \in {cached, cached \cup {k}}
  /\ Settle(k, TRUE)
  /\ UNCHANGED row

(* AUDIENCE_COUNT_CACHE_TTL_SECONDS pass. *)
Expire(k) == k \in cached /\ cached' = cached \ {k} /\ UNCHANGED <<row, reqs, loading>>

(***************************************************************************)
(* The specification.                                                      *)
(***************************************************************************)
AudienceInit ==
  /\ row = NoRow
  /\ reqs = [r \in Requests |-> Idle]
  /\ loading = [k \in Keys |-> "none"]
  /\ cached = {}

LoadStep(k) == GetCount(k) \/ CountMembers(k) \/ SetCount(k)

AudienceNext ==
  \/ \E r \in Requests :
       \/ \E f \in Forms : Create(r, f) \/ UpdateRead(r, f) \/ Estimate(r, f)
       \/ UpdateWrite(r) \/ RemoveRead(r) \/ RemoveWrite(r) \/ Find(r)
       \/ ZeroMembers(r) \/ AskCount(r)
  \/ \E k \in Keys : LoadStep(k) \/ Expire(k)

AudienceSpec == AudienceInit /\ [][AudienceNext]_audienceVars

(* Redis and the database answer or fail: a load that is running goes on. *)
AudienceFairness == \A k \in Keys : WF_audienceVars(LoadStep(k))

(***************************************************************************)
(* Properties.                                                             *)
(***************************************************************************)

(* The stored criteria fit the stored type, as every single request has    *)
(* checked before it writes: they only do not after an update that writes  *)
(* criteria alone has overlapped with one that changes the type.           *)
CriteriaFitType ==
  Exists /\ ~row.mixed =>
    /\ Accepts(row.type, row.criteria) /\ HasWhere(row.type, row.criteria)
    /\ Normalized(row.type, row.criteria) = row.criteria

(* No load stays in the map of loads in flight, whether it succeeds or     *)
(* fails: whoever asks later starts a new one.                             *)
LoadsEnd == \A k \in Keys : loading[k] # "none" ~> loading[k] = "none"
=============================================================================
