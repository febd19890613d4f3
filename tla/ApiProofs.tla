----------------------------- MODULE ApiProofs -----------------------------
(***************************************************************************)
(* The parts of the API that answer reads: what is stored of an audience     *)
(* and what Redis holds of the lists, for every number of requests, bodies   *)
(* and callers, and functions that compute an answer, for every argument.    *)
(***************************************************************************)
EXTENDS Api, FoldProofs

-----------------------------------------------------------------------------
(* Audiences.  CriteriaFitType is not inductive: what an update writes was    *)
(* normalized when it read the row, for the type that it read.                *)

Fit(type, c) ==
  /\ Accepts(type, c) /\ HasWhere(type, c)
  /\ Normalized(type, c) = c

RowTyped ==
  \/ row \in {NoRow, Removed}
  \/ row \in [type : WritableTypes, criteria : Criteria, mixed : BOOLEAN]

(* An update that has read the row: its criteria fit the type that it names,  *)
(* or the one it has read; when it names a type it writes both.               *)
UpdateFits(q) ==
  /\ q.type \in WritableTypes \cup {"none"} /\ q.read \in WritableTypes
  /\ q.criteria \in Criteria /\ q.writes \in BOOLEAN
  /\ Fit(IF q.type # "none" THEN q.type ELSE q.read, q.criteria)
  /\ q.type # "none" => q.writes

AudienceInv ==
  /\ RowTyped
  /\ DOMAIN reqs = Requests
  /\ \A r \in Requests : reqs[r].pc = "update" => UpdateFits(reqs[r])
  /\ CriteriaFitType

(* What is accepted is stored in a form that is accepted again, selects       *)
(* somebody, and is not changed by normalizing it again.                      *)
LEMMA NormalizedFits ==
  ASSUME NEW t \in WritableTypes, NEW c \in Criteria, Accepts(t, c)
  PROVE  Normalized(t, c) \in Criteria /\ Fit(t, Normalized(t, c))
<1> DEFINE n == Normalized(t, c)
<1>1. /\ n.match = IF t # "combined" THEN "none" ELSE IF c.match = "or" THEN "or" ELSE "and"
      /\ n.userTypes = IF "users" \in RulesOf(t) THEN c.userTypes ELSE {}
      /\ n.userTiers = IF "users" \in RulesOf(t) /\ c.userTypes # {} THEN c.userTiers ELSE {}
      /\ n.activityDays = IF "active" \in RulesOf(t) THEN c.activityDays ELSE 0
      /\ n.newFollowerDays = IF "new" \in RulesOf(t) THEN c.newFollowerDays ELSE 0
  BY DEF Normalized
<1>2. n \in Criteria
  BY DEF Criteria, Normalized, Matches
<1>3. Normalized(t, n) = n
  BY <1>1 DEF Normalized
<1> HIDE DEF n
<1>4. Clauses(t, n) = Clauses(t, c)
  BY <1>1 DEF Clauses, Filled
<1>5. t = "combined" => RulesOf(t) = {"users", "active", "new"}
  BY DEF RulesOf
<1>6. t = "combined" => Filled(n) = Filled(c) /\ Clauses(t, n) = Filled(n)
  BY <1>1, <1>5 DEF Clauses, Filled
<1>7. t = "combined" => Accepts(t, n) /\ Clauses(t, n) # {}
  <2> SUFFICES ASSUME t = "combined" PROVE Accepts(t, n) /\ Clauses(t, n) # {}
    OBVIOUS
  <2>1. Cardinality(Filled(n)) >= 2
    BY <1>6 DEF Accepts
  <2>2. Cardinality({}) = 0
    BY FS_EmptySet
  <2>3. Filled(n) # {}
    BY <2>1, <2>2
  <2> QED BY <1>6, <2>1, <2>3 DEF Accepts
<1>8. t # "combined" => Accepts(t, n) /\ Clauses(t, n) # {}
  BY <1>4 DEF Accepts, WritableTypes
<1> QED BY <1>2, <1>3, <1>7, <1>8 DEF n, Fit, HasWhere

LEMMA ParsedIsTyped == \A c \in Criteria : ParseCriteria(c) \in Criteria
BY DEF ParseCriteria, Criteria

(* What the bodies of requests are. *)
LEMMA FormTyped ==
  ASSUME NEW f \in Forms
  PROVE  f.type \in WritableTypes \cup {"none"} /\ f.given \in BOOLEAN /\ f.criteria \in Criteria
BY FormsAssumption

(* The criteria an update keeps for its write. *)
LEMMA ChangeFits ==
  ASSUME AudienceInv, NEW f \in Forms, Exists, Accepts(NextType(f), Source(f))
  PROVE  Change(f).pc = "update" /\ UpdateFits(Change(f))
<1>1. row.type \in WritableTypes /\ row.criteria \in Criteria
  BY DEF AudienceInv, RowTyped, Exists
<1>2. NextType(f) \in WritableTypes /\ Source(f) \in Criteria
  BY <1>1, FormTyped, ParsedIsTyped DEF NextType, Source
<1>3. /\ Normalized(NextType(f), Source(f)) \in Criteria
      /\ Fit(NextType(f), Normalized(NextType(f), Source(f)))
  BY <1>2, NormalizedFits
<1>4. /\ Change(f).pc = "update" /\ Change(f).type = f.type /\ Change(f).read = row.type
      /\ Change(f).writes = (f.given \/ f.type # "none")
      /\ Change(f).criteria = Normalized(NextType(f), Source(f))
  BY DEF Change
<1>5. NextType(f) = IF f.type # "none" THEN f.type ELSE row.type
  BY DEF NextType
<1> QED BY <1>1, <1>3, <1>4, <1>5, FormTyped DEF UpdateFits

(* A request that goes on, without a change of the row. *)
LEMMA GoKeeps ==
  ASSUME AudienceInv, NEW r \in Requests, NEW q, Go(r, q), UNCHANGED row,
         q.pc = "update" => UpdateFits(q)
  PROVE  AudienceInv'
<1>1. RowTyped' /\ CriteriaFitType'
  BY DEF AudienceInv, RowTyped, CriteriaFitType, Exists
<1>2. DOMAIN reqs' = Requests /\ \A p \in Requests : reqs'[p] = IF p = r THEN q ELSE reqs[p]
  BY DEF AudienceInv, Go
<1>3. ASSUME NEW p \in Requests, reqs'[p].pc = "update" PROVE UpdateFits(reqs'[p])
  BY <1>2, <1>3 DEF AudienceInv
<1> QED BY <1>1, <1>2, <1>3 DEF AudienceInv

(* A request that goes on after a write of the row. *)
LEMMA WriteKeeps ==
  ASSUME AudienceInv, NEW r \in Requests, NEW q, Go(r, q), q.pc # "update",
         RowTyped', CriteriaFitType'
  PROVE  AudienceInv'
<1>1. DOMAIN reqs' = Requests /\ \A p \in Requests : reqs'[p] = IF p = r THEN q ELSE reqs[p]
  BY DEF AudienceInv, Go
<1>2. ASSUME NEW p \in Requests, reqs'[p].pc = "update" PROVE UpdateFits(reqs'[p])
  BY <1>1, <1>2 DEF AudienceInv
<1> QED BY <1>1, <1>2 DEF AudienceInv

LEMMA CreateKeeps ==
  ASSUME AudienceInv, NEW r \in Requests, NEW f \in Forms, Create(r, f)
  PROVE  AudienceInv'
<1>1. f.type \in WritableTypes /\ f.criteria \in Criteria /\ Accepts(f.type, f.criteria)
  BY FormTyped DEF Create
<1>2. /\ Normalized(f.type, f.criteria) \in Criteria
      /\ Fit(f.type, Normalized(f.type, f.criteria))
  BY <1>1, NormalizedFits
<1>3. row' \in [type : WritableTypes, criteria : Criteria, mixed : BOOLEAN]
  BY <1>1, <1>2 DEF Create
<1>4. row'.type = f.type /\ row'.criteria = Normalized(f.type, f.criteria)
  BY DEF Create
<1>5. RowTyped' /\ CriteriaFitType'
  BY <1>2, <1>3, <1>4 DEF RowTyped, CriteriaFitType, Fit
<1>6. Count(row'.type, row'.criteria).pc # "update"
  BY DEF Count
<1> QED BY <1>5, <1>6, WriteKeeps DEF Create

LEMMA UpdateWriteKeeps ==
  ASSUME AudienceInv, NEW r \in Requests, UpdateWrite(r)
  PROVE  AudienceInv'
<1> DEFINE q == reqs[r]
<1>1. UpdateFits(q)
  BY DEF AudienceInv, UpdateWrite
<1>2. CASE ~ Exists
  <2>1. Go(r, Done) /\ UNCHANGED row
    BY <1>2 DEF UpdateWrite
  <2> QED BY <2>1, GoKeeps DEF Done
<1>3. CASE Exists
  <2>1. row \in [type : WritableTypes, criteria : Criteria, mixed : BOOLEAN]
    BY <1>3 DEF AudienceInv, RowTyped, Exists
  <2>2. /\ row'.type = IF q.type # "none" THEN q.type ELSE row.type
        /\ row'.criteria = IF q.writes THEN q.criteria ELSE row.criteria
        /\ row'.mixed = IF q.writes THEN q.type = "none" /\ row.type # q.read ELSE row.mixed
        /\ row' \in [type : WritableTypes, criteria : Criteria, mixed : BOOLEAN]
    <3> DEFINE type     == IF q.type # "none" THEN q.type ELSE row.type
               criteria == IF q.writes THEN q.criteria ELSE row.criteria
               mixed    == IF q.writes THEN q.type = "none" /\ row.type # q.read ELSE row.mixed
    <3>1. row' = [type |-> type, criteria |-> criteria, mixed |-> mixed]
      BY <1>3 DEF UpdateWrite
    <3>2. type \in WritableTypes /\ criteria \in Criteria
      BY <1>1, <2>1 DEF UpdateFits
    <3>3. mixed \in BOOLEAN
      <4>1. CASE q.writes
        BY <4>1
      <4>2. CASE ~ q.writes
        BY <2>1, <4>2
      <4> QED BY <4>1, <4>2
    <3> HIDE DEF type, criteria, mixed
    <3>4. row'.type = type /\ row'.criteria = criteria /\ row'.mixed = mixed
      BY <3>1
    <3>5. row' \in [type : WritableTypes, criteria : Criteria, mixed : BOOLEAN]
      BY <3>1, <3>2, <3>3
    <3> QED BY <3>4, <3>5 DEF type, criteria, mixed
  <2>3. RowTyped'
    BY <2>2 DEF RowTyped
  <2>4. CASE q.writes
    <3>1. ~ row'.mixed => Fit(row'.type, row'.criteria)
      BY <1>1, <2>2, <2>4 DEF UpdateFits
    <3>2. CriteriaFitType'
      BY <3>1 DEF CriteriaFitType, Fit
    <3>3. Count(row'.type, row'.criteria).pc # "update"
      BY DEF Count
    <3> QED BY <1>3, <2>3, <3>2, <3>3, WriteKeeps DEF UpdateWrite
  <2>5. CASE ~ q.writes
    <3>1. row'.type = row.type /\ row'.criteria = row.criteria /\ row'.mixed = row.mixed
      BY <1>1, <2>2, <2>5 DEF UpdateFits
    <3>2. CriteriaFitType'
      BY <1>3, <3>1 DEF AudienceInv, CriteriaFitType
    <3>3. Count(row'.type, row'.criteria).pc # "update"
      BY DEF Count
    <3> QED BY <1>3, <2>3, <3>2, <3>3, WriteKeeps DEF UpdateWrite
  <2> QED BY <2>4, <2>5
<1> QED BY <1>2, <1>3

(* A load that ends lets the requests that wait for it go. *)
LEMMA LoadKeeps ==
  ASSUME AudienceInv, NEW k \in Keys, LoadStep(k) \/ Expire(k)
  PROVE  AudienceInv'
<1>1. UNCHANGED row
  BY DEF LoadStep, Expire, GetCount, CountMembers, SetCount
<1>2. RowTyped' /\ CriteriaFitType'
  BY <1>1 DEF AudienceInv, RowTyped, CriteriaFitType, Exists
<1>3. CASE reqs' = reqs
  BY <1>2, <1>3 DEF AudienceInv
<1>4. CASE reqs' = [r \in Requests |->
                      IF reqs[r].pc = "wait" /\ reqs[r].key = k THEN Done ELSE reqs[r]]
  <2>1. DOMAIN reqs' = Requests
    BY <1>4
  <2>2. ASSUME NEW r \in Requests, reqs'[r].pc = "update" PROVE UpdateFits(reqs'[r])
    <3>1. reqs'[r] = reqs[r]
      BY <1>4, <2>2 DEF Done
    <3> QED BY <2>2, <3>1 DEF AudienceInv
  <2> QED BY <1>2, <2>1, <2>2 DEF AudienceInv
<1> QED BY <1>3, <1>4 DEF LoadStep, Expire, GetCount, CountMembers, SetCount, Settle

LEMMA StepAudience == AudienceInv /\ [AudienceNext]_audienceVars => AudienceInv'
<1> SUFFICES ASSUME AudienceInv, [AudienceNext]_audienceVars PROVE AudienceInv'
  OBVIOUS
<1>1. ASSUME NEW r \in Requests, NEW f \in Forms, UpdateRead(r, f) PROVE AudienceInv'
  <2>1. Change(f).pc = "update" /\ UpdateFits(Change(f))
    BY <1>1, ChangeFits DEF UpdateRead
  <2> QED BY <1>1, <2>1, GoKeeps DEF UpdateRead
<1>2. ASSUME NEW r \in Requests, NEW f \in Forms, Estimate(r, f) PROVE AudienceInv'
  <2>1. Count(f.type, Normalized(f.type, f.criteria)).pc # "update"
    BY DEF Count
  <2> QED BY <1>2, <2>1, GoKeeps DEF Estimate
<1>3. ASSUME NEW r \in Requests, RemoveWrite(r) PROVE AudienceInv'
  <2>1. RowTyped' /\ CriteriaFitType'
    BY <1>3 DEF RemoveWrite, RowTyped, CriteriaFitType, Exists
  <2> QED BY <1>3, <2>1, WriteKeeps DEF RemoveWrite, Done
<1>4. ASSUME NEW r \in Requests, RemoveRead(r) \/ Find(r) \/ ZeroMembers(r) \/ AskCount(r)
      PROVE  AudienceInv'
  <2>1. PICK q : Go(r, q) /\ q.pc # "update" /\ UNCHANGED row
    BY <1>4 DEF RemoveRead, Find, ZeroMembers, AskCount, Count, Done
  <2> QED BY <2>1, GoKeeps
<1>5. CASE UNCHANGED audienceVars
  BY <1>5 DEF audienceVars, AudienceInv, RowTyped, CriteriaFitType, Exists
<1> QED BY <1>1, <1>2, <1>3, <1>4, <1>5, CreateKeeps, UpdateWriteKeeps, LoadKeeps DEF AudienceNext

LEMMA AudienceStarts == AudienceInit => AudienceInv
<1> SUFFICES ASSUME AudienceInit PROVE AudienceInv
  OBVIOUS
<1>1. RowTyped /\ CriteriaFitType
  BY DEF AudienceInit, RowTyped, CriteriaFitType, Exists
<1>2. DOMAIN reqs = Requests /\ \A r \in Requests : reqs[r].pc # "update"
  BY DEF AudienceInit, Idle
<1> QED BY <1>1, <1>2 DEF AudienceInv

(* The stored criteria fit the stored type, whatever bodies the requests have   *)
(* and however the reads and writes of updates overlap, except after an update  *)
(* of criteria alone that has met another type.                                 *)
THEOREM StoredCriteriaFit == AudienceSpec => []CriteriaFitType
<1>1. AudienceInv => CriteriaFitType
  BY DEF AudienceInv
<1> QED BY <1>1, AudienceStarts, StepAudience, PTL DEF AudienceSpec

-----------------------------------------------------------------------------
(* The answers in Redis.  StaleHasACause is inductive with the shape of what  *)
(* Redis holds: an answer that is not excused was loaded in the state it was  *)
(* stored in, and from then on a change that deletes its key is either        *)
(* complete, and the key gone or excused, or about to delete it.              *)

KeptTyped ==
  /\ DOMAIN kept = Answers
  /\ \A a \in Answers : kept[a] # Empty =>
       DOMAIN kept[a] = {"full", "value", "excused"} /\ kept[a].full = TRUE

ListInv ==
  /\ KeptTyped
  /\ DOMAIN callers = Callers
  /\ DOMAIN changes = Kinds
  /\ StaleHasACause

(* The change that makes an answer stale, and somebody about to delete it. *)
KeyOf(kind) == IF kind = "template" THEN "list" ELSE "overview"
Stale(kind) ==
  LET a == KeyOf(kind) IN kept[a].full /\ ~kept[a].excused /\ kept[a].value[kind] # changes[kind]
Dropping(kind) == \E c \in Callers : callers[c].pc = "drop" /\ callers[c].kind = kind

LEMMA StaleParts == StaleHasACause <=> \A kind \in {"template", "campaign"} : Stale(kind) => Dropping(kind)
BY DEF StaleHasACause, Stale, Dropping, KeyOf, Dropper, Answers

(* A caller that was not about to delete a key leaves the others in place. *)
LEMMA TurnDrops ==
  ASSUME ListInv, NEW c \in Callers, NEW s, Turn(c, s), NEW kind,
         Dropping(kind), ~(callers[c].pc = "drop" /\ callers[c].kind = kind)
  PROVE  Dropping(kind)' /\ DOMAIN callers' = Callers
<1>1. DOMAIN callers' = Callers /\ \A d \in Callers : callers'[d] = IF d = c THEN s ELSE callers[d]
  BY DEF ListInv, Turn
<1>2. PICK d \in Callers : callers[d].pc = "drop" /\ callers[d].kind = kind
  BY DEF Dropping
<1> QED BY <1>1, <1>2 DEF Dropping

(* A turn that touches neither the rows nor Redis. *)
LEMMA TurnKeeps ==
  ASSUME ListInv, NEW c \in Callers, NEW s, Turn(c, s), callers[c].pc # "drop",
         UNCHANGED <<changes, kept>>
  PROVE  ListInv'
<1>1. KeptTyped' /\ DOMAIN callers' = Callers /\ DOMAIN changes' = Kinds
  BY DEF ListInv, KeptTyped, Turn
<1>2. ASSUME NEW kind \in {"template", "campaign"}, Stale(kind)' PROVE Dropping(kind)'
  <2>1. Stale(kind)
    BY <1>2 DEF Stale
  <2> QED BY <2>1, StaleParts, TurnDrops DEF ListInv
<1>3. StaleHasACause'
  BY <1>2 DEF StaleHasACause, Stale, Dropping, KeyOf, Dropper, Answers
<1> QED BY <1>1, <1>3 DEF ListInv

(* What is stored shows the changes that delete its key, or is excused. *)
LEMMA SetKeeps ==
  ASSUME ListInv, NEW c \in Callers, SetAnswer(c)
  PROVE  ListInv'
<1> DEFINE a == callers[c].answer
<1>0. Turn(c, Served) /\ callers[c].pc = "set" /\ UNCHANGED changes
  BY DEF SetAnswer
<1>1. CASE UNCHANGED kept
  BY <1>0, <1>1, TurnKeeps
<1>2. CASE kept' = [kept EXCEPT ![a] =
             [full |-> TRUE, value |-> callers[c].value,
              excused |-> callers[c].value[Dropper(a)] # changes[Dropper(a)]]]
  <2> DEFINE value   == callers[c].value
             excused == value[Dropper(a)] # changes[Dropper(a)]
             k       == [full |-> TRUE, value |-> value, excused |-> excused]
  <2>2. k.full = TRUE /\ k.value = value /\ k.excused = excused
    OBVIOUS
  <2>3. DOMAIN kept' = Answers /\ \A b \in Answers : kept'[b] = IF b = a THEN k ELSE kept[b]
    BY <1>2 DEF ListInv, KeptTyped
  <2>4. DOMAIN k = {"full", "value", "excused"}
    OBVIOUS
  <2> HIDE DEF k, a
  <2>5. KeptTyped'
    BY <2>2, <2>3, <2>4 DEF ListInv, KeptTyped
  <2>6. ASSUME NEW kind \in {"template", "campaign"}, Stale(kind)' PROVE Dropping(kind)'
    <3>1. KeyOf(kind) \in Answers /\ Dropper(KeyOf(kind)) = kind
      BY DEF KeyOf, Answers, Dropper
    <3>2. CASE KeyOf(kind) = a
      <4>1. k.excused \/ k.value[kind] = changes'[kind]
        BY <1>0, <2>2, <3>1, <3>2
      <4> QED BY <2>3, <2>6, <3>1, <3>2, <4>1 DEF Stale
    <3>3. CASE KeyOf(kind) # a
      <4>1. Stale(kind)
        BY <1>0, <2>3, <2>6, <3>1, <3>3 DEF Stale
      <4> QED BY <1>0, <4>1, StaleParts, TurnDrops DEF ListInv
    <3> QED BY <3>2, <3>3
  <2>7. StaleHasACause'
    BY <2>6 DEF StaleHasACause, Stale, Dropping, KeyOf, Dropper, Answers
  <2> QED BY <1>0, <2>5, <2>7 DEF ListInv, Turn
<1> QED BY <1>1, <1>2 DEF SetAnswer

(* A write that deletes keys is about to; the others make nothing stale that  *)
(* the property is about.                                                     *)
LEMMA CommitKeeps ==
  ASSUME ListInv, NEW c \in Callers, NEW kind \in Kinds, Commit(c, kind), callers[c].pc # "drop"
  PROVE  ListInv'
<1> DEFINE s == IF Drops(kind) = {} THEN Served ELSE [pc |-> "drop", kind |-> kind]
<1>1. Turn(c, s) /\ kept' = kept
  BY DEF Commit
<1>2. DOMAIN changes' = Kinds /\ \A k \in Kinds : k # kind => changes'[k] = changes[k]
  BY DEF Commit, ListInv
<1>3. kind \in {"template", "campaign"} => s.pc = "drop" /\ s.kind = kind
  BY DEF Drops
<1> HIDE DEF s
<1>4. DOMAIN callers' = Callers /\ callers'[c] = s
  BY <1>1 DEF Turn, ListInv
<1>5. ASSUME NEW k \in {"template", "campaign"}, Stale(k)' PROVE Dropping(k)'
  <2>1. CASE k = kind
    BY <1>3, <1>4, <2>1 DEF Dropping
  <2>2. CASE k # kind
    <3>1. changes'[k] = changes[k]
      BY <1>2, <2>2 DEF Kinds
    <3>2. Stale(k)
      BY <1>1, <1>5, <3>1 DEF Stale
    <3> QED BY <1>1, <3>2, StaleParts, TurnDrops DEF ListInv
  <2> QED BY <2>1, <2>2
<1>6. StaleHasACause'
  BY <1>5 DEF StaleHasACause, Stale, Dropping, KeyOf, Dropper, Answers
<1> QED BY <1>1, <1>2, <1>4, <1>6 DEF ListInv, KeptTyped

(* After a deletion, or one that failed, the key is gone or excused; the      *)
(* other key has lost nobody who was about to delete it.                      *)
LEMMA DropKeeps ==
  ASSUME ListInv, NEW c \in Callers, Drop(c) \/ DropFails(c)
  PROVE  ListInv'
<1> DEFINE dropped == Drops(callers[c].kind)
<1>0. Turn(c, Served) /\ UNCHANGED changes
  BY DEF Drop, DropFails
<1>1. DOMAIN kept' = Answers
  BY DEF Drop, DropFails
<1>2. \A a \in Answers : a \notin dropped => kept'[a] = kept[a]
  BY DEF Drop, DropFails
<1>3. \A a \in Answers : kept[a] # Empty => kept[a].full
  BY DEF ListInv, KeptTyped
<1>4. ASSUME NEW a \in dropped, a \in Answers
      PROVE  \/ kept'[a] = Empty
             \/ /\ DOMAIN kept'[a] = {"full", "value", "excused"}
                /\ kept'[a].full = TRUE /\ kept'[a].excused = TRUE
  <2>1. CASE Drop(c) \/ kept[a] = Empty
    BY <1>4, <2>1 DEF Drop, DropFails, Empty
  <2>2. CASE DropFails(c) /\ kept[a] # Empty
    <3>1. DOMAIN kept[a] = {"full", "value", "excused"} /\ kept[a].full = TRUE
      BY <1>4, <2>2 DEF ListInv, KeptTyped
    <3>2. kept'[a] = [kept[a] EXCEPT !.excused = TRUE]
      BY <1>3, <1>4, <2>2 DEF DropFails
    <3> QED BY <3>1, <3>2
  <2> QED BY <2>1, <2>2
<1> HIDE DEF dropped
<1>5. KeptTyped'
  <2>1. ASSUME NEW a \in Answers, kept'[a] # Empty
        PROVE  DOMAIN kept'[a] = {"full", "value", "excused"} /\ kept'[a].full = TRUE
    BY <1>2, <1>4, <2>1 DEF ListInv, KeptTyped
  <2> QED BY <1>1, <2>1 DEF KeptTyped
<1>6. ASSUME NEW kind \in {"template", "campaign"}, Stale(kind)' PROVE Dropping(kind)'
  <2>1. KeyOf(kind) \in Answers /\ KeyOf(kind) \in Drops(kind)
    BY DEF KeyOf, Answers, Drops
  <2>2. KeyOf(kind) \notin dropped
    <3>1. ASSUME KeyOf(kind) \in dropped PROVE FALSE
      <4>1. CASE kept'[KeyOf(kind)] = Empty
        BY <1>6, <4>1 DEF Stale, Empty
      <4>2. CASE kept'[KeyOf(kind)].excused = TRUE
        BY <1>6, <4>2 DEF Stale
      <4> QED BY <1>4, <2>1, <3>1, <4>1, <4>2
    <3> QED BY <3>1
  <2>3. callers[c].kind # kind
    BY <2>1, <2>2 DEF dropped
  <2>4. Stale(kind)
    BY <1>0, <1>2, <1>6, <2>1, <2>2 DEF Stale
  <2> QED BY <1>0, <2>3, <2>4, StaleParts, TurnDrops DEF ListInv
<1>7. StaleHasACause'
  BY <1>6 DEF StaleHasACause, Stale, Dropping, KeyOf, Dropper, Answers
<1> QED BY <1>0, <1>5, <1>7 DEF ListInv, Turn

LEMMA ForgetKeeps ==
  ASSUME ListInv, NEW a \in Answers, Forget(a)
  PROVE  ListInv'
<1>1. DOMAIN kept' = Answers /\ \A b \in Answers : kept'[b] = IF b = a THEN Empty ELSE kept[b]
  BY DEF Forget, ListInv, KeptTyped
<1>2. KeptTyped'
  BY <1>1 DEF ListInv, KeptTyped
<1>3. ASSUME NEW kind \in {"template", "campaign"}, Stale(kind)' PROVE Dropping(kind)'
  <2>1. KeyOf(kind) \in Answers
    BY DEF KeyOf, Answers
  <2>2. kept'[KeyOf(kind)] = kept[KeyOf(kind)]
    BY <1>1, <1>3, <2>1 DEF Stale, Empty
  <2>3. Stale(kind)
    BY <1>3, <2>2 DEF Stale, Forget
  <2> QED BY <2>3, StaleParts DEF ListInv, Dropping, Forget
<1>4. StaleHasACause'
  BY <1>3 DEF StaleHasACause, Stale, Dropping, KeyOf, Dropper, Answers
<1> QED BY <1>2, <1>4 DEF ListInv, Forget

LEMMA StepLists == ListInv /\ [ListNext]_listVars => ListInv'
<1> SUFFICES ASSUME ListInv, [ListNext]_listVars PROVE ListInv'
  OBVIOUS
<1>1. ASSUME NEW c \in Callers,
             \/ \E a \in Answers : GetAnswer(c, a)
             \/ LoadAnswer(c) \/ LoadAnswerFails(c) \/ FindTemplate(c) \/ WriteFails(c)
      PROVE  ListInv'
  <2>1. PICK s : Turn(c, s) /\ callers[c].pc # "drop" /\ UNCHANGED <<changes, kept>>
    <3>1. CASE \E a \in Answers : GetAnswer(c, a)
      BY <3>1 DEF GetAnswer, Fresh
    <3>2. CASE LoadAnswer(c)
      BY <3>2 DEF LoadAnswer
    <3>3. CASE FindTemplate(c)
      BY <3>3 DEF FindTemplate, Fresh
    <3>4. CASE LoadAnswerFails(c) \/ WriteFails(c)
      BY <3>4 DEF LoadAnswerFails, WriteFails
    <3> QED BY <1>1, <3>1, <3>2, <3>3, <3>4
  <2> QED BY <2>1, TurnKeeps
<1>2. ASSUME NEW c \in Callers,
             CreateTemplate(c) \/ UpdateTemplate(c) \/ RemoveTemplate(c) \/ ChangeCampaign(c)
      PROVE  ListInv'
  <2>1. PICK kind \in Kinds : Commit(c, kind) /\ callers[c].pc # "drop"
    BY <1>2 DEF CreateTemplate, UpdateTemplate, RemoveTemplate, ChangeCampaign, Fresh, Kinds
  <2> QED BY <2>1, CommitKeeps
<1>3. CASE UNCHANGED listVars
  BY <1>3 DEF listVars, ListInv, KeptTyped, StaleHasACause
<1> QED BY <1>1, <1>2, <1>3, SetKeeps, DropKeeps, ForgetKeeps DEF ListNext

LEMMA ListsStart == ListInit => ListInv
<1> SUFFICES ASSUME ListInit PROVE ListInv
  OBVIOUS
<1>1. DOMAIN callers = Callers /\ DOMAIN changes = Kinds /\ KeptTyped
  BY DEF ListInit, KeptTyped
<1>2. \A a \in Answers : ~ kept[a].full
  BY DEF ListInit, Empty
<1>3. StaleHasACause
  BY <1>2 DEF StaleHasACause, Answers
<1> QED BY <1>1, <1>3 DEF ListInv

(* Redis shows every complete change that deletes its key, for any number of    *)
(* requests that overlap and any failures of Redis, unless the answer was       *)
(* overtaken by the change or the deletion has failed.                          *)
THEOREM StaleExplained == ListSpec => []StaleHasACause
<1>1. ListInv => StaleHasACause
  BY DEF ListInv
<1> QED BY <1>1, ListsStart, StepLists, PTL DEF ListSpec

-----------------------------------------------------------------------------
(* The status of a follower.  WrongStatusIsOld is not inductive: the row says *)
(* what the event said that wrote it last, and LINE what the events since the *)
(* last change say, all of which agree.                                       *)

WebhooksTyped == webhooks \in Seq(WebhookEvents) /\ writer \in Nat /\ follows \in BOOLEAN

IsChange(i) == webhooks[i].kind \in {"follow", "unfollow"}

(* The row says what its last writer said. *)
RowIsWritersWord ==
  IF writer = 0 THEN rowStatus = "none"
  ELSE /\ writer \in DOMAIN webhooks
       /\ rowStatus = "following" <=> webhooks[writer].kind # "unfollow"

(* An event with no later change says whether the user follows; without any *)
(* event nobody has followed.                                               *)
EventsTellFollows ==
  /\ Len(webhooks) = 0 => ~ follows
  /\ Len(webhooks) # 0 => webhooks[1].kind = "follow"
  /\ \A i \in DOMAIN webhooks :
       (\A j \in DOMAIN webhooks : j > i => ~ IsChange(j))
         => (follows <=> webhooks[i].kind # "unfollow")

(* A handler that is about to write is one of the kind that writes so. *)
HandlersWriteTheirKind ==
  \A i \in DOMAIN webhooks :
    /\ webhooks[i].pc = "upsert" => webhooks[i].kind # "unfollow"
    /\ webhooks[i].pc = "revert" => webhooks[i].kind = "unfollow"

FollowInv ==
  /\ WebhooksTyped
  /\ RowIsWritersWord
  /\ EventsTellFollows
  /\ HandlersWriteTheirKind

LEMMA FollowsStart == FollowInit => FollowInv
<1> SUFFICES ASSUME FollowInit PROVE FollowInv
  OBVIOUS
<1>1. webhooks = <<>> /\ webhooks \in Seq(WebhookEvents) /\ Len(webhooks) = 0
  BY DEF FollowInit
<1>2. DOMAIN webhooks = {}
  BY <1>1
<1>3. WebhooksTyped /\ RowIsWritersWord
  BY <1>1 DEF FollowInit, WebhooksTyped, RowIsWritersWord
<1>4. EventsTellFollows /\ HandlersWriteTheirKind
  BY <1>1, <1>2 DEF FollowInit, EventsTellFollows, HandlersWriteTheirKind
<1> QED BY <1>3, <1>4 DEF FollowInv

LEMMA WordIsRight == FollowInv => WrongStatusIsOld
<1> SUFFICES ASSUME FollowInv, (rowStatus = "following") # follows,
                    \A i \in DOMAIN webhooks : i > writer => ~ IsChange(i)
             PROVE  FALSE
  BY DEF WrongStatusIsOld, IsChange
<1>1. DOMAIN webhooks = 1 .. Len(webhooks) /\ Len(webhooks) \in Nat /\ follows \in BOOLEAN
  BY DEF FollowInv, WebhooksTyped
<1>2. CASE writer = 0
  <2>1. rowStatus # "following"
    BY <1>2 DEF FollowInv, RowIsWritersWord
  <2>2. Len(webhooks) = 0
    BY <1>1, <1>2 DEF FollowInv, EventsTellFollows, IsChange
  <2> QED BY <1>1, <2>1, <2>2 DEF FollowInv, EventsTellFollows
<1>3. CASE writer # 0
  <2>1. writer \in DOMAIN webhooks /\ (rowStatus = "following" <=> webhooks[writer].kind # "unfollow")
    BY <1>3 DEF FollowInv, RowIsWritersWord
  <2>2. follows <=> webhooks[writer].kind # "unfollow"
    BY <2>1 DEF FollowInv, EventsTellFollows
  <2> QED BY <1>1, <2>1, <2>2
<1> QED BY <1>2, <1>3

(* The steps of handlers change how far the events are, never what they are.  *)
SameKinds ==
  /\ webhooks' \in Seq(WebhookEvents) /\ DOMAIN webhooks' = DOMAIN webhooks
  /\ Len(webhooks') = Len(webhooks)
  /\ \A j \in DOMAIN webhooks : webhooks'[j].kind = webhooks[j].kind

LEMMA SameKindsKeep ==
  ASSUME FollowInv, SameKinds, UNCHANGED follows
  PROVE  EventsTellFollows'
BY DEF FollowInv, SameKinds, EventsTellFollows, IsChange, WebhooksTyped

(* One event, moved on without a change of its kind. *)
LEMMA MovedOn ==
  ASSUME FollowInv, NEW i \in DOMAIN webhooks, NEW e \in WebhookEvents,
         webhooks' = [webhooks EXCEPT ![i] = e], e.kind = webhooks[i].kind,
         e.pc = "upsert" => e.kind # "unfollow", e.pc = "revert" => e.kind = "unfollow"
  PROVE  SameKinds /\ HandlersWriteTheirKind'
<1>1. webhooks \in Seq(WebhookEvents)
  BY DEF FollowInv, WebhooksTyped
<1>2. webhooks' \in Seq(WebhookEvents) /\ Len(webhooks') = Len(webhooks)
      /\ DOMAIN webhooks' = DOMAIN webhooks
  BY <1>1
<1>3. \A j \in DOMAIN webhooks : webhooks'[j] = IF j = i THEN e ELSE webhooks[j]
  BY <1>1
<1> QED BY <1>2, <1>3 DEF SameKinds, FollowInv, HandlersWriteTheirKind

LEMMA EventFields ==
  ASSUME FollowInv, NEW i \in DOMAIN webhooks
  PROVE  webhooks[i] \in WebhookEvents
BY DEF FollowInv, WebhooksTyped

LEMMA GoOnMoves ==
  ASSUME FollowInv, NEW i \in DOMAIN webhooks, NEW pc \in EventPc, GoOn(i, pc),
         pc = "upsert" => webhooks[i].kind # "unfollow",
         pc = "revert" => webhooks[i].kind = "unfollow"
  PROVE  SameKinds /\ HandlersWriteTheirKind'
<1> DEFINE e == [webhooks[i] EXCEPT !.pc = pc]
<1>1. e \in WebhookEvents /\ e.kind = webhooks[i].kind /\ e.pc = pc
  BY EventFields DEF WebhookEvents
<1>2. webhooks' = [webhooks EXCEPT ![i] = e]
  BY DEF GoOn
<1> HIDE DEF e
<1> QED BY <1>1, <1>2, MovedOn

LEMMA GiveUpMoves ==
  ASSUME FollowInv, NEW i \in DOMAIN webhooks, GiveUp(i)
  PROVE  SameKinds /\ HandlersWriteTheirKind'
<1> DEFINE w == webhooks[i]
           e == IF w.kind = "text" /\ w.attempt = 1 THEN [w EXCEPT !.pc = "new", !.attempt = 2]
                                                    ELSE [w EXCEPT !.pc = "over"]
<1>1. e \in WebhookEvents /\ e.kind = w.kind /\ e.pc \in {"new", "over"}
  BY EventFields DEF WebhookEvents, EventPc
<1>2. webhooks' = [webhooks EXCEPT ![i] = e]
  BY DEF GiveUp
<1> HIDE DEF e
<1> QED BY <1>1, <1>2, MovedOn

(* A step that lets the row alone. *)
LEMMA RowRests ==
  ASSUME FollowInv, SameKinds, HandlersWriteTheirKind', UNCHANGED <<follows, rowStatus, writer>>
  PROVE  FollowInv'
<1>1. WebhooksTyped'
  BY DEF FollowInv, WebhooksTyped, SameKinds
<1>2. RowIsWritersWord'
  BY DEF FollowInv, RowIsWritersWord, SameKinds
<1> QED BY <1>1, <1>2, SameKindsKeep DEF FollowInv

(* A handler that has the last word says what its kind of event says. *)
LEMMA RowWritten ==
  ASSUME FollowInv, SameKinds, HandlersWriteTheirKind', UNCHANGED follows,
         NEW i \in DOMAIN webhooks, writer' = i,
         rowStatus' = "following" <=> webhooks[i].kind # "unfollow"
  PROVE  FollowInv'
<1>1. i \in Nat /\ i # 0
  BY DEF FollowInv, WebhooksTyped
<1>2. WebhooksTyped'
  BY <1>1 DEF FollowInv, WebhooksTyped, SameKinds
<1>3. RowIsWritersWord'
  BY <1>1 DEF RowIsWritersWord, SameKinds
<1> QED BY <1>2, <1>3, SameKindsKeep DEF FollowInv

(* What the user does is the newest event, and true. *)
LEMMA UserActs ==
  ASSUME FollowInv, NEW kind \in EventKinds, Happens(kind),
         follows' = (kind # "unfollow"),
         kind \notin {"follow", "unfollow"} => UNCHANGED follows,
         Len(webhooks) = 0 => kind = "follow"
  PROVE  FollowInv'
<1> DEFINE n == Len(webhooks)
<1>1. webhooks \in Seq(WebhookEvents) /\ n \in Nat /\ DOMAIN webhooks = 1 .. n
  BY DEF FollowInv, WebhooksTyped
<1>2. Event(kind) \in WebhookEvents /\ Event(kind).kind = kind /\ Event(kind).pc = "new"
  BY DEF Event, WebhookEvents, EventPc
<1>3. /\ webhooks' \in Seq(WebhookEvents) /\ Len(webhooks') = n + 1 /\ DOMAIN webhooks' = 1 .. n + 1
      /\ webhooks'[n + 1] = Event(kind)
      /\ \A i \in 1 .. n : webhooks'[i] = webhooks[i]
  BY <1>1, <1>2 DEF Happens
<1> HIDE DEF n
<1>4. WebhooksTyped'
  BY <1>3 DEF FollowInv, WebhooksTyped, Happens
<1>5. RowIsWritersWord'
  BY <1>1, <1>3 DEF FollowInv, RowIsWritersWord, Happens
<1>6. HandlersWriteTheirKind'
  BY <1>1, <1>2, <1>3 DEF FollowInv, HandlersWriteTheirKind
<1>7. EventsTellFollows'
  <2>1. webhooks'[1].kind = "follow"
    <3>1. CASE n = 0
      BY <1>2, <1>3, <3>1 DEF n
    <3>2. CASE n # 0
      BY <1>1, <1>3, <3>2 DEF FollowInv, EventsTellFollows, n
    <3> QED BY <3>1, <3>2
  <2>2. ASSUME NEW i \in DOMAIN webhooks',
               \A j \in DOMAIN webhooks' : j > i => ~ IsChange(j)'
        PROVE  follows' <=> webhooks'[i].kind # "unfollow"
    <3>1. CASE i = n + 1
      BY <1>2, <1>3, <3>1
    <3>2. CASE i # n + 1
      <4>1. i \in 1 .. n /\ n + 1 > i
        BY <1>1, <1>3, <3>2
      <4>2. kind \notin {"follow", "unfollow"}
        BY <1>1, <1>2, <1>3, <2>2, <4>1 DEF IsChange
      <4>3. \A j \in DOMAIN webhooks : j > i => ~ IsChange(j)
        BY <1>1, <1>3, <2>2 DEF IsChange
      <4>4. follows <=> webhooks[i].kind # "unfollow"
        BY <1>1, <4>1, <4>3 DEF FollowInv, EventsTellFollows
      <4> QED BY <1>3, <4>1, <4>2, <4>4
    <3> QED BY <3>1, <3>2
  <2> QED BY <1>1, <1>3, <2>1, <2>2 DEF EventsTellFollows
<1> QED BY <1>4, <1>5, <1>6, <1>7 DEF FollowInv

LEMMA StepFollows == FollowInv /\ [FollowNext]_followVars => FollowInv'
<1> SUFFICES ASSUME FollowInv, [FollowNext]_followVars PROVE FollowInv'
  OBVIOUS
<1>0. Len(webhooks) = 0 => ~ follows
  BY DEF FollowInv, EventsTellFollows
<1>1. CASE UserFollows
  BY <1>1, UserActs DEF UserFollows, EventKinds
<1>2. CASE UserLeaves
  BY <1>0, <1>2, UserActs DEF UserLeaves, EventKinds
<1>3. CASE UserWrites
  BY <1>0, <1>3, UserActs DEF UserWrites, EventKinds
<1>4. ASSUME NEW i \in DOMAIN webhooks, LookUp(i) PROVE FollowInv'
  BY <1>4, GoOnMoves, RowRests DEF LookUp, EventPc
<1>5. ASSUME NEW i \in DOMAIN webhooks, Upsert(i) PROVE FollowInv'
  <2>1. webhooks[i].kind # "unfollow" /\ rowStatus' = "following" /\ writer' = i /\ UNCHANGED follows
    BY <1>5 DEF Upsert, Upserted, FollowInv, HandlersWriteTheirKind
  <2>2. SameKinds /\ HandlersWriteTheirKind'
    BY <1>5, GoOnMoves, GiveUpMoves DEF Upsert, EventPc
  <2> QED BY <2>1, <2>2, RowWritten
<1>6. ASSUME NEW i \in DOMAIN webhooks, FindRow(i) PROVE FollowInv'
  <2>1. webhooks[i].kind = "unfollow" /\ UNCHANGED <<follows, rowStatus>>
    BY <1>6 DEF FindRow
  <2>2. SameKinds /\ HandlersWriteTheirKind'
    BY <1>6, <2>1, GoOnMoves DEF FindRow, EventPc
  <2>3. CASE rowStatus = "none"
    BY <1>6, <2>1, <2>2, <2>3, RowWritten DEF FindRow
  <2>4. CASE rowStatus # "none"
    BY <1>6, <2>1, <2>2, <2>4, RowRests DEF FindRow
  <2> QED BY <2>3, <2>4
<1>7. ASSUME NEW i \in DOMAIN webhooks, RevertRow(i) PROVE FollowInv'
  <2>1. webhooks[i].kind = "unfollow" /\ rowStatus' = "blocked" /\ writer' = i /\ UNCHANGED follows
    BY <1>7 DEF RevertRow, FollowInv, HandlersWriteTheirKind
  <2>2. SameKinds /\ HandlersWriteTheirKind'
    BY <1>7, GoOnMoves DEF RevertRow, EventPc
  <2> QED BY <2>1, <2>2, RowWritten
<1>8. ASSUME NEW i \in DOMAIN webhooks, EventFails(i) PROVE FollowInv'
  BY <1>8, GiveUpMoves, RowRests DEF EventFails
<1>9. ASSUME NEW i \in DOMAIN webhooks, SentAgain(i) PROVE FollowInv'
  <2>1. Event(webhooks[i].kind) \in WebhookEvents
    BY EventFields DEF Event, WebhookEvents, EventPc
  <2>2. SameKinds /\ HandlersWriteTheirKind'
    BY <1>9, <2>1, MovedOn DEF SentAgain, Event
  <2> QED BY <1>9, <2>2, RowRests DEF SentAgain
<1>10. CASE ApiDies
  <2>1. webhooks \in Seq(WebhookEvents)
    BY DEF FollowInv, WebhooksTyped
  <2>2. PICK later \in SUBSET Waiting :
          webhooks' = [i \in DOMAIN webhooks |->
            IF i \in later THEN webhooks[i] ELSE [webhooks[i] EXCEPT !.pc = "over"]]
    BY <1>10 DEF ApiDies
  <2> DEFINE f(i) == IF i \in later THEN webhooks[i] ELSE [webhooks[i] EXCEPT !.pc = "over"]
  <2>3. \A i \in DOMAIN webhooks : /\ f(i) \in WebhookEvents /\ f(i).kind = webhooks[i].kind
                                   /\ f(i).pc \in {"new", "over"}
    <3>1. ASSUME NEW i \in later PROVE webhooks[i].pc = "new"
      <4>1. webhooks[i] = Event(webhooks[i].kind)
        BY DEF Waiting
      <4>2. \A kind : Event(kind).pc = "new"
        BY DEF Event
      <4> QED BY <4>1, <4>2
    <3>2. \A i \in DOMAIN webhooks : webhooks[i] \in WebhookEvents
      BY EventFields
    <3>3. ASSUME NEW i \in DOMAIN webhooks, i \notin later
          PROVE  f(i) \in WebhookEvents /\ f(i).kind = webhooks[i].kind /\ f(i).pc = "over"
      BY <3>2, <3>3 DEF WebhookEvents, EventPc
    <3> QED BY <3>1, <3>2, <3>3
  <2>4. webhooks' = [i \in DOMAIN webhooks |-> f(i)]
    BY <2>2
  <2> HIDE DEF f
  <2>5. SameKinds /\ HandlersWriteTheirKind'
    BY <2>1, <2>3, <2>4 DEF SameKinds, HandlersWriteTheirKind
  <2> QED BY <1>10, <2>5, RowRests DEF ApiDies
<1>11. CASE UNCHANGED followVars
  BY <1>11 DEF followVars, FollowInv, WebhooksTyped, RowIsWritersWord, EventsTellFollows,
               HandlersWriteTheirKind, IsChange
<1> QED BY <1>1, <1>2, <1>3, <1>4, <1>5, <1>6, <1>7, <1>8, <1>9, <1>10, <1>11 DEF FollowNext

(* For any number of events, in any order of handling, with any failures and    *)
(* repetitions: the status of a follower's row is wrong only while the last     *)
(* word on it is older than what the user did last.                             *)
THEOREM StatusExplained == FollowSpec => []WrongStatusIsOld
BY FollowsStart, StepFollows, WordIsRight, PTL DEF FollowSpec

-----------------------------------------------------------------------------
(* The keys of the numbers of members. *)

LEMMA TupleFields ==
  /\ \A a1, a2, b1, b2 : <<a1, a2>> = <<b1, b2>> => a2 = b2
  /\ \A a1, a2, a3, b1, b2, b3 : <<a1, a2, a3>> = <<b1, b2, b3>> => a2 = b2 /\ a3 = b3
  /\ \A a1, a2, a3, a4, a5, a6, b1, b2, b3, b4, b5, b6 :
       <<a1, a2, a3, a4, a5, a6>> = <<b1, b2, b3, b4, b5, b6>>
         => a2 = b2 /\ a3 = b3 /\ a4 = b4 /\ a5 = b5 /\ a6 = b6
OBVIOUS

(* What a key keeps of the criteria is what the selection reads of them. *)
LEMMA SelectionReads ==
  ASSUME NEW t \in WritableTypes, NEW c \in Criteria, NEW d \in Criteria, NEW u,
         HasWhere(t, c), HasWhere(t, d), CountKey(t, c) = CountKey(t, d)
  PROVE  Selects(t, c, u) <=> Selects(t, d, u)
<1>1. Clauses(t, c) # {} /\ Clauses(t, d) # {}
  BY DEF HasWhere, WritableTypes
<1>2. CASE t = "active"
  <2>1. c.activityDays # 0 /\ d.activityDays # 0
    BY <1>1, <1>2 DEF Clauses, Filled, RulesOf
  <2>2. CountKey(t, c) = <<t, c.activityDays>> /\ CountKey(t, d) = <<t, d.activityDays>>
    BY <1>2, <2>1 DEF CountKey
  <2>3. c.activityDays = d.activityDays
    BY <2>2, TupleFields
  <2>4. Clauses(t, c) = {"active"} /\ Clauses(t, d) = {"active"}
    BY <1>2, <2>1 DEF Clauses, Filled, RulesOf
  <2> QED BY <1>2, <2>3, <2>4 DEF Selects, MatchesRule
<1>3. CASE t = "new"
  <2>1. c.newFollowerDays # 0 /\ d.newFollowerDays # 0
    BY <1>1, <1>3 DEF Clauses, Filled, RulesOf
  <2>2. CountKey(t, c) = <<t, c.newFollowerDays>> /\ CountKey(t, d) = <<t, d.newFollowerDays>>
    BY <1>3, <2>1 DEF CountKey
  <2>3. c.newFollowerDays = d.newFollowerDays
    BY <2>2, TupleFields
  <2>4. Clauses(t, c) = {"new"} /\ Clauses(t, d) = {"new"}
    BY <1>3, <2>1 DEF Clauses, Filled, RulesOf
  <2> QED BY <1>3, <2>3, <2>4 DEF Selects, MatchesRule
<1>4. CASE t = "user_type"
  <2>1. /\ CountKey(t, c) = <<t, c.userTypes, c.userTiers>>
        /\ CountKey(t, d) = <<t, d.userTypes, d.userTiers>>
    BY <1>4 DEF CountKey, KeyTiers
  <2>2. c.userTypes = d.userTypes /\ c.userTiers = d.userTiers
    <3>1. <<t, c.userTypes, c.userTiers>> = <<t, d.userTypes, d.userTiers>>
      BY <2>1
    <3> QED BY <3>1, TupleFields, Zenon
  <2>3. Clauses(t, c) = {"users"} /\ Clauses(t, d) = {"users"}
    BY <1>1, <1>4 DEF Clauses, Filled, RulesOf
  <2> QED BY <1>4, <2>2, <2>3 DEF Selects, MatchesRule
<1>5. CASE t = "combined"
  <2>1. /\ CountKey(t, c) = <<t, KeyMatch(c), c.userTypes, c.userTiers, c.activityDays, c.newFollowerDays>>
        /\ CountKey(t, d) = <<t, KeyMatch(d), d.userTypes, d.userTiers, d.activityDays, d.newFollowerDays>>
    BY <1>5 DEF CountKey, KeyTiers
  <2>2. /\ KeyMatch(c) = KeyMatch(d)
        /\ c.userTypes = d.userTypes /\ c.userTiers = d.userTiers
        /\ c.activityDays = d.activityDays /\ c.newFollowerDays = d.newFollowerDays
    <3>1. <<t, KeyMatch(c), c.userTypes, c.userTiers, c.activityDays, c.newFollowerDays>>
            = <<t, KeyMatch(d), d.userTypes, d.userTiers, d.activityDays, d.newFollowerDays>>
      BY <2>1
    <3> QED BY <3>1, TupleFields, Zenon
  <2>3. c.match = "or" <=> d.match = "or"
    BY <2>2 DEF KeyMatch
  <2>4. Clauses(t, c) = Clauses(t, d)
    BY <2>2 DEF Clauses, Filled
  <2>5. \A r : MatchesRule(u, r, c) <=> MatchesRule(u, r, d)
    BY <2>2 DEF MatchesRule
  <2> QED BY <2>3, <2>4, <2>5 DEF Selects, HasWhere
<1> QED BY <1>2, <1>3, <1>4, <1>5 DEF WritableTypes

(* Two audiences whose numbers are cached under one key select the same LINE    *)
(* users, for all numbers of days and all stored criteria: a cached number is   *)
(* never that of another audience.                                              *)
THEOREM KeysAreSoundAlways ==
  \A type \in WritableTypes, c \in StoredCriteria : KeyIsSound(type, c)
<1>1. StoredCriteria \subseteq Criteria
  BY DEF StoredCriteria, ParseCriteria, Criteria, UserTiers
<1>2. ASSUME NEW type \in WritableTypes, NEW c \in StoredCriteria, NEW d \in StoredCriteria,
             HasWhere(type, c), HasWhere(type, d), CountKey(type, c) = CountKey(type, d),
             NEW u \in LineUsers
      PROVE  Selects(type, c, u) <=> Selects(type, d, u)
  BY <1>1, <1>2, SelectionReads
<1> QED BY <1>2 DEF KeyIsSound

-----------------------------------------------------------------------------
(* The buckets of the dashboard. *)

LEMMA StartOfDay ==
  ASSUME NEW t \in Int
  PROVE  /\ StartOf(Day, t) \in Int /\ StartOf(Day, t) <= t /\ t < StartOf(Day, t) + Day
         /\ BangkokDay(t) \in Int /\ StartOf(Day, t) = BangkokDay(t) * Day - BangkokOffset
BY DEF StartOf, BangkokDay, Day, Hour, BangkokOffset

(* The latest month start that is not later than a day. *)
LEMMA LatestMonth ==
  ASSUME NEW d \in Int, NEW m \in MonthStarts, m <= d
  PROVE  LET S == {n \in MonthStarts : n <= d} IN Max(S) \in Int /\ Max(S) <= d
<1> DEFINE S == {n \in MonthStarts : n <= d}
<1>1. S \subseteq Int /\ S # {} /\ \A n \in S : n <= d
  BY MonthAssumption
<1> HIDE DEF S
<1>2. Max(S) \in S
  BY <1>1, HasMax
<1> QED BY <1>1, <1>2 DEF S

LEMMA RangeShape ==
  ASSUME NEW query \in Queries, NEW now \in Int, \E m \in MonthStarts : m <= BangkokDay(now)
  PROVE  LET range == RangeOf(query, now) IN
         /\ range.step \in {Hour, Day}
         /\ range.bucketCount \in Nat /\ range.start \in Int /\ range.end \in Int
         /\ range.start <= now /\ now < range.end
         /\ range.start + range.bucketCount * range.step = range.end
         /\ \E k \in Int : range.start = k * range.step - BangkokOffset
<1> DEFINE period == ResolvePeriod(ToDto(query))
           today  == StartOf(Day, now)
           first  == CASE period = "today" -> today
                       [] period = "7d" -> today - 6 * Day
                       [] period = "month" -> StartOfBangkokMonth(now)
           range  == RangeOf(query, now)
<1>1. /\ range.start = first /\ range.end = today + Day
      /\ range.step = IF period = "today" THEN Hour ELSE Day
      /\ range.bucketCount = IF period = "today" THEN 24 ELSE DaysOf(first, today)
  BY DEF RangeOf
<1>2. period \in {"today", "7d", "month"}
  BY DEF ResolvePeriod, ToDto, Queries, Periods
<1>3. /\ today \in Int /\ today <= now /\ now < today + Day
      /\ BangkokDay(now) \in Int /\ today = BangkokDay(now) * Day - BangkokOffset
  BY StartOfDay
<1> HIDE DEF period, today, range
<1>4. CASE period = "today"
  <2>1. first = today
    BY <1>4
  <2>2. today = (24 * BangkokDay(now)) * Hour - BangkokOffset /\ 24 * BangkokDay(now) \in Int
    BY <1>3 DEF Day, Hour
  <2> HIDE DEF first
  <2> QED BY <1>1, <1>3, <1>4, <2>1, <2>2 DEF range, Day, Hour
<1>5. ASSUME period # "today", NEW d \in Int, d <= BangkokDay(now), first = d * Day - BangkokOffset
      PROVE  /\ range.step = Day
             /\ range.bucketCount \in Nat /\ range.start \in Int /\ range.end \in Int
             /\ range.start <= now /\ now < range.end
             /\ range.start + range.bucketCount * range.step = range.end
             /\ \E k \in Int : range.start = k * range.step - BangkokOffset
  <2> HIDE DEF first
  <2>1. DaysOf(first, today) = BangkokDay(now) - d + 1
    BY <1>3, <1>5 DEF DaysOf, Day, Hour, BangkokOffset
  <2>2. first \in Int /\ first <= today
    BY <1>3, <1>5 DEF Day, Hour, BangkokOffset
  <2>3. first + (BangkokDay(now) - d + 1) * Day = today + Day
    BY <1>3, <1>5 DEF Day, Hour, BangkokOffset
  <2>4. range.step = Day /\ range.bucketCount = BangkokDay(now) - d + 1
    BY <1>1, <1>5, <2>1
  <2>5. Day \in Nat
    BY DEF Day, Hour
  <2> QED BY <1>1, <1>3, <1>5, <2>2, <2>3, <2>4, <2>5
<1>6. CASE period = "7d"
  <2>1. first = (BangkokDay(now) - 6) * Day - BangkokOffset
    BY <1>3, <1>6 DEF Day, Hour, BangkokOffset
  <2>2. BangkokDay(now) - 6 \in Int /\ BangkokDay(now) - 6 <= BangkokDay(now) /\ period # "today"
    BY <1>3, <1>6
  <2> HIDE DEF first
  <2> QED BY <1>5, <2>1, <2>2 DEF range
<1>7. CASE period = "month"
  <2> DEFINE d == Max({m \in MonthStarts : m <= BangkokDay(now)})
  <2>1. d \in Int /\ d <= BangkokDay(now)
    BY <1>3, LatestMonth
  <2>2. first = d * Day - BangkokOffset /\ period # "today"
    BY <1>7 DEF StartOfBangkokMonth
  <2> HIDE DEF first, d
  <2> QED BY <1>5, <2>1, <2>2 DEF range
<1> QED BY <1>2, <1>4, <1>6, <1>7

(* The range of the overview is cut into its buckets, for every query, every    *)
(* time and every calendar that has a month by then: now is in the range, and   *)
(* each instant of the range belongs to exactly one bucket, so that a broadcast *)
(* sent in the range is in the trend and is there once.                         *)
THEOREM OneBucketEach ==
  ASSUME NEW query \in Queries, NEW now \in Int, \E m \in MonthStarts : m <= BangkokDay(now)
  PROVE  LET range == RangeOf(query, now)
             buckets == 0 .. range.bucketCount - 1
         IN /\ range.start <= now /\ now < range.end
            /\ \A time \in Int : range.start <= time /\ time < range.end =>
                 \E i \in buckets :
                   /\ StartOf(range.step, time) = range.start + i * range.step
                   /\ \A j \in buckets :
                        StartOf(range.step, time) = range.start + j * range.step => j = i
<1> DEFINE range == RangeOf(query, now)
           step  == range.step
           n     == range.bucketCount
           start == range.start
<1>1. /\ step \in {Hour, Day} /\ n \in Nat /\ start \in Int /\ range.end \in Int
      /\ start <= now /\ now < range.end
      /\ start + n * step = range.end
      /\ \E k \in Int : start = k * step - BangkokOffset
  BY RangeShape
<1>2. PICK k \in Int : start = k * step - BangkokOffset
  BY <1>1
<1> HIDE DEF step, n, start, range
<1>3. ASSUME NEW time \in Int, start <= time, time < range.end
      PROVE  \E i \in 0 .. n - 1 :
               /\ StartOf(step, time) = start + i * step
               /\ \A j \in 0 .. n - 1 : StartOf(step, time) = start + j * step => j = i
  <2> DEFINE i == ((time + BangkokOffset) \div step) - k
  <2>1. CASE step = Hour
    <3>1. i \in Int /\ StartOf(step, time) = start + i * step
      BY <1>2, <2>1 DEF StartOf, Hour, BangkokOffset
    <3>2. i \in 0 .. n - 1
      BY <1>1, <1>2, <1>3, <2>1 DEF Hour, BangkokOffset
    <3> HIDE DEF i
    <3>3. \A j \in 0 .. n - 1 : start + i * step = start + j * step => j = i
      BY <1>1, <2>1, <3>1 DEF Hour
    <3> QED BY <3>1, <3>2, <3>3
  <2>2. CASE step = Day
    <3>1. i \in Int /\ StartOf(step, time) = start + i * step
      BY <1>2, <2>2 DEF StartOf, Day, Hour, BangkokOffset
    <3>2. i \in 0 .. n - 1
      BY <1>1, <1>2, <1>3, <2>2 DEF Day, Hour, BangkokOffset
    <3> HIDE DEF i
    <3>3. \A j \in 0 .. n - 1 : start + i * step = start + j * step => j = i
      BY <1>1, <2>2, <3>1 DEF Day, Hour
    <3> QED BY <3>1, <3>2, <3>3
  <2> QED BY <1>1, <2>1, <2>2
<1> QED BY <1>1, <1>3 DEF step, n, start, range

(* A field of the rows, as numbers, and the broadcasts it is added up for. *)
LEMMA FieldIsNumber ==
  ASSUME NEW broadcasts \in Seq(BroadcastRows), NEW field \in {"messageCount", "successCount"}
  PROVE  /\ IsFiniteSet(DOMAIN broadcasts)
         /\ \A i \in DOMAIN broadcasts :
              [k \in DOMAIN broadcasts |-> broadcasts[k][field]][i] \in Int
<1>1. Len(broadcasts) \in Nat /\ DOMAIN broadcasts = 1 .. Len(broadcasts)
  OBVIOUS
<1>2. IsFiniteSet(1 .. Len(broadcasts))
  BY <1>1, FS_Interval
<1>3. \A i \in DOMAIN broadcasts : broadcasts[i] \in BroadcastRows
  OBVIOUS
<1>4. \A i \in DOMAIN broadcasts : broadcasts[i][field] \in Int
  BY <1>3 DEF BroadcastRows
<1> QED BY <1>1, <1>2, <1>4

(* The buckets of a range add up to the range, for each field. *)
LEMMA BucketsAddUp ==
  ASSUME NEW query \in Queries, NEW now \in Int, \E m \in MonthStarts : m <= BangkokDay(now),
         NEW broadcasts \in Seq(BroadcastRows), NEW field \in {"messageCount", "successCount"}
  PROVE  LET range == RangeOf(query, now) IN
         SumFunctionOnSet([k \in 0 .. range.bucketCount - 1 |->
                             SumOver(field, broadcasts, Bucket(broadcasts, range, k))],
                          0 .. range.bucketCount - 1)
           = SumOver(field, broadcasts, SentIn(range, broadcasts))
<1> DEFINE range == RangeOf(query, now)
           I     == 0 .. range.bucketCount - 1
           D     == SentIn(range, broadcasts)
           g     == [i \in DOMAIN broadcasts |-> broadcasts[i][field]]
           P     == [k \in I |-> Bucket(broadcasts, range, k)]
<1>1. D \subseteq DOMAIN broadcasts /\ IsFiniteSet(D) /\ \A i \in D : g[i] \in Int
  <2>1. D \subseteq DOMAIN broadcasts
    BY DEF SentIn
  <2>2. IsFiniteSet(DOMAIN broadcasts) /\ \A i \in DOMAIN broadcasts : g[i] \in Int
    BY FieldIsNumber
  <2> HIDE DEF D, g
  <2> QED BY <2>1, <2>2, FS_Subset
<1>2. IsFiniteSet(I)
  <2>1. range.bucketCount \in Nat
    BY RangeShape
  <2> QED BY <2>1, FS_Interval
<1>3. ASSUME NEW i \in D
      PROVE  \E k \in I : i \in P[k] /\ \A j \in I : i \in P[j] => j = k
  <2> DEFINE t == broadcasts[i].sentAt.time
  <2>1. t \in Int /\ range.start <= t /\ t < range.end
    <3>1. i \in DOMAIN broadcasts /\ Within(range, broadcasts[i].sentAt)
      BY DEF SentIn
    <3>2. broadcasts[i] \in BroadcastRows
      BY <3>1
    <3>3. broadcasts[i].sentAt \in {Never} \cup [known : {TRUE}, time : Int]
      BY <3>2 DEF BroadcastRows
    <3>4. broadcasts[i].sentAt # Never
      BY <3>1 DEF Within, Never
    <3>5. t \in Int
      BY <3>3, <3>4
    <3> QED BY <3>1, <3>5 DEF Within
  <2>2. PICK k \in I : /\ StartOf(range.step, t) = range.start + k * range.step
                       /\ \A j \in I : StartOf(range.step, t) = range.start + j * range.step => j = k
    BY <2>1, OneBucketEach
  <2>3. \A j \in I : i \in P[j] <=> StartOf(range.step, t) = range.start + j * range.step
    BY DEF Bucket
  <2> HIDE DEF I, P, t, range
  <2> QED BY <2>2, <2>3
<1>4. \A k \in I : P[k] \cap D = Bucket(broadcasts, range, k)
  BY DEF Bucket
<1> HIDE DEF I, P, D, g
<1>5. SumFunctionOnSet([k \in I |-> SumFunctionOnSet(g, P[k] \cap D)], I) = SumFunctionOnSet(g, D)
  BY <1>1, <1>2, <1>3, SumOfParts
<1>6. [k \in I |-> SumFunctionOnSet(g, P[k] \cap D)]
        = [k \in I |-> SumOver(field, broadcasts, Bucket(broadcasts, range, k))]
  BY <1>4 DEF SumOver, g
<1>7. SumFunctionOnSet(g, D) = SumOver(field, broadcasts, D)
  BY DEF SumOver, g
<1> QED BY <1>5, <1>6, <1>7 DEF I, D

(* The overview adds up, for every query, time, calendar and broadcasts: each    *)
(* broadcast that was sent in the range is counted in one bucket of the trend,   *)
(* and the trend is the tile with the sent messages and what failed after it     *)
(* was delivered.                                                               *)
THEOREM TrendIsComplete ==
  ASSUME NEW query \in Queries, NEW now \in Int, \E m \in MonthStarts : m <= BangkokDay(now),
         NEW broadcasts \in Seq(BroadcastRows)
  PROVE  OverviewAddsUp(query, now, broadcasts)
<1> DEFINE range == RangeOf(query, now)
           I     == 0 .. range.bucketCount - 1
           trend == BuildTrend(broadcasts, range)
           D     == SentIn(range, broadcasts)
           g     == [i \in DOMAIN broadcasts |-> broadcasts[i]["successCount"]]
           A     == D \cap Tiled(broadcasts)
           B     == D \ Tiled(broadcasts)
<1>1. /\ range.start <= now /\ now < range.end
      /\ range.start + range.bucketCount * range.step = range.end
  BY RangeShape
<1>2. /\ DOMAIN trend = I
      /\ \A k \in I :
           /\ trend[k]["sent"] = SumOver("messageCount", broadcasts, Bucket(broadcasts, range, k))
           /\ trend[k]["delivered"] = SumOver("successCount", broadcasts, Bucket(broadcasts, range, k))
  BY DEF BuildTrend
<1>3. SumFunction([k \in I |-> trend[k]["sent"]]) = SumOver("messageCount", broadcasts, D)
  <2>1. SumFunctionOnSet([k \in I |-> SumOver("messageCount", broadcasts, Bucket(broadcasts, range, k))], I)
          = SumOver("messageCount", broadcasts, D)
    BY BucketsAddUp
  <2> HIDE DEF I, trend, range, D
  <2>2. [k \in I |-> trend[k]["sent"]]
          = [k \in I |-> SumOver("messageCount", broadcasts, Bucket(broadcasts, range, k))]
    BY <1>2
  <2> QED BY <2>1, <2>2 DEF SumFunction
<1>4. SumFunction([k \in I |-> trend[k]["delivered"]]) = SumOver("successCount", broadcasts, D)
  <2>1. SumFunctionOnSet([k \in I |-> SumOver("successCount", broadcasts, Bucket(broadcasts, range, k))], I)
          = SumOver("successCount", broadcasts, D)
    BY BucketsAddUp
  <2> HIDE DEF I, trend, range, D
  <2>2. [k \in I |-> trend[k]["delivered"]]
          = [k \in I |-> SumOver("successCount", broadcasts, Bucket(broadcasts, range, k))]
    BY <1>2
  <2> QED BY <2>1, <2>2 DEF SumFunction
<1>5. SumOver("successCount", broadcasts, D)
        = MessageSent(broadcasts, range) + SumOver("successCount", broadcasts, B)
  <2> DEFINE E == DOMAIN broadcasts
  <2>1. IsFiniteSet(E) /\ \A i \in E : g[i] \in Int
    BY FieldIsNumber
  <2>2. A \in SUBSET E /\ B \in SUBSET E /\ A \cap B = {} /\ A \cup B = D
    BY DEF SentIn
  <2> HIDE DEF A, B, E, g, D
  <2>3. SumFunctionOnSet(g, A \cup B) = SumFunctionOnSet(g, A) + SumFunctionOnSet(g, B)
    BY <2>1, <2>2, SumOfTwo
  <2> QED BY <2>2, <2>3 DEF MessageSent, SumOver, A, D, g
<1> HIDE DEF range, I, trend, D, B
<1>6. /\ range.start <= now /\ now < range.end
      /\ range.start + range.bucketCount * range.step = range.end
      /\ SumFunction([k \in DOMAIN trend |-> trend[k]["sent"]]) = SumOver("messageCount", broadcasts, D)
      /\ SumFunction([k \in DOMAIN trend |-> trend[k]["delivered"]])
           = MessageSent(broadcasts, range) + SumOver("successCount", broadcasts, B)
  BY <1>1, <1>2, <1>3, <1>4, <1>5
<1> QED BY <1>6 DEF OverviewAddsUp, range, trend, D, B

-----------------------------------------------------------------------------
(* The layouts of a rich menu. *)

(* Rows and columns. *)
LEMMA Division ==
  ASSUME NEW d \in Nat, d # 0
  PROVE  /\ \A n \in Nat : n = d * (n \div d) + (n % d) /\ n % d \in 0 .. d - 1 /\ n \div d \in Nat
         /\ \A r \in Nat, c \in 0 .. d - 1 : (d * r + c) \div d = r /\ (d * r + c) % d = c
         /\ \A m \in Nat : \A n \in 0 .. m * d - 1 : n \div d \in 0 .. m - 1
<1>1. ASSUME NEW n \in Nat
      PROVE  n = d * (n \div d) + (n % d) /\ n % d \in 0 .. d - 1 /\ n \div d \in Nat
  OBVIOUS
<1>2. ASSUME NEW r \in Nat, NEW c \in 0 .. d - 1
      PROVE  (d * r + c) \div d = r /\ (d * r + c) % d = c
  OBVIOUS
<1>3. ASSUME NEW m \in Nat, NEW n \in 0 .. m * d - 1 PROVE n \div d \in 0 .. m - 1
  OBVIOUS
<1> QED BY <1>1, <1>2, <1>3

LEMMA Further ==
  \A a \in Int, b \in Int, q \in Nat : a < b => a * q + q <= b * q
<1> SUFFICES ASSUME NEW a \in Int, NEW b \in Int, NEW q \in Nat, a < b PROVE a * q + q <= b * q
  OBVIOUS
<1> QED OBVIOUS

(* The parts of a split are as large as the first, but for the last, and where  *)
(* they begin is a multiple of that.                                           *)
IsSplit(s, total, parts) ==
  /\ Before(s, 1) = 0
  /\ Before(s, parts + 1) = total
  /\ \E q \in Nat : \A i \in 1 .. parts :
       /\ s[i] \in Nat /\ (i < parts => s[i] = q)
       /\ Before(s, i) = (i - 1) * q
       /\ Before(s, i) \in Nat
       /\ Before(s, i + 1) = Before(s, i) + s[i]

LEMMA SplitParts ==
  ASSUME NEW total \in Nat, NEW parts \in Nat, parts # 0
  PROVE  IsSplit(SplitSize(total, parts), total, parts)
<1> DEFINE s == SplitSize(total, parts)
           q == total \div parts
           D == 1 .. parts
<1>1. q \in Nat /\ total = parts * q + (total % parts) /\ total % parts \in Nat
  BY Division
<1>2. \A i \in D : s[i] \in Nat /\ s[i] = q + (IF i = parts THEN total % parts ELSE 0)
  BY <1>1 DEF SplitSize
<1>3. IsFiniteSet(D) /\ \A i \in D : s[i] \in Int
  <2>1. IsFiniteSet(D)
    BY FS_Interval
  <2>2. \A i \in D : s[i] \in Int
    BY <1>2
  <2> QED BY <2>1, <2>2
<1> HIDE DEF s, q
<1>4. Before(s, 1) = 0
  <2>1. 1 .. 1 - 1 = {}
    OBVIOUS
  <2>2. SumFunctionOnSet(s, {}) = 0
    <3> HIDE DEF D
    <3> QED BY <1>3, SumFacts
  <2> QED BY <2>1, <2>2 DEF Before
<1>5. ASSUME NEW i \in D PROVE Before(s, i + 1) = s[i] + Before(s, i)
  <2> DEFINE A == 1 .. i - 1
  <2>1. A \in SUBSET D /\ i \notin A /\ 1 .. (i + 1) - 1 = A \cup {i}
    OBVIOUS
  <2> HIDE DEF D, A
  <2>2. SumFunctionOnSet(s, A \cup {i}) = s[i] + SumFunctionOnSet(s, A)
    BY <1>3, <2>1, SumAdd
  <2> QED BY <2>1, <2>2 DEF Before, A
<1>6. \A i \in D : Before(s, i) = (i - 1) * q
  <2> DEFINE T == {n \in Nat : n < parts => Before(s, n + 1) = n * q}
  <2>1. 0 \in T
    BY <1>1, <1>4
  <2>2. ASSUME NEW n \in Nat, n \in T PROVE n + 1 \in T
    <3> SUFFICES ASSUME n + 1 < parts PROVE Before(s, (n + 1) + 1) = (n + 1) * q
      OBVIOUS
    <3>1. Before(s, n + 1) = n * q
      BY <2>2
    <3>2. n + 1 \in D /\ s[n + 1] = q
      BY <1>1, <1>2
    <3>3. Before(s, (n + 1) + 1) = s[n + 1] + Before(s, n + 1)
      BY <1>5, <3>2
    <3>4. q + n * q = (n + 1) * q
      BY <1>1
    <3> QED BY <3>1, <3>2, <3>3, <3>4
  <2>3. Nat \subseteq T
    <3> HIDE DEF T
    <3> QED BY <2>1, <2>2, AllNaturals
  <2>4. ASSUME NEW i \in D PROVE Before(s, i) = (i - 1) * q
    <3>1. i - 1 \in T /\ i - 1 < parts /\ (i - 1) + 1 = i
      BY <2>3
    <3> QED BY <3>1
  <2> QED BY <2>4
<1>7. Before(s, parts + 1) = total
  <2>1. parts \in D
    OBVIOUS
  <2>2. Before(s, parts + 1) = s[parts] + Before(s, parts)
    BY <1>5, <2>1
  <2>3. Before(s, parts) = (parts - 1) * q /\ s[parts] = q + (total % parts)
    BY <1>2, <1>6, <2>1
  <2>4. q + (total % parts) + (parts - 1) * q = parts * q + (total % parts)
    BY <1>1
  <2> QED BY <1>1, <2>2, <2>3, <2>4
<1>8. ASSUME NEW i \in D
      PROVE  /\ s[i] \in Nat /\ (i < parts => s[i] = q)
             /\ Before(s, i) = (i - 1) * q
             /\ Before(s, i) \in Nat
             /\ Before(s, i + 1) = Before(s, i) + s[i]
  <2>1. s[i] \in Nat /\ (i < parts => s[i] = q)
    BY <1>1, <1>2
  <2>2. Before(s, i) = (i - 1) * q /\ (i - 1) * q \in Nat
    BY <1>1, <1>6
  <2> QED BY <1>5, <2>1, <2>2
<1>9. IsSplit(s, total, parts)
  BY <1>1, <1>4, <1>7, <1>8 DEF IsSplit
<1> QED BY <1>9 DEF s

(* The cells of a grid. *)
RowOf(n, cols) == ((n - 1) \div cols) + 1
ColOf(n, cols) == ((n - 1) % cols) + 1
IsPlace(n, line, col, rows, cols) ==
  n \in 1 .. rows * cols /\ RowOf(n, cols) = line /\ ColOf(n, cols) = col

LEMMA CellPlace ==
  ASSUME NEW rows \in Nat, rows # 0, NEW cols \in Nat, cols # 0
  PROVE  /\ \A n \in 1 .. rows * cols :
              /\ RowOf(n, cols) \in 1 .. rows /\ ColOf(n, cols) \in 1 .. cols
              /\ n = cols * (RowOf(n, cols) - 1) + ColOf(n, cols)
         /\ \A line \in 1 .. rows, col \in 1 .. cols :
              IsPlace(cols * (line - 1) + col, line, col, rows, cols)
<1>1. ASSUME NEW n \in 1 .. rows * cols
      PROVE  /\ RowOf(n, cols) \in 1 .. rows /\ ColOf(n, cols) \in 1 .. cols
             /\ n = cols * (RowOf(n, cols) - 1) + ColOf(n, cols)
  <2> DEFINE x == n - 1
  <2>1. x \in Nat /\ x \in 0 .. rows * cols - 1
    OBVIOUS
  <2> HIDE DEF x
  <2>2. x = cols * (x \div cols) + (x % cols) /\ x % cols \in 0 .. cols - 1
    BY <2>1, Division
  <2>3. x \div cols \in 0 .. rows - 1
    BY <2>1, Division
  <2>4. n = x + 1
    BY DEF x
  <2> QED BY <2>2, <2>3, <2>4 DEF RowOf, ColOf, x
<1>2. ASSUME NEW line \in 1 .. rows, NEW col \in 1 .. cols
      PROVE  IsPlace(cols * (line - 1) + col, line, col, rows, cols)
  <2> DEFINE n == cols * (line - 1) + col
             r == line - 1
             c == col - 1
  <2>1. r \in Nat /\ r \in 0 .. rows - 1 /\ c \in 0 .. cols - 1 /\ n - 1 = cols * r + c
    OBVIOUS
  <2>2. n \in 1 .. rows * cols
    OBVIOUS
  <2> HIDE DEF n, r, c
  <2>3. (cols * r + c) \div cols = r /\ (cols * r + c) % cols = c
    BY <2>1, Division
  <2>4. (n - 1) \div cols = r /\ (n - 1) % cols = c
    BY <2>1, <2>3
  <2>5. r + 1 = line /\ c + 1 = col
    BY DEF r, c
  <2> QED BY <2>2, <2>4, <2>5 DEF n, IsPlace, RowOf, ColOf
<1> QED BY <1>1, <1>2

(* What BuildGrid makes, of any widths and heights. *)
LaidOut(cells, widths, heights, rows, cols) ==
  /\ DOMAIN cells = 1 .. rows * cols
  /\ \A n \in 1 .. rows * cols :
       cells[n] = [x |-> Before(widths, ColOf(n, cols)), y |-> Before(heights, RowOf(n, cols)),
                   width |-> widths[ColOf(n, cols)], height |-> heights[RowOf(n, cols)]]

LEMMA GridIsLaidOut ==
  ASSUME NEW size, NEW rows, NEW cols
  PROVE  LaidOut(BuildGrid(size, rows, cols), SplitSize(size.width, cols),
                 SplitSize(size.height, rows), rows, cols)
BY DEF LaidOut, BuildGrid, RowOf, ColOf

(* Of two parts, one ends before the other begins. *)
LEMMA PartsInOrder ==
  ASSUME NEW s, NEW total, NEW parts \in Nat, IsSplit(s, total, parts)
  PROVE  \A a, b \in 1 .. parts : a < b => Before(s, a) + s[a] <= Before(s, b)
<1>1. PICK q \in Nat : \A i \in 1 .. parts : (i < parts => s[i] = q) /\ Before(s, i) = (i - 1) * q
  BY DEF IsSplit
<1> SUFFICES ASSUME NEW a \in 1 .. parts, NEW b \in 1 .. parts, a < b
             PROVE  Before(s, a) + s[a] <= Before(s, b)
  OBVIOUS
<1>2. s[a] = q /\ Before(s, a) = (a - 1) * q /\ Before(s, b) = (b - 1) * q
  BY <1>1
<1>3. (a - 1) * q + q <= (b - 1) * q
  BY Further
<1> QED BY <1>2, <1>3

LEMMA CellsDisjoint ==
  ASSUME NEW rows \in Nat, rows # 0, NEW cols \in Nat, cols # 0,
         NEW W, NEW widths, IsSplit(widths, W, cols),
         NEW H, NEW heights, IsSplit(heights, H, rows),
         NEW cells, LaidOut(cells, widths, heights, rows, cols)
  PROVE  \A i, j \in 1 .. rows * cols : i # j => Disjoint(cells[i], cells[j])
<1> SUFFICES ASSUME NEW i \in 1 .. rows * cols, NEW j \in 1 .. rows * cols, i # j
             PROVE  Disjoint(cells[i], cells[j])
  OBVIOUS
<1> DEFINE line(n)  == RowOf(n, cols)
           col(n)  == ColOf(n, cols)
<1>1. \A n \in {i, j} :
        /\ cells[n].x = Before(widths, col(n)) /\ cells[n].y = Before(heights, line(n))
        /\ cells[n].width = widths[col(n)] /\ cells[n].height = heights[line(n)]
  BY DEF LaidOut
<1>2. \A n \in {i, j} :
        line(n) \in 1 .. rows /\ col(n) \in 1 .. cols /\ n = cols * (line(n) - 1) + col(n)
  BY CellPlace
<1> HIDE DEF line, col
<1>3. line(i) # line(j) \/ col(i) # col(j)
  BY <1>2
<1>4. \A a, b \in 1 .. cols : a < b => Before(widths, a) + widths[a] <= Before(widths, b)
  BY PartsInOrder
<1>5. \A a, b \in 1 .. rows : a < b => Before(heights, a) + heights[a] <= Before(heights, b)
  BY PartsInOrder
<1>6. line(i) < line(j) \/ line(j) < line(i) \/ col(i) < col(j) \/ col(j) < col(i)
  BY <1>2, <1>3
<1>7. \/ cells[i].y + cells[i].height <= cells[j].y \/ cells[j].y + cells[j].height <= cells[i].y
      \/ cells[i].x + cells[i].width <= cells[j].x \/ cells[j].x + cells[j].width <= cells[i].x
  BY <1>1, <1>2, <1>4, <1>5, <1>6
<1> QED BY <1>7 DEF Disjoint

(* The cells of a grid leave nothing uncovered: row by row, their areas add up. *)
LEMMA CellsCover ==
  ASSUME NEW rows \in Nat, rows # 0, NEW cols \in Nat, cols # 0,
         NEW W \in Nat, NEW widths, IsSplit(widths, W, cols),
         NEW H \in Nat, NEW heights, IsSplit(heights, H, rows),
         NEW cells, LaidOut(cells, widths, heights, rows, cols)
  PROVE  SumFunction([n \in DOMAIN cells |-> cells[n].width * cells[n].height]) = W * H
<1> DEFINE N       == rows * cols
           D       == 1 .. N
           area    == [n \in D |-> cells[n].width * cells[n].height]
           Above(r) == Before(heights, r + 1) * W
           Upto(n) == SumFunctionOnSet(area, 1 .. n)
<1>1. N \in Nat /\ IsFiniteSet(D)
  BY FS_Interval
<1>2. /\ Before(widths, 1) = 0 /\ Before(widths, cols + 1) = W
      /\ \A i \in 1 .. cols : /\ widths[i] \in Nat /\ Before(widths, i) \in Nat
                              /\ Before(widths, i + 1) = Before(widths, i) + widths[i]
  BY DEF IsSplit
<1>3. /\ Before(heights, 1) = 0 /\ Before(heights, rows + 1) = H
      /\ \A i \in 1 .. rows : /\ heights[i] \in Nat /\ Before(heights, i) \in Nat
                              /\ Before(heights, i + 1) = Before(heights, i) + heights[i]
  BY DEF IsSplit
<1>4. \A n \in D : area[n] = widths[ColOf(n, cols)] * heights[RowOf(n, cols)]
  BY DEF LaidOut
<1>5. \A n \in D : area[n] \in Int
  <2> SUFFICES ASSUME NEW n \in D PROVE area[n] \in Int
    OBVIOUS
  <2>1. RowOf(n, cols) \in 1 .. rows /\ ColOf(n, cols) \in 1 .. cols
    BY CellPlace
  <2>2. widths[ColOf(n, cols)] \in Nat /\ heights[RowOf(n, cols)] \in Nat
    BY <1>2, <1>3, <2>1
  <2> HIDE DEF area, D
  <2> QED BY <1>4, <2>2
<1> HIDE DEF area
<1>6. ASSUME NEW r \in Nat, r < rows, NEW c \in Nat, c < cols
      PROVE  Upto(cols * r + (c + 1)) = widths[c + 1] * heights[r + 1] + Upto(cols * r + c)
  <2> DEFINE line == r + 1
             col == c + 1
             n   == cols * (line - 1) + col
             A   == 1 .. n - 1
  <2>1. line \in 1 .. rows /\ col \in 1 .. cols
    BY <1>6
  <2>2. n = cols * r + (c + 1) /\ n - 1 = cols * r + c /\ n \in Int
    OBVIOUS
  <2> HIDE DEF line, col
  <2>3. n \in D /\ RowOf(n, cols) = line /\ ColOf(n, cols) = col
    <3>1. IsPlace(cols * (line - 1) + col, line, col, rows, cols)
      BY <2>1, CellPlace
    <3> QED BY <3>1 DEF IsPlace
  <2> HIDE DEF n
  <2>4. A \in SUBSET D /\ n \notin A /\ 1 .. n = A \cup {n}
    BY <2>3
  <2>5. area[n] = widths[col] * heights[line]
    BY <1>4, <2>3
  <2> HIDE DEF D, A
  <2>6. SumFunctionOnSet(area, A \cup {n}) = area[n] + SumFunctionOnSet(area, A)
    BY <1>1, <1>5, <2>3, <2>4, SumAdd
  <2> QED BY <2>2, <2>4, <2>5, <2>6 DEF A, line, col
<1>7. Upto(0) = 0
  <2>1. 1 .. 0 = {}
    OBVIOUS
  <2>2. SumFunctionOnSet(area, {}) = 0
    <3> HIDE DEF D
    <3> QED BY <1>1, <1>5, SumFacts
  <2> QED BY <2>1, <2>2
<1> HIDE DEF Upto
(* A whole line. *)
<1>8. ASSUME NEW r \in Nat, r < rows, Upto(cols * r) = Above(r)
      PROVE  Upto(cols * (r + 1)) = Above(r + 1)
  <2> DEFINE h == heights[r + 1]
             B(c) == Before(widths, c + 1)
             T == {c \in Nat : c <= cols => Upto(cols * r + c) = Above(r) + h * B(c)}
  <2>1. h \in Nat /\ Before(heights, r + 1) \in Nat /\ Above(r) \in Int
    BY <1>3, <1>8
  <2>2. B(0) = 0 /\ B(cols) = W
    BY <1>2
  <2>3. ASSUME NEW c \in Nat, c < cols
        PROVE  /\ B(c) \in Nat /\ widths[c + 1] \in Nat /\ B(c + 1) = B(c) + widths[c + 1]
               /\ Upto(cols * r + (c + 1)) = widths[c + 1] * h + Upto(cols * r + c)
    BY <1>2, <1>6, <1>8, <2>3
  <2> HIDE DEF h, Above, B
  <2>4. 0 \in T
    BY <1>8, <2>1, <2>2
  <2>5. ASSUME NEW c \in Nat, c \in T PROVE c + 1 \in T
    <3> SUFFICES ASSUME c + 1 <= cols PROVE Upto(cols * r + (c + 1)) = Above(r) + h * B(c + 1)
      OBVIOUS
    <3>1. Upto(cols * r + c) = Above(r) + h * B(c)
      BY <2>5
    <3> DEFINE x == B(c)
               w == widths[c + 1]
    <3>2. /\ x \in Nat /\ w \in Nat /\ B(c + 1) = x + w
          /\ Upto(cols * r + (c + 1)) = w * h + Upto(cols * r + c)
      BY <2>3
    <3> HIDE DEF x, w
    <3>3. h * (x + w) = h * x + w * h /\ h * x \in Int /\ w * h \in Int
      BY <2>1, <3>2
    <3>4. Upto(cols * r + c) = Above(r) + h * x
      BY <3>1 DEF x
    <3> QED BY <2>1, <3>2, <3>3, <3>4
  <2>6. Nat \subseteq T
    <3> HIDE DEF T
    <3> QED BY <2>4, <2>5, AllNaturals
  <2>7. Upto(cols * r + cols) = Above(r) + h * W
    BY <2>2, <2>6
  <2>8. Above(r + 1) = Above(r) + h * W
    <3> DEFINE y == Before(heights, r + 1)
    <3>1. y \in Nat /\ Before(heights, (r + 1) + 1) = y + h
      BY <1>3, <1>8 DEF h
    <3> HIDE DEF y
    <3>2. (y + h) * W = y * W + h * W
      BY <2>1, <3>1
    <3> QED BY <3>1, <3>2 DEF Above, y
  <2>9. cols * (r + 1) = cols * r + cols
    OBVIOUS
  <2> QED BY <2>7, <2>8, <2>9
<1>9. Upto(cols * rows) = Above(rows)
  <2> DEFINE T == {r \in Nat : r <= rows => Upto(cols * r) = Above(r)}
  <2>1. 0 \in T
    BY <1>3, <1>7
  <2> HIDE DEF Above
  <2>2. ASSUME NEW r \in Nat, r \in T PROVE r + 1 \in T
    BY <1>8, <2>2
  <2>3. Nat \subseteq T
    <3> HIDE DEF T
    <3> QED BY <2>1, <2>2, AllNaturals
  <2> QED BY <2>3
<1>10. Upto(N) = W * H
  BY <1>3, <1>9
<1>11. SumFunction([n \in DOMAIN cells |-> cells[n].width * cells[n].height]) = Upto(N)
  BY DEF SumFunction, Upto, area, LaidOut
<1> QED BY <1>10, <1>11

LEMMA LayoutKinds ==
  ASSUME NEW layout \in Layouts
  PROVE  /\ layout.size \in [width : Nat, height : Nat]
         /\ \/ layout.cells = <<>>
            \/ \E rows, cols \in {1, 2, 3} : layout.cells = BuildGrid(layout.size, rows, cols)
<1>1. CASE layout \in {Freeform(Big), Freeform(Compact)}
  BY <1>1 DEF Freeform, Big, Compact
<1>2. CASE layout \in {Grid(Big, g[1], g[2]) : g \in {<<1, 1>>, <<1, 2>>, <<1, 3>>, <<2, 2>>, <<2, 3>>, <<3, 2>>}}
  <2>1. PICK rows \in {1, 2, 3}, cols \in {1, 2, 3} : layout = Grid(Big, rows, cols)
    BY <1>2
  <2>2. layout.size = Big /\ layout.cells = BuildGrid(Big, rows, cols)
    BY <2>1 DEF Grid
  <2> QED BY <2>2 DEF Big
<1>3. CASE layout \in {Grid(Compact, 1, cols) : cols \in 1 .. 3}
  <2>1. PICK cols \in {1, 2, 3} : layout = Grid(Compact, 1, cols)
    BY <1>3
  <2>2. layout.size = Compact /\ layout.cells = BuildGrid(Compact, 1, cols)
    BY <2>1 DEF Grid
  <2> QED BY <2>2 DEF Compact
<1> QED BY <1>1, <1>2, <1>3 DEF Layouts

(* Every grid, of any size and any number of rows and columns, covers the menu  *)
(* exactly: its cells do not overlap and their areas add up to the menu's.      *)
THEOREM GridsTile ==
  ASSUME NEW size \in [width : Nat, height : Nat],
         NEW rows \in Nat, rows # 0, NEW cols \in Nat, cols # 0
  PROVE  Tile(BuildGrid(size, rows, cols), size)
<1> DEFINE cells   == BuildGrid(size, rows, cols)
           widths  == SplitSize(size.width, cols)
           heights == SplitSize(size.height, rows)
<1>1. size.width \in Nat /\ size.height \in Nat
  OBVIOUS
<1>2. IsSplit(widths, size.width, cols) /\ IsSplit(heights, size.height, rows)
  BY <1>1, SplitParts
<1>3. LaidOut(cells, widths, heights, rows, cols)
  BY GridIsLaidOut
<1> HIDE DEF cells, widths, heights
<1>4. \A i, j \in 1 .. rows * cols : i # j => Disjoint(cells[i], cells[j])
  BY <1>2, <1>3, CellsDisjoint
<1>5. SumFunction([n \in DOMAIN cells |-> cells[n].width * cells[n].height]) = size.width * size.height
  BY <1>1, <1>2, <1>3, CellsCover
<1>6. DOMAIN cells = 1 .. rows * cols
  BY <1>3 DEF LaidOut
<1> QED BY <1>4, <1>5, <1>6 DEF Tile, cells

(* The areas of a menu that is accepted are on the menu and none is empty,      *)
(* whatever the request asks for and whatever mixture of own bounds and cells   *)
(* it uses; without own bounds they cover the menu exactly.                     *)
THEOREM AcceptedAreasFit ==
  ASSUME NEW layout \in Layouts, NEW image, NEW S, NEW areas \in Seq(S)
  PROVE  AreasFit(layout, image, areas)
<1> SUFFICES ASSUME AcceptsAreas(layout, image, areas)
             PROVE  /\ \A i \in DOMAIN areas :
                         LET b == Resolved(layout, areas)[i] IN
                         /\ {b.x, b.x + b.width - 1} \subseteq 0 .. image.width - 1
                         /\ {b.y, b.y + b.height - 1} \subseteq 0 .. image.height - 1
                    /\ Given(areas) = {} => Tile(Resolved(layout, areas), image)
  BY DEF AreasFit
<1>1. image = layout.size /\ layout.size \in [width : Nat, height : Nat]
  BY LayoutKinds DEF AcceptsAreas
<1>2. Len(areas) \in Nat /\ Len(areas) # 0 /\ DOMAIN areas = 1 .. Len(areas)
  BY DEF AcceptsAreas
<1>3. \A i \in DOMAIN areas : /\ Resolved(layout, areas)[i] # NoBounds
                             /\ Fits(Resolved(layout, areas)[i], image)
  BY <1>1 DEF AcceptsAreas
<1>4. ASSUME NEW b, Fits(b, image)
      PROVE  /\ {b.x, b.x + b.width - 1} \subseteq 0 .. image.width - 1
             /\ {b.y, b.y + b.height - 1} \subseteq 0 .. image.height - 1
  <2> DEFINE x == b.x
             y == b.y
             w == b.width
             h == b.height
             W == image.width
             H == image.height
  <2>1. /\ x \in Int /\ y \in Int /\ w \in Int /\ h \in Int
        /\ w >= 1 /\ h >= 1 /\ x >= 0 /\ y >= 0 /\ x + w <= W /\ y + h <= H
    BY <1>4 DEF Fits, MinAreaSize
  <2>2. W \in Nat /\ H \in Nat
    BY <1>1
  <2> HIDE DEF x, y, w, h, W, H
  <2>3. /\ x \in 0 .. W - 1 /\ x + w - 1 \in 0 .. W - 1
        /\ y \in 0 .. H - 1 /\ y + h - 1 \in 0 .. H - 1
    BY <2>1, <2>2
  <2> QED BY <2>3 DEF x, y, w, h, W, H
<1>5. ASSUME Given(areas) = {} PROVE Tile(Resolved(layout, areas), image)
  <2>1. \A i \in DOMAIN areas :
          Resolved(layout, areas)[i] = IF i \in DOMAIN layout.cells THEN layout.cells[i] ELSE NoBounds
    BY <1>5 DEF Resolved
  <2>2. 1 \in DOMAIN areas /\ 1 \in DOMAIN layout.cells
    BY <1>2, <1>3, <2>1
  <2>3. layout.cells # <<>>
    BY <2>2
  <2>4. PICK rows \in {1, 2, 3}, cols \in {1, 2, 3} : layout.cells = BuildGrid(image, rows, cols)
    BY <1>1, <2>3, LayoutKinds
  <2>5. Len(areas) = Len(layout.cells)
    BY <1>2, <1>5, <2>2, <2>3 DEF AcceptsAreas
  <2>6. DOMAIN layout.cells = DOMAIN areas
    <3>1. layout.cells = [n \in 1 .. rows * cols |-> layout.cells[n]] /\ rows * cols \in Nat
      BY <2>4 DEF BuildGrid
    <3>2. Len(layout.cells) = rows * cols
      BY <3>1
    <3> QED BY <1>2, <2>5, <3>1, <3>2
  <2>7. Resolved(layout, areas) = layout.cells
    <3>1. \A i \in DOMAIN areas : Resolved(layout, areas)[i] = layout.cells[i]
      BY <2>1, <2>6
    <3>2. Resolved(layout, areas) = [i \in DOMAIN areas |-> Resolved(layout, areas)[i]]
      BY DEF Resolved
    <3>3. layout.cells = [i \in DOMAIN areas |-> layout.cells[i]]
      BY <2>4, <2>6 DEF BuildGrid
    <3> QED BY <3>1, <3>2, <3>3
  <2>8. Tile(BuildGrid(image, rows, cols), image)
    BY <1>1, GridsTile
  <2> QED BY <2>4, <2>7, <2>8
<1> QED BY <1>3, <1>4, <1>5

-----------------------------------------------------------------------------
(* Selections from sequences. *)

(* A selection from a sequence, step by step: element i is some or not. *)
KeepOne(seq, S, some, i) == IF seq[i] \in S THEN Append(some, seq[i]) ELSE some

OnlyEquation(f, seq, S) ==
  f = [s \in SUBSET DOMAIN seq |->
         IF s = {} THEN <<>> ELSE KeepOne(seq, S, f[s \ {Max(s)}], Max(s))]

LEMMA OnlyIsChosen ==
  ASSUME NEW seq, NEW S
  PROVE  Only(seq, S) = (CHOOSE f : OnlyEquation(f, seq, S))[DOMAIN seq]
BY DEF Only, FoldLeft, MapThenFoldSet, OnlyEquation, KeepOne

LEMMA LastIsTaken ==
  ASSUME NEW T, NEW seq \in Seq(T)
  PROVE  /\ IsFiniteSet(DOMAIN seq)
         /\ Takes([s \in SUBSET DOMAIN seq |-> Max(s)], DOMAIN seq)
<1> DEFINE n == Len(seq)
           D == 1 .. n
<1>1. n \in Nat /\ DOMAIN seq = D
  OBVIOUS
<1>2. IsFiniteSet(D)
  BY <1>1, FS_Interval
<1>3. ASSUME NEW s \in SUBSET D, s # {} PROVE Max(s) \in s
  <2>1. s \in SUBSET Int /\ n \in Int /\ \A x \in s : x <= n
    BY <1>1
  <2> HIDE DEF D, n
  <2> QED BY <1>3, <2>1, HasMax
<1> QED BY <1>1, <1>2, <1>3 DEF Takes

LEMMA OnlyExists ==
  ASSUME NEW T, NEW seq \in Seq(T), NEW S
  PROVE  \E f \in [SUBSET DOMAIN seq -> Seq(T \cap S)] : OnlyEquation(f, seq, S)
<1> DEFINE D == DOMAIN seq
           V == Seq(T \cap S)
           empty == <<>>
           c == [s \in SUBSET D |-> Max(s)]
           G == [p \in D \X V |-> KeepOne(seq, S, p[2], p[1])]
<1>1. IsFiniteSet(D) /\ Takes(c, D)
  BY LastIsTaken
<1>2. G \in [D \X V -> V]
  <2> SUFFICES ASSUME NEW i \in D, NEW k \in V PROVE KeepOne(seq, S, k, i) \in V
    OBVIOUS
  <2>1. seq[i] \in T
    OBVIOUS
  <2>2. CASE seq[i] \in S
    BY <2>1, <2>2, AppendProperties DEF KeepOne
  <2>3. CASE seq[i] \notin S
    BY <2>3 DEF KeepOne
  <2> QED BY <2>2, <2>3
<1>3. empty \in V
  OBVIOUS
<1>4. \A i \in D, k \in V : G[i, k] = KeepOne(seq, S, k, i)
  OBVIOUS
<1>5. \A s \in SUBSET D : c[s] = Max(s)
  OBVIOUS
<1> HIDE DEF D, V, c, G, empty
<1>6. PICK f \in [SUBSET D -> V] : IsFold(f, D, empty, G, c)
  BY <1>1, <1>2, <1>3, FoldExists
<1>7. ASSUME NEW s \in SUBSET D
      PROVE  f[s] = IF s = {} THEN empty ELSE KeepOne(seq, S, f[s \ {Max(s)}], Max(s))
  <2>1. CASE s = {}
    BY <1>6, <2>1 DEF IsFold, Folded
  <2>2. CASE s # {}
    <3>1. c[s] \in D /\ s \ {c[s]} \in SUBSET D
      BY <1>1, <2>2 DEF Takes
    <3>2. f[s \ {c[s]}] \in V
      BY <3>1
    <3>3. f[s] = G[c[s], f[s \ {c[s]}]]
      BY <1>6, <2>2 DEF IsFold, Folded
    <3> QED BY <1>4, <1>5, <2>2, <3>1, <3>2, <3>3
  <2> QED BY <2>1, <2>2
<1>8. OnlyEquation(f, seq, S)
  <2> DEFINE h == [s \in SUBSET D |->
                     IF s = {} THEN empty ELSE KeepOne(seq, S, f[s \ {Max(s)}], Max(s))]
  <2>1. \A s \in SUBSET D : f[s] = h[s]
    BY <1>7
  <2>2. f = [s \in SUBSET D |-> f[s]]
    OBVIOUS
  <2>3. h = [s \in SUBSET D |-> h[s]]
    OBVIOUS
  <2> HIDE DEF h
  <2>4. f = h
    BY <2>1, <2>2, <2>3
  <2> QED BY <2>4 DEF h, OnlyEquation, D, empty
<1> QED BY <1>8 DEF D, V

LEMMA OnlyFold ==
  ASSUME NEW T, NEW seq \in Seq(T), NEW S
  PROVE  \E f \in [SUBSET DOMAIN seq -> Seq(T \cap S)] :
           OnlyEquation(f, seq, S) /\ Only(seq, S) = f[DOMAIN seq]
<1> DEFINE D == DOMAIN seq
           h == CHOOSE f : OnlyEquation(f, seq, S)
           c == [s \in SUBSET D |-> Max(s)]
<1>1. PICK f \in [SUBSET D -> Seq(T \cap S)] : OnlyEquation(f, seq, S)
  BY OnlyExists
<1>2. OnlyEquation(h, seq, S)
  BY <1>1
<1>3. IsFiniteSet(D) /\ Takes(c, D)
  BY LastIsTaken
<1> HIDE DEF h
<1>4. \A s \in SUBSET D :
        /\ f[s] = IF s = {} THEN <<>> ELSE KeepOne(seq, S, f[s \ {Max(s)}], Max(s))
        /\ h[s] = IF s = {} THEN <<>> ELSE KeepOne(seq, S, h[s \ {Max(s)}], Max(s))
  BY <1>1, <1>2 DEF OnlyEquation
<1>5. f[{}] = h[{}]
  BY <1>4
<1>6. \A s \in SUBSET D : s # {} /\ f[s \ {c[s]}] = h[s \ {c[s]}] => f[s] = h[s]
  BY <1>4
<1> HIDE DEF c, D
<1>7. \A s \in SUBSET D : f[s] = h[s]
  <2>1. SameSteps(f, h, D, c)
    BY <1>5, <1>6 DEF SameSteps
  <2> QED BY ONLY <1>3, <2>1, FoldUnique
<1>8. Only(seq, S) = h[D]
  BY OnlyIsChosen DEF h, D
<1> QED BY <1>1, <1>7, <1>8 DEF D

(* What is selected is in the sequence and in the set. *)
LEMMA OnlyTyped ==
  ASSUME NEW T, NEW seq \in Seq(T), NEW S
  PROVE  Only(seq, S) \in Seq(T \cap S)
<1>1. PICK f \in [SUBSET DOMAIN seq -> Seq(T \cap S)] :
        OnlyEquation(f, seq, S) /\ Only(seq, S) = f[DOMAIN seq]
  BY OnlyFold
<1>2. f[DOMAIN seq] \in Seq(T \cap S)
  OBVIOUS
<1> QED BY <1>1, <1>2

(* When the set has all the elements, all are selected. *)
LEMMA OnlyAll ==
  ASSUME NEW T, NEW seq \in Seq(T), NEW S, \A i \in DOMAIN seq : seq[i] \in S
  PROVE  Only(seq, S) = seq
<1> DEFINE D == DOMAIN seq
           n == Len(seq)
<1>1. PICK f \in [SUBSET D -> Seq(T \cap S)] :
        OnlyEquation(f, seq, S) /\ Only(seq, S) = f[D]
  BY OnlyFold
<1>2. n \in Nat /\ D = 1 .. n
  OBVIOUS
<1>3. \A s \in SUBSET D :
        f[s] = IF s = {} THEN <<>> ELSE KeepOne(seq, S, f[s \ {Max(s)}], Max(s))
  BY <1>1 DEF OnlyEquation
<1> DEFINE U == {k \in Nat : k <= n => f[1 .. k] = SubSeq(seq, 1, k)}
<1>4. 0 \in U
  <2>1. 1 .. 0 = {} /\ SubSeq(seq, 1, 0) = <<>>
    OBVIOUS
  <2> QED BY <1>3, <2>1
<1>5. ASSUME NEW k \in Nat, k \in U PROVE k + 1 \in U
  <2> SUFFICES ASSUME k + 1 <= n PROVE f[1 .. k + 1] = SubSeq(seq, 1, k + 1)
    OBVIOUS
  <2> DEFINE m == k + 1
             s == 1 .. m
  <2>1. m \in Nat /\ m # 0 /\ m \in D /\ seq[m] \in S /\ s \in SUBSET D /\ s # {}
    BY <1>2
  <2>2. s \ {m} = 1 .. k
    OBVIOUS
  <2>3. Max(s) = m
    BY <2>1, MaxOfPrefix
  <2>4. f[1 .. k] = SubSeq(seq, 1, k)
    BY <1>5
  <2>5. SubSeq(seq, 1, m) = Append(SubSeq(seq, 1, k), seq[m])
    BY <1>2
  <2> HIDE DEF s, m, D
  <2>6. f[s] = KeepOne(seq, S, f[s \ {m}], m)
    BY <1>3, <2>1, <2>3
  <2>7. f[s] = Append(SubSeq(seq, 1, k), seq[m])
    BY <2>1, <2>2, <2>4, <2>6 DEF KeepOne
  <2> QED BY <2>5, <2>7 DEF s, m
<1>6. Nat \subseteq U
  <2> HIDE DEF U
  <2> QED BY <1>4, <1>5, AllNaturals
<1>7. f[1 .. n] = SubSeq(seq, 1, n)
  BY <1>2, <1>6
<1>8. SubSeq(seq, 1, n) = seq
  BY <1>2
<1> QED BY <1>1, <1>2, <1>7, <1>8

-----------------------------------------------------------------------------
(* Merging and signing, field by field, for every sequence of blocks whose    *)
(* texts and URLs are in some set S.                                          *)

ColumnsOf(S) == [texts : [TextFields -> S], imageUrl : S]
BlocksOf(S)  == [type : S, texts : [TextFields -> S], urls : [UrlFields -> S],
                 contents : S, columns : Seq(ColumnsOf(S))]

(* What merging makes of a block of a type that can have tags. *)
MergedBlock(b, filled) ==
  Through(LAMBDA t : MergeText(t, filled), LAMBDA u : MergeUrl(u, filled), b)

(* A block whose strings are none that merging replaces. *)
LEMMA NothingToMerge ==
  ASSUME NEW S, NEW b \in BlocksOf(S), NEW filled, Strings(b) \cap (Tags \cup {"builtin"}) = {}
  PROVE  MergedBlock(b, filled) = b
<1> DEFINE texts   == [f \in TextFields |-> MergeText(b.texts[f], filled)]
           urls    == [f \in UrlFields |-> MergeUrl(b.urls[f], filled)]
           columns == [i \in DOMAIN b.columns |->
                         [texts |-> [f \in TextFields |-> MergeText(b.columns[i].texts[f], filled)],
                          imageUrl |-> MergeUrl(b.columns[i].imageUrl, filled)]]
<1>0. \A s \in Strings(b) : MergeText(s, filled) = s /\ MergeUrl(s, filled) = s
  BY DEF Tags, MergeText, MergeUrl
<1>1. texts = b.texts
  <2>1. \A f \in TextFields : MergeText(b.texts[f], filled) = b.texts[f]
    BY <1>0 DEF Strings
  <2> QED BY <2>1 DEF BlocksOf
<1>2. urls = b.urls
  <2>1. \A f \in UrlFields : MergeUrl(b.urls[f], filled) = b.urls[f]
    BY <1>0 DEF Strings, MediaUrls
  <2> QED BY <2>1 DEF BlocksOf
<1>3. MergeText(b.contents, filled) = b.contents
  BY <1>0 DEF Strings
<1>4. columns = b.columns
  <2>1. ASSUME NEW i \in DOMAIN b.columns PROVE columns[i] = b.columns[i]
    <3>1. b.columns[i] \in ColumnsOf(S)
      BY DEF BlocksOf
    <3>2. \A f \in TextFields : MergeText(b.columns[i].texts[f], filled) = b.columns[i].texts[f]
      BY <1>0 DEF Strings
    <3>3. [f \in TextFields |-> MergeText(b.columns[i].texts[f], filled)] = b.columns[i].texts
      BY <3>1, <3>2 DEF ColumnsOf
    <3>4. MergeUrl(b.columns[i].imageUrl, filled) = b.columns[i].imageUrl
      BY <1>0 DEF Strings, MediaUrls
    <3> QED BY <3>1, <3>3, <3>4 DEF ColumnsOf
  <2> QED BY <2>1 DEF BlocksOf
<1>5. MergedBlock(b, filled) =
        [b EXCEPT !.texts = texts, !.urls = urls,
                  !.contents = MergeText(@, filled), !.columns = columns]
  BY DEF MergedBlock, Through, Map
<1> HIDE DEF texts, urls, columns
<1>6. [b EXCEPT !.texts = texts, !.urls = urls,
                !.contents = MergeText(@, filled), !.columns = columns] = b
  BY <1>1, <1>2, <1>3, <1>4 DEF BlocksOf
<1> QED BY <1>5, <1>6

(* Blocks without a known tag, and without a tag that names a property of every *)
(* object, are the same messages for every recipient: the delivery may send     *)
(* them to all at once.                                                         *)
THEOREM UntaggedIsShared ==
  ASSUME NEW S, NEW blocks \in Seq(BlocksOf(S)), NEW filled, ~HaveMergeTags(blocks),
         \A i \in DOMAIN blocks : "builtin" \notin Strings(blocks[i])
  PROVE  LineMessages(Merged(blocks, filled)) = LineMessages(blocks)
<1>1. ASSUME NEW i \in DOMAIN blocks
      PROVE  (IF blocks[i].type \notin MergeableTypes THEN blocks[i]
              ELSE MergedBlock(blocks[i], filled)) = blocks[i]
  <2>1. CASE blocks[i].type \in MergeableTypes
    <3>1. blocks[i] \in BlocksOf(S)
      OBVIOUS
    <3>2. Strings(blocks[i]) \cap (Tags \cup {"builtin"}) = {}
      BY <2>1 DEF HaveMergeTags, ContainsTags
    <3>3. MergedBlock(blocks[i], filled) = blocks[i]
      BY <3>1, <3>2, NothingToMerge
    <3> QED BY <2>1, <3>3
  <2>2. CASE blocks[i].type \notin MergeableTypes
    BY <2>2
  <2> QED BY <2>1, <2>2
<1>2. Merged(blocks, filled) =
        [i \in DOMAIN blocks |-> IF blocks[i].type \notin MergeableTypes THEN blocks[i]
                                ELSE MergedBlock(blocks[i], filled)]
  BY DEF Merged, Map, MergedBlock
<1>3. Merged(blocks, filled) = blocks
  BY <1>1, <1>2
<1> QED BY <1>3

(* A block as it is stored, and as it is shown. *)
StableBlock(b)       == Through(Same, ToStable, b)
ShownBlock(b, signs) == Through(Same, LAMBDA u : Resolve(u, signs), b)

LEMMA StableFields ==
  ASSUME NEW S, NEW b \in BlocksOf(S)
  PROVE  /\ StableBlock(b) \in BlocksOf(S \cup {"ours"})
         /\ StableBlock(b).type = b.type /\ StableBlock(b).contents = b.contents
         /\ StableBlock(b).texts = b.texts
         /\ StableBlock(b).urls = [f \in UrlFields |-> ToStable(b.urls[f])]
         /\ StableBlock(b).columns = [i \in DOMAIN b.columns |->
              [texts |-> b.columns[i].texts, imageUrl |-> ToStable(b.columns[i].imageUrl)]]
<1> DEFINE texts   == [f \in TextFields |-> b.texts[f]]
           urls    == [f \in UrlFields |-> ToStable(b.urls[f])]
           columns == [i \in DOMAIN b.columns |->
                         [texts |-> [f \in TextFields |-> b.columns[i].texts[f]],
                          imageUrl |-> ToStable(b.columns[i].imageUrl)]]
           U       == S \cup {"ours"}
<1>1. StableBlock(b) = [b EXCEPT !.texts = texts, !.urls = urls, !.contents = @, !.columns = columns]
  BY DEF StableBlock, Through, Map, Same
<1>2. texts = b.texts /\ texts \in [TextFields -> U]
  BY DEF BlocksOf
<1>3. urls \in [UrlFields -> U]
  BY DEF BlocksOf, ToStable
<1>4. \A i \in DOMAIN b.columns : b.columns[i] \in ColumnsOf(S)
  BY DEF BlocksOf
<1>5. \A i \in DOMAIN b.columns : [f \in TextFields |-> b.columns[i].texts[f]] = b.columns[i].texts
  BY <1>4 DEF ColumnsOf
<1>6. columns = [i \in DOMAIN b.columns |->
                   [texts |-> b.columns[i].texts, imageUrl |-> ToStable(b.columns[i].imageUrl)]]
  BY <1>5
<1>7. \A i \in DOMAIN b.columns :
        [texts |-> b.columns[i].texts, imageUrl |-> ToStable(b.columns[i].imageUrl)] \in ColumnsOf(U)
  BY <1>4 DEF ColumnsOf, ToStable
<1>8. columns \in Seq(ColumnsOf(U))
  <2>1. /\ Len(b.columns) \in Nat /\ DOMAIN b.columns = 1 .. Len(b.columns)
    BY DEF BlocksOf
  <2>2. columns \in [1 .. Len(b.columns) -> ColumnsOf(U)]
    BY <1>6, <1>7, <2>1
  <2> HIDE DEF columns
  <2> QED BY <2>1, <2>2, SeqDef
<1> HIDE DEF texts, urls, columns
<1>9. /\ StableBlock(b).type = b.type /\ StableBlock(b).contents = b.contents
      /\ StableBlock(b).texts = texts /\ StableBlock(b).urls = urls
      /\ StableBlock(b).columns = columns
  BY <1>1 DEF BlocksOf
<1>10. StableBlock(b) \in BlocksOf(U)
  BY <1>1, <1>2, <1>3, <1>8 DEF BlocksOf
<1> QED BY <1>2, <1>6, <1>9, <1>10 DEF urls

(* What is stored holds no signed URL. *)
LEMMA StableUnsigned ==
  ASSUME NEW S, NEW b \in BlocksOf(S)
  PROVE  "signed" \notin MediaUrls(StableBlock(b))
<1>1. \A u : ToStable(u) # "signed"
  BY DEF ToStable
<1>2. \A f \in UrlFields : StableBlock(b).urls[f] # "signed"
  <2>1. StableBlock(b).urls = [f \in UrlFields |-> ToStable(b.urls[f])]
    BY StableFields
  <2> QED BY <1>1, <2>1
<1>3. \A i \in DOMAIN StableBlock(b).columns : StableBlock(b).columns[i].imageUrl # "signed"
  <2>1. StableBlock(b).columns = [i \in DOMAIN b.columns |->
          [texts |-> b.columns[i].texts, imageUrl |-> ToStable(b.columns[i].imageUrl)]]
    BY StableFields
  <2> QED BY <1>1, <2>1
<1> QED BY <1>2, <1>3 DEF MediaUrls

(* A block without a signed URL that is shown, and then stored, is the same. *)
LEMMA ShownIsStoredAgain ==
  ASSUME NEW S, NEW b \in BlocksOf(S), NEW signs, "signed" \notin MediaUrls(b)
  PROVE  StableBlock(ShownBlock(b, signs)) = b
<1> DEFINE s       == ShownBlock(b, signs)
           texts   == [f \in TextFields |-> b.texts[f]]
           urls    == [f \in UrlFields |-> Resolve(b.urls[f], signs)]
           columns == [i \in DOMAIN b.columns |->
                         [texts |-> [f \in TextFields |-> b.columns[i].texts[f]],
                          imageUrl |-> Resolve(b.columns[i].imageUrl, signs)]]
           stable  == [f \in UrlFields |-> ToStable(s.urls[f])]
           again   == [i \in DOMAIN s.columns |->
                         [texts |-> [f \in TextFields |-> s.columns[i].texts[f]],
                          imageUrl |-> ToStable(s.columns[i].imageUrl)]]
           same    == [f \in TextFields |-> s.texts[f]]
<1>0. \A u : u # "signed" => ToStable(Resolve(u, signs)) = u
  BY DEF ToStable, Resolve
<1>1. s = [b EXCEPT !.texts = texts, !.urls = urls, !.contents = @, !.columns = columns]
  BY DEF ShownBlock, Through, Map, Same
<1>2. StableBlock(s) = [s EXCEPT !.texts = same, !.urls = stable, !.contents = @, !.columns = again]
  BY DEF StableBlock, Through, Map, Same
<1>3. texts = b.texts
  BY DEF BlocksOf
<1> HIDE DEF s, texts, urls, columns
<1>4. /\ s.type = b.type /\ s.contents = b.contents
      /\ s.texts = texts /\ s.urls = urls /\ s.columns = columns
      /\ DOMAIN s = {"type", "texts", "urls", "contents", "columns"}
  BY <1>1 DEF BlocksOf
<1>5. same = b.texts
  BY <1>3, <1>4 DEF BlocksOf
<1>6. stable = b.urls
  <2>1. \A f \in UrlFields : ToStable(s.urls[f]) = b.urls[f]
    <3>1. \A f \in UrlFields : s.urls[f] = Resolve(b.urls[f], signs) /\ b.urls[f] # "signed"
      BY <1>4 DEF urls, MediaUrls
    <3> QED BY <1>0, <3>1
  <2> QED BY <2>1 DEF BlocksOf
<1>7. again = b.columns
  <2>1. DOMAIN s.columns = DOMAIN b.columns
    BY <1>4 DEF columns
  <2>2. ASSUME NEW i \in DOMAIN b.columns PROVE again[i] = b.columns[i]
    <3>1. b.columns[i] \in ColumnsOf(S)
      BY DEF BlocksOf
    <3>2. /\ s.columns[i].texts = [f \in TextFields |-> b.columns[i].texts[f]]
          /\ s.columns[i].imageUrl = Resolve(b.columns[i].imageUrl, signs)
      BY <1>4 DEF columns
    <3>3. [f \in TextFields |-> s.columns[i].texts[f]] = b.columns[i].texts
      BY <3>1, <3>2 DEF ColumnsOf
    <3>4. ToStable(s.columns[i].imageUrl) = b.columns[i].imageUrl
      BY <1>0, <3>2 DEF MediaUrls
    <3>5. again[i] = [texts |-> b.columns[i].texts, imageUrl |-> b.columns[i].imageUrl]
      BY <2>1, <3>3, <3>4
    <3> QED BY <3>1, <3>5 DEF ColumnsOf
  <2> QED BY <2>1, <2>2 DEF BlocksOf
<1> HIDE DEF same, stable, again
<1>8. /\ StableBlock(s).type = b.type /\ StableBlock(s).contents = b.contents
      /\ StableBlock(s).texts = b.texts /\ StableBlock(s).urls = b.urls
      /\ StableBlock(s).columns = b.columns
  BY <1>2, <1>4, <1>5, <1>6, <1>7
<1>9. StableBlock(s) = [type |-> b.type, texts |-> b.texts, urls |-> b.urls,
                        contents |-> b.contents, columns |-> b.columns]
  BY <1>2, <1>4, <1>8
<1>10. b = [type |-> b.type, texts |-> b.texts, urls |-> b.urls,
            contents |-> b.contents, columns |-> b.columns]
  BY DEF BlocksOf
<1> QED BY <1>9, <1>10 DEF s

(* A template that was shown and is saved again is the one that was stored,     *)
(* whether signing its URLs worked or not, and no stored URL is a signed one.   *)
THEOREM StoredUrlsStay ==
  ASSUME NEW S, NEW blocks \in Seq(BlocksOf(S)), NEW signs
  PROVE  LET stored == Canonicalized(blocks) IN
         /\ Canonicalized(Shown(stored, signs)) = stored
         /\ \A i \in DOMAIN stored : "signed" \notin MediaUrls(stored[i])
<1> DEFINE stored == Canonicalized(blocks)
           shown  == Shown(stored, signs)
           T      == S \cup {"ours"}
<1>1. stored = [i \in DOMAIN blocks |-> StableBlock(blocks[i])]
  BY DEF Canonicalized, Map, StableBlock
<1>2. shown = [i \in DOMAIN stored |-> ShownBlock(stored[i], signs)]
  BY DEF Shown, Map, ShownBlock
<1>3. Canonicalized(shown) = [i \in DOMAIN shown |-> StableBlock(shown[i])]
  BY DEF Canonicalized, Map, StableBlock
<1> HIDE DEF stored, shown
<1>4. \A i \in DOMAIN stored : /\ stored[i] \in BlocksOf(T)
                               /\ "signed" \notin MediaUrls(stored[i])
  <2> SUFFICES ASSUME NEW i \in DOMAIN stored
               PROVE  stored[i] \in BlocksOf(T) /\ "signed" \notin MediaUrls(stored[i])
    OBVIOUS
  <2>1. blocks[i] \in BlocksOf(S) /\ stored[i] = StableBlock(blocks[i])
    BY <1>1
  <2>2. StableBlock(blocks[i]) \in BlocksOf(T)
    BY <2>1, StableFields
  <2>3. "signed" \notin MediaUrls(StableBlock(blocks[i]))
    BY <2>1, StableUnsigned
  <2> QED BY <2>1, <2>2, <2>3
<1>5. \A i \in DOMAIN stored : StableBlock(ShownBlock(stored[i], signs)) = stored[i]
  BY <1>4, ShownIsStoredAgain
<1>6. Canonicalized(shown) = stored
  <2>1. DOMAIN shown = DOMAIN stored
    BY <1>2
  <2>2. \A i \in DOMAIN stored : StableBlock(shown[i]) = stored[i]
    BY <1>2, <1>5
  <2>3. stored = [i \in DOMAIN stored |-> stored[i]]
    BY <1>1
  <2> QED BY <1>3, <2>1, <2>2, <2>3
<1> QED BY <1>4, <1>6 DEF stored, shown
-----------------------------------------------------------------------------
(* The whole of what is sent and stored of a template. *)

LEMMA BlocksAreTyped == Blocks = BlocksOf(STRING)
BY DEF Blocks, BlocksOf, Columns, ColumnsOf

(* Whatever the blocks of a template are: when the delivery finds no tag in      *)
(* them and sends them to all recipients at once, none of these would have been  *)
(* sent anything else, unless a tag names a property of every object.           *)
THEOREM SharedIsTheSame ==
  ASSUME NEW blocks \in Seq(Blocks)
  PROVE  SameForEveryone(blocks)
<1> DEFINE seen == Parsed(blocks, blocks)
<1>1. seen \in Seq(BlocksOf(STRING))
  <2> DEFINE S == {b \in Range(blocks) : b.type \in MessageTypes}
  <2>1. seen = Only(blocks, S)
    BY DEF Parsed, Known
  <2> HIDE DEF S
  <2>2. Only(blocks, S) \in Seq(Blocks \cap S)
    BY OnlyTyped
  <2>3. Only(blocks, S) \in Seq(Blocks)
    BY <2>2
  <2> QED BY <2>1, <2>3, BlocksAreTyped
<1> HIDE DEF seen
<1>2. ASSUME ~HaveMergeTags(seen), \A i \in DOMAIN seen : "builtin" \notin Strings(seen[i]),
             NEW filled \in BOOLEAN
      PROVE  LineMessages(Merged(seen, filled)) = LineMessages(seen)
  BY <1>1, <1>2, UntaggedIsShared
<1> QED BY <1>2 DEF SameForEveryone, seen

(* The URLs of images of a block that LINE is sent. *)
PictureUrls(b) == {b.urls["imageUrl"]} \cup {b.columns[i].imageUrl : i \in DOMAIN b.columns}

LEMMA BubbleHero ==
  \A texts, image, label, link :
    LET x == Bubble(texts, image, label, link) IN
    x = Nothing \/ (x.type = "bubble" /\ x.hero = image)
BY DEF Bubble

(* What is selected is in the set, and one of what it was selected from. *)
AllFrom(some, S, seq) ==
  \A i \in DOMAIN some : some[i] \in S /\ \E j \in DOMAIN seq : some[i] = seq[j]

LEMMA OnlyFrom ==
  ASSUME NEW n \in Nat, NEW seq, DOMAIN seq = 1 .. n, seq = [i \in 1 .. n |-> seq[i]], NEW S
  PROVE  AllFrom(Only(seq, S), S, seq)
<1> DEFINE some == Only(seq, S)
<1>1. seq \in Seq(Range(seq))
  BY DEF Range
<1>2. some \in Seq(Range(seq) \cap S)
  BY <1>1, OnlyTyped
<1> HIDE DEF some
<1>3. \A i \in DOMAIN some : some[i] \in Range(seq) \cap S
  BY <1>2
<1>4. AllFrom(some, S, seq)
  BY <1>3 DEF AllFrom, Range
<1> QED BY <1>4 DEF some

LEMMA ImagesOfBlock ==
  ASSUME NEW b, NEW n \in Nat, DOMAIN b.columns = 1 .. n
  PROVE  Images(LineMessage(b)) \subseteq PictureUrls(b)
<1> DEFINE m == LineMessage(b)
<1>1. CASE m = Nothing
  BY <1>1 DEF Images, Nothing
<1>2. CASE m = [type |-> "text", text |-> b.texts["text"]]
  BY <1>2 DEF Images
<1>3. CASE m = [type |-> "image", media |-> <<b.urls["imageUrl"]>>]
  BY <1>3 DEF Images, PictureUrls
<1>4. CASE m.type = "video"
  BY <1>4 DEF Images
<1>5. CASE m = FlexMessage(b)
  <2> DEFINE t == b.texts
             bubble == Bubble(<<t["title"], t["description"]>>, b.urls["imageUrl"], t["label"], t["link"])
  <2>1. CASE m.type = "flex"
    BY <2>1 DEF Images
  <2>2. CASE m.type = "bubbles" /\ m.bubbles = <<bubble>> /\ bubble # Nothing
    <3>1. bubble.hero = b.urls["imageUrl"]
      BY <2>2, BubbleHero
    <3> HIDE DEF bubble, m
    <3>2. Images(m) = {m.bubbles[i].hero : i \in DOMAIN m.bubbles} \ {"none"}
      BY <2>2 DEF Images
    <3>3. \A i \in DOMAIN m.bubbles : m.bubbles[i] = bubble
      BY <2>2
    <3>4. Images(m) \subseteq {b.urls["imageUrl"]}
      BY <3>1, <3>2, <3>3
    <3> QED BY <3>4 DEF PictureUrls, m
  <2>3. m = Nothing \/ m.type = "flex" \/ (m.type = "bubbles" /\ m.bubbles = <<bubble>> /\ bubble # Nothing)
    <3> HIDE DEF m, bubble
    <3> QED BY <1>5 DEF FlexMessage, bubble
  <2> QED BY <1>1, <2>1, <2>2, <2>3
<1>6. CASE m = CarouselMessage(b)
  <2> DEFINE card(c) == Bubble(<<c.texts["title"], c.texts["text"]>>, c.imageUrl,
                               c.texts["label"], c.texts["link"])
             cards == [i \in 1 .. n |-> card(b.columns[i])]
             S == Range(cards) \ {Nothing}
             bubbles == Only(cards, S)
  <2>1. m = IF bubbles = <<>> THEN Nothing
            ELSE [type |-> "bubbles", alt |-> OrElse(b.texts["altText"], "plain"), bubbles |-> bubbles]
    BY <1>6 DEF CarouselMessage, Map
  <2>2. \A j \in 1 .. n : cards[j] # Nothing => cards[j].hero = b.columns[j].imageUrl
    <3> SUFFICES ASSUME NEW j \in 1 .. n, cards[j] # Nothing PROVE cards[j].hero = b.columns[j].imageUrl
      OBVIOUS
    <3>1. cards[j] = card(b.columns[j])
      OBVIOUS
    <3>2. card(b.columns[j]) = Nothing \/ card(b.columns[j]).hero = b.columns[j].imageUrl
      BY BubbleHero
    <3> HIDE DEF card, cards
    <3> QED BY <3>1, <3>2
  <2>3. DOMAIN cards = 1 .. n /\ cards = [i \in 1 .. n |-> cards[i]]
    OBVIOUS
  <2> HIDE DEF cards, card
  <2>4. AllFrom(bubbles, S, cards)
    BY <2>3, OnlyFrom
  <2>5. \A i \in DOMAIN bubbles : \E j \in 1 .. n : bubbles[i].hero = b.columns[j].imageUrl
    BY <2>2, <2>3, <2>4 DEF AllFrom
  <2>6. CASE m = Nothing
    BY <1>1, <2>6
  <2>7. CASE m = [type |-> "bubbles", alt |-> OrElse(b.texts["altText"], "plain"), bubbles |-> bubbles]
    <3> HIDE DEF m, bubbles
    <3>1. Images(m) = {bubbles[i].hero : i \in DOMAIN bubbles} \ {"none"}
      BY <2>7 DEF Images
    <3> QED BY <2>5, <3>1 DEF PictureUrls, m
  <2> QED BY <2>1, <2>6, <2>7
<1>7. m = Nothing \/ m = [type |-> "text", text |-> b.texts["text"]]
        \/ m = [type |-> "image", media |-> <<b.urls["imageUrl"]>>] \/ m.type = "video"
        \/ m = FlexMessage(b) \/ m = CarouselMessage(b)
  BY DEF LineMessage
<1> QED BY <1>1, <1>2, <1>3, <1>4, <1>5, <1>6, <1>7

(* What is sent is made of one of the blocks. *)
LEMMA MessageOfBlock ==
  ASSUME NEW n \in Nat, NEW blocks, blocks = [i \in 1 .. n |-> blocks[i]]
  PROVE  \A i \in DOMAIN LineMessages(blocks) :
           \E j \in 1 .. n : LineMessages(blocks)[i] = LineMessage(blocks[j])
<1> DEFINE k     == IF Len(blocks) < 5 THEN Len(blocks) ELSE 5
           some  == SubSeq(blocks, 1, k)
           built == [i \in DOMAIN some |-> LineMessage(some[i])]
           S     == Range(built) \ {Nothing}
           sent  == Only(built, S)
<1>1. LineMessages(blocks) = sent
  BY DEF LineMessages, Map
<1>2. Len(blocks) = n
  OBVIOUS
<1>3. k \in Nat /\ k <= n
  BY <1>2
<1> HIDE DEF k
<1>4. some = [i \in 1 .. k |-> blocks[i]]
  BY <1>2, <1>3
<1>5. DOMAIN built = 1 .. k /\ \A i \in 1 .. k : built[i] = LineMessage(blocks[i])
  BY <1>4
<1>6. built = [i \in 1 .. k |-> built[i]]
  BY <1>4
<1> HIDE DEF built, S
<1>7. AllFrom(sent, S, built)
  BY <1>3, <1>5, <1>6, OnlyFrom
<1> HIDE DEF sent
<1>8. ASSUME NEW i \in DOMAIN sent
      PROVE  \E j \in 1 .. n : sent[i] = LineMessage(blocks[j])
  <2>1. PICK j \in DOMAIN built : sent[i] = built[j]
    BY <1>7 DEF AllFrom
  <2>2. j \in 1 .. n
    BY <1>3, <1>5, <2>1
  <2>3. sent[i] = LineMessage(blocks[j])
    BY <1>5, <2>1
  <2> QED BY <2>2, <2>3
<1> QED BY <1>1, <1>8

(* A block as a broadcast sends it, with what signing and merging make of it. *)
AccessibleBlock(b) == [ShownBlock(b, TRUE) EXCEPT !.urls["videoUrl"] = b.urls["videoUrl"]]
MergedFor(b, filled) ==
  Through(LAMBDA t : MergeText(t, filled), LAMBDA u : MergeUrl(u, filled), b)
SentBlock(b, filled) ==
  IF AccessibleBlock(b).type \notin MergeableTypes THEN AccessibleBlock(b)
  ELSE MergedFor(AccessibleBlock(b), filled)

(* LINE can load the images of such a block: those of our storage are signed. *)
LEMMA SentPictures ==
  ASSUME NEW S, NEW b \in BlocksOf(S), "blob" \notin MediaUrls(b), NEW filled
  PROVE  /\ DOMAIN SentBlock(b, filled).columns = DOMAIN b.columns
         /\ PictureUrls(SentBlock(b, filled)) \cap {"blob", "ours"} = {}
<1> DEFINE a == AccessibleBlock(b)
           m == MergedFor(a, filled)
           Loads(u) == u \notin {"blob", "ours"}
<1>1. \A u : u # "blob" => Loads(Resolve(u, TRUE))
  BY DEF Resolve
<1>2. \A u : Loads(u) => Loads(MergeUrl(u, filled))
  BY DEF MergeUrl
<1>3. b.urls["imageUrl"] # "blob" /\ \A i \in DOMAIN b.columns : b.columns[i].imageUrl # "blob"
  BY DEF MediaUrls, UrlFields
<1>4. /\ a.urls["imageUrl"] = Resolve(b.urls["imageUrl"], TRUE)
      /\ DOMAIN a.columns = DOMAIN b.columns
      /\ \A i \in DOMAIN b.columns : a.columns[i].imageUrl = Resolve(b.columns[i].imageUrl, TRUE)
      /\ DOMAIN a = {"type", "texts", "urls", "contents", "columns"}
  <2> DEFINE s == ShownBlock(b, TRUE)
             texts == [f \in TextFields |-> b.texts[f]]
             urls == [f \in UrlFields |-> Resolve(b.urls[f], TRUE)]
             columns == [i \in DOMAIN b.columns |->
                           [texts |-> [f \in TextFields |-> b.columns[i].texts[f]],
                            imageUrl |-> Resolve(b.columns[i].imageUrl, TRUE)]]
  <2>1. s = [b EXCEPT !.texts = texts, !.urls = urls, !.contents = @, !.columns = columns]
    BY DEF ShownBlock, Through, Map, Same
  <2>2. a = [s EXCEPT !.urls = [s.urls EXCEPT !["videoUrl"] = b.urls["videoUrl"]]]
    BY DEF AccessibleBlock
  <2>3. \A i \in DOMAIN b.columns : columns[i].imageUrl = Resolve(b.columns[i].imageUrl, TRUE)
    OBVIOUS
  <2>4. DOMAIN columns = DOMAIN b.columns
    OBVIOUS
  <2>5. "imageUrl" \in UrlFields /\ urls["imageUrl"] = Resolve(b.urls["imageUrl"], TRUE)
        /\ DOMAIN urls = UrlFields
    BY DEF UrlFields
  <2>6. DOMAIN b = {"type", "texts", "urls", "contents", "columns"}
    BY DEF BlocksOf
  <2> HIDE DEF s, texts, urls, columns, a
  <2>7. s.urls = urls /\ s.columns = columns /\ DOMAIN s = DOMAIN b
    BY <2>1, <2>6
  <2>8. a.columns = s.columns /\ DOMAIN a = DOMAIN s /\ a.urls = [urls EXCEPT !["videoUrl"] = b.urls["videoUrl"]]
    BY <2>2, <2>6, <2>7
  <2>9. a.urls["imageUrl"] = urls["imageUrl"]
    BY <2>5, <2>8
  <2> QED BY <2>3, <2>4, <2>5, <2>6, <2>7, <2>8, <2>9
<1> HIDE DEF a
<1>5. /\ m.urls["imageUrl"] = MergeUrl(a.urls["imageUrl"], filled)
      /\ DOMAIN m.columns = DOMAIN a.columns
      /\ \A i \in DOMAIN a.columns : m.columns[i].imageUrl = MergeUrl(a.columns[i].imageUrl, filled)
  <2> DEFINE texts == [f \in TextFields |-> MergeText(a.texts[f], filled)]
             urls == [f \in UrlFields |-> MergeUrl(a.urls[f], filled)]
             columns == [i \in DOMAIN a.columns |->
                           [texts |-> [f \in TextFields |-> MergeText(a.columns[i].texts[f], filled)],
                            imageUrl |-> MergeUrl(a.columns[i].imageUrl, filled)]]
             c == MergeText(a.contents, filled)
  <2>1. m = [a EXCEPT !.texts = texts, !.urls = urls, !.contents = c, !.columns = columns]
    BY <1>4 DEF MergedFor, Through, Map
  <2>2. urls["imageUrl"] = MergeUrl(a.urls["imageUrl"], filled)
    BY DEF UrlFields
  <2>3. DOMAIN columns = DOMAIN a.columns
        /\ \A i \in DOMAIN a.columns : columns[i].imageUrl = MergeUrl(a.columns[i].imageUrl, filled)
    OBVIOUS
  <2> HIDE DEF texts, urls, columns, c, m
  <2>4. m.urls = urls /\ m.columns = columns
    BY <1>4, <2>1
  <2> QED BY <2>2, <2>3, <2>4
<1> HIDE DEF m
<1>6. Loads(a.urls["imageUrl"]) /\ \A i \in DOMAIN b.columns : Loads(a.columns[i].imageUrl)
  BY <1>1, <1>3, <1>4
<1>7. Loads(m.urls["imageUrl"]) /\ \A i \in DOMAIN b.columns : Loads(m.columns[i].imageUrl)
  BY <1>2, <1>4, <1>5, <1>6
<1>8. SentBlock(b, filled) = a \/ SentBlock(b, filled) = m
  BY DEF SentBlock, a, m
<1> QED BY <1>4, <1>5, <1>6, <1>7, <1>8 DEF PictureUrls

(* The URLs of stored media last, for all blocks a template may have: showing   *)
(* and saving again keeps them, none of a browser or of a signature is stored,  *)
(* and every image a broadcast sends from our storage is signed.               *)
THEOREM MediaAlwaysLasts ==
  ASSUME NEW blocks \in Seq(Blocks)
  PROVE  MediaLast(blocks)
<1> DEFINE stored == Canonicalized(blocks)
           n      == Len(blocks)
           T      == STRING \cup {"ours"}
           given(filled) == Merged(Accessible(stored, TRUE), filled)
<1> SUFFICES ASSUME AcceptsTemplate(blocks)
             PROVE  /\ \A signs \in BOOLEAN :
                         Canonicalized(Shown(Parsed(stored, stored), signs)) = stored
                    /\ \A i \in DOMAIN stored : MediaUrls(stored[i]) \cap {"blob", "signed"} = {}
                    /\ \A filled \in BOOLEAN :
                         LET sent == LineMessages(Merged(Accessible(Parsed(stored, stored), TRUE), filled))
                         IN \A i \in DOMAIN sent : Images(sent[i]) \cap {"blob", "ours"} = {}
  BY DEF MediaLast
<1>1. n \in Nat /\ DOMAIN blocks = 1 .. n /\ blocks \in Seq(BlocksOf(STRING))
  BY BlocksAreTyped
<1>2. stored = [i \in DOMAIN blocks |-> StableBlock(blocks[i])]
  BY DEF Canonicalized, Map, StableBlock
<1> HIDE DEF stored, n
<1>3. ASSUME NEW i \in 1 .. n
      PROVE  /\ stored[i] \in BlocksOf(T)
             /\ stored[i].type \in MessageTypes
             /\ "blob" \notin MediaUrls(stored[i])
  <2> DEFINE b == blocks[i]
             s == StableBlock(b)
  <2>1. b \in BlocksOf(STRING) /\ stored[i] = s
    BY <1>1, <1>2
  <2>2. b.type \in MessageTypes /\ "blob" \notin MediaUrls(b)
    BY <1>1 DEF AcceptsTemplate
  <2> HIDE DEF b
  <2>3. /\ s \in BlocksOf(STRING \cup {"ours"}) /\ s.type = b.type
        /\ s.urls = [f \in UrlFields |-> ToStable(b.urls[f])]
        /\ s.columns = [j \in DOMAIN b.columns |->
             [texts |-> b.columns[j].texts, imageUrl |-> ToStable(b.columns[j].imageUrl)]]
    BY <2>1, StableFields
  <2> HIDE DEF s
  <2>5. \A u : u # "blob" => ToStable(u) # "blob"
    BY DEF ToStable
  <2>6. (\A f \in UrlFields : b.urls[f] # "blob") /\ \A j \in DOMAIN b.columns : b.columns[j].imageUrl # "blob"
    BY <2>2 DEF MediaUrls
  <2>7. (\A f \in UrlFields : s.urls[f] # "blob") /\ \A j \in DOMAIN s.columns : s.columns[j].imageUrl # "blob"
    BY <2>3, <2>5, <2>6
  <2>8. "blob" \notin MediaUrls(s)
    BY <2>7 DEF MediaUrls
  <2> QED BY <2>1, <2>2, <2>3, <2>8
<1>4. DOMAIN stored = 1 .. n /\ stored \in Seq(BlocksOf(T))
  BY <1>1, <1>2, <1>3
<1>5. Parsed(stored, stored) = stored
  <2> DEFINE S == {b \in Range(stored) : b.type \in MessageTypes}
  <2>1. \A i \in DOMAIN stored : stored[i] \in S
    BY <1>3, <1>4 DEF Range
  <2>2. Known(stored) = Only(stored, S)
    BY DEF Known
  <2> HIDE DEF S
  <2>3. Only(stored, S) = stored
    BY <1>4, <2>1, OnlyAll
  <2> QED BY <2>2, <2>3 DEF Parsed
<1>6. /\ \A signs \in BOOLEAN : Canonicalized(Shown(stored, signs)) = stored
      /\ \A i \in DOMAIN stored : "signed" \notin MediaUrls(stored[i])
  BY <1>1, StoredUrlsStay DEF stored
<1>7. \A i \in DOMAIN stored : MediaUrls(stored[i]) \cap {"blob", "signed"} = {}
  BY <1>3, <1>4, <1>6
<1>8. ASSUME NEW filled \in BOOLEAN
      PROVE  LET sent == LineMessages(given(filled))
             IN \A i \in DOMAIN sent : Images(sent[i]) \cap {"blob", "ours"} = {}
  <2> DEFINE final == given(filled)
             sent == LineMessages(final)
  <2>1. final = [i \in 1 .. n |-> SentBlock(stored[i], filled)]
    BY <1>4 DEF Merged, Accessible, Map, SentBlock, MergedFor, AccessibleBlock, ShownBlock
  <2> HIDE DEF final
  <2>2. \A i \in 1 .. n : final[i] = SentBlock(stored[i], filled)
    BY <2>1
  <2>3. final = [i \in 1 .. n |-> final[i]]
    BY <2>1
  <2>4. \A i \in DOMAIN sent : \E j \in 1 .. n : sent[i] = LineMessage(final[j])
    BY <1>1, <2>3, MessageOfBlock
  <2>5. ASSUME NEW j \in 1 .. n PROVE Images(LineMessage(final[j])) \cap {"blob", "ours"} = {}
    <3> DEFINE s == stored[j]
               f == final[j]
               k == Len(s.columns)
    <3>1. s \in BlocksOf(T) /\ "blob" \notin MediaUrls(s) /\ f = SentBlock(s, filled)
      BY <1>3, <2>2
    <3>2. k \in Nat /\ DOMAIN s.columns = 1 .. k
      BY <3>1 DEF BlocksOf
    <3> HIDE DEF s, f, k
    <3>3. DOMAIN f.columns = 1 .. k /\ PictureUrls(f) \cap {"blob", "ours"} = {}
      BY <3>1, <3>2, SentPictures
    <3>4. Images(LineMessage(f)) \subseteq PictureUrls(f)
      BY <3>2, <3>3, ImagesOfBlock
    <3>5. Images(LineMessage(f)) \cap {"blob", "ours"} = {}
      BY <3>3, <3>4
    <3> QED BY <3>5 DEF f
  <2> HIDE DEF sent
  <2>6. \A i \in DOMAIN sent : Images(sent[i]) \cap {"blob", "ours"} = {}
    BY <2>4, <2>5
  <2> QED BY <2>6 DEF sent, final
<1> QED BY <1>5, <1>6, <1>7, <1>8
-----------------------------------------------------------------------------
(* The composition.  The input of a behaviour is one of the constant's and    *)
(* stays; a step of one part leaves the variables of the others.              *)

InputTyped == input \in Inputs \cup {NoInput}

LEMMA InputStays ==
  /\ Init => InputTyped
  /\ InputTyped /\ [Next]_vars => InputTyped'
<1>1. Init => InputTyped
  BY DEF Init, InputTyped
<1>2. [Next]_vars => UNCHANGED input
  BY DEF Next, AudienceStep, ListStep, FollowStep, vars
<1> QED BY <1>1, <1>2 DEF InputTyped

(* What an input is about says which arguments it has. *)
LEMMA InputKinds ==
  InputTyped =>
    /\ input.about = "count" => input \in CountInputs
    /\ input.about = "overview" => input \in OverviewInputs
    /\ input.about = "layout" => input \in LayoutInputs
    /\ input.about = "template" => input \in TemplateInputs
<1> SUFFICES ASSUME InputTyped
             PROVE  /\ input.about = "count" => input \in CountInputs
                    /\ input.about = "overview" => input \in OverviewInputs
                    /\ input.about = "layout" => input \in LayoutInputs
                    /\ input.about = "template" => input \in TemplateInputs
  OBVIOUS
<1>1. input \in CountInputs => input.about = "count"
  BY DEF CountInputs
<1>2. input \in OverviewInputs => input.about = "overview"
  BY DEF OverviewInputs
<1>3. input \in LayoutInputs => input.about = "layout"
  BY DEF LayoutInputs
<1>4. input \in TemplateInputs => input.about = "template"
  BY DEF TemplateInputs
<1>5. input = NoInput => input.about = "none"
  BY DEF NoInput
<1>6. input = NoInput \/ input \in CountInputs \/ input \in OverviewInputs
        \/ input \in LayoutInputs \/ input \in TemplateInputs
  BY InputsAssumption DEF InputTyped
<1> QED BY <1>1, <1>2, <1>3, <1>4, <1>5, <1>6

(* KeysAreSound: whatever audiences there are, one that shares the key of a     *)
(* cached number (countCacheKey) with another selects the same LINE users.      *)
THEOREM KeysStaySound == Spec => []KeysAreSound
<1>1. InputTyped => KeysAreSound
  <2> SUFFICES ASSUME InputTyped, input.about = "count" PROVE KeyIsSound(input.type, input.criteria)
    BY DEF KeysAreSound
  <2>1. input.type \in WritableTypes /\ input.criteria \in StoredCriteria
    BY InputKinds DEF CountInputs
  <2> QED BY <2>1, KeysAreSoundAlways
<1> QED BY <1>1, InputStays, PTL DEF Spec

(* TrendAddsUp: the sums of the overview's trend are those of the rows that     *)
(* were sent in its range, for any rows, query, calendar and time.              *)
THEOREM TrendStaysComplete == Spec => []TrendAddsUp
<1>1. InputTyped => TrendAddsUp
  <2> SUFFICES ASSUME InputTyped, input.about = "overview"
               PROVE  OverviewAddsUp(input.query, input.now, input.broadcasts)
    BY DEF TrendAddsUp
  <2>1. /\ input.query \in Queries /\ input.now \in Int /\ input.broadcasts \in Seq(BroadcastRows)
        /\ \E m \in MonthStarts : m <= BangkokDay(input.now)
    BY InputKinds DEF OverviewInputs
  <2> QED BY <2>1, TrendIsComplete
<1> QED BY <1>1, InputStays, PTL DEF Spec

(* LayoutsFit: a menu that is created has its areas on its image, and those of  *)
(* a grid cover the image without an overlap, for every layout, image and areas.*)
THEOREM LayoutsStayFit == Spec => []LayoutsFit
<1>1. InputTyped => LayoutsFit
  <2> SUFFICES ASSUME InputTyped, input.about = "layout"
               PROVE  AreasFit(input.layout, input.image, input.areas)
    BY DEF LayoutsFit
  <2> DEFINE S == {NoBounds} \cup [x : Int, y : Int, width : Int, height : Int]
  <2>1. input.layout \in Layouts /\ input.areas \in Seq(S)
    BY InputKinds DEF LayoutInputs
  <2> HIDE DEF S
  <2> QED BY <2>1, AcceptedAreasFit
<1> QED BY <1>1, InputStays, PTL DEF Spec

(* UntaggedNeedsNoMerge: what a broadcast sends to all recipients at once is    *)
(* what each of them would have been sent, for any blocks of a template.        *)
THEOREM SharedStaysTheSame == Spec => []UntaggedNeedsNoMerge
<1>1. InputTyped => UntaggedNeedsNoMerge
  <2> SUFFICES ASSUME InputTyped, input.about = "template" PROVE SameForEveryone(input.blocks)
    BY DEF UntaggedNeedsNoMerge
  <2>1. input.blocks \in Seq(Blocks)
    BY InputKinds DEF TemplateInputs
  <2> QED BY <2>1, SharedIsTheSame
<1> QED BY <1>1, InputStays, PTL DEF Spec

(* StoredMediaLast: the URLs of a stored template do not expire, and the images *)
(* of our storage that a broadcast sends are signed, for any blocks.            *)
THEOREM MediaStaysStored == Spec => []StoredMediaLast
<1>1. InputTyped => StoredMediaLast
  <2> SUFFICES ASSUME InputTyped, input.about = "template" PROVE MediaLast(input.blocks)
    BY DEF StoredMediaLast
  <2>1. input.blocks \in Seq(Blocks)
    BY InputKinds DEF TemplateInputs
  <2> QED BY <2>1, MediaAlwaysLasts
<1> QED BY <1>1, InputStays, PTL DEF Spec

(* CriteriaFitType, StaleHasACause and WrongStatusIsOld hold of the composition *)
(* as they do of the audiences, the caches and the follower alone: it takes no  *)
(* step that is not theirs.                                                     *)
THEOREM ApiKeepsItsParts == Spec => [](CriteriaFitType /\ StaleHasACause /\ WrongStatusIsOld)
<1>1. Init => AudienceInv /\ ListInv /\ FollowInv
  BY AudienceStarts, ListsStart, FollowsStart DEF Init
<1>2. [Next]_vars => /\ [AudienceNext]_audienceVars /\ [ListNext]_listVars
                     /\ [FollowNext]_followVars
  <2>1. AudienceStep => AudienceNext /\ UNCHANGED <<listVars, followVars>>
    BY DEF AudienceStep
  <2>2. ListStep => ListNext /\ UNCHANGED <<audienceVars, followVars>>
    BY DEF ListStep
  <2>3. FollowStep => FollowNext /\ UNCHANGED <<audienceVars, listVars>>
    BY DEF FollowStep
  <2>4. UNCHANGED vars => UNCHANGED <<audienceVars, listVars, followVars>>
    BY DEF vars
  <2> QED BY <2>1, <2>2, <2>3, <2>4 DEF Next
<1>3. AudienceInv /\ ListInv /\ FollowInv => CriteriaFitType /\ StaleHasACause /\ WrongStatusIsOld
  BY WordIsRight DEF AudienceInv, ListInv
<1> QED BY <1>1, <1>2, <1>3, StepAudience, StepLists, StepFollows, PTL DEF Spec
=============================================================================
