-------------------------- MODULE LineQuotaProofs --------------------------
(***************************************************************************)
(* The properties of LineQuota for every number of broadcasts and savers,   *)
(* and all quotas.                                                         *)
(***************************************************************************)
EXTENDS LineQuota, FiniteSetTheorems, TLAPS

Figure == Nat \cup {Unknown}

QuotaType == [limit : Figure, used : Figure, of : SUBSET Broadcasts, again : BOOLEAN,
              stale : BOOLEAN]

RowType == [id : Nat, limit : Figure, used : Figure, left : Figure, synced : Figure,
            of : SUBSET Broadcasts, again : BOOLEAN, stale : BOOLEAN]

LoadType == [pc : {"account", "usage", "line", "write", "catch"}, row : RowType,
             extra : SUBSET Broadcasts, quota : QuotaType, late : BOOLEAN]

SaveType == [pc : {"verify", "delete", "create", "update", "stamp"}, kind : {"save", "test"},
             id : Nat, quota : QuotaType, late : BOOLEAN]

(* The type invariant: a row that is connected has an id that was given out. *)
TypeOK ==
  /\ acc \in RowType /\ lastId \in Nat
  /\ phase \in [Broadcasts -> {"new", "sent", "refreshing", "counted", "missed"}]
  /\ at \in [Broadcasts -> Nat]
  /\ month \subseteq Broadcasts /\ reported \subseteq Broadcasts
  /\ loads \in [Loaders -> {Idle} \cup LoadType]
  /\ saves \in [Savers -> {Idle, Done} \cup SaveType \cup [pc : {"broken"}, id : Nat]]

-----------------------------------------------------------------------------
(* Sums of figures. *)

Sizes == [Broadcasts -> Nat]

LEMMA MessagesFinite ==
  ASSUME NEW f \in Sizes, NEW S \in SUBSET Broadcasts
  PROVE  IsFiniteSet(Messages(f, S))
<1> DEFINE Part == [b \in S |-> {b} \X (1..f[b])]
<1> DEFINE Parts == {{b} \X (1..f[b]) : b \in S}
<1>1. IsFiniteSet(S)
  BY QuotaAssumption, FS_Subset
<1>2. Part \in Surjection(S, Parts)
  BY DEF Surjection
<1>3. IsFiniteSet(Parts)
  <2> HIDE DEF Part, Parts
  <2> QED BY <1>1, <1>2, FS_Surjection
<1>4. \A P \in Parts : IsFiniteSet(P)
  <2> SUFFICES ASSUME NEW b \in S PROVE IsFiniteSet({b} \X (1..f[b]))
    OBVIOUS
  <2>1. f[b] \in Nat
    BY DEF Sizes
  <2>2. IsFiniteSet(1..f[b])
    BY <2>1, FS_Interval
  <2>3. IsFiniteSet({b})
    BY FS_Singleton
  <2> QED BY <2>2, <2>3, FS_Product
<1> HIDE DEF Parts
<1>5. IsFiniteSet(UNION Parts)
  BY <1>3, <1>4, FS_UNION
<1> QED BY <1>5 DEF Messages, Parts

LEMMA TotalType ==
  ASSUME NEW f \in Sizes, NEW S \in SUBSET Broadcasts
  PROVE  Total(f, S) \in Nat
BY MessagesFinite, FS_CardinalityType DEF Total

(* More broadcasts, or more of each, are not fewer messages. *)
LEMMA TotalMonotone ==
  ASSUME NEW f \in Sizes, NEW g \in Sizes, NEW S \in SUBSET Broadcasts,
         NEW T \in SUBSET Broadcasts, S \subseteq T, \A b \in Broadcasts : f[b] <= g[b]
  PROVE  Total(f, S) <= Total(g, T)
<1>1. \A b \in Broadcasts : 1..f[b] \subseteq 1..g[b]
  BY DEF Sizes
<1>2. Messages(f, S) \subseteq Messages(g, T)
  BY <1>1 DEF Messages
<1> QED BY <1>2, MessagesFinite, FS_Subset DEF Total

LEMMA TotalSingle ==
  ASSUME NEW f \in Sizes, NEW b \in Broadcasts
  PROVE  Total(f, {b}) = f[b]
<1>1. Messages(f, {b}) = {b} \X (1..f[b])
  BY DEF Messages
<1>2. f[b] \in Nat
  BY DEF Sizes
<1>3. IsFiniteSet({b}) /\ Cardinality({b}) = 1
  BY FS_Singleton
<1>4. IsFiniteSet(1..f[b]) /\ Cardinality(1..f[b]) = IF 1 > f[b] THEN 0 ELSE f[b] - 1 + 1
  BY <1>2, FS_Interval
<1>5. Cardinality({b} \X (1..f[b])) = Cardinality({b}) * Cardinality(1..f[b])
  BY <1>3, <1>4, FS_Product
<1>6. Cardinality(1..f[b]) = f[b]
  BY <1>2, <1>4
<1>7. Cardinality({b} \X (1..f[b])) = f[b]
  BY <1>2, <1>3, <1>5, <1>6
<1> QED BY <1>1, <1>7 DEF Total

LEMMA TotalUnion ==
  ASSUME NEW f \in Sizes, NEW S \in SUBSET Broadcasts, NEW T \in SUBSET Broadcasts
  PROVE  /\ Total(f, S \cup T) <= Total(f, S) + Total(f, T)
         /\ S \cap T = {} => Total(f, S \cup T) = Total(f, S) + Total(f, T)
<1> DEFINE M(R) == Messages(f, R)
<1>1. /\ IsFiniteSet(M(S)) /\ IsFiniteSet(M(T)) /\ IsFiniteSet(M(S) \cap M(T))
  BY MessagesFinite, FS_Intersection
<1>2. /\ Cardinality(M(S)) \in Nat /\ Cardinality(M(T)) \in Nat
      /\ Cardinality(M(S) \cap M(T)) \in Nat
  BY <1>1, FS_CardinalityType
<1>3. M(S \cup T) = M(S) \cup M(T)
  BY DEF Messages
<1>4. Cardinality(M(S) \cup M(T)) = Cardinality(M(S)) + Cardinality(M(T)) - Cardinality(M(S) \cap M(T))
  BY <1>1, FS_Union
<1>5. ASSUME S \cap T = {} PROVE Cardinality(M(S) \cap M(T)) = 0
  <2>1. M(S) \cap M(T) = {}
    BY <1>5 DEF Messages
  <2> QED BY <2>1, FS_EmptySet
<1>6. /\ Total(f, S) = Cardinality(M(S)) /\ Total(f, T) = Cardinality(M(T))
      /\ Total(f, S \cup T) = Cardinality(M(S) \cup M(T))
  BY <1>3 DEF Total
<1> HIDE DEF M
<1> QED BY <1>2, <1>4, <1>5, <1>6

-----------------------------------------------------------------------------
(* Type correctness. *)

(* What a figure is made of, in a row or in an answer. *)
FigureOK(r) ==
  /\ r.limit \in Figure /\ r.used \in Figure /\ r.of \subseteq Broadcasts
  /\ r.again \in BOOLEAN /\ r.stale \in BOOLEAN

LEMMA FinishedType == TypeOK => Finished \in Nat
<1> SUFFICES ASSUME TypeOK PROVE Finished \in Nat
  OBVIOUS
<1>1. IsFiniteSet({b \in Broadcasts : at[b] > 0})
  BY QuotaAssumption, FS_Subset
<1> QED BY <1>1, FS_CardinalityType DEF Finished

LEMMA AnswerType == TypeOK => Answer \in QuotaType /\ NoAnswer \in QuotaType
<1> SUFFICES ASSUME TypeOK PROVE Answer \in QuotaType /\ NoAnswer \in QuotaType
  OBVIOUS
<1>1. Total(Units, reported) \in Nat
  BY QuotaAssumption, TotalType DEF TypeOK, Sizes
<1> QED BY <1>1, QuotaAssumption DEF TypeOK, Answer, NoAnswer, QuotaType, Figure, Unknown

LEMMA BlankType == \A n \in Nat : Blank(n) \in RowType
BY DEF Blank, RowType, Figure, Unknown

(* The row keeps or gets the figures of q. *)
HasFigures(row, q) ==
  /\ row.limit = q.limit /\ row.used = q.used /\ row.of = q.of
  /\ row.again = q.again /\ row.stale = q.stale

LEMMA WrittenType ==
  ASSUME NEW row \in RowType, NEW q, FigureOK(q)
  PROVE  /\ Written(row, q) \in RowType /\ HasFigures(Written(row, q), q)
         /\ Written(row, q).id = row.id /\ Written(row, q).left = row.left
BY DEF Written, RowType, FigureOK, HasFigures

LEMMA StampedType ==
  ASSUME TypeOK, NEW id, NEW q, FigureOK(q)
  PROVE  /\ Stamped(id, q) \in RowType /\ Stamped(id, q).id = acc.id
         /\ acc.id # id => Stamped(id, q) = acc
         /\ acc.id = id => /\ HasFigures(Stamped(id, q), q)
                           /\ Stamped(id, q).left = Left(q.limit, q.used)
<1>1. Left(q.limit, q.used) \in Figure
  BY DEF Left, FigureOK, Figure, Unknown, Larger
<1>2. Finished \in Figure
  BY FinishedType DEF Figure
<1>3. acc \in RowType
  BY DEF TypeOK
<1>4. CASE acc.id = id
  <2> DEFINE w == Written(acc, q)
  <2>1. Stamped(id, q) = [w EXCEPT !.left = Left(q.limit, q.used), !.synced = Finished]
    BY <1>4 DEF Stamped
  <2>2. w \in RowType /\ HasFigures(w, q) /\ w.id = acc.id
    BY <1>3, WrittenType
  <2> HIDE DEF w
  <2> QED BY <1>1, <1>2, <1>4, <2>1, <2>2 DEF RowType, HasFigures
<1> QED BY <1>3, <1>4 DEF Stamped

LEMMA OvertakeType ==
  ASSUME TypeOK
  PROVE  /\ Overtake(loads) \in [Loaders -> {Idle} \cup LoadType]
         /\ \A p \in Loaders : loads[p].pc = "idle" => Overtake(loads)[p] = loads[p]
         /\ \A p \in Loaders : loads[p].pc # "idle" =>
              Overtake(loads)[p] = [loads[p] EXCEPT !.late = (loads[p].pc # "account" \/ @)]
         /\ Overtake(saves) \in
              [Savers -> {Idle, Done} \cup SaveType \cup [pc : {"broken"}, id : Nat]]
         /\ \A s \in Savers : Overtake(saves)[s].pc = saves[s].pc
         /\ \A s \in Savers : saves[s].pc \notin {"idle", "done"} =>
              Overtake(saves)[s].id = saves[s].id
         /\ \A s \in Savers : saves[s] \in SaveType =>
              Overtake(saves)[s] = [saves[s] EXCEPT !.late = (saves[s].pc # "verify" \/ @)]
<1> DEFINE pcs == {"usage", "line", "write", "catch", "delete", "create", "update", "stamp"}
<1>1. /\ loads \in [Loaders -> {Idle} \cup LoadType]
      /\ saves \in [Savers -> {Idle, Done} \cup SaveType \cup [pc : {"broken"}, id : Nat]]
  BY DEF TypeOK
<1>2. ASSUME NEW p \in Loaders
      PROVE  /\ Overtake(loads)[p] \in {Idle} \cup LoadType
             /\ loads[p].pc = "idle" => Overtake(loads)[p] = loads[p]
             /\ loads[p].pc # "idle" =>
                  Overtake(loads)[p] = [loads[p] EXCEPT !.late = (loads[p].pc # "account" \/ @)]
  <2>1. Overtake(loads)[p] =
          IF loads[p].pc \in pcs THEN [loads[p] EXCEPT !.late = TRUE] ELSE loads[p]
    BY <1>1 DEF Overtake
  <2>2. CASE loads[p] = Idle
    BY <2>1, <2>2 DEF Idle
  <2>3. CASE loads[p] \in LoadType
    BY <2>1, <2>3 DEF LoadType
  <2> QED BY <1>1, <2>2, <2>3
<1>3. ASSUME NEW s \in Savers
      PROVE  /\ Overtake(saves)[s] \in {Idle, Done} \cup SaveType \cup [pc : {"broken"}, id : Nat]
             /\ Overtake(saves)[s].pc = saves[s].pc
             /\ saves[s].pc \notin {"idle", "done"} => Overtake(saves)[s].id = saves[s].id
             /\ saves[s] \in SaveType =>
                  Overtake(saves)[s] = [saves[s] EXCEPT !.late = (saves[s].pc # "verify" \/ @)]
  <2>1. Overtake(saves)[s] =
          IF saves[s].pc \in pcs THEN [saves[s] EXCEPT !.late = TRUE] ELSE saves[s]
    BY <1>1 DEF Overtake
  <2>2. CASE saves[s] \in {Idle, Done} \cup [pc : {"broken"}, id : Nat]
    <3>1. saves[s].pc \in {"idle", "done", "broken"}
      BY <2>2 DEF Idle, Done
    <3>2. saves[s] \notin SaveType
      BY <3>1 DEF SaveType
    <3>3. Overtake(saves)[s] = saves[s]
      BY <2>1, <3>1
    <3> QED BY <2>2, <3>2, <3>3
  <2>3. CASE saves[s] \in SaveType
    BY <2>1, <2>3 DEF SaveType
  <2> QED BY <1>1, <2>2, <2>3
<1>4. DOMAIN Overtake(loads) = Loaders /\ DOMAIN Overtake(saves) = Savers
  BY <1>1 DEF Overtake
<1>5. /\ Overtake(loads) = [p \in Loaders |-> Overtake(loads)[p]]
      /\ Overtake(saves) = [s \in Savers |-> Overtake(saves)[s]]
  BY <1>1 DEF Overtake
<1> HIDE DEF pcs
<1> QED BY <1>2, <1>3, <1>5

LEMMA ExtraType ==
  ASSUME TypeOK, NEW p \in Loaders, loads[p] \in LoadType
  PROVE  ExtraUsed(p) \in Nat /\ ExtraOf(p) \subseteq Broadcasts
<1>1. Units \in Sizes /\ Count \in Sizes
  BY QuotaAssumption DEF Sizes
<1>2. loads[p].extra \subseteq Broadcasts
  BY DEF LoadType
<1>3. Total(Count, loads[p].extra) \in Nat
  BY <1>1, <1>2, TotalType
<1> QED BY <1>1, <1>2, <1>3 DEF ExtraUsed, ExtraOf, Forced, Sizes

LEMMA MergeType ==
  ASSUME TypeOK, NEW p \in Loaders, loads[p] \in LoadType, NEW q, FigureOK(q)
  PROVE  FigureOK(Merge(p, q))
<1>1. ExtraUsed(p) \in Nat /\ ExtraOf(p) \subseteq Broadcasts
  BY ExtraType
<1>2. FigureOK(loads[p].row) /\ loads[p].late \in BOOLEAN
  BY DEF LoadType, RowType, FigureOK
<1>3. StoredPlusExtra(p) \in Nat /\ OrZero(q.used) \in Nat
  BY <1>1, <1>2 DEF StoredPlusExtra, OrZero, FigureOK, Figure, Unknown
<1>4. MergedUsed(p, q.used) \in Nat
  BY <1>1, <1>3 DEF MergedUsed, Larger
<1> QED BY <1>1, <1>2, <1>4 DEF Merge, FigureOK, Figure

LEMMA StepType ==
  ASSUME TypeOK, NEW p \in Loaders, NEW l \in {Idle} \cup LoadType, Step(p, l)
  PROVE  TypeOK'
BY DEF TypeOK, Step, unwritten

LEMMA EndType ==
  ASSUME TypeOK, NEW p \in Loaders, NEW ph \in {"counted", "missed"}, End(p, ph)
  PROVE  TypeOK'
BY DEF TypeOK, End, unwritten, Forced

LEMMA SaveStepType ==
  ASSUME TypeOK, NEW p \in Loaders, NEW q, FigureOK(q), Save(p, q)
  PROVE  TypeOK'
<1>1. acc' \in RowType
  BY StampedType DEF Save
<1>2. loads' \in [Loaders -> {Idle} \cup LoadType]
  BY OvertakeType DEF Save
<1>3. saves' \in [Savers -> {Idle, Done} \cup SaveType \cup [pc : {"broken"}, id : Nat]]
  BY OvertakeType DEF Save
<1>4. phase' \in [Broadcasts -> {"new", "sent", "refreshing", "counted", "missed"}]
  BY DEF Save, TypeOK, Forced
<1> QED BY <1>1, <1>2, <1>3, <1>4 DEF TypeOK, Save

LEMMA LoadTypes ==
  ASSUME TypeOK, NEW p \in Loaders, LoadStep(p)
  PROVE  TypeOK'
<1> USE DEF LoadType
<1>1. loads[p].pc # "idle" => loads[p] \in LoadType
  BY DEF TypeOK, Idle
<1>2. CASE ReadAccount(p)
  <2> DEFINE row == [acc EXCEPT !.left = Unknown, !.synced = IF Forced(p) THEN 0 ELSE @]
  <2>1. row \in RowType
    BY DEF TypeOK, RowType, Figure
  <2>2. loads[p] \in LoadType
    BY <1>1, <1>2 DEF ReadAccount
  <2>3. CASE End(p, "missed")
    BY <2>3, EndType
  <2>4. CASE ~ End(p, "missed")
    <3> HIDE DEF row
    <3> DEFINE pc == IF Forced(p) \/ acc.synced = Unknown THEN "line" ELSE "usage"
    <3>1. Step(p, [loads[p] EXCEPT !.row = row, !.pc = pc])
      BY <1>2, <2>4 DEF ReadAccount, row
    <3>2. pc \in {"usage", "line"}
      OBVIOUS
    <3> HIDE DEF pc
    <3>3. [loads[p] EXCEPT !.row = row, !.pc = pc] \in LoadType
      BY <2>1, <2>2, <3>2
    <3> QED BY <3>1, <3>3, StepType
  <2> QED BY <2>3, <2>4
<1>3. CASE AskUsage(p)
  <2>1. Newer(p) \subseteq Broadcasts
    BY DEF Newer
  <2>2. loads[p] \in LoadType /\ loads[p].row \in RowType
    BY <1>1, <1>3 DEF AskUsage
  <2>3. [loads[p].row EXCEPT !.synced = 0] \in RowType
    BY <2>2 DEF RowType, Figure
  <2>4. [loads[p] EXCEPT !.extra = Newer(p), !.row.synced = 0, !.pc = "line"] \in LoadType
    BY <2>1, <2>2, <2>3
  <2> QED BY <1>3, <2>4, StepType DEF AskUsage
<1>4. CASE FromCache(p)
  BY <1>4, EndType DEF FromCache
<1>5. CASE AskLine(p)
  <2>1. loads[p] \in LoadType /\ loads[p].row \in RowType
    BY <1>1, <1>5 DEF AskLine
  <2>2. [loads[p].row EXCEPT !.synced = 0, !.stale = FALSE] \in RowType
    BY <2>1 DEF RowType, Figure
  <2> DEFINE l == [loads[p] EXCEPT !.row.synced = 0, !.row.stale = FALSE]
  <2>3. l \in LoadType
    BY <2>1, <2>2
  <2> HIDE DEF l
  <2>4. /\ [l EXCEPT !.pc = "write", !.quota = Answer, !.late = FALSE] \in LoadType
        /\ [loads[p] EXCEPT !.pc = "catch"] \in LoadType
    BY <2>1, <2>3, AnswerType
  <2> QED BY <1>5, <2>4, StepType DEF AskLine, l
<1>6. CASE Write(p)
  <2>1. loads[p] \in LoadType
    BY <1>1, <1>6 DEF Write
  <2>2. FigureOK(loads[p].quota)
    BY <2>1 DEF QuotaType, FigureOK
  <2> QED BY <1>6, <2>1, <2>2, MergeType, SaveStepType, EndType DEF Write, SaveNothing
<1>7. CASE Catch(p)
  <2>1. loads[p] \in LoadType
    BY <1>1, <1>7 DEF Catch
  <2>2. FigureOK(loads[p].row)
    BY <2>1 DEF RowType, FigureOK
  <2> QED BY <1>7, <2>1, <2>2, MergeType, SaveStepType, EndType DEF Catch, SaveNothing
<1>8. CASE WriteFails(p)
  <2>1. loads[p] \in LoadType
    BY <1>1, <1>8 DEF WriteFails
  <2> DEFINE l == [loads[p] EXCEPT !.pc = "catch", !.quota = NoAnswer, !.late = TRUE]
  <2>2. l \in LoadType
    BY <2>1, AnswerType
  <2>3. loads' = [loads EXCEPT ![p] = l]
    BY <1>8, <2>1 DEF WriteFails, TypeOK
  <2> HIDE DEF l
  <2> QED BY <1>8, <2>2, <2>3, StepType DEF WriteFails, Step
<1>9. CASE LoadFails(p)
  BY <1>9, EndType DEF LoadFails
<1> QED BY <1>2, <1>3, <1>4, <1>5, <1>6, <1>7, <1>8, <1>9 DEF LoadStep

LEMMA PutType ==
  ASSUME TypeOK, NEW s \in Savers, NEW row \in RowType,
         NEW next \in {Idle, Done} \cup SaveType, Put(s, row, next), lastId' \in Nat
  PROVE  TypeOK'
<1>1. loads' \in [Loaders -> {Idle} \cup LoadType]
  BY OvertakeType DEF Put
<1>2. saves' \in [Savers -> {Idle, Done} \cup SaveType \cup [pc : {"broken"}, id : Nat]]
  BY OvertakeType DEF Put
<1> QED BY <1>1, <1>2 DEF TypeOK, Put

LEMMA MoveType ==
  ASSUME TypeOK, NEW s \in Savers, NEW next \in {Idle, Done} \cup SaveType, Move(s, next)
  PROVE  TypeOK'
BY DEF TypeOK, Move, unsaved

LEMMA SaveTypes ==
  ASSUME TypeOK, NEW s \in Savers, SaveStep(s)
  PROVE  TypeOK'
<1>1. saves[s].pc \notin {"idle", "done", "broken"} => saves[s] \in SaveType
  BY DEF TypeOK, Idle, Done
<1>2. saves[s] \in SaveType => FigureOK(Fetched(s))
  BY DEF SaveType, QuotaType, Fetched, FigureOK
<1> USE DEF SaveType
<1>3. CASE SaveRead(s)
  <2>1. PICK kind \in {"save", "test"} :
          Move(s, [pc |-> "verify", kind |-> kind, id |-> acc.id, quota |-> NoAnswer, late |-> FALSE])
    BY <1>3 DEF SaveRead
  <2>2. acc.id \in Nat
    BY DEF TypeOK, RowType
  <2> QED BY <2>1, <2>2, AnswerType, MoveType
<1>4. CASE Verify(s)
  <2>1. saves[s] \in SaveType
    BY <1>1, <1>4 DEF Verify
  <2>2. CASE Move(s, Done)
    BY <2>2, MoveType
  <2>3. CASE ~ Move(s, Done)
    <3>1. PICK q \in {Answer, NoAnswer} :
            Move(s, [saves[s] EXCEPT !.pc = AfterVerify(s), !.quota = q])
      BY <1>4, <2>3 DEF Verify
    <3>2. AfterVerify(s) \in {"delete", "update"}
      BY <1>4, <2>3 DEF Verify, AfterVerify
    <3>3. [saves[s] EXCEPT !.pc = AfterVerify(s), !.quota = q] \in SaveType
      BY <2>1, <3>2, AnswerType
    <3> QED BY <3>1, <3>3, MoveType
  <2> QED BY <2>2, <2>3
<1>5. CASE DeleteAccount(s)
  <2>1. saves[s] \in SaveType
    BY <1>1, <1>5 DEF DeleteAccount
  <2>2. NoAccount \in RowType /\ [saves[s] EXCEPT !.pc = "create"] \in SaveType
    BY <2>1, BlankType DEF NoAccount
  <2> QED BY <1>5, <2>2, PutType DEF DeleteAccount, TypeOK
<1>6. CASE CreateAccount(s)
  <2>1. saves[s] \in SaveType
    BY <1>1, <1>6 DEF CreateAccount
  <2>2. CASE Connected
    BY <1>6, <2>2, MoveType DEF CreateAccount, Conflict
  <2>3. CASE ~ Connected
    <3>1. lastId + 1 \in Nat
      BY DEF TypeOK
    <3>2. Written(Blank(lastId + 1), Fetched(s)) \in RowType
      BY <1>2, <2>1, <3>1, BlankType, WrittenType
    <3>3. [saves[s] EXCEPT !.pc = "stamp", !.id = lastId + 1] \in SaveType
      BY <2>1, <3>1
    <3> QED BY <1>6, <2>3, <3>1, <3>2, <3>3, PutType DEF CreateAccount
  <2> QED BY <2>2, <2>3
<1>7. CASE UpdateInfo(s)
  <2>1. saves[s] \in SaveType
    BY <1>1, <1>7 DEF UpdateInfo
  <2>2. Written(acc, Fetched(s)) \in RowType
    BY <1>2, <2>1, WrittenType DEF TypeOK
  <2>3. [saves[s] EXCEPT !.pc = "stamp"] \in SaveType
    BY <2>1
  <2>4. lastId \in Nat
    BY DEF TypeOK
  <2> QED BY <1>7, <2>2, <2>3, <2>4, PutType, MoveType DEF UpdateInfo
<1>8. CASE Stamp(s)
  <2>1. Stamped(saves[s].id, Fetched(s)) \in RowType
    BY <1>1, <1>2, <1>8, StampedType DEF Stamp
  <2> QED BY <1>8, <2>1, PutType DEF Stamp, TypeOK
<1>9. CASE SaveFails(s)
  <2>1. saves[s] \in SaveType
    BY <1>1, <1>9 DEF SaveFails
  <2> QED BY <1>9, <2>1 DEF SaveFails, TypeOK, unsaved
<1> QED BY <1>3, <1>4, <1>5, <1>6, <1>7, <1>8, <1>9 DEF SaveStep

LEMMA BeginType == Begin \in LoadType
BY BlankType, AnswerType DEF Begin, LoadType, NoAccount, NoAnswer, QuotaType, Figure, Unknown

LEMMA InitQuotaType == Init => TypeOK
<1> SUFFICES ASSUME Init PROVE TypeOK
  OBVIOUS
<1> DEFINE row == [Blank(1) EXCEPT !.limit = Limit, !.used = 0, !.left = Limit, !.synced = 0]
<1>1. row \in RowType
  <2>1. Limit \in Figure /\ 0 \in Figure
    BY QuotaAssumption DEF Figure
  <2>2. Blank(1) \in RowType
    BY BlankType
  <2> QED BY <2>1, <2>2 DEF RowType
<1>2. NoAccount \in RowType
  BY BlankType DEF NoAccount
<1>3. acc \in RowType /\ lastId \in Nat
  BY <1>1, <1>2 DEF Init
<1> QED BY <1>3 DEF Init, TypeOK

LEMMA StepTypeOK ==
  ASSUME TypeOK, [Next]_vars
  PROVE  TypeOK'
<1>1. CASE Ask
  BY <1>1, BeginType, StepType DEF Ask, Loaders
<1>2. CASE \E b \in Broadcasts : Deliver(b) \/ Finalize(b)
  BY <1>2, BeginType, FinishedType DEF Deliver, Finalize, TypeOK, Loaders
<1>3. CASE LineCatchesUp \/ NewMonth \/ UNCHANGED vars
  BY <1>3 DEF LineCatchesUp, NewMonth, vars, TypeOK
<1> QED BY <1>1, <1>2, <1>3, LoadTypes, SaveTypes DEF Next

-----------------------------------------------------------------------------
(* The connection and what is left of the quota. *)

(* What is true of a state of a request stays true of it when another write    *)
(* overtakes it: only its mark `late` changes.                                *)
LEMMA SaversKept ==
  ASSUME TypeOK, NEW s \in Savers, NEW row, NEW next, Put(s, row, next)
  PROVE  \A v \in Savers \ {s} :
           /\ saves'[v].pc = saves[v].pc
           /\ saves[v].pc \notin {"idle", "done"} => saves'[v].id = saves[v].id
BY OvertakeType DEF Put

LEMMA StepAccountStays ==
  ASSUME TypeOK, AccountStays, [Next]_vars
  PROVE  AccountStays'
<1> DEFINE Open(s) == saves[s].pc \in {"create", "broken"}
<1>1. acc.id \in Nat /\ lastId \in Nat
  BY DEF TypeOK, RowType
<1>2. CASE UNCHANGED <<acc, lastId, saves>>
  BY <1>2 DEF AccountStays, Connected
<1>3. ASSUME NEW p \in Loaders, NEW q, FigureOK(q), Save(p, q)
      PROVE  AccountStays'
  <2>1. acc'.id = acc.id /\ lastId' = lastId
    BY <1>3, StampedType DEF Save
  <2>2. \A s \in Savers : saves'[s].pc = saves[s].pc
    BY <1>3, OvertakeType DEF Save
  <2> QED BY <2>1, <2>2 DEF AccountStays, Connected
<1>4. ASSUME NEW p \in Loaders, LoadStep(p), ~ UNCHANGED <<acc, lastId, saves>>
      PROVE  AccountStays'
  <2>1. PICK q : Save(p, q) /\ q \in {Merge(p, loads[p].quota), Merge(p, loads[p].row)}
                 /\ loads[p].pc # "idle"
    BY <1>4 DEF LoadStep, ReadAccount, AskUsage, FromCache, AskLine, Write, Catch, WriteFails,
       LoadFails, Step, End, SaveNothing, unwritten
  <2>2. loads[p] \in LoadType
    BY <2>1 DEF TypeOK, Idle
  <2>3. FigureOK(q)
    BY <2>1, <2>2, MergeType DEF LoadType, QuotaType, RowType, FigureOK
  <2> QED BY <1>3, <2>1, <2>3
<1>5. ASSUME NEW s \in Savers, SaveStep(s)
      PROVE  AccountStays'
  <2>1. CASE DeleteAccount(s)
    <3>1. saves[s] \in SaveType
      BY <2>1 DEF DeleteAccount, TypeOK, Idle, Done
    <3>2. saves'[s].pc = "create"
      BY <2>1, <3>1 DEF DeleteAccount, Put, TypeOK, SaveType, Overtake
    <3> QED BY <3>2 DEF AccountStays
  <2>2. CASE CreateAccount(s) /\ ~ Connected
    <3>1. acc' = Written(Blank(lastId + 1), Fetched(s)) /\ saves[s] \in SaveType
      BY <2>2 DEF CreateAccount, Put, TypeOK, Idle, Done
    <3>2. acc'.id = lastId + 1
      BY <1>1, <3>1, BlankType DEF Written, Blank, RowType
    <3> QED BY <1>1, <3>2 DEF AccountStays, Connected
  <2>3. CASE UpdateInfo(s) \/ Stamp(s)
    <3>1. saves[s] \in SaveType
      BY <2>3 DEF UpdateInfo, Stamp, TypeOK, Idle, Done
    <3>2. FigureOK(Fetched(s))
      BY <3>1 DEF SaveType, QuotaType, Fetched, FigureOK
    <3>3. acc'.id = acc.id /\ lastId' = lastId
      BY <2>3, <3>2, StampedType, WrittenType DEF UpdateInfo, Stamp, Put, Move, unsaved, TypeOK
    <3>4. \A v \in Savers : Open(v) => Open(v)'
      <4>1. \A v \in Savers \ {s} : saves'[v].pc = saves[v].pc
        <5>1. CASE Move(s, Done)
          BY <5>1 DEF Move, TypeOK
        <5>2. CASE ~ Move(s, Done)
          <6>1. PICK row, next : Put(s, row, next)
            BY <2>3, <5>2 DEF UpdateInfo, Stamp
          <6> QED BY <6>1, SaversKept
        <5> QED BY <5>1, <5>2
      <4> QED BY <2>3, <4>1 DEF UpdateInfo, Stamp
    <3> HIDE DEF Open
    <3> QED BY <3>3, <3>4 DEF AccountStays, Connected, Open
  <2>4. CASE /\ ~ DeleteAccount(s) /\ ~ UpdateInfo(s) /\ ~ Stamp(s)
             /\ ~ (CreateAccount(s) /\ ~ Connected)
    <3>1. PICK next : Move(s, next) /\ (saves[s].pc = "create" /\ ~ Connected => next.pc = "broken")
                      /\ saves[s].pc # "broken"
      BY <1>5, <2>4 DEF SaveStep, SaveRead, Verify, CreateAccount, Conflict, SaveFails, Move, Idle
    <3> QED BY <3>1 DEF AccountStays, Connected, Move, unsaved, TypeOK
  <2> QED BY <2>1, <2>2, <2>3, <2>4
<1>6. CASE \E b \in Broadcasts : Deliver(b) \/ Finalize(b)
  BY <1>2, <1>6 DEF Deliver, Finalize
<1>7. CASE Ask \/ LineCatchesUp \/ NewMonth \/ UNCHANGED vars
  BY <1>2, <1>7 DEF Ask, Step, unwritten, LineCatchesUp, NewMonth, vars
<1> QED BY <1>2, <1>4, <1>5, <1>6, <1>7 DEF Next

LEMMA StepLeftFitsUsed ==
  ASSUME TypeOK, LeftFitsUsed, [Next]_vars
  PROVE  LeftFitsUsed'
<1> DEFINE Fits(row) == row.left \in {Unknown, Left(row.limit, row.used)}
           Between(s) == saves[s].pc \in {"stamp", "broken"} /\ saves[s].id = acc.id
<1>1. CASE UNCHANGED <<acc, saves>>
  BY <1>1 DEF LeftFitsUsed
<1>2. ASSUME NEW p \in Loaders, LoadStep(p), ~ UNCHANGED <<acc, saves>>
      PROVE  LeftFitsUsed'
  <2>1. PICK q : Save(p, q) /\ q \in {Merge(p, loads[p].quota), Merge(p, loads[p].row)}
                 /\ loads[p].pc # "idle"
    BY <1>2 DEF LoadStep, ReadAccount, AskUsage, FromCache, AskLine, Write, Catch, WriteFails,
       LoadFails, Step, End, SaveNothing, unwritten
  <2>2. loads[p] \in LoadType
    BY <2>1 DEF TypeOK, Idle
  <2>3. FigureOK(q)
    BY <2>1, <2>2, MergeType DEF LoadType, QuotaType, RowType, FigureOK
  <2>4. acc'.left = Left(acc'.limit, acc'.used)
    BY <2>1, <2>3, StampedType DEF Save, HasFigures
  <2> QED BY <2>4 DEF LeftFitsUsed
<1>3. ASSUME NEW s \in Savers, SaveStep(s)
      PROVE  LeftFitsUsed'
  <2>0. saves[s].pc \notin {"idle", "done", "broken"} => saves[s] \in SaveType /\ FigureOK(Fetched(s))
    BY DEF TypeOK, Idle, Done, SaveType, QuotaType, Fetched, FigureOK
  <2>1. CASE DeleteAccount(s)
    BY <2>1 DEF DeleteAccount, Put, NoAccount, Blank, LeftFitsUsed
  <2>2. CASE CreateAccount(s) /\ ~ Connected
    <3>1. acc' = Written(Blank(lastId + 1), Fetched(s)) /\ FigureOK(Fetched(s))
      BY <2>0, <2>2 DEF CreateAccount, Put
    <3>2. lastId + 1 \in Nat
      BY DEF TypeOK
    <3>3. acc'.left = Blank(lastId + 1).left
      BY <3>1, <3>2, BlankType, WrittenType
    <3> QED BY <3>3 DEF Blank, LeftFitsUsed
  <2>3. CASE UpdateInfo(s) /\ acc.id = saves[s].id
    <3>1. acc' = Written(acc, Fetched(s)) /\ FigureOK(Fetched(s)) /\ saves[s] \in SaveType
      BY <2>0, <2>3 DEF UpdateInfo, Put
    <3>2. acc'.id = acc.id
      BY <3>1, WrittenType DEF TypeOK
    <3>3. saves'[s] = [saves[s] EXCEPT !.pc = "stamp"]
      BY <2>3, OvertakeType DEF UpdateInfo, Put
    <3>4. saves'[s].pc = "stamp" /\ saves'[s].id = acc.id
      BY <2>3, <3>1, <3>3 DEF SaveType
    <3> QED BY <3>2, <3>4 DEF LeftFitsUsed
  <2>4. CASE Stamp(s)
    <3>1. acc' = Stamped(saves[s].id, Fetched(s)) /\ FigureOK(Fetched(s))
      BY <2>0, <2>4 DEF Stamp, Put
    <3>2. CASE acc.id = saves[s].id
      <4>1. acc'.left = Left(acc'.limit, acc'.used)
        BY <3>1, <3>2, StampedType DEF HasFigures
      <4> QED BY <4>1 DEF LeftFitsUsed
    <3>3. CASE acc.id # saves[s].id
      <4>1. acc' = acc
        BY <3>1, <3>3, StampedType
      <4>2. \A v \in Savers : Between(v) => Between(v)'
        BY <2>4, <3>3, <4>1, SaversKept DEF Stamp
      <4> HIDE DEF Between
      <4> QED BY <4>1, <4>2 DEF LeftFitsUsed, Between
    <3> QED BY <3>2, <3>3
  <2>5. CASE /\ ~ DeleteAccount(s) /\ ~ Stamp(s)
             /\ ~ (UpdateInfo(s) /\ acc.id = saves[s].id)
             /\ ~ (CreateAccount(s) /\ ~ Connected)
    <3>1. PICK next :
            /\ Move(s, next)
            /\ saves[s].pc = "stamp" => next = [pc |-> "broken", id |-> saves[s].id]
            /\ saves[s].pc # "broken"
      BY <1>3, <2>5 DEF SaveStep, SaveRead, Verify, UpdateInfo, CreateAccount, Conflict, SaveFails,
         Move, Idle
    <3> QED BY <3>1 DEF LeftFitsUsed, Move, unsaved, TypeOK
  <2> QED BY <2>1, <2>2, <2>3, <2>4, <2>5
<1>4. CASE \E b \in Broadcasts : Deliver(b) \/ Finalize(b)
  BY <1>1, <1>4 DEF Deliver, Finalize
<1>5. CASE Ask \/ LineCatchesUp \/ NewMonth \/ UNCHANGED vars
  BY <1>1, <1>5 DEF Ask, Step, unwritten, LineCatchesUp, NewMonth, vars
<1> QED BY <1>1, <1>2, <1>3, <1>4, <1>5 DEF Next

-----------------------------------------------------------------------------
(* The figure itself.                                                      *)

(* A figure that counts nothing twice is no more than the messages of the     *)
(* broadcasts that it counts.                                              *)
Sound(r) == ~ r.again => OrZero(r.used) <= Total(Units, r.of)

LoadSound(l) == l.pc # "idle" => Sound(l.row) /\ Sound(l.quota)
SaveSound(v) == v.pc \notin {"idle", "done", "broken"} => Sound(v.quota)

Explained ==
  /\ Sound(acc)
  /\ \A p \in Loaders : LoadSound(loads[p])
  /\ \A s \in Savers : SaveSound(saves[s])

LEMMA SizesAssumption == Units \in Sizes /\ Count \in Sizes /\ \A b \in Broadcasts : Count[b] <= Units[b]
BY QuotaAssumption DEF Sizes

LEMMA SoundSame ==
  ASSUME NEW r, NEW q, HasFigures(r, q), Sound(q)
  PROVE  Sound(r)
BY DEF HasFigures, Sound

LEMMA SoundAnswers == TypeOK => Sound(Answer) /\ Sound(NoAnswer) /\ \A n : Sound(Blank(n))
<1> SUFFICES ASSUME TypeOK PROVE Sound(Answer) /\ Sound(NoAnswer) /\ \A n : Sound(Blank(n))
  OBVIOUS
<1>1. Total(Units, reported) \in Nat /\ Total(Units, {}) \in Nat
  BY SizesAssumption, TotalType DEF TypeOK
<1> QED BY <1>1 DEF Sound, Answer, NoAnswer, Blank, OrZero, Unknown

(* What is added to a figure is no more than the messages it stands for. *)
LEMMA ExtraBounded ==
  ASSUME TypeOK, NEW p \in Loaders, loads[p] \in LoadType
  PROVE  ExtraUsed(p) <= Total(Units, ExtraOf(p))
<1>1. CASE Forced(p)
  <2>1. Units[p] \in Nat /\ Total(Units, {p}) = Units[p]
    BY <1>1, SizesAssumption, TotalSingle DEF Forced, Sizes
  <2> QED BY <1>1, <2>1 DEF ExtraUsed, ExtraOf
<1>2. CASE ~ Forced(p)
  <2>1. loads[p].extra \in SUBSET Broadcasts
    BY DEF LoadType
  <2>2. Total(Count, loads[p].extra) <= Total(Units, loads[p].extra)
    BY <2>1, SizesAssumption, TotalMonotone
  <2> QED BY <1>2, <2>2 DEF ExtraUsed, ExtraOf
<1> QED BY <1>1, <1>2

LEMMA SoundMerge ==
  ASSUME TypeOK, NEW p \in Loaders, loads[p] \in LoadType, NEW q, FigureOK(q),
         Sound(loads[p].row), Sound(q)
  PROVE  Sound(Merge(p, q))
<1> DEFINE row == loads[p].row
           sum == ExtraUsed(p) > 0 /\ StoredPlusExtra(p) > OrZero(q.used)
           m   == Merge(p, q)
<1>1. ExtraUsed(p) \in Nat /\ ExtraOf(p) \in SUBSET Broadcasts
  BY ExtraType
<1>2. row.used \in Figure /\ row.of \in SUBSET Broadcasts
  BY DEF LoadType, RowType
<1>3. OrZero(q.used) \in Nat /\ OrZero(row.used) \in Nat
  BY <1>2 DEF OrZero, FigureOK, Figure, Unknown
<1>4. /\ m.used = MergedUsed(p, q.used)
      /\ m.of = IF sum THEN row.of \cup ExtraOf(p) ELSE q.of
      /\ m.again = IF sum THEN row.again \/ row.of \cap ExtraOf(p) # {} ELSE q.again
  BY DEF Merge
<1>5. OrZero(m.used) = IF sum THEN StoredPlusExtra(p) ELSE OrZero(q.used)
  BY <1>1, <1>3, <1>4 DEF MergedUsed, StoredPlusExtra, Larger, OrZero, Unknown
<1>6. CASE ~ sum
  <2> HIDE DEF m, sum, row
  <2> QED BY <1>4, <1>5, <1>6 DEF Sound, m
<1>7. ASSUME sum, ~ m.again PROVE OrZero(m.used) <= Total(Units, m.of)
  <2>1. ~ row.again /\ row.of \cap ExtraOf(p) = {}
    BY <1>4, <1>7
  <2>2. Total(Units, row.of \cup ExtraOf(p)) = Total(Units, row.of) + Total(Units, ExtraOf(p))
    BY <1>1, <1>2, <2>1, SizesAssumption, TotalUnion
  <2>3. OrZero(row.used) <= Total(Units, row.of)
    BY <2>1 DEF Sound
  <2>4. Total(Units, row.of) \in Nat /\ Total(Units, ExtraOf(p)) \in Nat
    BY <1>1, <1>2, SizesAssumption, TotalType
  <2>5. StoredPlusExtra(p) = OrZero(row.used) + ExtraUsed(p)
    BY DEF StoredPlusExtra
  <2>6. OrZero(m.used) = StoredPlusExtra(p) /\ m.of = row.of \cup ExtraOf(p)
    BY <1>4, <1>5, <1>7
  <2>7. ExtraUsed(p) <= Total(Units, ExtraOf(p))
    BY ExtraBounded
  <2> HIDE DEF row, sum, m
  <2> QED BY <1>1, <1>3, <2>2, <2>3, <2>4, <2>5, <2>6, <2>7
<1> HIDE DEF row, sum, m
<1> QED BY <1>6, <1>7 DEF Sound, m

(* What the step of a load makes of its state: it takes the row, it goes on      *)
(* with the row it has, it has an answer of LINE, its write has failed, or it    *)
(* ends without a write.                                                       *)
SameRow(p) ==
  /\ loads'[p].row.of = loads[p].row.of /\ loads'[p].row.used = loads[p].row.used
  /\ loads'[p].row.again = loads[p].row.again

TakesRow(p) ==
  /\ Connected
  /\ loads'[p].row.of = acc.of /\ loads'[p].row.used = acc.used
  /\ loads'[p].row.again = acc.again /\ loads'[p].row.stale = acc.stale
  /\ loads'[p].pc \in {"usage", "line"} /\ loads'[p].quota = loads[p].quota

GoesOn(p) ==
  /\ SameRow(p) /\ loads'[p].row.stale = loads[p].row.stale
  /\ loads'[p].quota = loads[p].quota /\ loads'[p].late = loads[p].late
  /\ loads[p].pc \in {"usage", "line"} /\ loads'[p].pc \in {"line", "catch"}

IsAnswered(p) == SameRow(p) /\ loads'[p].quota = Answer /\ loads'[p].pc = "write"

IsRefused(p) ==
  SameRow(p) /\ loads'[p].quota = NoAnswer /\ loads'[p].pc = "catch" /\ loads'[p].late

Moves(p) ==
  /\ loads[p] \in LoadType /\ loads'[p] \in LoadType
  /\ loads' = [loads EXCEPT ![p] = loads'[p]]
  /\ UNCHANGED <<acc, phase, month, saves>>

Ends(p) ==
  /\ loads' = [loads EXCEPT ![p] = Idle]
  /\ UNCHANGED <<acc, month, saves>>
  /\ \/ UNCHANGED phase
     \/ Forced(p) /\ phase' = [phase EXCEPT ![p] = "missed"]

Saves(p) ==
  /\ loads[p] \in LoadType
  /\ \/ loads[p].pc = "write" /\ Save(p, Merge(p, loads[p].quota))
     \/ loads[p].pc = "catch" /\ ExtraUsed(p) > 0 /\ Save(p, Merge(p, loads[p].row))

LEMMA EndEnds ==
  ASSUME TypeOK, NEW p \in Loaders, End(p, "missed") \/ (~ Forced(p) /\ End(p, "counted"))
  PROVE  Ends(p)
BY DEF End, Ends, unwritten

LEMMA StepMoves ==
  ASSUME TypeOK, NEW p \in Loaders, loads[p].pc # "idle",
         NEW l \in LoadType, Step(p, l)
  PROVE  loads'[p] = l /\ Moves(p)
BY DEF TypeOK, Step, Moves, unwritten, Idle

LEMMA LoadStepKinds ==
  ASSUME TypeOK, NEW p \in Loaders, LoadStep(p)
  PROVE  \/ Moves(p) /\ (TakesRow(p) \/ GoesOn(p) \/ IsAnswered(p) \/ IsRefused(p))
         \/ Ends(p)
         \/ Saves(p)
<1> USE DEF LoadType
<1>1. loads[p].pc # "idle" => loads[p] \in LoadType /\ loads[p].row \in RowType
  BY DEF TypeOK, Idle
<1>2. CASE ReadAccount(p)
  <2> DEFINE row == [acc EXCEPT !.left = Unknown, !.synced = IF Forced(p) THEN 0 ELSE @]
             pc  == IF Forced(p) \/ acc.synced = Unknown THEN "line" ELSE "usage"
             l   == [loads[p] EXCEPT !.row = row, !.pc = pc]
  <2>1. CASE Connected /\ Step(p, l)
    <3>1. /\ row.of = acc.of /\ row.used = acc.used /\ row.again = acc.again
          /\ row.stale = acc.stale /\ row \in RowType
      BY DEF TypeOK, RowType, Figure
    <3>2. pc \in {"usage", "line"}
      OBVIOUS
    <3>3. loads[p] \in LoadType
      BY <1>1, <1>2 DEF ReadAccount
    <3> HIDE DEF row, pc
    <3>4. l \in LoadType /\ l.row = row /\ l.pc = pc /\ l.quota = loads[p].quota
      BY <3>1, <3>2, <3>3
    <3> HIDE DEF l, LoadType
    <3>5. loads'[p] = l /\ Moves(p)
      BY <1>2, <2>1, <3>4, StepMoves DEF ReadAccount
    <3> QED BY <2>1, <3>1, <3>2, <3>4, <3>5 DEF TakesRow
  <2> QED BY <1>2, <2>1, EndEnds DEF ReadAccount
<1>3. CASE AskUsage(p)
  <2>1. loads[p] \in LoadType /\ loads[p].row \in RowType /\ loads[p].pc = "usage"
    BY <1>1, <1>3 DEF AskUsage
  <2> DEFINE row == [loads[p].row EXCEPT !.synced = 0]
             l   == [loads[p] EXCEPT !.extra = Newer(p), !.row = row, !.pc = "line"]
  <2>2. /\ row.of = loads[p].row.of /\ row.used = loads[p].row.used
        /\ row.again = loads[p].row.again /\ row.stale = loads[p].row.stale
        /\ row \in RowType
    BY <2>1 DEF RowType, Figure
  <2>3. Step(p, l)
    BY <1>3, <2>1 DEF AskUsage
  <2>4. Newer(p) \subseteq Broadcasts
    BY DEF Newer
  <2> HIDE DEF row
  <2>5. /\ l \in LoadType /\ l.row = row /\ l.pc = "line" /\ l.quota = loads[p].quota
        /\ l.late = loads[p].late
    BY <2>1, <2>2, <2>4
  <2> HIDE DEF l, LoadType
  <2>6. loads'[p] = l /\ Moves(p)
    BY <2>1, <2>3, <2>5, StepMoves
  <2> QED BY <2>1, <2>2, <2>5, <2>6 DEF GoesOn, SameRow
<1>4. CASE AskLine(p)
  <2>1. loads[p] \in LoadType /\ loads[p].row \in RowType /\ loads[p].pc = "line"
    BY <1>1, <1>4 DEF AskLine
  <2> DEFINE l0 == [loads[p] EXCEPT !.row.synced = 0, !.row.stale = FALSE]
             l1 == [l0 EXCEPT !.pc = "write", !.quota = Answer, !.late = FALSE]
             l2 == [loads[p] EXCEPT !.pc = "catch"]
  <2>2. /\ l0 \in LoadType
        /\ l0.row.of = loads[p].row.of /\ l0.row.used = loads[p].row.used
        /\ l0.row.again = loads[p].row.again
    <3> DEFINE row == [loads[p].row EXCEPT !.synced = 0, !.stale = FALSE]
    <3>1. /\ row.of = loads[p].row.of /\ row.used = loads[p].row.used
          /\ row.again = loads[p].row.again /\ row \in RowType
      BY <2>1 DEF RowType, Figure
    <3>2. l0.row = row
      BY <2>1
    <3>3. l0 \in LoadType
      BY <2>1, <3>1
    <3> HIDE DEF l0, row
    <3> QED BY <3>1, <3>2, <3>3
  <2>3. Step(p, l1) \/ Step(p, l2)
    BY <1>4 DEF AskLine
  <2>4. /\ l2 \in LoadType /\ l2.row = loads[p].row /\ l2.pc = "catch"
        /\ l2.quota = loads[p].quota /\ l2.late = loads[p].late
    BY <2>1
  <2> HIDE DEF l0
  <2>5. l1 \in LoadType /\ l1.row = l0.row /\ l1.pc = "write" /\ l1.quota = Answer
    BY <2>2, AnswerType
  <2> HIDE DEF l1, l2, LoadType
  <2>6. CASE Step(p, l1)
    <3>1. loads'[p] = l1 /\ Moves(p)
      BY <2>1, <2>5, <2>6, StepMoves
    <3> QED BY <2>2, <2>5, <3>1 DEF IsAnswered, SameRow
  <2>7. CASE Step(p, l2)
    <3>1. loads'[p] = l2 /\ Moves(p)
      BY <2>1, <2>4, <2>7, StepMoves
    <3> QED BY <2>1, <2>4, <3>1 DEF GoesOn, SameRow
  <2> QED BY <2>3, <2>6, <2>7
<1>5. CASE WriteFails(p)
  <2> DEFINE l == [loads[p] EXCEPT !.pc = "catch", !.quota = NoAnswer, !.late = TRUE]
  <2>1. loads[p] \in LoadType /\ loads[p].pc # "idle"
    BY <1>1, <1>5 DEF WriteFails
  <2>2. l \in LoadType /\ l.row = loads[p].row /\ l.pc = "catch" /\ l.quota = NoAnswer /\ l.late
    BY <2>1, AnswerType
  <2>3. loads' = [loads EXCEPT ![p] = l]
    BY <1>5, <2>1 DEF WriteFails, TypeOK
  <2> HIDE DEF l, LoadType
  <2>4. loads'[p] = l /\ Moves(p)
    BY <1>5, <2>1, <2>2, <2>3, StepMoves DEF WriteFails, Step
  <2> QED BY <2>2, <2>4 DEF IsRefused, SameRow
<1>6. CASE Write(p)
  BY <1>1, <1>6, EndEnds DEF Write, SaveNothing, Saves
<1>7. CASE Catch(p)
  BY <1>1, <1>7, EndEnds DEF Catch, SaveNothing, Saves
<1>8. CASE FromCache(p) \/ LoadFails(p)
  BY <1>8, EndEnds DEF FromCache, MayUseCache, LoadFails
<1> QED BY <1>2, <1>3, <1>4, <1>5, <1>6, <1>7, <1>8 DEF LoadStep

(* The same for a request that saves or tests the account: it deletes the row,  *)
(* writes what it has fetched, writes what is there, or leaves the row alone.    *)
SameAnswer(s, next) ==
  next \in SaveType /\ next.quota = saves[s].quota /\ next.late = saves[s].late

Deletes(s) ==
  \E next : /\ Put(s, NoAccount, next)
            /\ saves[s].pc = "delete" /\ next.pc = "create" /\ SameAnswer(s, next)

Writes(s) ==
  \E row, next : /\ Put(s, row, next)
                 /\ saves[s].pc \in {"create", "update", "stamp"}
                 /\ HasFigures(row, Fetched(s))
                 /\ \/ next = Done
                    \/ next.pc = "stamp" /\ SameAnswer(s, next)

Rewrites(s) == Put(s, acc, Done)

Waits(s) ==
  \E next : /\ Move(s, next)
            /\ \/ next.pc \in {"done", "broken"}
               \/ next \in SaveType /\ next.quota \in {Answer, NoAnswer}

LEMMA SaveStepKinds ==
  ASSUME TypeOK, NEW s \in Savers, SaveStep(s)
  PROVE  Deletes(s) \/ Writes(s) \/ Rewrites(s) \/ Waits(s)
<1>1. saves[s].pc \notin {"idle", "done", "broken"} => saves[s] \in SaveType /\ FigureOK(Fetched(s))
  BY DEF TypeOK, Idle, Done, SaveType, QuotaType, Fetched, FigureOK
<1> USE DEF SaveType
<1>2. CASE SaveRead(s)
  <2>1. PICK kind \in {"save", "test"} :
          Move(s, [pc |-> "verify", kind |-> kind, id |-> acc.id, quota |-> NoAnswer, late |-> FALSE])
    BY <1>2 DEF SaveRead
  <2>2. acc.id \in Nat
    BY DEF TypeOK, RowType
  <2> DEFINE next == [pc |-> "verify", kind |-> kind, id |-> acc.id, quota |-> NoAnswer,
                      late |-> FALSE]
  <2>3. next \in SaveType /\ next.quota = NoAnswer /\ Move(s, next)
    BY <2>1, <2>2, AnswerType
  <2> HIDE DEF next
  <2> QED BY <2>3 DEF Waits
<1>3. CASE Verify(s)
  <2>1. saves[s] \in SaveType
    BY <1>1, <1>3 DEF Verify
  <2>2. CASE Move(s, Done)
    BY <2>2 DEF Waits, Done
  <2>3. CASE ~ Move(s, Done)
    <3>1. PICK q \in {Answer, NoAnswer} :
            Move(s, [saves[s] EXCEPT !.pc = AfterVerify(s), !.quota = q])
      BY <1>3, <2>3 DEF Verify
    <3>2. AfterVerify(s) \in {"delete", "update"}
      BY <1>3, <2>3 DEF Verify, AfterVerify
    <3> DEFINE next == [saves[s] EXCEPT !.pc = AfterVerify(s), !.quota = q]
    <3>3. next \in SaveType /\ next.quota = q
      BY <2>1, <3>2, AnswerType
    <3> HIDE DEF next, SaveType
    <3>4. Move(s, next)
      BY <3>1 DEF next
    <3> QED BY <3>3, <3>4 DEF Waits
  <2> QED BY <2>2, <2>3
<1>4. CASE DeleteAccount(s)
  <2> DEFINE next == [saves[s] EXCEPT !.pc = "create"]
  <2>1. saves[s] \in SaveType /\ Put(s, NoAccount, next) /\ saves[s].pc = "delete"
    BY <1>1, <1>4 DEF DeleteAccount
  <2>2. next.pc = "create" /\ SameAnswer(s, next)
    BY <2>1 DEF SameAnswer
  <2> HIDE DEF next
  <2> QED BY <2>1, <2>2 DEF Deletes
<1>5. CASE CreateAccount(s)
  <2>1. saves[s] \in SaveType /\ FigureOK(Fetched(s)) /\ saves[s].pc = "create"
    BY <1>1, <1>5 DEF CreateAccount
  <2>2. CASE Move(s, Done)
    BY <2>2 DEF Waits, Done
  <2>3. CASE ~ Move(s, Done)
    <3> DEFINE row  == Written(Blank(lastId + 1), Fetched(s))
               next == [saves[s] EXCEPT !.pc = "stamp", !.id = lastId + 1]
    <3>1. Put(s, row, next) /\ lastId + 1 \in Nat
      BY <1>5, <2>3 DEF CreateAccount, Conflict, TypeOK
    <3>2. HasFigures(row, Fetched(s))
      BY <2>1, <3>1, BlankType, WrittenType
    <3>3. next.pc = "stamp" /\ SameAnswer(s, next)
      BY <2>1, <3>1 DEF SameAnswer
    <3> HIDE DEF row, next
    <3> QED BY <2>1, <3>1, <3>2, <3>3 DEF Writes
  <2> QED BY <2>2, <2>3
<1>6. CASE UpdateInfo(s)
  <2>1. saves[s] \in SaveType /\ FigureOK(Fetched(s)) /\ saves[s].pc = "update"
    BY <1>1, <1>6 DEF UpdateInfo
  <2>2. CASE Move(s, Done)
    BY <2>2 DEF Waits, Done
  <2>3. CASE ~ Move(s, Done)
    <3> DEFINE row  == Written(acc, Fetched(s))
               next == [saves[s] EXCEPT !.pc = "stamp"]
    <3>1. Put(s, row, next)
      BY <1>6, <2>3 DEF UpdateInfo
    <3>2. HasFigures(row, Fetched(s))
      BY <2>1, WrittenType DEF TypeOK
    <3>3. next.pc = "stamp" /\ SameAnswer(s, next)
      BY <2>1 DEF SameAnswer
    <3> HIDE DEF row, next
    <3> QED BY <2>1, <3>1, <3>2, <3>3 DEF Writes
  <2> QED BY <2>2, <2>3
<1>7. CASE Stamp(s)
  <2> DEFINE row == Stamped(saves[s].id, Fetched(s))
  <2>1. FigureOK(Fetched(s)) /\ saves[s].pc = "stamp" /\ Put(s, row, Done)
    BY <1>1, <1>7 DEF Stamp
  <2>2. row = acc \/ HasFigures(row, Fetched(s))
    BY <2>1, StampedType
  <2> HIDE DEF row
  <2> QED BY <2>1, <2>2 DEF Writes, Rewrites
<1>8. CASE SaveFails(s)
  <2> DEFINE next == IF saves[s].pc \in {"create", "stamp"}
                     THEN [pc |-> "broken", id |-> saves[s].id] ELSE Done
  <2>1. next.pc \in {"done", "broken"}
    BY DEF Done
  <2>2. Move(s, next)
    BY <1>8 DEF SaveFails, Move
  <2> HIDE DEF next
  <2> QED BY <2>1, <2>2 DEF Waits
<1> QED BY <1>2, <1>3, <1>4, <1>5, <1>6, <1>7, <1>8 DEF SaveStep

LEMMA OvertakenSound ==
  ASSUME TypeOK, Explained
  PROVE  /\ \A p \in Loaders : LoadSound(Overtake(loads)[p])
         /\ \A s \in Savers : SaveSound(Overtake(saves)[s])
<1>1. ASSUME NEW p \in Loaders PROVE LoadSound(Overtake(loads)[p])
  <2>1. CASE loads[p].pc = "idle"
    BY <2>1, OvertakeType DEF Explained
  <2>2. CASE loads[p].pc # "idle"
    <3>1. loads[p] \in LoadType
      BY <2>2 DEF TypeOK, Idle
    <3>2. /\ Overtake(loads)[p].row = loads[p].row /\ Overtake(loads)[p].quota = loads[p].quota
      BY <2>2, <3>1, OvertakeType DEF LoadType
    <3> QED BY <2>2, <3>2 DEF Explained, LoadSound
  <2> QED BY <2>1, <2>2
<1>2. ASSUME NEW s \in Savers PROVE SaveSound(Overtake(saves)[s])
  <2>1. CASE saves[s].pc \in {"idle", "done", "broken"}
    BY <2>1, OvertakeType DEF SaveSound
  <2>2. CASE saves[s].pc \notin {"idle", "done", "broken"}
    <3>1. saves[s] \in SaveType
      BY <2>2 DEF TypeOK, Idle, Done
    <3>2. Overtake(saves)[s].quota = saves[s].quota
      BY <3>1, OvertakeType DEF SaveType
    <3> QED BY <2>2, <3>2 DEF Explained, SaveSound
  <2> QED BY <2>1, <2>2
<1> QED BY <1>1, <1>2

LEMMA StepExplained ==
  ASSUME TypeOK, Explained, [Next]_vars
  PROVE  Explained'
<1>1. ASSUME NEW p \in Loaders, LoadStep(p)
      PROVE  Explained'
  <2>1. CASE Moves(p) /\ (TakesRow(p) \/ GoesOn(p) \/ IsAnswered(p) \/ IsRefused(p))
    <3>1. loads[p].pc # "idle" /\ Sound(loads[p].row) /\ Sound(loads[p].quota)
      BY <2>1 DEF Moves, LoadType, Explained, LoadSound
    <3>2. Sound(loads'[p].row) /\ Sound(loads'[p].quota)
      BY <2>1, <3>1, SoundAnswers DEF TakesRow, GoesOn, IsAnswered, IsRefused, SameRow, Explained,
         Sound
    <3> QED BY <2>1, <3>2 DEF Moves, TypeOK, Explained, LoadSound, SaveSound, Sound
  <2>2. CASE Ends(p)
    BY <2>2 DEF Ends, TypeOK, Explained, LoadSound, SaveSound, Sound, Idle
  <2>3. CASE Saves(p)
    <3>1. PICK q : /\ Save(p, q) /\ loads[p] \in LoadType
                   /\ q \in {Merge(p, loads[p].quota), Merge(p, loads[p].row)}
      BY <2>3 DEF Saves
    <3>2. Sound(loads[p].row) /\ Sound(loads[p].quota)
      BY <3>1 DEF LoadType, Explained, LoadSound
    <3>3. FigureOK(loads[p].row) /\ FigureOK(loads[p].quota)
      BY <3>1 DEF LoadType, QuotaType, RowType, FigureOK
    <3>4. Sound(q) /\ FigureOK(q)
      BY <3>1, <3>2, <3>3, SoundMerge, MergeType
    <3>5. Sound(acc')
      BY <3>1, <3>4, StampedType, SoundSame DEF Save
    <3>6. \A o \in Loaders : LoadSound(loads'[o])
      BY <3>1, OvertakenSound, OvertakeType DEF Save, LoadSound, Idle
    <3>7. \A s \in Savers : SaveSound(saves'[s])
      BY <3>1, OvertakenSound DEF Save
    <3> QED BY <3>5, <3>6, <3>7 DEF Explained, LoadSound, SaveSound, Sound
  <2> QED BY <1>1, <2>1, <2>2, <2>3, LoadStepKinds
<1>2. ASSUME NEW s \in Savers, SaveStep(s)
      PROVE  Explained'
  <2>1. SaveSound(saves[s])
    BY DEF Explained
  <2>2. ASSUME NEW row, NEW next, Put(s, row, next), Sound(row), SaveSound(next)
        PROVE  Explained'
    <3>1. \A o \in Savers : SaveSound(saves'[o])
      BY <2>2, OvertakenSound, OvertakeType DEF Put
    <3>2. \A o \in Loaders : LoadSound(loads'[o])
      BY <2>2, OvertakenSound DEF Put
    <3> QED BY <2>2, <3>1, <3>2 DEF Put, Explained, LoadSound, SaveSound, Sound
  <2>3. CASE Deletes(s)
    BY <2>1, <2>2, <2>3, SoundAnswers DEF Deletes, NoAccount, SameAnswer, SaveSound
  <2>4. CASE Writes(s)
    <3>1. PICK row, next : /\ Put(s, row, next)
                 /\ saves[s].pc \in {"create", "update", "stamp"}
                 /\ HasFigures(row, Fetched(s))
                 /\ \/ next = Done
                    \/ next.pc = "stamp" /\ SameAnswer(s, next)
      BY <2>4 DEF Writes
    <3>2. saves[s] \in SaveType
      BY <3>1 DEF TypeOK, Idle, Done
    <3>3. Sound(Fetched(s))
      BY <2>1, <3>1, <3>2 DEF SaveType, QuotaType, Fetched, SaveSound, Sound
    <3>4. SaveSound(next)
      BY <2>1, <3>1 DEF SameAnswer, SaveSound, Done
    <3> QED BY <2>2, <3>1, <3>3, <3>4, SoundSame
  <2>5. CASE Rewrites(s)
    BY <2>2, <2>5 DEF Rewrites, Explained, SaveSound, Done
  <2>6. CASE Waits(s)
    BY <2>6, SoundAnswers DEF Waits, Move, unsaved, TypeOK, Explained, LoadSound, SaveSound, Sound
  <2> QED BY <1>2, <2>3, <2>4, <2>5, <2>6, SaveStepKinds
<1>3. Sound(Begin.row) /\ Sound(Begin.quota)
  BY SoundAnswers DEF Begin, NoAccount
<1>4. CASE Ask \/ \E b \in Broadcasts : Finalize(b)
  <2>1. PICK p \in Loaders : loads' = [loads EXCEPT ![p] = Begin] /\ UNCHANGED <<acc, saves>>
    BY <1>4 DEF Ask, Step, Finalize, unwritten, Loaders
  <2> QED BY <1>3, <2>1 DEF TypeOK, Explained, LoadSound, SaveSound, Sound
<1>5. CASE UNCHANGED <<acc, loads, saves>>
  BY <1>5 DEF Explained, LoadSound, SaveSound, Sound
<1>6. CASE (\E b \in Broadcasts : Deliver(b)) \/ LineCatchesUp \/ NewMonth \/ UNCHANGED vars
  BY <1>5, <1>6 DEF Deliver, LineCatchesUp, NewMonth, vars
<1> QED BY <1>1, <1>2, <1>4, <1>6 DEF Next

LEMMA ExplainedImplies ==
  ASSUME TypeOK, Explained
  PROVE  OverstatedIsExplained
<1> SUFFICES ASSUME ~ acc.again, acc.of \subseteq month
             PROVE  ~ (OrZero(acc.used) > Total(Units, month))
  BY DEF OverstatedIsExplained
<1>1. OrZero(acc.used) <= Total(Units, acc.of)
  BY DEF Explained, Sound
<1>2. acc.of \in SUBSET Broadcasts /\ month \in SUBSET Broadcasts /\ acc.used \in Figure
  BY DEF TypeOK, RowType
<1>3. Total(Units, acc.of) <= Total(Units, month)
  <2>1. \A b \in Broadcasts : Units[b] <= Units[b]
    BY SizesAssumption DEF Sizes
  <2> QED BY <1>2, <2>1, SizesAssumption, TotalMonotone
<1>4. Total(Units, acc.of) \in Nat /\ Total(Units, month) \in Nat /\ OrZero(acc.used) \in Nat
  BY <1>2, SizesAssumption, TotalType DEF OrZero, Figure, Unknown
<1> QED BY <1>1, <1>3, <1>4

-----------------------------------------------------------------------------
(* What has been counted.                                                  *)

CountedNow == {b \in month : phase[b] = "counted"}

(* What load p has to write down, when it writes: its own broadcast too.       *)
Expected(p) == {b \in month : phase[b] = "counted" \/ b = p}

AtLeast(r, S) == OrZero(r.used) >= Total(Units, S)

(* A stored figure that is not overtaken counts every broadcast that is counted *)
(* now; an answer of LINE that is not overtaken also counts that of its load.   *)
LoadKeeps(p) ==
  loads[p].pc # "idle" /\ ~ loads[p].late =>
    /\ loads[p].pc \in {"usage", "line", "catch"} /\ ~ loads[p].row.stale =>
         AtLeast(loads[p].row, CountedNow)
    /\ loads[p].pc = "write" /\ ~ loads[p].quota.stale => AtLeast(loads[p].quota, Expected(p))

SaveKeeps(s) ==
  /\ saves[s].pc \in {"delete", "create", "update", "stamp"}
  /\ ~ saves[s].late /\ ~ saves[s].quota.stale
  => AtLeast(saves[s].quota, CountedNow)

Kept ==
  /\ Connected /\ ~ acc.stale => AtLeast(acc, CountedNow)
  /\ \A p \in Loaders : LoadKeeps(p)
  /\ \A s \in Savers : SaveKeeps(s)
  /\ \A b \in Broadcasts : loads[b].pc # "idle" => phase[b] = "refreshing"

LEMMA KeptImplies ==
  ASSUME TypeOK, Kept
  PROVE  CountedStaysCounted
<1>1. CountedNow \in SUBSET Broadcasts /\ acc.used \in Figure
  BY DEF TypeOK, RowType, CountedNow
<1>2. Total(Units, CountedNow) \in Nat /\ OrZero(acc.used) \in Nat
  BY <1>1, SizesAssumption, TotalType DEF OrZero, Figure, Unknown
<1>3. Connected /\ ~ acc.stale => OrZero(acc.used) >= Total(Units, CountedNow)
  BY DEF Kept, AtLeast
<1> QED BY <1>2, <1>3 DEF CountedStaysCounted, CountedNow

(* Figures that count fewer broadcasts are not harder to keep. *)
LEMMA AtLeastFewer ==
  ASSUME NEW r, r.used \in Figure, NEW S \in SUBSET Broadcasts, NEW T \in SUBSET Broadcasts,
         T \subseteq S, AtLeast(r, S)
  PROVE  AtLeast(r, T)
<1>1. \A b \in Broadcasts : Units[b] <= Units[b]
  BY SizesAssumption DEF Sizes
<1>2. Total(Units, T) <= Total(Units, S)
  BY <1>1, SizesAssumption, TotalMonotone
<1>3. Total(Units, T) \in Nat /\ Total(Units, S) \in Nat /\ OrZero(r.used) \in Nat
  BY SizesAssumption, TotalType DEF OrZero, Figure, Unknown
<1> QED BY <1>2, <1>3 DEF AtLeast

LEMMA AnswerCounts ==
  ASSUME TypeOK, ~ Answer.stale, NEW S \in SUBSET month
  PROVE  AtLeast(Answer, S)
<1>1. month \in SUBSET Broadcasts /\ reported = month
  BY DEF TypeOK, Answer
<1>2. Answer.used = Total(Units, month) /\ Total(Units, month) \in Nat
  BY <1>1, SizesAssumption, TotalType DEF Answer
<1>3. OrZero(Answer.used) = Total(Units, month)
  BY <1>2 DEF OrZero, Unknown
<1>4. AtLeast(Answer, month)
  BY <1>2, <1>3 DEF AtLeast
<1>5. Answer.used \in Figure
  BY <1>2 DEF Figure
<1> QED BY <1>1, <1>4, <1>5, AtLeastFewer

(* A step that changes neither the row nor the requests, and counts nothing. *)
LEMMA FewerKept ==
  ASSUME TypeOK, Kept, TypeOK', UNCHANGED <<acc, saves>>, NEW p \in Loaders,
         \A o \in Loaders \ {p} : loads'[o] = loads[o],
         CountedNow' \subseteq CountedNow,
         \A o \in Loaders \ {p} : loads[o].pc # "idle" => Expected(o)' \subseteq Expected(o),
         \A b \in Broadcasts \ {p} : loads[b].pc # "idle" => phase'[b] = phase[b],
         LoadKeeps(p)', p \in Broadcasts /\ loads'[p].pc # "idle" => phase'[p] = "refreshing"
  PROVE  Kept'
<1>0. /\ CountedNow \in SUBSET Broadcasts /\ CountedNow' \in SUBSET Broadcasts
      /\ \A o \in Loaders : Expected(o) \in SUBSET Broadcasts /\ Expected(o)' \in SUBSET Broadcasts
  BY DEF TypeOK, CountedNow, Expected
<1>1. ASSUME Connected', ~ acc'.stale PROVE AtLeast(acc', CountedNow')
  <2>1. AtLeast(acc, CountedNow) /\ acc.used \in Figure
    BY <1>1 DEF Kept, Connected, TypeOK, RowType
  <2> QED BY <1>0, <2>1, AtLeastFewer
<1>2. ASSUME NEW o \in Loaders \ {p} PROVE LoadKeeps(o)'
  <2>1. CASE loads[o].pc = "idle"
    BY <2>1 DEF LoadKeeps
  <2>2. CASE loads[o].pc # "idle"
    <3>1. loads[o] \in LoadType /\ loads'[o] = loads[o]
      BY <2>2 DEF TypeOK, Idle
    <3>2. loads[o].row.used \in Figure /\ loads[o].quota.used \in Figure
      BY <3>1 DEF LoadType, RowType, QuotaType
    <3>3. AtLeast(loads[o].row, CountedNow) => AtLeast(loads[o].row, CountedNow')
      BY <1>0, <3>2, AtLeastFewer
    <3>4. AtLeast(loads[o].quota, Expected(o)) => AtLeast(loads[o].quota, Expected(o)')
      BY <1>0, <2>2, <3>2, AtLeastFewer
    <3>5. LoadKeeps(o)
      BY DEF Kept
    <3> QED BY <3>1, <3>3, <3>4, <3>5 DEF LoadKeeps, AtLeast
  <2> QED BY <2>1, <2>2
<1>3. ASSUME NEW s \in Savers PROVE SaveKeeps(s)'
  <2>1. SaveKeeps(s)
    BY DEF Kept
  <2>2. SUFFICES ASSUME saves[s].pc \in {"delete", "create", "update", "stamp"},
                        AtLeast(saves[s].quota, CountedNow)
                 PROVE  AtLeast(saves[s].quota, CountedNow')
    BY <2>1 DEF SaveKeeps, AtLeast
  <2>3. saves[s].quota.used \in Figure
    BY <2>2 DEF TypeOK, Idle, Done, SaveType, QuotaType
  <2> QED BY <1>0, <2>2, <2>3, AtLeastFewer
<1>4. ASSUME NEW b \in Broadcasts, loads'[b].pc # "idle" PROVE phase'[b] = "refreshing"
  BY <1>4 DEF Kept, Loaders
<1> QED BY <1>1, <1>2, <1>3, <1>4 DEF Kept, AtLeast

(* A write of the row overtakes every figure that has still to be written.     *)
LEMMA OvertakenKeeps ==
  ASSUME TypeOK
  PROVE  /\ \A p \in Loaders : LET l == Overtake(loads)[p] IN
              l.pc # "idle" /\ ~ l.late => l.pc = "account"
         /\ \A s \in Savers : LET v == Overtake(saves)[s] IN
              v.pc \in {"delete", "create", "update", "stamp"} => v.late
         /\ \A p \in Loaders : Overtake(loads)[p].pc = loads[p].pc
<1>1. ASSUME NEW p \in Loaders
      PROVE  /\ Overtake(loads)[p].pc # "idle" /\ ~ Overtake(loads)[p].late =>
                  Overtake(loads)[p].pc = "account"
             /\ Overtake(loads)[p].pc = loads[p].pc
  <2>1. CASE loads[p].pc = "idle"
    BY <2>1, OvertakeType
  <2>2. CASE loads[p].pc # "idle"
    <3>1. loads[p] \in LoadType
      BY <2>2 DEF TypeOK, Idle
    <3> QED BY <2>2, <3>1, OvertakeType DEF LoadType
  <2> QED BY <2>1, <2>2
<1>2. ASSUME NEW s \in Savers, Overtake(saves)[s].pc \in {"delete", "create", "update", "stamp"}
      PROVE  Overtake(saves)[s].late
  <2>1. saves[s].pc \in {"delete", "create", "update", "stamp"}
    BY <1>2, OvertakeType
  <2>2. saves[s] \in SaveType
    BY <2>1 DEF TypeOK, Idle, Done
  <2> QED BY <2>1, <2>2, OvertakeType DEF SaveType
<1> QED BY <1>1, <1>2

LEMMA MoveKept ==
  ASSUME TypeOK, TypeOK', Kept, NEW p \in Loaders, Moves(p),
         TakesRow(p) \/ GoesOn(p) \/ IsAnswered(p) \/ IsRefused(p)
  PROVE  Kept'
<1>1. /\ UNCHANGED <<acc, phase, month, saves>> /\ loads[p] \in LoadType /\ loads'[p] \in LoadType
      /\ \A o \in Loaders \ {p} : loads'[o] = loads[o]
  BY DEF Moves, TypeOK
<1>2. CountedNow' = CountedNow /\ \A o \in Loaders : Expected(o)' = Expected(o)
  BY <1>1 DEF CountedNow, Expected
<1>3. loads[p].pc # "idle" /\ loads'[p].pc # "idle"
  BY <1>1 DEF LoadType
<1>4. LoadKeeps(p)'
  <2>1. CASE TakesRow(p)
    BY <1>1, <1>2, <2>1 DEF TakesRow, Kept, LoadKeeps, AtLeast
  <2>2. CASE GoesOn(p)
    BY <1>1, <1>2, <1>3, <2>2 DEF GoesOn, SameRow, Kept, LoadKeeps, AtLeast
  <2>3. CASE IsAnswered(p)
    <3>1. Expected(p) \subseteq month
      BY DEF Expected
    <3>2. ~ Answer.stale => AtLeast(Answer, Expected(p))
      BY <3>1, AnswerCounts
    <3> QED BY <1>2, <2>3, <3>2 DEF IsAnswered, LoadKeeps, AtLeast
  <2>4. CASE IsRefused(p)
    BY <2>4 DEF IsRefused, LoadKeeps
  <2> QED BY <2>1, <2>2, <2>3, <2>4
<1>5. p \in Broadcasts => phase'[p] = "refreshing"
  BY <1>1, <1>3 DEF Kept
<1> QED BY <1>1, <1>2, <1>4, <1>5, FewerKept

LEMMA EndKept ==
  ASSUME TypeOK, TypeOK', Kept, NEW p \in Loaders, Ends(p)
  PROVE  Kept'
<1>1. /\ UNCHANGED <<acc, month, saves>> /\ loads'[p].pc = "idle"
      /\ \A o \in Loaders \ {p} : loads'[o] = loads[o]
      /\ \A b \in Broadcasts \ {p} : phase'[b] = phase[b]
      /\ p \in Broadcasts => phase'[p] \in {phase[p], "missed"}
  BY DEF Ends, TypeOK, Idle, Forced
<1>2. CountedNow' \subseteq CountedNow /\ \A o \in Loaders : Expected(o)' \subseteq Expected(o)
  BY <1>1 DEF CountedNow, Expected, TypeOK
<1>3. LoadKeeps(p)'
  BY <1>1 DEF LoadKeeps
<1> QED BY <1>1, <1>2, <1>3, FewerKept

(* What a load writes counts what was counted, and its own broadcast. *)
LEMMA MergeCounts ==
  ASSUME TypeOK, Kept, NEW p \in Loaders, Saves(p)
  PROVE  \E q : /\ Save(p, q) /\ FigureOK(q)
                /\ ~ q.stale => AtLeast(q, IF Forced(p) THEN Expected(p) ELSE CountedNow)
<1>1. loads[p] \in LoadType /\ LoadKeeps(p) /\ loads[p].pc # "idle"
  BY DEF Saves, Kept, LoadType
<1>2. FigureOK(loads[p].row) /\ FigureOK(loads[p].quota)
  BY <1>1 DEF LoadType, QuotaType, RowType, FigureOK
<1>3. /\ CountedNow \in SUBSET Broadcasts /\ Expected(p) \in SUBSET Broadcasts
      /\ CountedNow \subseteq Expected(p)
  BY DEF TypeOK, CountedNow, Expected
<1>4. ExtraUsed(p) \in Nat
  BY <1>1, ExtraType
<1>5. CASE loads[p].pc = "write" /\ Save(p, Merge(p, loads[p].quota))
  <2> DEFINE q == loads[p].quota
             m == Merge(p, q)
  <2>1. FigureOK(m)
    BY <1>1, <1>2, MergeType
  <2>2. OrZero(m.used) >= OrZero(q.used)
    <3>1. OrZero(q.used) \in Nat /\ OrZero(loads[p].row.used) \in Nat
      BY <1>2 DEF FigureOK, OrZero, Figure, Unknown
    <3>2. m.used = MergedUsed(p, q.used)
      BY DEF Merge
    <3> HIDE DEF m, q
    <3> QED BY <1>4, <3>1, <3>2 DEF MergedUsed, StoredPlusExtra, Larger, OrZero, Unknown
  <2>3. ~ m.stale => AtLeast(q, Expected(p))
    BY <1>1, <1>5 DEF LoadKeeps, Merge
  <2>4. OrZero(q.used) \in Nat /\ OrZero(m.used) \in Nat /\ Total(Units, Expected(p)) \in Nat
    BY <1>2, <1>3, <2>1, SizesAssumption, TotalType DEF FigureOK, OrZero, Figure, Unknown
  <2> HIDE DEF m, q
  <2>5. ~ m.stale => AtLeast(m, Expected(p))
    BY <2>2, <2>3, <2>4 DEF AtLeast
  <2>6. ~ m.stale => AtLeast(m, CountedNow)
    BY <1>3, <2>1, <2>5, AtLeastFewer DEF FigureOK
  <2> QED BY <1>5, <2>1, <2>5, <2>6 DEF m, q
<1>6. CASE loads[p].pc = "catch" /\ ExtraUsed(p) > 0 /\ Save(p, Merge(p, loads[p].row))
  <2> DEFINE q == loads[p].row
             m == Merge(p, q)
  <2>1. FigureOK(m)
    BY <1>1, <1>2, MergeType
  <2>2. OrZero(q.used) \in Nat /\ OrZero(m.used) \in Nat /\ Total(Units, CountedNow) \in Nat
    BY <1>2, <1>3, <2>1, SizesAssumption, TotalType DEF FigureOK, OrZero, Figure, Unknown
  <2>3. OrZero(m.used) >= OrZero(q.used) + ExtraUsed(p)
    <3>1. m.used = MergedUsed(p, q.used)
      BY DEF Merge
    <3>2. StoredPlusExtra(p) = OrZero(q.used) + ExtraUsed(p)
      BY DEF StoredPlusExtra
    <3> HIDE DEF m, q
    <3> QED BY <1>4, <1>6, <2>2, <3>1, <3>2 DEF MergedUsed, Larger, OrZero, Unknown
  <2>4. ~ m.stale => AtLeast(q, CountedNow)
    BY <1>1, <1>6 DEF LoadKeeps, Merge
  <2> HIDE DEF m, q
  <2>5. ~ m.stale => AtLeast(m, CountedNow)
    BY <1>4, <2>2, <2>3, <2>4 DEF AtLeast
  <2>6. ASSUME Forced(p), ~ m.stale PROVE AtLeast(m, Expected(p))
    <3>1. Expected(p) \subseteq CountedNow \cup {p} /\ {p} \in SUBSET Broadcasts
      BY <1>3, <2>6 DEF Expected, CountedNow, Forced
    <3>2. Total(Units, CountedNow \cup {p}) <= Total(Units, CountedNow) + Total(Units, {p})
      BY <1>3, <3>1, SizesAssumption, TotalUnion
    <3>3. Total(Units, {p}) = ExtraUsed(p)
      BY <2>6, SizesAssumption, TotalSingle DEF ExtraUsed, Forced
    <3>4. Total(Units, CountedNow \cup {p}) \in Nat
      BY <1>3, <3>1, SizesAssumption, TotalType
    <3>5. AtLeast(m, CountedNow \cup {p})
      BY <1>4, <2>2, <2>3, <2>4, <2>6, <3>2, <3>3, <3>4 DEF AtLeast
    <3> QED BY <1>3, <2>1, <3>1, <3>5, AtLeastFewer DEF FigureOK
  <2> QED BY <1>6, <2>1, <2>5, <2>6 DEF m, q
<1> QED BY <1>5, <1>6 DEF Saves

LEMMA SaveKept ==
  ASSUME TypeOK, Kept, NEW p \in Loaders, Saves(p)
  PROVE  Kept'
<1>1. PICK q : /\ Save(p, q) /\ FigureOK(q)
               /\ ~ q.stale => AtLeast(q, IF Forced(p) THEN Expected(p) ELSE CountedNow)
  BY MergeCounts
<1>2. HasFigures(acc', q)
  BY <1>1, StampedType DEF Save
<1>3. CountedNow' \subseteq IF Forced(p) THEN Expected(p) ELSE CountedNow
  BY <1>1 DEF Save, CountedNow, Expected, TypeOK, Forced
<1>4. ASSUME ~ acc'.stale PROVE AtLeast(acc', CountedNow')
  <2>1. CountedNow \in SUBSET Broadcasts /\ Expected(p) \in SUBSET Broadcasts
        /\ acc'.used \in Figure
    BY <1>1, <1>2 DEF TypeOK, CountedNow, Expected, HasFigures, FigureOK
  <2>2. AtLeast(acc', IF Forced(p) THEN Expected(p) ELSE CountedNow)
    BY <1>1, <1>2, <1>4 DEF HasFigures, AtLeast
  <2> QED BY <1>3, <2>1, <2>2, AtLeastFewer
<1>5. /\ \A o \in Loaders : loads'[o] = IF o = p THEN Idle ELSE Overtake(loads)[o]
      /\ saves' = Overtake(saves)
  BY <1>1, OvertakeType DEF Save
<1>6. \A o \in Loaders : LoadKeeps(o)'
  BY <1>5, OvertakenKeeps DEF LoadKeeps, Idle
<1>7. \A s \in Savers : SaveKeeps(s)'
  BY <1>5, OvertakenKeeps DEF SaveKeeps
<1>8. ASSUME NEW b \in Broadcasts, loads'[b].pc # "idle" PROVE phase'[b] = "refreshing"
  <2>0. b \in Loaders /\ Overtake(loads)[b].pc = loads[b].pc
    BY OvertakenKeeps DEF Loaders
  <2>1. b # p /\ loads[b].pc # "idle"
    BY <1>5, <1>8, <2>0 DEF Idle
  <2> QED BY <1>1, <2>1 DEF Save, Kept, TypeOK
<1> QED BY <1>4, <1>6, <1>7, <1>8 DEF Kept, AtLeast

LEMMA PutKept ==
  ASSUME TypeOK, Kept, NEW s \in Savers, NEW row, NEW next, Put(s, row, next),
         row.id # 0 /\ ~ row.stale => AtLeast(row, CountedNow),
         /\ next.pc \in {"delete", "create", "update", "stamp"}
         /\ ~ next.late /\ ~ next.quota.stale
         => AtLeast(next.quota, CountedNow)
  PROVE  Kept'
<1>1. /\ acc' = row /\ loads' = Overtake(loads) /\ CountedNow' = CountedNow
      /\ \A v \in Savers : saves'[v] = IF v = s THEN next ELSE Overtake(saves)[v]
      /\ phase' = phase
  BY OvertakeType DEF Put, CountedNow
<1>2. \A o \in Loaders : LoadKeeps(o)'
  BY <1>1, OvertakenKeeps DEF LoadKeeps
<1>3. \A v \in Savers : SaveKeeps(v)'
  BY <1>1, OvertakenKeeps DEF SaveKeeps, AtLeast
<1>4. \A b \in Broadcasts : loads'[b].pc # "idle" => phase'[b] = "refreshing"
  BY <1>1, OvertakenKeeps DEF Kept, Loaders
<1> QED BY <1>1, <1>2, <1>3, <1>4 DEF Kept, Connected, AtLeast

LEMMA SaverKept ==
  ASSUME TypeOK, Kept, NEW s \in Savers, SaveStep(s)
  PROVE  Kept'
<1>0. SaveKeeps(s)
  BY DEF Kept
<1>1. CASE Deletes(s)
  <2>1. PICK next : /\ Put(s, NoAccount, next)
                    /\ saves[s].pc = "delete" /\ next.pc = "create" /\ SameAnswer(s, next)
    BY <1>1 DEF Deletes
  <2> QED BY <1>0, <2>1, PutKept DEF NoAccount, Blank, SameAnswer, SaveKeeps
<1>2. CASE Writes(s)
  <2>1. PICK row, next : /\ Put(s, row, next)
                         /\ saves[s].pc \in {"create", "update", "stamp"}
                         /\ HasFigures(row, Fetched(s))
                         /\ \/ next = Done
                            \/ next.pc = "stamp" /\ SameAnswer(s, next)
    BY <1>2 DEF Writes
  <2>2. saves[s] \in SaveType
    BY <2>1 DEF TypeOK, Idle, Done
  <2>3. /\ Fetched(s).used = saves[s].quota.used
        /\ Fetched(s).stale = (saves[s].quota.stale \/ saves[s].late)
    BY <2>2 DEF Fetched, SaveType, QuotaType
  <2>4. ~ row.stale => AtLeast(row, CountedNow)
    BY <1>0, <2>1, <2>3 DEF HasFigures, SaveKeeps, AtLeast
  <2> QED BY <1>0, <2>1, <2>4, PutKept DEF SameAnswer, SaveKeeps, Done
<1>3. CASE Rewrites(s)
  BY <1>3, PutKept DEF Rewrites, Kept, Connected, Done
<1>4. CASE Waits(s)
  <2>1. PICK next : /\ Move(s, next)
                    /\ \/ next.pc \in {"done", "broken"}
                       \/ next \in SaveType /\ next.quota \in {Answer, NoAnswer}
    BY <1>4 DEF Waits
  <2>2. ~ next.quota.stale /\ next.quota \in {Answer, NoAnswer} => AtLeast(next.quota, CountedNow)
    <3>1. CountedNow \subseteq month
      BY DEF CountedNow
    <3> QED BY <3>1, AnswerCounts DEF NoAnswer
  <2>3. /\ UNCHANGED <<acc, loads, phase, month>>
        /\ \A v \in Savers : saves'[v] = IF v = s THEN next ELSE saves[v]
    BY <2>1 DEF Move, unsaved, TypeOK
  <2>4. CountedNow' = CountedNow /\ \A o \in Loaders : Expected(o)' = Expected(o)
    BY <2>3 DEF CountedNow, Expected
  <2>5. \A o \in Loaders : LoadKeeps(o)'
    BY <2>3, <2>4 DEF Kept, LoadKeeps, AtLeast
  <2>6. \A v \in Savers : SaveKeeps(v)'
    BY <2>1, <2>2, <2>3, <2>4 DEF Kept, SaveKeeps, AtLeast
  <2> QED BY <2>3, <2>4, <2>5, <2>6 DEF Kept, Connected, AtLeast
<1> QED BY <1>1, <1>2, <1>3, <1>4, SaveStepKinds

LEMMA StepKept ==
  ASSUME TypeOK, TypeOK', Kept, [Next]_vars
  PROVE  Kept'
<1>1. ASSUME NEW p \in Loaders, LoadStep(p) PROVE Kept'
  BY <1>1, LoadStepKinds, MoveKept, EndKept, SaveKept
<1>2. CASE Ask
  <2>1. /\ "api" \in Loaders /\ "api" \notin Broadcasts
        /\ loads' = [loads EXCEPT !["api"] = Begin]
        /\ UNCHANGED <<acc, phase, month, saves>>
    BY <1>2, QuotaAssumption DEF Ask, Step, unwritten, Loaders
  <2>2. CountedNow' = CountedNow /\ \A o \in Loaders : Expected(o)' = Expected(o)
    BY <2>1 DEF CountedNow, Expected
  <2>3. LoadKeeps("api")'
    BY <2>1 DEF LoadKeeps, Begin, TypeOK
  <2> QED BY <2>1, <2>2, <2>3, FewerKept DEF TypeOK
<1>3. ASSUME NEW b \in Broadcasts, Finalize(b) PROVE Kept'
  <2>1. /\ b \in Loaders /\ loads' = [loads EXCEPT ![b] = Begin]
        /\ phase' = [phase EXCEPT ![b] = "refreshing"] /\ UNCHANGED <<acc, month, saves>>
    BY <1>3 DEF Finalize, Loaders
  <2>2. CountedNow' \subseteq CountedNow /\ \A o \in Loaders : Expected(o)' \subseteq Expected(o)
    BY <2>1 DEF CountedNow, Expected, TypeOK
  <2>3. LoadKeeps(b)'
    BY <2>1 DEF LoadKeeps, Begin, TypeOK
  <2> QED BY <2>1, <2>2, <2>3, FewerKept DEF TypeOK
<1>4. CASE \/ \E b \in Broadcasts : Deliver(b)
           \/ LineCatchesUp \/ NewMonth \/ UNCHANGED vars
  <2>1. /\ UNCHANGED <<acc, loads, saves>>
        /\ \/ \E b \in Broadcasts : /\ phase[b] = "new" /\ month' = month \cup {b}
                                    /\ phase' = [phase EXCEPT ![b] = "sent"]
           \/ month' \subseteq month /\ phase' = phase
    BY <1>4 DEF Deliver, LineCatchesUp, NewMonth, vars
  <2>2. /\ \A b \in Broadcasts : phase[b] = "refreshing" => phase'[b] = "refreshing"
        /\ CountedNow' \subseteq CountedNow
    BY <2>1 DEF TypeOK, CountedNow
  <2>3. \A o \in Loaders : loads[o].pc # "idle" => Expected(o)' \subseteq Expected(o)
    <3>1. ASSUME NEW o \in Loaders, loads[o].pc # "idle", o \in Broadcasts PROVE phase[o] # "new"
      BY <3>1 DEF Kept
    <3> QED BY <2>1, <3>1, QuotaAssumption DEF TypeOK, Expected
  <2>4. "api" \in Loaders /\ loads'["api"] = loads["api"] /\ LoadKeeps("api")
    BY <2>1 DEF Kept, Loaders
  <2>5. LoadKeeps("api")'
    <3>1. CASE loads["api"].pc = "idle"
      BY <2>4, <3>1 DEF LoadKeeps
    <3>2. CASE loads["api"].pc # "idle"
      <4>1. loads["api"].row.used \in Figure /\ loads["api"].quota.used \in Figure
        BY <2>4, <3>2 DEF TypeOK, Idle, LoadType, RowType, QuotaType
      <4>2. /\ Expected("api")' \subseteq Expected("api") /\ Expected("api") \in SUBSET Broadcasts
            /\ CountedNow \in SUBSET Broadcasts
        BY <2>3, <2>4, <3>2 DEF TypeOK, Expected, CountedNow
      <4>3. /\ AtLeast(loads["api"].row, CountedNow) => AtLeast(loads["api"].row, CountedNow')
            /\ AtLeast(loads["api"].quota, Expected("api")) =>
                 AtLeast(loads["api"].quota, Expected("api")')
        BY <2>2, <4>1, <4>2, AtLeastFewer
      <4> QED BY <2>4, <4>3 DEF LoadKeeps, AtLeast
    <3> QED BY <3>1, <3>2
  <2>6. /\ \A b \in Broadcasts : loads[b].pc # "idle" => phase'[b] = phase[b]
        /\ "api" \notin Broadcasts
    BY <2>2, QuotaAssumption DEF Kept
  <2> QED BY <2>1, <2>2, <2>3, <2>4, <2>5, <2>6, FewerKept
<1> QED BY <1>1, <1>2, <1>3, <1>4, SaverKept DEF Next

-----------------------------------------------------------------------------
(* The theorems. *)

QuotaInv == TypeOK /\ AccountStays /\ LeftFitsUsed /\ Explained /\ Kept

LEMMA InitQuotaInv == Init => QuotaInv
<1> SUFFICES ASSUME Init PROVE QuotaInv
  OBVIOUS
<1>1. TypeOK
  BY InitQuotaType
<1>2. /\ acc.stale = FALSE /\ OrZero(acc.used) = 0 /\ acc.of = {} /\ CountedNow = {}
      /\ acc.left \in {Unknown, Left(acc.limit, acc.used)} /\ (acc.id # 0 \/ lastId = 0)
  <2>1. CountedNow = {}
    BY DEF Init, CountedNow
  <2>2. CASE acc = NoAccount /\ lastId = 0
    BY <2>1, <2>2 DEF NoAccount, Blank, OrZero, Unknown
  <2>3. CASE acc = [Blank(1) EXCEPT !.limit = Limit, !.used = 0, !.left = Limit, !.synced = 0]
    <3>1. Blank(1) \in RowType
      BY BlankType
    <3>2. /\ acc.id = Blank(1).id /\ acc.limit = Limit /\ acc.used = 0 /\ acc.left = Limit
          /\ acc.of = Blank(1).of /\ acc.stale = Blank(1).stale
      BY <2>3, <3>1 DEF RowType
    <3>3. Left(Limit, 0) = Limit
      BY QuotaAssumption DEF Left, Unknown, Larger
    <3> QED BY <2>1, <3>2, <3>3 DEF Blank, OrZero, Unknown
  <2> QED BY <2>2, <2>3 DEF Init
<1>3. Total(Units, {}) = 0
  <2>1. Messages(Units, {}) = {}
    BY DEF Messages
  <2> QED BY <2>1, FS_EmptySet DEF Total
<1>4. AccountStays /\ LeftFitsUsed
  BY <1>1, <1>2 DEF AccountStays, LeftFitsUsed, Connected, TypeOK
<1>5. Explained
  BY <1>2, <1>3 DEF Init, Explained, Sound, LoadSound, SaveSound, Idle
<1>6. Kept
  BY <1>2, <1>3 DEF Init, Kept, AtLeast, LoadKeeps, SaveKeeps, Idle, Loaders
<1> QED BY <1>1, <1>4, <1>5, <1>6 DEF QuotaInv

LEMMA StepQuotaInv == QuotaInv /\ [Next]_vars => QuotaInv'
<1> SUFFICES ASSUME QuotaInv, [Next]_vars PROVE QuotaInv'
  OBVIOUS
<1>1. TypeOK'
  BY StepTypeOK DEF QuotaInv
<1> QED BY <1>1, StepAccountStays, StepLeftFitsUsed, StepExplained, StepKept DEF QuotaInv

(* A user who has connected an account keeps one, for every number of requests  *)
(* that save or test it, whichever of their statements fail.                    *)
THEOREM AccountNeverLost == Spec => []AccountStays
<1>1. QuotaInv => AccountStays
  BY DEF QuotaInv
<1> QED BY <1>1, InitQuotaInv, StepQuotaInv, PTL DEF Spec

(* What the row says is left fits what it says is used, between the two writes   *)
(* of a request excepted, however many loads and requests write the row.         *)
THEOREM LeftIsLimitLessUsed == Spec => []LeftFitsUsed
<1>1. QuotaInv => LeftFitsUsed
  BY DEF QuotaInv
<1> QED BY <1>1, InitQuotaInv, StepQuotaInv, PTL DEF Spec

(* The stored figure exceeds what was sent only by a broadcast that is counted   *)
(* twice, or by one of an earlier month.                                        *)
THEOREM OverstatedOnlyIfExplained == Spec => []OverstatedIsExplained
<1>1. QuotaInv => OverstatedIsExplained
  BY ExplainedImplies DEF QuotaInv
<1> QED BY <1>1, InitQuotaInv, StepQuotaInv, PTL DEF Spec

(* A broadcast that is counted stays in the figure, but for an overtaken write   *)
(* or a counter of LINE that lags.                                             *)
THEOREM CountedIsKept == Spec => []CountedStaysCounted
<1>1. QuotaInv => CountedStaysCounted
  BY KeptImplies DEF QuotaInv
<1> QED BY <1>1, InitQuotaInv, StepQuotaInv, PTL DEF Spec
=============================================================================
