-------------------------- MODULE AudienceCriteria --------------------------
(***************************************************************************)
(* The rules of an audience segment: which criteria a request may store,   *)
(* which LINE users they select, and under which key their number is       *)
(* cached.  Only functions of their arguments, no state.                   *)
(*                                                                         *)
(* A criteria object is a record of sets and numbers of days; a field that *)
(* is left out is "none", {} or 0.  "Stale" stands for any value that is   *)
(* in a stored object but is no user type or tier of this program.         *)
(***************************************************************************)
EXTENDS Integers, FiniteSets

CONSTANT Days    \* the numbers of days a request can ask for

ASSUME DaysAssumption == Days \subseteq Nat \ {0}

UserTypes == {"Member", "Guest"}
UserTiers == {"Silver", "Gold", "Platinum"}
Matches == {"and", "or"}

WritableTypes == {"user_type", "active", "new", "combined"}

Criteria == [match : Matches \cup {"none"}, userTypes : SUBSET UserTypes,
             userTiers : SUBSET UserTiers,
             activityDays : Days \cup {0}, newFollowerDays : Days \cup {0}]

NoCriteria == [match |-> "none", userTypes |-> {}, userTiers |-> {},
               activityDays |-> 0, newFollowerDays |-> 0]

(* parseCriteria: what is not known is dropped from a stored object. *)
ParseCriteria(c) == [c EXCEPT !.userTypes = @ \cap UserTypes, !.userTiers = @ \cap UserTiers]

(* The targeting rules that are filled in, and those a type looks at. *)
Filled(c) ==
  {r \in {"users", "active", "new"} :
     \/ r = "users" /\ c.userTypes # {}
     \/ r = "active" /\ c.activityDays # 0
     \/ r = "new" /\ c.newFollowerDays # 0}

RulesOf(type) ==
  CASE type = "user_type" -> {"users"}
    [] type = "active" -> {"active"}
    [] type = "new" -> {"new"}
    [] type = "combined" -> {"users", "active", "new"}
    [] OTHER -> {}

Clauses(type, c) == Filled(c) \cap RulesOf(type)

(***************************************************************************)
(* What may be stored.                                                     *)
(***************************************************************************)

(* normalizeAndValidateCriteria does not throw. *)
Accepts(type, c) ==
  \/ type = "all"
  \/ type \in {"user_type", "active", "new"} /\ Clauses(type, c) # {}
  \/ type = "combined" /\ Cardinality(Filled(c)) >= 2

(* What normalizing leaves: the rules the type looks at, tiers only with types. *)
Normalized(type, c) ==
  [match |-> IF type # "combined" THEN "none" ELSE IF c.match = "or" THEN "or" ELSE "and",
   userTypes |-> IF "users" \in RulesOf(type) THEN c.userTypes ELSE {},
   userTiers |-> IF "users" \in RulesOf(type) /\ c.userTypes # {} THEN c.userTiers ELSE {},
   activityDays |-> IF "active" \in RulesOf(type) THEN c.activityDays ELSE 0,
   newFollowerDays |-> IF "new" \in RulesOf(type) THEN c.newFollowerDays ELSE 0]

(***************************************************************************)
(* Whom they select.                                                       *)
(***************************************************************************)

(* A LINE user that follows: its type, its tier, the days since its last   *)
(* message, and since it followed; -1 where the column is null.            *)
MatchesRule(u, r, c) ==
  \/ /\ r = "users" /\ u.userType \in c.userTypes
     /\ c.userTiers = {} \/ u.userTier \in c.userTiers
  \/ r = "active" /\ u.idle \in 0 .. c.activityDays
  \/ r = "new" /\ u.followed \in 0 .. c.newFollowerDays

(* buildRecipientWhere returns no clause: nobody is counted. *)
HasWhere(type, c) == type = "all" \/ Clauses(type, c) # {}

Selects(type, c, u) ==
  /\ HasWhere(type, c)
  /\ IF type = "combined" /\ c.match = "or"
       THEN \E r \in Clauses(type, c) : MatchesRule(u, r, c)
       ELSE \A r \in Clauses(type, c) : MatchesRule(u, r, c)

(* Faulty forms: the match mode is left out of the key; the key says only    *)
(* whether there are tiers, not which.                                       *)
FaultyKeyMatch(c) == "any"
FaultyKeyTiers(c) == IF c.userTiers = {} THEN {} ELSE UserTiers

KeyTiers(c) == c.userTiers

KeyMatch(c) == IF c.match = "or" THEN "or" ELSE "and"

(* audienceDbCountCacheKey, dbCountCacheSuffix: 30 and 7 stand for numbers *)
(* that are missing, but then there is no clause either.                   *)
CountKey(type, c) ==
  CASE type = "all" -> <<"all">>
    [] type = "active" -> <<type, IF c.activityDays = 0 THEN 30 ELSE c.activityDays>>
    [] type = "new" -> <<type, IF c.newFollowerDays = 0 THEN 7 ELSE c.newFollowerDays>>
    [] type = "user_type" -> <<type, c.userTypes, KeyTiers(c)>>
    [] OTHER -> <<type, KeyMatch(c), c.userTypes, KeyTiers(c), c.activityDays, c.newFollowerDays>>

(***************************************************************************)
(* Properties.                                                             *)
(***************************************************************************)
(* What is read of the column, whatever is stored in it beside the days.   *)
StoredCriteria == {ParseCriteria(c) : c \in
  [match : Matches \cup {"none"}, userTypes : SUBSET (UserTypes \cup {"Stale"}),
   userTiers : SUBSET (UserTiers \cup {"Stale"}),
   activityDays : Days \cup {0}, newFollowerDays : Days \cup {0}]}

LineUsers == [userType : UserTypes, userTier : UserTiers \cup {"none"},
              idle : {-1, 0} \cup Days, followed : {-1, 0} \cup Days]

(* Two audiences whose numbers are cached under one key select the same    *)
(* LINE users, for any two lists of types and of tiers, days and modes: no  *)
(* audience is shown the number of another one.                            *)
KeyIsSound(type, c) ==
  \A d \in StoredCriteria :
    HasWhere(type, c) /\ HasWhere(type, d) /\ CountKey(type, c) = CountKey(type, d)
      => \A u \in LineUsers : Selects(type, c, u) <=> Selects(type, d, u)
=============================================================================
