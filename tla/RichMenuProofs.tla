--------------------------- MODULE RichMenuProofs ---------------------------
(***************************************************************************)
(* The properties of RichMenu for every number of users, menus, overlapping  *)
(* calls, faults and crashes.                                              *)
(***************************************************************************)
EXTENDS RichMenu, FiniteSetTheorems, TLAPS

(* create() has uploaded an image; it also has a menu at LINE, but no row yet.  *)
WithImage == {"publish", "image", "setDefault", "cleanup", "offCreate", "insert"}
WithMenu  == {"image", "setDefault", "offCreate", "insert"}

(* applyMemberMenu() has read the Members; calls that make a user a Member;     *)
(* calls that will delete an image of a row.                                   *)
Linking  == {"link", "offApply", "on"}
Greeting == {"greet", "welcome"}
Erasing  == {"unpublish", "unstore"}

(* Calls that have no menu, or need it no more. *)
NoMenuPc == {"idle", "upload", "publish", "cleanup", "greet"}

At(c, pcs) == call[c].pc \in pcs

(* What a call knows. *)
CallFits(c) ==
  /\ At(c, WithImage \cup {"upload"}) => call[c].type \in Types
  /\ At(c, {"setDefault"}) => call[c].type = "default"
  /\ At(c, WithImage \cup Erasing) => call[c].key \in 1..now
  /\ At(c, Linking \cup Greeting \cup {"members"}) => call[c].type = "member"
  /\ At(c, Erasing \cup {"drop"}) => call[c].menu \in removed
  /\ At(c, {"offApply", "on"}) => call[c].users = {}
  /\ At(c, Greeting) => \A u, v \in call[c].users : u = v

CallsFit == \A c \in Calls : CallFits(c)

(* A menu that is being created belongs to its call alone; one that is applied  *)
(* is a member menu, or gone.                                                  *)
MenusFit ==
  /\ \A m \in Menus : row[m] # NoRow => m <= made /\ row[m].key <= now
  /\ \A c \in Calls : At(c, WithMenu) =>
       /\ row[call[c].menu] = NoRow
       /\ call[c].menu \in atLine \ removed /\ call[c].menu # applied
       /\ \A d \in Calls \ {c} : call[d].pc \notin NoMenuPc => call[d].menu # call[c].menu
  /\ \A c \in Calls : At(c, Linking \cup {"members"}) =>
       row[call[c].menu] = NoRow \/ row[call[c].menu].type = "member"

(* A type that no two calls switch at once has one active menu, and none while  *)
(* a call is about to set its own.                                             *)
Switching(c, t) == At(c, {"insert", "on"}) /\ call[c].type = t

OneSwitches == \A t \in Types \ crossed :
  /\ \A m, n \in Active(t) : m = n
  /\ \A c \in Calls : Switching(c, t) =>
       Active(t) = {} /\ \A d \in Calls \ {c} : ~ Switching(d, t)

(* The name of an image that only one upload has used has one holder. *)
KeysFit ==
  /\ \A c, d \in Calls : c # d /\ At(c, WithImage) /\ At(d, WithImage \cup Erasing) =>
       call[c].key # call[d].key \/ call[c].key \in shared
  /\ \A c \in Calls, m \in Menus : At(c, WithImage) /\ row[m] # NoRow =>
       call[c].key # row[m].key \/ call[c].key \in shared
  /\ \A c \in Calls, m \in Menus : At(c, Erasing) /\ row[m] # NoRow /\ m # call[c].menu =>
       call[c].key # row[m].key \/ call[c].key \in shared
  /\ \A m, n \in Menus : row[m] # NoRow /\ row[n] # NoRow /\ m # n =>
       row[m].key # row[n].key \/ row[m].key \in shared

Backed ==
  /\ RowsAreBacked
  /\ \A c \in Calls : At(c, WithImage \ {"cleanup"}) =>
       call[c].key \in images \/ call[c].key \in shared

DefaultFits ==
  /\ ActiveIsDefault
  /\ \A c \in Calls : At(c, {"offCreate", "insert"}) /\ call[c].type = "default" =>
       default = call[c].menu \/ "default" \in crossed

(* The applied menu, when it is active and neither removed nor crossed. *)
InForce(m) == m = applied /\ m \in Active("member") \ removed /\ "member" \notin crossed

LinksFit ==
  /\ \A c, d \in Calls : c # d /\ At(c, Linking) /\ At(d, Linking) => member \subseteq missed
  /\ \A c \in Calls : At(c, Linking) =>
       \/ call[c].menu \in removed
       \/ \A u \in member \ missed : u \in call[c].users \/ shown[u] = call[c].menu
  /\ \A c, d \in Calls : At(c, Linking) /\ At(d, Greeting) => call[d].users \subseteq missed

ShownFits == \A m \in Menus : InForce(m) =>
  /\ \A u \in member \ missed :
       \/ shown[u] = m
       \/ \E c \in Calls : At(c, Linking) \/ (At(c, Greeting) /\ u \in call[c].users)
  /\ \A d \in Calls : At(d, {"welcome"}) /\ call[d].menu # m => call[d].users \subseteq missed

MenuInv ==
  /\ TypeOK /\ CallsFit /\ MenusFit /\ OneSwitches /\ KeysFit /\ Backed
  /\ DefaultFits /\ LinksFit /\ ShownFits

-----------------------------------------------------------------------------
(* One step of a call, field by field. *)

CallType(n) ==
  [pc : CallPc, type : Types \cup {"none"}, key : Keys \cup {NoKey}, menu : 0..n,
   users : SUBSET Users]

CallOK(k) ==
  /\ k \in CallType(made')
  /\ k.pc \notin NoMenuPc => k.menu # NoMenu

TypedRest ==
  /\ row \in [Menus -> Rows] /\ made \in 0..MaxMenus /\ atLine \subseteq 1..made
  /\ default \in 0..made /\ shown \in [Users -> 0..made] /\ member \subseteq Users
  /\ images \subseteq Keys /\ now \in 0..MaxTime /\ faults \in 0..MaxFaults
  /\ applied \in 0..made /\ removed \subseteq 1..made
  /\ shared \subseteq Keys /\ crossed \subseteq Types
  /\ halted \in BOOLEAN /\ missed \subseteq Users

Becomes(c, k) == call' = [call EXCEPT ![c] = k]

OthersStay(c) == \A d \in Calls \ {c} : call'[d] = call[d]

(* The call comes to pc with what it knew. *)
GoesOn(c, pc) ==
  /\ call'[c].pc = pc
  /\ call'[c].type = call[c].type /\ call'[c].key = call[c].key
  /\ call'[c].menu = call[c].menu /\ call'[c].users = call[c].users
  /\ OthersStay(c)

(* The type invariant in two parts: the calls and the rest. *)
LEMMA TypeParts == TypeOK <=>
  /\ TypedRest
  /\ call \in [Calls -> CallType(made)]
  /\ \A c \in Calls : call[c].pc \notin NoMenuPc => call[c].menu # NoMenu
BY DEF TypeOK, TypedRest, CallType, NoMenuPc

(* What TypeOK says of the numbers. *)
LEMMA Numbers == TypeOK =>
  /\ MaxMenus \in Nat /\ MaxTime \in Nat /\ MaxFaults \in Nat
  /\ made \in Nat /\ made <= MaxMenus /\ now \in Nat /\ now <= MaxTime
BY BoundsAssumption DEF TypeOK

(* The step of one call leaves the calls typed. *)
LEMMA CallChanges ==
  ASSUME TypeOK, TypedRest', made' \in {made, made + 1}, NEW c \in Calls, NEW k, CallOK(k),
         Becomes(c, k)
  PROVE  TypeOK' /\ call'[c] = k /\ OthersStay(c)
<1>1. /\ call \in [Calls -> CallType(made)]
      /\ \A d \in Calls : call[d].pc \notin NoMenuPc => call[d].menu # NoMenu
  BY TypeParts
<1>2. made \in Nat
  BY Numbers
<1>3. call'[c] = k /\ OthersStay(c)
  BY <1>1 DEF Becomes, OthersStay
<1>4. \A d \in Calls : call[d] \in CallType(made')
  BY <1>1, <1>2 DEF CallType
<1>5. call' \in [Calls -> CallType(made')]
  BY <1>1, <1>4 DEF Becomes, CallOK
<1>6. \A d \in Calls : call'[d].pc \notin NoMenuPc => call'[d].menu # NoMenu
  BY <1>1, <1>3 DEF OthersStay, CallOK
<1>7. (/\ TypedRest
       /\ call \in [Calls -> CallType(made)]
       /\ \A d \in Calls : call[d].pc \notin NoMenuPc => call[d].menu # NoMenu)'
  BY <1>5, <1>6
<1>8. TypeOK'
  BY <1>7 DEF TypeOK, TypedRest, CallType, NoMenuPc
<1> QED BY <1>3, <1>8

LEMMA FreeOK == made' \in Nat => CallOK(Free)
BY DEF CallOK, CallType, Free, CallAt, CallPc, NoMenu, NoKey, NoMenuPc

LEMMA FaultInBounds == TypeOK /\ Fault => faults' \in 0..MaxFaults
BY BoundsAssumption DEF TypeOK, Fault

(* A call that returns is free. *)
LEMMA CallReturns ==
  ASSUME TypeOK, TypedRest', made' = made, NEW c \in Calls, Return(c)
  PROVE  TypeOK' /\ call'[c].pc = "idle" /\ OthersStay(c)
<1>1. made' \in Nat
  BY Numbers
<1>2. CallOK(Free) /\ Becomes(c, Free)
  BY <1>1, FreeOK DEF Return, Becomes
<1>3. TypeOK' /\ call'[c] = Free /\ OthersStay(c)
  BY <1>2, CallChanges
<1> QED BY <1>3 DEF Free, CallAt

(* A call that goes on keeps what it knew. *)
LEMMA CallGoesOn ==
  ASSUME TypeOK, TypedRest', made' \in {made, made + 1}, NEW c \in Calls, NEW pc \in CallPc,
         pc = "cleanup" \/ call[c].menu # NoMenu, Continue(c, pc)
  PROVE  TypeOK' /\ GoesOn(c, pc)
<1> DEFINE k == [call[c] EXCEPT !.pc = pc]
<1>1. made \in Nat /\ call \in [Calls -> CallType(made)]
  BY Numbers, TypeParts
<1>2. k \in CallType(made')
  BY <1>1 DEF CallType
<1>3. /\ k.pc = pc /\ k.type = call[c].type /\ k.key = call[c].key
      /\ k.menu = call[c].menu /\ k.users = call[c].users
  BY <1>1 DEF CallType
<1>4. Becomes(c, k)
  BY <1>1 DEF Continue, Becomes
<1> HIDE DEF k
<1>5. CallOK(k)
  BY <1>2, <1>3 DEF CallOK, NoMenuPc
<1>6. TypeOK' /\ call'[c] = k /\ OthersStay(c)
  BY <1>4, <1>5, CallChanges
<1> QED BY <1>3, <1>6 DEF GoesOn

(* A new call. *)
LEMMA CallBegins ==
  ASSUME TypeOK, TypedRest', made' = made, NEW c \in Calls,
         NEW pc \in CallPc, NEW type \in Types, NEW key \in Keys \cup {NoKey},
         NEW menu \in 0..made, NEW users \in SUBSET Users,
         pc \in NoMenuPc \/ menu # NoMenu, Begin(c, CallAt(pc, type, key, menu, users))
  PROVE  /\ TypeOK' /\ OthersStay(c)
         /\ call'[c].pc = pc /\ call'[c].type = type /\ call'[c].key = key
         /\ call'[c].menu = menu /\ call'[c].users = users
<1> DEFINE k == CallAt(pc, type, key, menu, users)
<1>1. made \in Nat
  BY Numbers
<1>2. k \in CallType(made')
  BY <1>1 DEF CallType, CallAt
<1>3. k.pc = pc /\ k.type = type /\ k.key = key /\ k.menu = menu /\ k.users = users
  BY DEF CallAt
<1>4. Becomes(c, k)
  BY DEF Begin, Becomes
<1> HIDE DEF k
<1>5. CallOK(k)
  BY <1>2, <1>3 DEF CallOK
<1>6. TypeOK' /\ call'[c] = k /\ OthersStay(c)
  BY <1>4, <1>5, CallChanges
<1> QED BY <1>3, <1>6

-----------------------------------------------------------------------------
(* The steps of create(), as the rest of the proof uses them. *)

LEMMA CreateStep ==
  ASSUME TypeOK, NEW c \in Calls, Create(c)
  PROVE  TypeOK' /\ call'[c].pc = "upload" /\ call'[c].type \in Types /\ OthersStay(c)
<1>1. TypedRest' /\ made' = made
  BY TypeParts DEF Create, TypedRest, world, history
<1>2. PICK t \in Types : Begin(c, CallAt("upload", t, NoKey, NoMenu, {}))
  BY DEF Create
<1>3. "upload" \in CallPc /\ "upload" \in NoMenuPc /\ NoMenu \in 0..made
  BY Numbers DEF CallPc, NoMenuPc, NoMenu
<1> QED BY <1>1, <1>2, <1>3, CallBegins

LEMMA UploadStep ==
  ASSUME TypeOK, NEW c \in Calls, Upload(c)
  PROVE  /\ TypeOK' /\ OthersStay(c) /\ now <= now' /\ shared \subseteq shared'
         /\ images \subseteq images'
         /\ \/ call'[c].pc = "idle"
            \/ /\ call'[c].pc = "publish" /\ call'[c].type = call[c].type
               /\ call'[c].key = now' /\ now' \in images' /\ now' \in Keys
               /\ now' = now + 1 \/ now' \in shared'
<1>1. PICK k \in Keys \cap {now, now + 1} :
        \/ /\ images' = images \cup {k}
           /\ shared' = IF k = now THEN shared \cup {k} ELSE shared
           /\ now' = k /\ UNCHANGED faults
           /\ \/ call' = [call EXCEPT ![c].pc = "publish", ![c].key = k]
              \/ Return(c)
        \/ Return(c) /\ Fault /\ UNCHANGED <<images, shared, now>>
  BY DEF Upload
<1>2. k \in 0..MaxTime /\ k \in Keys /\ now <= k /\ (k = now \/ k = now + 1)
  BY Numbers DEF Keys
<1>3. made' = made /\ faults' \in 0..MaxFaults
  BY <1>1, FaultInBounds DEF Upload, TypeOK
<1>4. images' \subseteq Keys /\ shared' \subseteq Keys /\ now' \in 0..MaxTime
  BY <1>1, <1>2 DEF TypeOK
<1>5. TypedRest'
  BY <1>3, <1>4, TypeParts DEF Upload, TypedRest
<1>6. now <= now' /\ shared \subseteq shared' /\ images \subseteq images'
  BY <1>1, <1>2, Numbers
<1>7. CASE Return(c)
  BY <1>3, <1>5, <1>6, <1>7, CallReturns
<1>8. CASE ~ Return(c)
  <2> DEFINE l == [call[c] EXCEPT !.pc = "publish", !.key = k]
  <2>1. call \in [Calls -> CallType(made)] /\ call' = [call EXCEPT ![c].pc = "publish", ![c].key = k]
    BY <1>1, <1>8, TypeParts
  <2>2. l \in CallType(made') /\ l.pc = "publish" /\ l.key = k /\ l.type = call[c].type
    BY <1>2, <1>3, <2>1 DEF CallType, CallPc
  <2>3. Becomes(c, l)
    BY <2>1 DEF Becomes
  <2> HIDE DEF l
  <2>4. CallOK(l)
    BY <2>2 DEF CallOK, NoMenuPc
  <2>5. TypeOK' /\ call'[c] = l /\ OthersStay(c)
    BY <1>3, <1>5, <2>3, <2>4, CallChanges
  <2>6. k \in images' /\ now' = k /\ (now' = now + 1 \/ now' \in shared')
    BY <1>1, <1>2, <1>8
  <2> QED BY <1>2, <1>6, <2>2, <2>5, <2>6
<1> QED BY <1>7, <1>8

LEMMA PublishStep ==
  ASSUME TypeOK, NEW c \in Calls, Publish(c)
  PROVE  /\ TypeOK' /\ OthersStay(c) /\ made <= made' /\ atLine \subseteq atLine'
         /\ call'[c].type = call[c].type /\ call'[c].key = call[c].key
         /\ \/ call'[c].pc = "cleanup"
            \/ /\ call'[c].pc = "image" /\ call'[c].menu = made + 1 /\ made' = made + 1
               /\ made + 1 \in atLine' /\ made + 1 \in Menus
<1>1. \/ made' = made /\ atLine' = atLine
      \/ made < MaxMenus /\ made' = made + 1 /\ atLine' = atLine \cup {made'}
  BY DEF Publish
<1>2. made' \in 0..MaxMenus /\ made <= made' /\ made' \in {made, made + 1}
  BY <1>1, Numbers
<1>3. atLine' \subseteq 1..made' /\ faults' \in 0..MaxFaults
  BY <1>1, Numbers, FaultInBounds DEF Publish, TypeOK
<1>4. /\ default' \in 0..made' /\ shown' \in [Users -> 0..made'] /\ applied' \in 0..made'
      /\ removed' \subseteq 1..made'
  <2>1. 0..made \subseteq 0..made' /\ 1..made \subseteq 1..made'
    BY <1>2, Numbers
  <2> QED BY <2>1 DEF Publish, TypeOK, history
<1>5. TypedRest'
  BY <1>2, <1>3, <1>4, TypeParts DEF Publish, TypedRest, history
<1>6. CASE Continue(c, "cleanup")
  <2>1. "cleanup" \in CallPc
    BY DEF CallPc
  <2>2. TypeOK' /\ GoesOn(c, "cleanup")
    BY <1>2, <1>5, <1>6, <2>1, CallGoesOn
  <2> QED BY <1>1, <1>2, <2>2 DEF GoesOn
<1>7. CASE ~ Continue(c, "cleanup")
  <2> DEFINE l == [call[c] EXCEPT !.pc = "image", !.menu = made']
  <2>1. /\ call \in [Calls -> CallType(made)]
        /\ made < MaxMenus /\ made' = made + 1 /\ atLine' = atLine \cup {made'}
        /\ call' = [call EXCEPT ![c].pc = "image", ![c].menu = made']
    BY <1>7, TypeParts DEF Publish
  <2>2. /\ l \in CallType(made') /\ l.pc = "image" /\ l.menu = made'
        /\ l.key = call[c].key /\ l.type = call[c].type
    <3>1. made' \in 0..made'
      BY <1>2, Numbers
    <3> QED BY <2>1, <3>1 DEF CallType, CallPc
  <2>3. Becomes(c, l)
    BY <2>1 DEF Becomes
  <2>4. made' # NoMenu
    BY <2>1, Numbers DEF NoMenu
  <2> HIDE DEF l
  <2>5. CallOK(l)
    BY <2>2, <2>4 DEF CallOK
  <2>6. TypeOK' /\ call'[c] = l /\ OthersStay(c)
    BY <1>2, <1>5, <2>3, <2>5, CallChanges
  <2>7. made + 1 \in Menus /\ made + 1 \in atLine' /\ atLine \subseteq atLine'
    BY <2>1, Numbers DEF Menus
  <2> QED BY <1>2, <2>1, <2>2, <2>6, <2>7
<1> QED BY <1>6, <1>7

LEMMA SetImageStep ==
  ASSUME TypeOK, NEW c \in Calls, SetImage(c)
  PROVE  /\ TypeOK' /\ OthersStay(c)
         /\ \/ call[c].type = "default" /\ GoesOn(c, "setDefault")
            \/ call[c].type # "default" /\ GoesOn(c, "offCreate")
            \/ GoesOn(c, "cleanup")
<1>1. TypedRest' /\ made' = made /\ call[c].menu # NoMenu
  BY TypeParts, FaultInBounds DEF SetImage, TypedRest, world, history, NoMenuPc
<1>2. PICK pc \in {"setDefault", "offCreate", "cleanup"} :
        /\ Continue(c, pc)
        /\ pc = "setDefault" => call[c].type = "default"
        /\ pc = "offCreate" => call[c].type # "default"
  BY DEF SetImage, AfterImage
<1>3. pc \in CallPc
  BY DEF CallPc
<1>4. TypeOK' /\ GoesOn(c, pc)
  BY <1>1, <1>2, <1>3, CallGoesOn
<1> QED BY <1>2, <1>4 DEF GoesOn

LEMMA SetDefaultStep ==
  ASSUME TypeOK, NEW c \in Calls, SetDefault(c)
  PROVE  /\ TypeOK' /\ OthersStay(c)
         /\ \/ GoesOn(c, "cleanup") /\ UNCHANGED <<default, crossed, halted>>
            \/ /\ default' = call[c].menu
               /\ (\E d \in OthersAt(c, {"offCreate", "insert"}) : call[d].type = "default") =>
                    "default" \in crossed'
               /\ GoesOn(c, "offCreate") \/ (GoesOn(c, "cleanup") /\ halted')
<1>1. made' = made /\ call[c].menu # NoMenu /\ call[c].menu \in 0..made
  BY TypeParts DEF SetDefault, NoMenuPc, CallType
<1>2. default' \in 0..made /\ crossed' \subseteq Types /\ halted' \in BOOLEAN
      /\ faults' \in 0..MaxFaults
  BY <1>1, FaultInBounds DEF SetDefault, TypeOK, Types
<1>3. TypedRest'
  BY <1>1, <1>2, TypeParts DEF SetDefault, TypedRest
<1>4. ASSUME NEW pc \in {"offCreate", "cleanup"}, Continue(c, pc)
      PROVE  TypeOK' /\ GoesOn(c, pc)
  <2>1. pc \in CallPc
    BY DEF CallPc
  <2> QED BY <1>1, <1>3, <1>4, <2>1, CallGoesOn
<1>5. /\ Continue(c, "offCreate") => TypeOK' /\ GoesOn(c, "offCreate")
      /\ Continue(c, "cleanup") => TypeOK' /\ GoesOn(c, "cleanup")
  BY <1>4
<1>6. OthersStay(c)
  BY <1>5 DEF SetDefault, GoesOn
<1> QED BY <1>5, <1>6 DEF SetDefault

LEMMA CleanupStep ==
  ASSUME TypeOK, NEW c \in Calls, Cleanup(c)
  PROVE  TypeOK' /\ OthersStay(c) /\ call'[c].pc = "idle"
<1>1. TypedRest' /\ made' = made
  BY TypeParts, FaultInBounds DEF Cleanup, TypedRest, history
<1>2. Return(c)
  BY DEF Cleanup, AfterCleanup, Return
<1> QED BY <1>1, <1>2, CallReturns

(* Off() keeps the type and the image of every row. *)
LEMMA OffRows ==
  ASSUME TypeOK, NEW t
  PROVE  /\ Off(t) \in [Menus -> Rows]
         /\ \A m \in Menus : /\ (Off(t)[m] = NoRow) <=> (row[m] = NoRow)
                             /\ Off(t)[m].type = row[m].type /\ Off(t)[m].key = row[m].key
                             /\ Off(t)[m].active <=> row[m].active /\ row[m].type # t
<1> SUFFICES ASSUME NEW m \in Menus
             PROVE  /\ Off(t)[m] \in Rows
                    /\ (Off(t)[m] = NoRow) <=> (row[m] = NoRow)
                    /\ Off(t)[m].type = row[m].type /\ Off(t)[m].key = row[m].key
                    /\ Off(t)[m].active <=> row[m].active /\ row[m].type # t
  BY DEF Off
<1>1. row[m] \in Rows
  BY DEF TypeOK
<1>2. CASE m \in Active(t)
  <2>1. row[m] \in [type : Types, active : BOOLEAN, key : Keys]
    BY <1>1, <1>2 DEF Active, Rows, NoRow
  <2>2. Off(t)[m] = [row[m] EXCEPT !.active = FALSE]
    BY <1>2 DEF Off
  <2>3. /\ Off(t)[m] \in [type : Types, active : BOOLEAN, key : Keys]
        /\ Off(t)[m].type = row[m].type /\ Off(t)[m].key = row[m].key /\ ~ Off(t)[m].active
    BY <2>1, <2>2
  <2>4. row[m] # NoRow /\ Off(t)[m] # NoRow
    BY <2>1, <2>3 DEF NoRow, Types
  <2> QED BY <1>2, <2>3, <2>4 DEF Active, Rows
<1>3. CASE m \notin Active(t)
  <2>1. Off(t)[m] = row[m]
    BY <1>3 DEF Off
  <2> QED BY <1>1, <1>3, <2>1 DEF Active
<1> QED BY <1>2, <1>3

LEMMA SwitchOffStep ==
  ASSUME TypeOK, CallsFit, NEW c \in Calls, SwitchOff(c)
  PROVE  /\ TypeOK' /\ OthersStay(c)
         /\ \/ call[c].pc = "offCreate" /\ GoesOn(c, "insert")
            \/ call[c].pc = "offApply" /\ GoesOn(c, "on")
<1>1. made' = made /\ row' \in [Menus -> Rows] /\ call[c].type \in Types
  BY OffRows DEF SwitchOff, world, CallsFit, CallFits, At, WithImage, Linking, Types
<1>2. TypedRest'
  BY <1>1, TypeParts DEF SwitchOff, TypedRest, world
<1>3. PICK pc \in {"insert", "on"} : /\ Continue(c, pc)
                                     /\ pc = "insert" => call[c].pc = "offCreate"
                                     /\ pc = "on" => call[c].pc = "offApply"
  BY DEF SwitchOff
<1>4. pc \in CallPc /\ call[c].menu # NoMenu
  BY TypeParts DEF SwitchOff, CallPc, NoMenuPc
<1>5. TypeOK' /\ GoesOn(c, pc)
  BY <1>1, <1>2, <1>3, <1>4, CallGoesOn
<1> QED BY <1>3, <1>5 DEF GoesOn

LEMMA InsertStep ==
  ASSUME TypeOK, CallsFit, NEW c \in Calls, Insert(c)
  PROVE  /\ TypeOK' /\ OthersStay(c) /\ call'[c].pc = "idle"
         /\ call[c].menu \in Menus
         /\ row'[call[c].menu].type = call[c].type /\ row'[call[c].menu].active
         /\ row'[call[c].menu].key = call[c].key /\ row'[call[c].menu] # NoRow
         /\ \A m \in Menus \ {call[c].menu} : row'[m] = row[m]
<1>1. call[c].menu \in Menus /\ made' = made
  BY TypeParts, Numbers DEF Insert, world, CallType, NoMenu, NoMenuPc, Menus
<1>2. call[c].type \in Types /\ call[c].key \in Keys
  BY Numbers DEF CallsFit, CallFits, At, WithImage, Insert, Keys
<1>3. [type |-> call[c].type, active |-> TRUE, key |-> call[c].key] \in Rows
  BY <1>2 DEF Rows
<1>4. row' \in [Menus -> Rows]
  BY <1>3 DEF Insert, TypeOK
<1>5. TypedRest'
  BY <1>1, <1>4, TypeParts DEF Insert, TypedRest, world, history
<1>6. TypeOK' /\ OthersStay(c) /\ call'[c].pc = "idle"
  BY <1>1, <1>5, CallReturns DEF Insert
<1>7. /\ row'[call[c].menu] = [type |-> call[c].type, active |-> TRUE, key |-> call[c].key]
      /\ \A m \in Menus \ {call[c].menu} : row'[m] = row[m]
  BY <1>1 DEF Insert, TypeOK
<1>8. /\ row'[call[c].menu].type = call[c].type /\ row'[call[c].menu].active
      /\ row'[call[c].menu].key = call[c].key
  BY <1>7
<1>9. row'[call[c].menu] # NoRow
  BY <1>8 DEF NoRow
<1> QED BY <1>1, <1>6, <1>7, <1>8, <1>9

-----------------------------------------------------------------------------
(* The steps of applyMemberMenu() and of a new Member. *)

(* A row is of a menu that LINE has made. *)
LEMMA RowsOfMade ==
  ASSUME TypeOK, MenusFit, NEW m \in Menus, row[m] # NoRow
  PROVE  m \in 1..made /\ row[m].type \in Types /\ row[m].key \in Keys
<1>1. m \in 1..made
  BY Numbers DEF MenusFit, Menus
<1>2. row[m] \in [type : Types, active : BOOLEAN, key : Keys]
  BY DEF TypeOK, Rows
<1> QED BY <1>1, <1>2

LEMMA ApplyStep ==
  ASSUME TypeOK, MenusFit, NEW c \in Calls, Apply(c)
  PROVE  /\ TypeOK' /\ OthersStay(c)
         /\ call'[c].pc = "members" /\ call'[c].type = "member"
         /\ call'[c].menu \in Menus /\ row[call'[c].menu].type = "member"
<1>1. PICK m \in Menus : row[m].type = "member" /\ Begin(c, CallAt("members", "member", NoKey, m, {}))
  BY DEF Apply
<1>2. TypedRest' /\ made' = made
  BY TypeParts DEF Apply, TypedRest, world, history
<1>3. row[m] # NoRow
  BY <1>1 DEF NoRow
<1>4. m \in 0..made /\ m # NoMenu
  BY <1>3, RowsOfMade, Numbers DEF NoMenu
<1>5. "members" \in CallPc /\ "member" \in Types
  BY DEF CallPc, Types
<1>6. /\ TypeOK' /\ OthersStay(c)
      /\ call'[c].pc = "members" /\ call'[c].type = "member" /\ call'[c].menu = m
  BY <1>1, <1>2, <1>4, <1>5, CallBegins
<1> QED BY <1>1, <1>6

LEMMA ReadMembersStep ==
  ASSUME TypeOK, NEW c \in Calls, ReadMembers(c)
  PROVE  /\ TypeOK' /\ OthersStay(c)
         /\ call'[c].type = call[c].type /\ call'[c].menu = call[c].menu
         /\ call'[c].users = member
         /\ call'[c].pc \in {"link", "offApply"} /\ (call'[c].pc = "offApply" => member = {})
<1>1. Overlapping(OthersAt(c, {"greet", "welcome"})) \subseteq Users
  BY TypeParts DEF Overlapping, OthersAt, CallType
<1>2. missed' \subseteq Users /\ made' = made
  BY <1>1 DEF ReadMembers, TypeOK, world
<1>3. TypedRest'
  BY <1>2, TypeParts DEF ReadMembers, TypedRest, world
<1> DEFINE pc == IF member = {} THEN "offApply" ELSE "link"
           l  == [call[c] EXCEPT !.pc = pc, !.users = member]
<1>4. /\ call \in [Calls -> CallType(made)] /\ call[c].menu # NoMenu
      /\ call' = [call EXCEPT ![c].pc = pc, ![c].users = member]
  BY TypeParts DEF ReadMembers, NoMenuPc
<1>5. pc \in {"link", "offApply"} /\ (pc = "offApply" => member = {}) /\ member \subseteq Users
  BY DEF TypeOK
<1> HIDE DEF pc
<1>6. /\ l \in CallType(made') /\ l.pc = pc /\ l.users = member
      /\ l.type = call[c].type /\ l.menu = call[c].menu
  BY <1>2, <1>4, <1>5 DEF CallType, CallPc
<1>7. Becomes(c, l)
  BY <1>4 DEF Becomes
<1> HIDE DEF l
<1>8. CallOK(l)
  BY <1>4, <1>6 DEF CallOK
<1>9. TypeOK' /\ call'[c] = l /\ OthersStay(c)
  BY <1>2, <1>3, <1>7, <1>8, CallChanges
<1> QED BY <1>5, <1>6, <1>9

(* A link call for u: LINE has shown the menu to u, or u is missed. *)
Shows(c, u) ==
  /\ \/ shown' = [shown EXCEPT ![u] = call[c].menu] /\ missed' = missed
     \/ shown' = shown /\ missed' = missed \cup {u}
  /\ \/ shown'[u] = call[c].menu
     \/ u \in missed'

(* What a link call does. *)
LEMMA LinkCall ==
  ASSUME TypeOK, NEW c \in Calls, NEW u \in call[c].users,
         \/ Link(u, call[c].menu) /\ UNCHANGED <<missed, faults>>
         \/ Refused(u, call[c].menu)
  PROVE  /\ u \in Users /\ Shows(c, u)
         /\ shown' \in [Users -> 0..made] /\ missed' \subseteq Users /\ faults' \in 0..MaxFaults
<1>1. u \in Users /\ call[c].menu \in 0..made
  BY TypeParts DEF CallType
<1>2. CASE Link(u, call[c].menu) /\ UNCHANGED <<missed, faults>>
  BY <1>1, <1>2 DEF Link, Shows, TypeOK
<1>3. CASE Refused(u, call[c].menu)
  BY <1>1, <1>3, FaultInBounds DEF Refused, Shows, TypeOK
<1> QED BY <1>2, <1>3

LEMMA LinkMemberStep ==
  ASSUME TypeOK, NEW c \in Calls, LinkMember(c)
  PROVE  /\ TypeOK' /\ OthersStay(c)
         /\ call'[c].type = call[c].type /\ call'[c].menu = call[c].menu
         /\ call'[c].pc \in {"link", "offApply"}
         /\ call'[c].pc = "offApply" => call'[c].users = {}
         /\ \E u \in call[c].users : Shows(c, u) /\ call'[c].users = call[c].users \ {u}
<1>1. PICK u \in call[c].users, ok \in BOOLEAN :
        /\ IF ok THEN Link(u, call[c].menu) /\ UNCHANGED <<missed, faults>>
                 ELSE Refused(u, call[c].menu)
        /\ call' = [call EXCEPT ![c].pc = IF UsersLeft(c, u, ok) = {} THEN "offApply" ELSE "link",
                                ![c].users = UsersLeft(c, u, ok)]
  BY DEF LinkMember
<1>2. /\ u \in Users /\ Shows(c, u)
      /\ shown' \in [Users -> 0..made] /\ missed' \subseteq Users /\ faults' \in 0..MaxFaults
  BY <1>1, LinkCall
<1>3. made' = made
  BY DEF LinkMember
<1>4. TypedRest'
  BY <1>2, <1>3, TypeParts DEF LinkMember, TypedRest
<1> DEFINE users == call[c].users \ {u}
           pc == IF users = {} THEN "offApply" ELSE "link"
           l  == [call[c] EXCEPT !.pc = pc, !.users = users]
<1>5. /\ call \in [Calls -> CallType(made)] /\ call[c].menu # NoMenu
      /\ call' = [call EXCEPT ![c].pc = pc, ![c].users = users]
  BY <1>1, TypeParts DEF LinkMember, NoMenuPc, UsersLeft
<1>6. pc \in {"link", "offApply"} /\ (pc = "offApply" => users = {}) /\ users \subseteq Users
  BY <1>5 DEF CallType
<1>7. users = call[c].users \ {u}
  OBVIOUS
<1> HIDE DEF pc, users
<1>8. /\ l \in CallType(made') /\ l.pc = pc /\ l.users = users
      /\ l.type = call[c].type /\ l.menu = call[c].menu
  BY <1>3, <1>5, <1>6 DEF CallType, CallPc
<1>9. Becomes(c, l)
  BY <1>5 DEF Becomes
<1> HIDE DEF l
<1>10. CallOK(l)
  BY <1>5, <1>8 DEF CallOK
<1>11. TypeOK' /\ call'[c] = l /\ OthersStay(c)
  BY <1>3, <1>4, <1>9, <1>10, CallChanges
<1> QED BY <1>2, <1>6, <1>7, <1>8, <1>11

LEMMA SwitchOnStep ==
  ASSUME TypeOK, NEW c \in Calls, SwitchOn(c)
  PROVE  /\ TypeOK' /\ OthersStay(c) /\ call'[c].pc = "idle" /\ call[c].menu \in Menus
         /\ \/ row[call[c].menu] = NoRow /\ row' = row /\ applied' = applied
            \/ /\ row[call[c].menu] # NoRow /\ applied' = call[c].menu
               /\ row'[call[c].menu] # NoRow /\ row'[call[c].menu].active
               /\ row'[call[c].menu].type = row[call[c].menu].type
               /\ row'[call[c].menu].key = row[call[c].menu].key
               /\ \A m \in Menus \ {call[c].menu} : row'[m] = row[m]
<1> DEFINE m == call[c].menu
<1>1. m \in 1..made /\ m \in 0..made /\ m \in Menus
  BY TypeParts, Numbers DEF SwitchOn, CallType, NoMenu, NoMenuPc, Menus
<1>2. row[m] \in Rows
  BY <1>1 DEF TypeOK
<1>3. CASE row[m] = NoRow
  <2>1. row' = row /\ applied' = applied /\ made' = made
    BY <1>3 DEF SwitchOn, world
  <2>2. TypedRest'
    BY <2>1, TypeParts DEF SwitchOn, TypedRest, world
  <2>3. TypeOK' /\ OthersStay(c) /\ call'[c].pc = "idle"
    BY <2>1, <2>2, CallReturns DEF SwitchOn
  <2> QED BY <1>1, <1>3, <2>1, <2>3
<1>4. CASE row[m] # NoRow
  <2>1. row' = [row EXCEPT ![m].active = TRUE] /\ applied' = m /\ made' = made
    BY <1>4 DEF SwitchOn, world
  <2>2. row[m] \in [type : Types, active : BOOLEAN, key : Keys]
    BY <1>2, <1>4 DEF Rows
  <2>3. row'[m] = [row[m] EXCEPT !.active = TRUE] /\ \A n \in Menus \ {m} : row'[n] = row[n]
    BY <1>1, <2>1 DEF TypeOK
  <2>4. /\ row'[m] \in [type : Types, active : BOOLEAN, key : Keys]
        /\ row'[m].type = row[m].type /\ row'[m].key = row[m].key /\ row'[m].active
    BY <2>2, <2>3
  <2>5. row'[m] # NoRow
    BY <2>4 DEF NoRow, Types
  <2>6. row' \in [Menus -> Rows]
    BY <1>1, <2>1, <2>3, <2>4 DEF TypeOK, Rows
  <2>7. TypedRest'
    BY <1>1, <2>1, <2>6, TypeParts DEF SwitchOn, TypedRest, world
  <2>8. TypeOK' /\ OthersStay(c) /\ call'[c].pc = "idle"
    BY <2>1, <2>7, CallReturns DEF SwitchOn
  <2> QED BY <1>1, <1>4, <2>1, <2>3, <2>4, <2>5, <2>8
<1> QED BY <1>3, <1>4

LEMMA JoinStep ==
  ASSUME TypeOK, NEW c \in Calls, Join(c)
  PROVE  /\ TypeOK' /\ OthersStay(c) /\ call'[c].pc = "greet" /\ call'[c].type = "member"
         /\ \E u \in Users :
              /\ call'[c].users = {u} /\ member' = member \cup {u}
              /\ missed' = IF OthersAt(c, Linking) = {} THEN missed ELSE missed \cup {u}
<1>1. PICK u \in Users :
        /\ Begin(c, CallAt("greet", "member", NoKey, NoMenu, {u}))
        /\ member' = member \cup {u}
        /\ missed' = IF OthersAt(c, Linking) = {} THEN missed ELSE missed \cup {u}
  BY DEF Join, Linking
<1>2. made' = made /\ member' \subseteq Users /\ missed' \subseteq Users
  BY <1>1 DEF Join, world, TypeOK
<1>3. TypedRest'
  BY <1>2, TypeParts DEF Join, TypedRest, world
<1>4. "greet" \in CallPc /\ "greet" \in NoMenuPc /\ "member" \in Types /\ NoMenu \in 0..made
      /\ {u} \in SUBSET Users
  BY Numbers DEF CallPc, NoMenuPc, Types, NoMenu
<1>5. /\ TypeOK' /\ OthersStay(c) /\ call'[c].pc = "greet" /\ call'[c].type = "member"
      /\ call'[c].users = {u}
  BY <1>1, <1>2, <1>3, <1>4, CallBegins
<1> QED BY <1>1, <1>5

LEMMA ReadActiveStep ==
  ASSUME TypeOK, MenusFit, NEW c \in Calls, ReadActive(c)
  PROVE  /\ TypeOK' /\ OthersStay(c)
         /\ \/ call'[c].pc = "idle" /\ Active("member") = {}
            \/ /\ call'[c].pc = "welcome" /\ call'[c].type = call[c].type
               /\ call'[c].users = call[c].users /\ call'[c].menu \in Active("member")
<1>1. TypedRest' /\ made' = made
  BY TypeParts DEF ReadActive, TypedRest, world, history
<1>2. CASE Return(c) /\ Active("member") = {}
  BY <1>1, <1>2, CallReturns
<1>3. CASE ~ (Return(c) /\ Active("member") = {})
  <2>1. PICK m \in Active("member") : call' = [call EXCEPT ![c].pc = "welcome", ![c].menu = m]
    BY <1>3 DEF ReadActive
  <2>2. row[m] # NoRow /\ m \in Menus
    BY DEF Active, NoRow
  <2>3. m \in 0..made /\ m # NoMenu
    BY <2>2, RowsOfMade, Numbers DEF NoMenu
  <2> DEFINE l == [call[c] EXCEPT !.pc = "welcome", !.menu = m]
  <2>4. call \in [Calls -> CallType(made)]
    BY TypeParts
  <2>5. /\ l \in CallType(made') /\ l.pc = "welcome" /\ l.menu = m
        /\ l.users = call[c].users /\ l.type = call[c].type
    BY <1>1, <2>3, <2>4 DEF CallType, CallPc
  <2>6. Becomes(c, l)
    BY <2>1, <2>4 DEF Becomes
  <2> HIDE DEF l
  <2>7. CallOK(l)
    BY <2>3, <2>5 DEF CallOK
  <2>8. TypeOK' /\ call'[c] = l /\ OthersStay(c)
    BY <1>1, <2>6, <2>7, CallChanges
  <2> QED BY <2>5, <2>8
<1> QED BY <1>2, <1>3

LEMMA WelcomeStep ==
  ASSUME TypeOK, NEW c \in Calls, Welcome(c)
  PROVE  /\ TypeOK' /\ OthersStay(c) /\ call'[c].pc = "idle"
         /\ \E u \in call[c].users : Shows(c, u)
<1>1. PICK u \in call[c].users :
        \/ Link(u, call[c].menu) /\ UNCHANGED <<missed, faults>>
        \/ Refused(u, call[c].menu)
  BY DEF Welcome
<1>2. /\ Shows(c, u)
      /\ shown' \in [Users -> 0..made] /\ missed' \subseteq Users /\ faults' \in 0..MaxFaults
  BY <1>1, LinkCall
<1>3. TypedRest' /\ made' = made
  BY <1>2, TypeParts DEF Welcome, TypedRest
<1>4. TypeOK' /\ OthersStay(c) /\ call'[c].pc = "idle"
  BY <1>3, CallReturns DEF Welcome
<1> QED BY <1>2, <1>4

-----------------------------------------------------------------------------
(* The steps of remove(), and a crash. *)

LEMMA RemoveStep ==
  ASSUME TypeOK, MenusFit, NEW c \in Calls, Remove(c)
  PROVE  /\ TypeOK' /\ OthersStay(c) /\ call'[c].pc = "unpublish"
         /\ call'[c].menu \in Menus /\ row[call'[c].menu] # NoRow
         /\ call'[c].key = row[call'[c].menu].key
         /\ removed' = removed \cup {call'[c].menu}
<1>1. PICK m \in Menus : /\ row[m] # NoRow /\ removed' = removed \cup {m}
                         /\ Begin(c, CallAt("unpublish", row[m].type, row[m].key, m, {}))
  BY DEF Remove
<1>2. m \in 1..made /\ row[m].type \in Types /\ row[m].key \in Keys
  BY <1>1, RowsOfMade
<1>3. removed' \subseteq 1..made /\ made' = made
  BY <1>1, <1>2 DEF Remove, TypeOK, world
<1>4. TypedRest'
  BY <1>3, TypeParts DEF Remove, TypedRest, world
<1>5. "unpublish" \in CallPc /\ m \in 0..made /\ m # NoMenu /\ row[m].key \in Keys \cup {NoKey}
      /\ {} \in SUBSET Users
  BY <1>2, Numbers DEF CallPc, NoMenu
<1>6. /\ TypeOK' /\ OthersStay(c) /\ call'[c].pc = "unpublish"
      /\ call'[c].menu = m /\ call'[c].key = row[m].key
  BY <1>1, <1>2, <1>3, <1>4, <1>5, CallBegins
<1> QED BY <1>1, <1>6

LEMMA UnpublishStep ==
  ASSUME TypeOK, NEW c \in Calls, Unpublish(c)
  PROVE  /\ TypeOK' /\ OthersStay(c) /\ GoesOn(c, "unstore")
         /\ \A m \in atLine : m # call[c].menu => m \in atLine'
         /\ default' = default \/ default = call[c].menu
         /\ \A u \in Users : shown'[u] = shown[u] \/ shown[u] = call[c].menu
<1>1. made' = made /\ call[c].menu # NoMenu
  BY TypeParts DEF Unpublish, NoMenuPc
<1>2. /\ default' \in 0..made /\ shown' \in [Users -> 0..made] /\ atLine' \subseteq 1..made
      /\ faults' \in 0..MaxFaults
  <2>1. NoMenu \in 0..made
    BY Numbers DEF NoMenu
  <2> QED BY <2>1, FaultInBounds DEF Unpublish, TypeOK
<1>3. TypedRest'
  BY <1>1, <1>2, TypeParts DEF Unpublish, TypedRest, history
<1>4. "unstore" \in CallPc /\ Continue(c, "unstore")
  BY DEF CallPc, Unpublish
<1>5. TypeOK' /\ GoesOn(c, "unstore")
  BY <1>1, <1>3, <1>4, CallGoesOn
<1>6. /\ \A m \in atLine : m # call[c].menu => m \in atLine'
      /\ default' = default \/ default = call[c].menu
      /\ \A u \in Users : shown'[u] = shown[u] \/ shown[u] = call[c].menu
  BY DEF Unpublish
<1> QED BY <1>5, <1>6 DEF GoesOn

LEMMA UnstoreStep ==
  ASSUME TypeOK, NEW c \in Calls, Unstore(c)
  PROVE  TypeOK' /\ OthersStay(c) /\ GoesOn(c, "drop")
<1>1. TypedRest' /\ made' = made /\ call[c].menu # NoMenu
  BY TypeParts, FaultInBounds DEF Unstore, TypedRest, history, NoMenuPc
<1>2. "drop" \in CallPc /\ Continue(c, "drop")
  BY DEF CallPc, Unstore
<1>3. TypeOK' /\ GoesOn(c, "drop")
  BY <1>1, <1>2, CallGoesOn
<1> QED BY <1>3 DEF GoesOn

LEMMA DropStep ==
  ASSUME TypeOK, NEW c \in Calls, Drop(c)
  PROVE  /\ TypeOK' /\ OthersStay(c) /\ call'[c].pc = "idle" /\ call[c].menu \in Menus
         /\ row'[call[c].menu] = NoRow
         /\ \A m \in Menus \ {call[c].menu} : row'[m] = row[m]
<1>1. call[c].menu \in Menus /\ made' = made
  BY TypeParts, Numbers DEF Drop, world, CallType, NoMenu, NoMenuPc, Menus
<1>2. /\ row' \in [Menus -> Rows] /\ row'[call[c].menu] = NoRow
      /\ \A m \in Menus \ {call[c].menu} : row'[m] = row[m]
  BY <1>1 DEF Drop, TypeOK, Rows
<1>3. TypedRest'
  BY <1>1, <1>2, TypeParts DEF Drop, TypedRest, world, history
<1>4. TypeOK' /\ OthersStay(c) /\ call'[c].pc = "idle"
  BY <1>1, <1>3, CallReturns DEF Drop
<1> QED BY <1>1, <1>2, <1>4

LEMMA CrashStep ==
  ASSUME TypeOK, Crash
  PROVE  TypeOK' /\ \A c \in Calls : call'[c].pc = "idle"
<1>1. call' = [c \in Calls |-> Free] /\ made' = made /\ made' \in Nat
  BY Numbers DEF Crash, world
<1>2. CallOK(Free) /\ Free.pc = "idle"
  BY <1>1, FreeOK DEF Free, CallAt
<1>3. Overlapping(Calls) \subseteq Users
  BY TypeParts DEF Overlapping, CallType
<1>4. missed' \subseteq Users /\ faults' \in 0..MaxFaults /\ halted' \in BOOLEAN
  BY <1>3, FaultInBounds DEF Crash, TypeOK
<1>5. TypedRest'
  BY <1>1, <1>4, TypeParts DEF Crash, TypedRest, world
<1>6. (/\ TypedRest
       /\ call \in [Calls -> CallType(made)]
       /\ \A c \in Calls : call[c].pc \notin NoMenuPc => call[c].menu # NoMenu)'
  BY <1>1, <1>2, <1>5 DEF CallOK
<1>7. TypeOK'
  BY <1>6 DEF TypeOK, TypedRest, CallType, NoMenuPc
<1> QED BY <1>1, <1>2, <1>7

(* Every step leaves the state typed. *)
LEMMA StepTypeOK ==
  ASSUME TypeOK, CallsFit, MenusFit, [Next]_vars
  PROVE  TypeOK'
<1>1. CASE UNCHANGED vars
  BY <1>1 DEF vars, world, history, TypeOK
<1>2. ASSUME NEW c \in Calls, CallStep(c) PROVE TypeOK'
  <2>1. CASE \/ Create(c) \/ Upload(c) \/ Publish(c) \/ SetImage(c) \/ SetDefault(c)
             \/ Cleanup(c) \/ SwitchOff(c) \/ Insert(c)
    BY <2>1, CreateStep, UploadStep, PublishStep, SetImageStep, SetDefaultStep, CleanupStep,
       SwitchOffStep, InsertStep
  <2>2. CASE \/ Apply(c) \/ ReadMembers(c) \/ LinkMember(c) \/ SwitchOn(c)
             \/ Join(c) \/ ReadActive(c) \/ Welcome(c)
    BY <2>2, ApplyStep, ReadMembersStep, LinkMemberStep, SwitchOnStep, JoinStep, ReadActiveStep,
       WelcomeStep
  <2>3. CASE Remove(c) \/ Unpublish(c) \/ Unstore(c) \/ Drop(c)
    BY <2>3, RemoveStep, UnpublishStep, UnstoreStep, DropStep
  <2> QED BY <1>2, <2>1, <2>2, <2>3 DEF CallStep
<1> QED BY <1>1, <1>2, CrashStep DEF Next

-----------------------------------------------------------------------------
(* What the calls know stays true. *)

(* Time, removed menus and the excuses only grow. *)
Grows ==
  /\ now <= now' /\ made <= made' /\ removed \subseteq removed' /\ shared \subseteq shared'
  /\ crossed \subseteq crossed' /\ missed \subseteq missed' /\ (halted => halted')

(* No step takes an excuse back. *)
LEMMA HistoryGrows ==
  ASSUME TypeOK, CallsFit, MenusFit, [Next]_vars
  PROVE  Grows
<1>1. CASE UNCHANGED vars
  BY <1>1, Numbers DEF vars, world, history, Grows
<1>2. ASSUME NEW c \in Calls, CallStep(c) PROVE Grows
  <2>1. CASE \/ Create(c) \/ SetImage(c) \/ Cleanup(c) \/ Insert(c)
             \/ Apply(c) \/ SwitchOn(c) \/ ReadActive(c)
             \/ Remove(c) \/ Unpublish(c) \/ Unstore(c) \/ Drop(c)
    BY <2>1, Numbers DEF Create, SetImage, Cleanup, Insert, Apply, SwitchOn, ReadActive,
       Remove, Unpublish, Unstore, Drop, Grows, world, history
  <2>2. CASE Upload(c)
    BY <2>2, Numbers, UploadStep DEF Upload, Grows
  <2>3. CASE Publish(c)
    BY <2>3, Numbers, PublishStep DEF Publish, Grows, history
  <2>4. CASE SetDefault(c) \/ SwitchOff(c)
    BY <2>4, Numbers DEF SetDefault, SwitchOff, Grows, world
  <2>5. CASE ReadMembers(c)
    BY <2>5, Numbers DEF ReadMembers, Grows, world
  <2>6. CASE LinkMember(c) \/ Welcome(c)
    BY <2>6, Numbers DEF LinkMember, Welcome, Link, Refused, Grows
  <2>7. CASE Join(c)
    BY <2>7, Numbers DEF Join, Grows, world
  <2> QED BY <1>2, <2>1, <2>2, <2>3, <2>4, <2>5, <2>6, <2>7 DEF CallStep
<1>3. CASE Crash
  <2>1. halted => halted'
    BY <1>3 DEF Crash
  <2>2. missed \subseteq missed'
    BY <1>3 DEF Crash
  <2> QED BY <1>3, <2>1, <2>2, Numbers DEF Crash, Grows, world
<1> QED BY <1>1, <1>2, <1>3 DEF Next

(* A call that does not move goes on knowing what it knows. *)
LEMMA OthersFit ==
  ASSUME TypeOK, TypeOK', CallsFit, Grows, NEW c \in Calls, OthersStay(c), CallFits(c)'
  PROVE  CallsFit'
<1> SUFFICES ASSUME NEW d \in Calls \ {c} PROVE CallFits(d)'
  BY DEF CallsFit
<1>1. call'[d] = call[d] /\ CallFits(d)
  BY DEF OthersStay, CallsFit
<1>2. 1..now \subseteq 1..now'
  BY Numbers DEF Grows, TypeOK
<1> QED BY <1>1, <1>2 DEF CallFits, At, Grows

LEMMA StepCallsFit ==
  ASSUME TypeOK, CallsFit, MenusFit, [Next]_vars
  PROVE  CallsFit'
<1> USE DEF At, WithImage, WithMenu, Linking, Greeting, Erasing
<1>1. TypeOK' /\ Grows
  BY StepTypeOK, HistoryGrows
<1>2. CASE UNCHANGED vars
  BY <1>2 DEF vars, world, history, CallsFit, CallFits
<1>3. ASSUME NEW c \in Calls, CallStep(c) PROVE CallsFit'
  <2>1. CallFits(c) /\ 1..now \subseteq 1..now'
    BY <1>1, Numbers DEF CallsFit, Grows, TypeOK
  <2>2. CASE Create(c)
    BY <1>1, <2>2, CreateStep, OthersFit DEF CallFits
  <2>3. CASE Upload(c)
    <3>1. call'[c].pc = "publish" => call'[c].key \in 1..now' /\ call'[c].type \in Types
      BY <1>1, <2>1, <2>3, UploadStep, Numbers DEF CallFits, Keys, Upload
    <3> QED BY <1>1, <2>3, <3>1, UploadStep, OthersFit DEF CallFits
  <2>4. CASE Publish(c)
    <3>1. now' = now /\ call[c].pc = "publish"
      BY <2>4 DEF Publish
    <3> QED BY <1>1, <2>1, <2>4, <3>1, PublishStep, OthersFit DEF CallFits
  <2>5. CASE SetImage(c)
    <3>1. now' = now /\ call[c].pc = "image"
      BY <2>5 DEF SetImage, world
    <3> QED BY <1>1, <2>1, <2>5, <3>1, SetImageStep, OthersFit DEF CallFits, GoesOn
  <2>6. CASE SetDefault(c)
    <3>1. now' = now /\ call[c].pc = "setDefault"
      BY <2>6 DEF SetDefault
    <3> QED BY <1>1, <2>1, <2>6, <3>1, SetDefaultStep, OthersFit DEF CallFits, GoesOn
  <2>7. CASE Cleanup(c)
    BY <1>1, <2>7, CleanupStep, OthersFit DEF CallFits
  <2>8. CASE SwitchOff(c)
    <3>1. now' = now
      BY <2>8 DEF SwitchOff, world
    <3> QED BY <1>1, <2>1, <2>8, <3>1, SwitchOffStep, OthersFit DEF CallFits, GoesOn
  <2>9. CASE Insert(c)
    BY <1>1, <2>9, InsertStep, OthersFit DEF CallFits
  <2>10. CASE Apply(c)
    BY <1>1, <2>10, ApplyStep, OthersFit DEF CallFits
  <2>11. CASE ReadMembers(c)
    <3>1. call[c].pc = "members"
      BY <2>11 DEF ReadMembers
    <3> QED BY <1>1, <2>1, <2>11, <3>1, ReadMembersStep, OthersFit DEF CallFits
  <2>12. CASE LinkMember(c)
    <3>1. call[c].pc = "link"
      BY <2>12 DEF LinkMember
    <3> QED BY <1>1, <2>1, <2>12, <3>1, LinkMemberStep, OthersFit DEF CallFits
  <2>13. CASE SwitchOn(c)
    BY <1>1, <2>13, SwitchOnStep, OthersFit DEF CallFits
  <2>14. CASE Remove(c)
    <3>1. call'[c].key \in 1..now'
      <4>1. row[call'[c].menu].key <= now /\ row[call'[c].menu].key \in Keys /\ now' = now
        BY <2>14, RemoveStep, RowsOfMade DEF MenusFit, Remove, world
      <4> QED BY <2>14, <4>1, RemoveStep, Numbers DEF Keys
    <3> QED BY <1>1, <2>14, <3>1, RemoveStep, OthersFit DEF CallFits
  <2>15. CASE Unpublish(c)
    <3>1. call[c].pc = "unpublish" /\ now' = now /\ removed' = removed
      BY <2>15 DEF Unpublish, history
    <3> QED BY <1>1, <2>1, <2>15, <3>1, UnpublishStep, OthersFit DEF CallFits, GoesOn
  <2>16. CASE Unstore(c)
    <3>1. call[c].pc = "unstore" /\ removed' = removed
      BY <2>16 DEF Unstore, history
    <3> QED BY <1>1, <2>1, <2>16, <3>1, UnstoreStep, OthersFit DEF CallFits, GoesOn
  <2>17. CASE Drop(c)
    BY <1>1, <2>17, DropStep, OthersFit DEF CallFits
  <2>18. CASE Join(c)
    BY <1>1, <2>18, JoinStep, OthersFit DEF CallFits
  <2>19. CASE ReadActive(c)
    <3>1. call[c].pc = "greet"
      BY <2>19 DEF ReadActive
    <3> QED BY <1>1, <2>1, <2>19, <3>1, ReadActiveStep, OthersFit DEF CallFits
  <2>20. CASE Welcome(c)
    BY <1>1, <2>20, WelcomeStep, OthersFit DEF CallFits
  <2> QED BY <1>3, <2>2, <2>3, <2>4, <2>5, <2>6, <2>7, <2>8, <2>9, <2>10, <2>11, <2>12, <2>13,
             <2>14, <2>15, <2>16, <2>17, <2>18, <2>19, <2>20 DEF CallStep
<1>4. CASE Crash
  BY <1>4, CrashStep DEF CallsFit, CallFits
<1> QED BY <1>2, <1>3, <1>4 DEF Next

-----------------------------------------------------------------------------
(* What the menus of the calls are. *)

(* A call that needs its menu has one that LINE has made. *)
LEMMA MenuOfCall ==
  ASSUME TypeOK, NEW c \in Calls, call[c].pc \notin NoMenuPc
  PROVE  call[c].menu \in 1..made /\ call[c].menu \in Menus
BY TypeParts, Numbers DEF CallType, NoMenu, Menus

(* No row is new, and none changes its type or its image. *)
RowsKept == \A m \in Menus : row'[m] # NoRow =>
  row[m] # NoRow /\ row'[m].type = row[m].type /\ row'[m].key = row[m].key

(* The call needs a menu only if it did before, and then the same one. *)
MenuKept(c) == call'[c].pc \notin NoMenuPc =>
  /\ call[c].pc \notin NoMenuPc /\ call'[c].menu = call[c].menu
  /\ At(c, WithMenu)' => At(c, WithMenu)
  /\ At(c, Linking \cup {"members"})' => At(c, Linking \cup {"members"})

(* A call that takes no other menu. *)
LEMMA MenusFrame ==
  ASSUME TypeOK, TypeOK', MenusFit, Grows, NEW c \in Calls, OthersStay(c), RowsKept, MenuKept(c),
         applied' = applied, removed' = removed, \A m \in atLine \ removed : m \in atLine'
  PROVE  MenusFit'
<1>1. \A m \in Menus : row'[m] # NoRow => m <= made' /\ row'[m].key <= now'
  <2> TAKE m \in Menus
  <2> HAVE row'[m] # NoRow
  <2>1. row[m] # NoRow /\ row'[m].key = row[m].key
    BY DEF RowsKept
  <2>2. m <= made /\ row[m].key <= now /\ row[m].key \in Keys
    BY <2>1, RowsOfMade DEF MenusFit
  <2> QED BY <2>1, <2>2, Numbers DEF Grows, Menus, Keys, TypeOK
<1>2. ASSUME NEW d \in Calls, call'[d].pc \notin NoMenuPc
      PROVE  /\ call[d].pc \notin NoMenuPc /\ call'[d].menu = call[d].menu /\ call[d].menu \in Menus
             /\ At(d, WithMenu)' => At(d, WithMenu)
             /\ At(d, Linking \cup {"members"})' => At(d, Linking \cup {"members"})
  <2>1. /\ call[d].pc \notin NoMenuPc /\ call'[d].menu = call[d].menu
        /\ At(d, WithMenu)' => At(d, WithMenu)
        /\ At(d, Linking \cup {"members"})' => At(d, Linking \cup {"members"})
    BY <1>2 DEF OthersStay, MenuKept, At
  <2> QED BY <2>1, MenuOfCall
<1>3. ASSUME NEW d \in Calls, At(d, WithMenu)'
      PROVE  /\ row'[call'[d].menu] = NoRow
             /\ call'[d].menu \in atLine' \ removed' /\ call'[d].menu # applied'
             /\ \A e \in Calls \ {d} : call'[e].pc \notin NoMenuPc => call'[e].menu # call'[d].menu
  <2>1. call'[d].pc \notin NoMenuPc
    BY <1>3 DEF At, WithMenu, NoMenuPc
  <2>2. /\ row[call[d].menu] = NoRow
        /\ call[d].menu \in atLine \ removed /\ call[d].menu # applied
        /\ \A e \in Calls \ {d} : call[e].pc \notin NoMenuPc => call[e].menu # call[d].menu
    BY <1>2, <1>3, <2>1 DEF MenusFit
  <2> QED BY <1>2, <2>1, <2>2 DEF RowsKept
<1>4. ASSUME NEW d \in Calls, At(d, Linking \cup {"members"})'
      PROVE  row'[call'[d].menu] = NoRow \/ row'[call'[d].menu].type = "member"
  <2>1. call'[d].pc \notin NoMenuPc
    BY <1>4 DEF At, Linking, NoMenuPc
  <2>2. call[d].menu \in Menus /\ call'[d].menu = call[d].menu /\ At(d, Linking \cup {"members"})
    BY <1>2, <1>4, <2>1
  <2>3. row[call[d].menu] = NoRow \/ row[call[d].menu].type = "member"
    BY <2>2 DEF MenusFit
  <2> QED BY <2>2, <2>3 DEF RowsKept
<1> QED BY <1>1, <1>3, <1>4 DEF MenusFit

(* A call that takes a menu with a row. *)
LEMMA MenusTaken ==
  ASSUME TypeOK, MenusFit, NEW c \in Calls, OthersStay(c), UNCHANGED <<row, made, now, atLine, applied>>,
         removed' = removed \/ removed' = removed \cup {call'[c].menu},
         call'[c].menu \in Menus, row[call'[c].menu] # NoRow,
         call'[c].pc \in {"members", "unpublish", "welcome"},
         call'[c].pc = "members" => row[call'[c].menu].type = "member"
  PROVE  MenusFit'
<1>1. \A d \in Calls \ {c} : call'[d] = call[d]
  BY DEF OthersStay
<1>2. ASSUME NEW d \in Calls, At(d, WithMenu)'
      PROVE  /\ row'[call'[d].menu] = NoRow
             /\ call'[d].menu \in atLine' \ removed' /\ call'[d].menu # applied'
             /\ \A e \in Calls \ {d} : call'[e].pc \notin NoMenuPc => call'[e].menu # call'[d].menu
  <2>1. d # c /\ call'[d] = call[d] /\ At(d, WithMenu)
    BY <1>1, <1>2 DEF At, WithMenu
  <2>2. /\ row[call[d].menu] = NoRow
        /\ call[d].menu \in atLine \ removed /\ call[d].menu # applied
        /\ \A e \in Calls \ {d} : call[e].pc \notin NoMenuPc => call[e].menu # call[d].menu
    BY <2>1 DEF MenusFit
  <2>3. call'[c].menu # call'[d].menu
    BY <2>1, <2>2
  <2> QED BY <1>1, <2>1, <2>2, <2>3
<1>3. ASSUME NEW d \in Calls, At(d, Linking \cup {"members"})'
      PROVE  row'[call'[d].menu] = NoRow \/ row'[call'[d].menu].type = "member"
  <2>1. CASE d = c
    BY <1>3, <2>1 DEF At, Linking
  <2>2. CASE d # c
    BY <1>1, <1>3, <2>2 DEF At, MenusFit
  <2> QED BY <2>1, <2>2
<1> QED BY <1>2, <1>3 DEF MenusFit

LEMMA StepMenusFit ==
  ASSUME TypeOK, CallsFit, MenusFit, [Next]_vars
  PROVE  MenusFit'
<1> USE DEF At, WithMenu, Linking, NoMenuPc
<1>1. TypeOK' /\ Grows
  BY StepTypeOK, HistoryGrows
<1>2. CASE UNCHANGED vars
  BY <1>2 DEF vars, world, history, MenusFit
<1>3. ASSUME NEW c \in Calls, CallStep(c) PROVE MenusFit'
  <2>1. ASSUME UNCHANGED <<row, applied, removed>>, \A m \in atLine \ removed : m \in atLine',
               OthersStay(c), MenuKept(c)
        PROVE  MenusFit'
    BY <1>1, <2>1, MenusFrame DEF RowsKept
  <2>2. CASE Create(c)
    BY <2>1, <2>2, CreateStep DEF Create, MenuKept, world, history
  <2>3. CASE Upload(c)
    BY <2>1, <2>3, UploadStep DEF Upload, MenuKept
  <2>4. CASE Publish(c)
    <3>1. UNCHANGED <<row, applied, removed, now>> /\ atLine \subseteq atLine'
      BY <2>4, PublishStep DEF Publish, history
    <3>2. CASE call'[c].pc = "cleanup"
      BY <2>1, <2>4, <3>1, <3>2, PublishStep DEF MenuKept
    <3>3. CASE call'[c].pc # "cleanup"
      <4>1. /\ call'[c].pc = "image" /\ call'[c].menu = made + 1 /\ made' = made + 1
            /\ made + 1 \in atLine' /\ made + 1 \in Menus
            /\ \A d \in Calls \ {c} : call'[d] = call[d]
        BY <2>4, <3>3, PublishStep DEF OthersStay
      <4>2. row[made + 1] = NoRow /\ made + 1 \notin removed /\ made + 1 # applied
        BY <4>1, Numbers DEF MenusFit, TypeOK
      <4>3. \A d \in Calls : call[d].pc \notin NoMenuPc => call[d].menu # made + 1
        BY MenuOfCall, Numbers
      <4>4. \A m \in Menus : row'[m] # NoRow => m <= made' /\ row'[m].key <= now'
        BY <3>1, <4>1, Numbers DEF MenusFit, Menus
      <4>5. \A d \in Calls : At(d, WithMenu)' =>
               /\ row'[call'[d].menu] = NoRow
               /\ call'[d].menu \in atLine' \ removed' /\ call'[d].menu # applied'
               /\ \A e \in Calls \ {d} : call'[e].pc \notin NoMenuPc => call'[e].menu # call'[d].menu
        BY <3>1, <4>1, <4>2, <4>3 DEF MenusFit
      <4>6. \A d \in Calls : At(d, Linking \cup {"members"})' =>
               row'[call'[d].menu] = NoRow \/ row'[call'[d].menu].type = "member"
        BY <3>1, <4>1 DEF MenusFit
      <4> QED BY <4>4, <4>5, <4>6 DEF MenusFit
    <3> QED BY <3>2, <3>3
  <2>5. CASE SetImage(c)
    BY <2>1, <2>5, SetImageStep DEF SetImage, MenuKept, GoesOn, world, history
  <2>6. CASE SetDefault(c)
    BY <2>1, <2>6, SetDefaultStep DEF SetDefault, MenuKept, GoesOn
  <2>7. CASE Cleanup(c)
    BY <2>1, <2>7, CleanupStep DEF Cleanup, MenuKept, history
  <2>8. CASE SwitchOff(c)
    <3>1. RowsKept
      BY <2>8, OffRows DEF SwitchOff, RowsKept
    <3>2. MenuKept(c)
      BY <2>8, SwitchOffStep DEF MenuKept, GoesOn
    <3> QED BY <1>1, <2>8, <3>1, <3>2, SwitchOffStep, MenusFrame DEF SwitchOff, world
  <2>9. CASE Insert(c)
    <3> DEFINE m == call[c].menu
    <3>1. /\ UNCHANGED <<applied, removed, atLine, made, now>> /\ call[c].pc = "insert"
          /\ \A d \in Calls \ {c} : call'[d] = call[d]
          /\ call'[c].pc = "idle" /\ m \in Menus /\ row'[m] # NoRow /\ row'[m].key = call[c].key
          /\ \A n \in Menus \ {m} : row'[n] = row[n]
      BY <2>9, InsertStep DEF Insert, OthersStay, world, history
    <3>2. m <= made /\ call[c].key <= now
      <4>1. call[c].key \in 1..now /\ m \in 1..made
        BY <3>1, MenuOfCall DEF CallsFit, CallFits, WithImage
      <4> QED BY <4>1, Numbers
    <3>3. \A n \in Menus : row'[n] # NoRow => n <= made' /\ row'[n].key <= now'
      BY <3>1, <3>2 DEF MenusFit
    <3>4. \A d \in Calls : call[d].pc \notin NoMenuPc /\ d # c => call[d].menu # m /\ call[d].menu \in Menus
      BY <3>1, MenuOfCall DEF MenusFit
    <3> HIDE DEF m
    <3>5. \A d \in Calls : At(d, WithMenu)' =>
             /\ row'[call'[d].menu] = NoRow
             /\ call'[d].menu \in atLine' \ removed' /\ call'[d].menu # applied'
             /\ \A e \in Calls \ {d} : call'[e].pc \notin NoMenuPc => call'[e].menu # call'[d].menu
      BY <3>1, <3>4 DEF MenusFit
    <3>6. \A d \in Calls : At(d, Linking \cup {"members"})' =>
             row'[call'[d].menu] = NoRow \/ row'[call'[d].menu].type = "member"
      BY <3>1, <3>4 DEF MenusFit
    <3> QED BY <3>3, <3>5, <3>6 DEF MenusFit
  <2>10. CASE Apply(c)
    <3>1. UNCHANGED <<row, made, now, atLine, applied, removed>>
      BY <2>10 DEF Apply, world, history
    <3>2. row[call'[c].menu] # NoRow
      BY <2>10, ApplyStep DEF NoRow
    <3> QED BY <2>10, <3>1, <3>2, ApplyStep, MenusTaken
  <2>11. CASE ReadMembers(c)
    BY <2>1, <2>11, ReadMembersStep DEF ReadMembers, MenuKept, world
  <2>12. CASE LinkMember(c)
    BY <2>1, <2>12, LinkMemberStep DEF LinkMember, MenuKept
  <2>13. CASE SwitchOn(c)
    <3> DEFINE m == call[c].menu
    <3>1. /\ UNCHANGED <<removed, atLine, made, now>> /\ call[c].pc = "on"
          /\ \A d \in Calls \ {c} : call'[d] = call[d]
          /\ call'[c].pc = "idle"
      BY <2>13, SwitchOnStep DEF SwitchOn, OthersStay, world
    <3>2. CASE row' = row /\ applied' = applied
      BY <2>1, <2>13, <3>1, <3>2, SwitchOnStep DEF MenuKept
    <3>3. CASE ~ (row' = row /\ applied' = applied)
      <4>1. /\ m \in Menus /\ row[m] # NoRow /\ applied' = m /\ row'[m] # NoRow
            /\ row'[m].type = row[m].type /\ row'[m].key = row[m].key
            /\ \A n \in Menus \ {m} : row'[n] = row[n]
        BY <2>13, <3>3, SwitchOnStep
      <4> HIDE DEF m
      <4>2. \A n \in Menus : /\ row'[n] # NoRow <=> row[n] # NoRow
                             /\ row'[n].type = row[n].type /\ row'[n].key = row[n].key
        BY <4>1
      <4>3. \A d \in Calls : call[d].pc \notin NoMenuPc => call[d].menu \in Menus
        BY MenuOfCall
      <4>4. \A d \in Calls : At(d, WithMenu)' =>
               /\ row'[call'[d].menu] = NoRow
               /\ call'[d].menu \in atLine' \ removed' /\ call'[d].menu # applied'
               /\ \A e \in Calls \ {d} : call'[e].pc \notin NoMenuPc => call'[e].menu # call'[d].menu
        BY <3>1, <4>1, <4>2, <4>3 DEF MenusFit
      <4>5. \A d \in Calls : At(d, Linking \cup {"members"})' =>
               row'[call'[d].menu] = NoRow \/ row'[call'[d].menu].type = "member"
        BY <3>1, <4>2, <4>3 DEF MenusFit
      <4>6. \A n \in Menus : row'[n] # NoRow => n <= made' /\ row'[n].key <= now'
        BY <3>1, <4>2 DEF MenusFit
      <4> QED BY <4>4, <4>5, <4>6 DEF MenusFit
    <3> QED BY <3>2, <3>3
  <2>14. CASE Remove(c)
    <3>1. UNCHANGED <<row, made, now, atLine, applied>>
      BY <2>14 DEF Remove, world
    <3> QED BY <2>14, <3>1, RemoveStep, MenusTaken
  <2>15. CASE Unpublish(c)
    <3>1. call[c].menu \in removed
      BY <2>15 DEF Unpublish, CallsFit, CallFits, Erasing
    <3>2. UNCHANGED <<row, applied, removed>>
      BY <2>15 DEF Unpublish, history
    <3>3. \A m \in atLine \ removed : m \in atLine'
      BY <2>15, <3>1, UnpublishStep
    <3> QED BY <2>1, <2>15, <3>2, <3>3, UnpublishStep DEF MenuKept, GoesOn, Unpublish
  <2>16. CASE Unstore(c)
    BY <2>1, <2>16, UnstoreStep DEF Unstore, MenuKept, GoesOn, history
  <2>17. CASE Drop(c)
    <3>1. RowsKept
      BY <2>17, DropStep DEF RowsKept
    <3> QED BY <1>1, <2>17, <3>1, DropStep, MenusFrame DEF Drop, MenuKept, world, history
  <2>18. CASE Join(c)
    BY <2>1, <2>18, JoinStep DEF Join, MenuKept, world
  <2>19. CASE ReadActive(c)
    <3>1. UNCHANGED <<row, made, now, atLine, applied, removed>>
      BY <2>19 DEF ReadActive, world, history
    <3>2. CASE call'[c].pc = "idle"
      BY <2>1, <2>19, <3>1, <3>2, ReadActiveStep DEF MenuKept
    <3>3. CASE call'[c].pc # "idle"
      <4>1. call'[c].pc = "welcome" /\ call'[c].menu \in Menus /\ row[call'[c].menu] # NoRow
        BY <2>19, <3>3, ReadActiveStep DEF Active, NoRow
      <4> QED BY <2>19, <3>1, <4>1, ReadActiveStep, MenusTaken
    <3> QED BY <3>2, <3>3
  <2>20. CASE Welcome(c)
    BY <2>1, <2>20, WelcomeStep DEF Welcome, MenuKept
  <2> QED BY <1>3, <2>2, <2>3, <2>4, <2>5, <2>6, <2>7, <2>8, <2>9, <2>10, <2>11, <2>12, <2>13,
             <2>14, <2>15, <2>16, <2>17, <2>18, <2>19, <2>20 DEF CallStep
<1>4. CASE Crash
  <2>1. \A c \in Calls : call'[c].pc = "idle"
    BY <1>4, CrashStep
  <2>2. UNCHANGED <<row, made, now>>
    BY <1>4 DEF Crash, world
  <2> QED BY <2>1, <2>2 DEF MenusFit
<1> QED BY <1>2, <1>3, <1>4 DEF Next

-----------------------------------------------------------------------------
(* At most one active menu of a type. *)

(* Nothing comes to be active and no call comes to its switch. *)
LEMMA OneFrame ==
  ASSUME OneSwitches, Grows,
         \A t \in Types \ crossed' : Active(t)' \subseteq Active(t),
         \A c \in Calls, t \in Types \ crossed' : Switching(c, t)' => Switching(c, t)
  PROVE  OneSwitches'
<1> SUFFICES ASSUME NEW t \in Types \ crossed'
             PROVE  /\ \A m, n \in Active(t)' : m = n
                    /\ \A c \in Calls : Switching(c, t)' =>
                         Active(t)' = {} /\ \A d \in Calls \ {c} : ~ Switching(d, t)'
  BY DEF OneSwitches
<1>1. t \in Types \ crossed
  BY DEF Grows
<1> QED BY <1>1 DEF OneSwitches

(* The rows that are active stay or go while no call comes to its switch. *)
LEMMA OneKept ==
  ASSUME OneSwitches, Grows, row' = row, NEW c \in Calls, OthersStay(c),
         call'[c].pc \notin {"insert", "on"}
  PROVE  OneSwitches'
<1>1. \A t \in Types \ crossed' : Active(t)' \subseteq Active(t)
  BY DEF Active
<1>2. \A d \in Calls, t \in Types \ crossed' : Switching(d, t)' => Switching(d, t)
  BY DEF Switching, At, OthersStay
<1> QED BY <1>1, <1>2, OneFrame

(* The switch itself: the one call that was switching type t activates menu m. *)
LEMMA OneSet ==
  ASSUME OneSwitches, Grows, NEW c \in Calls, OthersStay(c), At(c, {"insert", "on"}),
         call'[c].pc = "idle", NEW m \in Menus, row'[m].type = call[c].type,
         \A n \in Menus \ {m} : row'[n] = row[n]
  PROVE  OneSwitches'
<1>1. \A d \in Calls, t \in Types : Switching(d, t)' => Switching(d, t) /\ d # c
  BY DEF Switching, At, OthersStay
<1> SUFFICES ASSUME NEW t \in Types \ crossed'
             PROVE  /\ \A k, n \in Active(t)' : k = n
                    /\ \A d \in Calls : Switching(d, t)' =>
                         Active(t)' = {} /\ \A e \in Calls \ {d} : ~ Switching(e, t)'
  BY DEF OneSwitches
<1>2. /\ \A k, n \in Active(t) : k = n
      /\ \A d \in Calls : Switching(d, t) =>
           Active(t) = {} /\ \A e \in Calls \ {d} : ~ Switching(e, t)
  BY DEF OneSwitches, Grows
<1>3. CASE t = call[c].type
  <2>1. Switching(c, t)
    BY <1>3 DEF Switching
  <2>2. Active(t)' \subseteq Active(t) \cup {m}
    BY DEF Active
  <2> QED BY <1>1, <1>2, <2>1, <2>2
<1>4. CASE t # call[c].type
  <2>1. Active(t)' \subseteq Active(t)
    BY <1>4 DEF Active
  <2> QED BY <1>1, <1>2, <2>1
<1> QED BY <1>3, <1>4

LEMMA StepOneSwitches ==
  ASSUME TypeOK, CallsFit, MenusFit, OneSwitches, [Next]_vars
  PROVE  OneSwitches'
<1>1. TypeOK' /\ Grows
  BY StepTypeOK, HistoryGrows
<1>2. CASE UNCHANGED vars
  BY <1>2 DEF vars, world, history, OneSwitches, Switching, Active, At
<1>3. ASSUME NEW c \in Calls, CallStep(c) PROVE OneSwitches'
  <2>1. CASE \/ Create(c) \/ Upload(c) \/ Publish(c) \/ SetImage(c) \/ SetDefault(c) \/ Cleanup(c)
             \/ Apply(c) \/ ReadMembers(c) \/ LinkMember(c)
    <3>1. row' = row /\ OthersStay(c)
      BY <2>1, CreateStep, UploadStep, PublishStep, SetImageStep, SetDefaultStep, CleanupStep,
         ApplyStep, ReadMembersStep, LinkMemberStep
         DEF Create, Upload, Publish, SetImage, SetDefault, Cleanup, Apply, ReadMembers, LinkMember
    <3>2. call'[c].pc \notin {"insert", "on"}
      BY <2>1, CreateStep, UploadStep, PublishStep, SetImageStep, SetDefaultStep, CleanupStep,
         ApplyStep, ReadMembersStep, LinkMemberStep DEF GoesOn
    <3> QED BY <1>1, <3>1, <3>2, OneKept
  <2>2. CASE \/ Remove(c) \/ Unpublish(c) \/ Unstore(c) \/ Join(c) \/ ReadActive(c) \/ Welcome(c)
    <3>1. row' = row /\ OthersStay(c)
      BY <2>2, RemoveStep, UnpublishStep, UnstoreStep, JoinStep, ReadActiveStep, WelcomeStep
         DEF Remove, Unpublish, Unstore, Join, ReadActive, Welcome
    <3>2. call'[c].pc \notin {"insert", "on"}
      BY <2>2, RemoveStep, UnpublishStep, UnstoreStep, JoinStep, ReadActiveStep, WelcomeStep DEF GoesOn
    <3> QED BY <1>1, <3>1, <3>2, OneKept
  <2>3. CASE SwitchOff(c)
    <3>1. \A t \in Types : /\ Active(t)' \subseteq Active(t)
                           /\ t = call[c].type => Active(t)' = {}
      <4>1. row' = Off(call[c].type)
        BY <2>3 DEF SwitchOff
      <4>2. \A m \in Menus : /\ row'[m].type = row[m].type
                             /\ row'[m].active <=> row[m].active /\ row[m].type # call[c].type
        BY <4>1, OffRows
      <4> QED BY <4>2 DEF Active
    <3>2. /\ call'[c].type = call[c].type /\ \A d \in Calls \ {c} : call'[d] = call[d]
      BY <2>3, SwitchOffStep DEF GoesOn, OthersStay
    <3> SUFFICES ASSUME NEW t \in Types \ crossed'
                 PROVE  /\ \A m, n \in Active(t)' : m = n
                        /\ \A d \in Calls : Switching(d, t)' =>
                             Active(t)' = {} /\ \A e \in Calls \ {d} : ~ Switching(e, t)'
      BY DEF OneSwitches
    <3>3. /\ \A m, n \in Active(t) : m = n
          /\ \A d \in Calls : Switching(d, t) =>
               Active(t) = {} /\ \A e \in Calls \ {d} : ~ Switching(e, t)
      BY <1>1 DEF OneSwitches, Grows
    <3>4. CASE t # call[c].type
      <4>1. \A d \in Calls : Switching(d, t)' => Switching(d, t)
        BY <3>2, <3>4 DEF Switching, At
      <4> QED BY <3>1, <3>3, <4>1
    <3>5. CASE t = call[c].type
      <4>1. \A d \in Calls \ {c} : ~ Switching(d, t)
        BY <2>3, <3>5 DEF SwitchOff, OthersAt, Switching, At
      <4>2. \A d \in Calls \ {c} : ~ Switching(d, t)'
        BY <3>2, <4>1 DEF Switching, At
      <4> QED BY <3>1, <3>5, <4>2
    <3> QED BY <3>4, <3>5
  <2>4. CASE Insert(c)
    BY <1>1, <2>4, InsertStep, OneSet DEF Insert, At
  <2>5. CASE SwitchOn(c)
    <3>1. call[c].pc = "on"
      BY <2>5 DEF SwitchOn
    <3>2. CASE row' = row
      BY <1>1, <2>5, <3>2, SwitchOnStep, OneKept
    <3>3. CASE row' # row
      <4>1. call[c].type = "member" /\ row[call[c].menu] # NoRow
            /\ row'[call[c].menu].type = row[call[c].menu].type
        BY <2>5, <3>1, <3>3, SwitchOnStep DEF CallsFit, CallFits, At, Linking
      <4>2. row[call[c].menu].type = "member"
        BY <3>1, <4>1 DEF MenusFit, At, Linking
      <4> QED BY <1>1, <2>5, <3>1, <3>3, <4>1, <4>2, SwitchOnStep, OneSet DEF At
    <3> QED BY <3>2, <3>3
  <2>6. CASE Drop(c)
    <3>1. /\ \A t \in Types : Active(t)' \subseteq Active(t)
      BY <2>6, DropStep DEF Active, NoRow, Types
    <3>2. \A d \in Calls, t \in Types \ crossed' : Switching(d, t)' => Switching(d, t)
      BY <2>6, DropStep DEF Switching, At, OthersStay
    <3> QED BY <1>1, <3>1, <3>2, OneFrame
  <2> QED BY <1>3, <2>1, <2>2, <2>3, <2>4, <2>5, <2>6 DEF CallStep
<1>4. CASE Crash
  <2>1. row' = row /\ \A c \in Calls : call'[c].pc = "idle"
    BY <1>4, CrashStep DEF Crash
  <2> QED BY <1>1, <2>1, OneFrame DEF Active, Switching, At
<1> QED BY <1>2, <1>3, <1>4 DEF Next

-----------------------------------------------------------------------------
(* The names of the images. *)

(* The call holds no other image than it did. *)
ImageKept(c) ==
  /\ At(c, WithImage)' => At(c, WithImage) /\ call'[c].key = call[c].key
  /\ At(c, Erasing)' => /\ At(c, Erasing) /\ call'[c].key = call[c].key
                        /\ call'[c].menu = call[c].menu

LEMMA KeysFrame ==
  ASSUME KeysFit, Grows, NEW c \in Calls, OthersStay(c), RowsKept, ImageKept(c)
  PROVE  KeysFit'
<1>1. \A d \in Calls :
        /\ At(d, WithImage)' => At(d, WithImage) /\ call'[d].key = call[d].key
        /\ At(d, Erasing)' => /\ At(d, Erasing) /\ call'[d].key = call[d].key
                              /\ call'[d].menu = call[d].menu
  BY DEF OthersStay, ImageKept, At
<1>2. \A d, e \in Calls : d # e /\ At(d, WithImage)' /\ At(e, WithImage \cup Erasing)' =>
        call'[d].key # call'[e].key \/ call'[d].key \in shared'
  BY <1>1 DEF KeysFit, Grows, At
<1>3. \A d \in Calls, m \in Menus : At(d, WithImage)' /\ row'[m] # NoRow =>
        call'[d].key # row'[m].key \/ call'[d].key \in shared'
  BY <1>1 DEF KeysFit, Grows, RowsKept
<1>4. \A d \in Calls, m \in Menus : At(d, Erasing)' /\ row'[m] # NoRow /\ m # call'[d].menu =>
        call'[d].key # row'[m].key \/ call'[d].key \in shared'
  BY <1>1 DEF KeysFit, Grows, RowsKept
<1>5. \A m, n \in Menus : row'[m] # NoRow /\ row'[n] # NoRow /\ m # n =>
        row'[m].key # row'[n].key \/ row'[m].key \in shared'
  BY DEF KeysFit, Grows, RowsKept
<1> QED BY <1>2, <1>3, <1>4, <1>5 DEF KeysFit

LEMMA StepKeysFit ==
  ASSUME TypeOK, CallsFit, MenusFit, KeysFit, [Next]_vars
  PROVE  KeysFit'
<1> USE DEF At, WithImage, Erasing
<1>1. TypeOK' /\ Grows
  BY StepTypeOK, HistoryGrows
<1>2. CASE UNCHANGED vars
  BY <1>2 DEF vars, world, history, KeysFit
<1>3. ASSUME NEW c \in Calls, CallStep(c) PROVE KeysFit'
  <2>1. CASE Create(c) \/ Publish(c) \/ SetImage(c) \/ SetDefault(c) \/ Cleanup(c)
    <3>1. row' = row /\ OthersStay(c)
      BY <2>1, CreateStep, PublishStep, SetImageStep, SetDefaultStep, CleanupStep
         DEF Create, Publish, SetImage, SetDefault, Cleanup
    <3>2. ImageKept(c)
      BY <2>1, CreateStep, PublishStep, SetImageStep, SetDefaultStep, CleanupStep
         DEF ImageKept, GoesOn, Publish, SetImage, SetDefault
    <3> QED BY <1>1, <3>1, <3>2, KeysFrame DEF RowsKept
  <2>2. CASE Apply(c) \/ ReadMembers(c) \/ LinkMember(c) \/ Join(c) \/ ReadActive(c) \/ Welcome(c)
    <3>1. row' = row /\ OthersStay(c)
      BY <2>2, ApplyStep, ReadMembersStep, LinkMemberStep, JoinStep, ReadActiveStep, WelcomeStep
         DEF Apply, ReadMembers, LinkMember, Join, ReadActive, Welcome
    <3>2. ImageKept(c)
      BY <2>2, ApplyStep, ReadMembersStep, LinkMemberStep, JoinStep, ReadActiveStep, WelcomeStep
         DEF ImageKept
    <3> QED BY <1>1, <3>1, <3>2, KeysFrame DEF RowsKept
  <2>3. CASE Unpublish(c) \/ Unstore(c) \/ Drop(c)
    <3>1. RowsKept /\ OthersStay(c)
      BY <2>3, UnpublishStep, UnstoreStep, DropStep DEF Unpublish, Unstore, RowsKept
    <3>2. ImageKept(c)
      BY <2>3, UnpublishStep, UnstoreStep, DropStep DEF ImageKept, GoesOn, Unpublish
    <3> QED BY <1>1, <3>1, <3>2, KeysFrame
  <2>4. CASE SwitchOff(c)
    <3>1. RowsKept /\ OthersStay(c)
      BY <2>4, OffRows, SwitchOffStep DEF SwitchOff, RowsKept
    <3>2. ImageKept(c)
      BY <2>4, SwitchOffStep DEF ImageKept, GoesOn
    <3> QED BY <1>1, <3>1, <3>2, KeysFrame
  <2>5. CASE SwitchOn(c)
    <3>1. RowsKept
      <4>1. \A m \in Menus : row'[m] = row[m] \/ (m = call[c].menu /\ row[m] # NoRow
               /\ row'[m].type = row[m].type /\ row'[m].key = row[m].key)
        BY <2>5, SwitchOnStep
      <4> QED BY <4>1 DEF RowsKept
    <3> QED BY <1>1, <2>5, <3>1, SwitchOnStep, KeysFrame DEF ImageKept
  <2>6. CASE Upload(c)
    <3>1. row' = row /\ \A d \in Calls \ {c} : call'[d] = call[d]
      BY <2>6, UploadStep DEF Upload, OthersStay
    <3>2. CASE call'[c].pc = "idle"
      BY <1>1, <2>6, <3>1, <3>2, UploadStep, KeysFrame DEF RowsKept, ImageKept
    <3>3. CASE call'[c].pc # "idle"
      <4>1. /\ call'[c].pc = "publish" /\ call'[c].key = now'
            /\ now' = now + 1 \/ now' \in shared'
        BY <2>6, <3>3, UploadStep
      <4>2. ASSUME NEW d \in Calls \ {c}, At(d, WithImage \cup Erasing)
            PROVE  call[d].key # now' \/ now' \in shared'
        <5>1. call[d].key \in 1..now
          BY <4>2 DEF CallsFit, CallFits
        <5> QED BY <4>1, <5>1, Numbers
      <4>3. ASSUME NEW m \in Menus, row[m] # NoRow
            PROVE  row[m].key # now' \/ now' \in shared'
        <5>1. row[m].key <= now /\ row[m].key \in Nat
          BY <4>3, RowsOfMade DEF MenusFit, Keys
        <5> QED BY <4>1, <5>1, Numbers
      <4>4. \A d, e \in Calls : d # e /\ At(d, WithImage)' /\ At(e, WithImage \cup Erasing)' =>
              call'[d].key # call'[e].key \/ call'[d].key \in shared'
        BY <1>1, <3>1, <4>1, <4>2 DEF KeysFit, Grows
      <4>5. \A d \in Calls, m \in Menus : At(d, WithImage)' /\ row'[m] # NoRow =>
              call'[d].key # row'[m].key \/ call'[d].key \in shared'
        BY <1>1, <3>1, <4>1, <4>3 DEF KeysFit, Grows
      <4>6. \A d \in Calls, m \in Menus : At(d, Erasing)' /\ row'[m] # NoRow /\ m # call'[d].menu =>
              call'[d].key # row'[m].key \/ call'[d].key \in shared'
        BY <1>1, <3>1, <4>1 DEF KeysFit, Grows
      <4>7. \A m, n \in Menus : row'[m] # NoRow /\ row'[n] # NoRow /\ m # n =>
              row'[m].key # row'[n].key \/ row'[m].key \in shared'
        BY <1>1, <3>1 DEF KeysFit, Grows
      <4> QED BY <4>4, <4>5, <4>6, <4>7 DEF KeysFit
    <3> QED BY <3>2, <3>3
  <2>7. CASE Insert(c)
    <3>1. /\ \A d \in Calls \ {c} : call'[d] = call[d]
          /\ call'[c].pc = "idle" /\ call[c].pc = "insert" /\ shared' = shared
          /\ call[c].menu \in Menus /\ row'[call[c].menu].key = call[c].key
          /\ \A m \in Menus \ {call[c].menu} : row'[m] = row[m]
      BY <2>7, InsertStep DEF Insert, OthersStay, history
    <3>2. \A d \in Calls \ {c} : At(d, WithImage \cup Erasing) =>
            call[d].key # call[c].key \/ call[d].key \in shared
      BY <3>1 DEF KeysFit
    <3>3. \A n \in Menus : row[n] # NoRow => row[n].key # call[c].key \/ row[n].key \in shared
      BY <3>1 DEF KeysFit
    <3>4. \A d, e \in Calls : d # e /\ At(d, WithImage)' /\ At(e, WithImage \cup Erasing)' =>
            call'[d].key # call'[e].key \/ call'[d].key \in shared'
      BY <3>1 DEF KeysFit
    <3>5. \A d \in Calls, m \in Menus : At(d, WithImage)' /\ row'[m] # NoRow =>
            call'[d].key # row'[m].key \/ call'[d].key \in shared'
      BY <3>1, <3>2 DEF KeysFit
    <3>6. \A d \in Calls, m \in Menus : At(d, Erasing)' /\ row'[m] # NoRow /\ m # call'[d].menu =>
            call'[d].key # row'[m].key \/ call'[d].key \in shared'
      BY <3>1, <3>2 DEF KeysFit
    <3>7. \A m, n \in Menus : row'[m] # NoRow /\ row'[n] # NoRow /\ m # n =>
            row'[m].key # row'[n].key \/ row'[m].key \in shared'
      BY <3>1, <3>3 DEF KeysFit
    <3> QED BY <3>4, <3>5, <3>6, <3>7 DEF KeysFit
  <2>8. CASE Remove(c)
    <3>1. /\ row' = row /\ shared' = shared /\ \A d \in Calls \ {c} : call'[d] = call[d]
          /\ call'[c].pc = "unpublish" /\ call'[c].menu \in Menus /\ row[call'[c].menu] # NoRow
          /\ call'[c].key = row[call'[c].menu].key
      BY <2>8, RemoveStep DEF Remove, OthersStay
    <3>2. \A d, e \in Calls : d # e /\ At(d, WithImage)' /\ At(e, WithImage \cup Erasing)' =>
            call'[d].key # call'[e].key \/ call'[d].key \in shared'
      BY <3>1 DEF KeysFit
    <3>3. \A d \in Calls, m \in Menus : At(d, WithImage)' /\ row'[m] # NoRow =>
            call'[d].key # row'[m].key \/ call'[d].key \in shared'
      BY <3>1 DEF KeysFit
    <3>4. \A d \in Calls, m \in Menus : At(d, Erasing)' /\ row'[m] # NoRow /\ m # call'[d].menu =>
            call'[d].key # row'[m].key \/ call'[d].key \in shared'
      BY <3>1 DEF KeysFit
    <3>5. \A m, n \in Menus : row'[m] # NoRow /\ row'[n] # NoRow /\ m # n =>
            row'[m].key # row'[n].key \/ row'[m].key \in shared'
      BY <3>1 DEF KeysFit
    <3> QED BY <3>2, <3>3, <3>4, <3>5 DEF KeysFit
  <2> QED BY <1>3, <2>1, <2>2, <2>3, <2>4, <2>5, <2>6, <2>7, <2>8 DEF CallStep
<1>4. CASE Crash
  <2>1. row' = row /\ shared' = shared /\ \A c \in Calls : call'[c].pc = "idle"
    BY <1>4, CrashStep DEF Crash
  <2> QED BY <2>1 DEF KeysFit
<1> QED BY <1>2, <1>3, <1>4 DEF Next

-----------------------------------------------------------------------------
(* The images and the menus at LINE behind the rows. *)

(* The call is to insert the image that it had. *)
UploadKept(c) == At(c, WithImage \ {"cleanup"})' =>
  At(c, WithImage \ {"cleanup"}) /\ call'[c].key = call[c].key

(* An image may go when no row and no other call relies on it. *)
LEMMA BackedFrame ==
  ASSUME Backed, Grows, NEW c \in Calls, OthersStay(c), RowsKept, UploadKept(c),
         \A m \in atLine \ removed : m \in atLine',
         NEW k, images \ {k} \subseteq images',
         \/ images \subseteq images'
         \/ /\ \A m \in Menus \ removed : row[m] # NoRow /\ row[m].key = k => k \in shared
            /\ \A d \in Calls \ {c} : At(d, WithImage) /\ call[d].key = k => k \in shared
            /\ ~ At(c, WithImage)'
  PROVE  Backed'
<1>1. ASSUME NEW m \in Menus \ removed', row'[m] # NoRow
      PROVE  m \in atLine' /\ (row'[m].key \in images' \/ row'[m].key \in shared')
  <2>1. m \in Menus \ removed /\ row[m] # NoRow /\ row'[m].key = row[m].key
    BY <1>1 DEF Grows, RowsKept
  <2>2. m \in atLine /\ (row[m].key \in images \/ row[m].key \in shared)
    BY <2>1 DEF Backed, RowsAreBacked
  <2> QED BY <2>1, <2>2 DEF Grows
<1>2. ASSUME NEW d \in Calls, At(d, WithImage \ {"cleanup"})'
      PROVE  call'[d].key \in images' \/ call'[d].key \in shared'
  <2>1. At(d, WithImage \ {"cleanup"}) /\ call'[d].key = call[d].key /\ At(d, WithImage)'
    BY <1>2 DEF OthersStay, UploadKept, At
  <2>2. call[d].key \in images \/ call[d].key \in shared
    BY <2>1 DEF Backed
  <2>3. At(d, WithImage)
    BY <2>1 DEF At
  <2> QED BY <2>1, <2>2, <2>3 DEF Grows
<1> QED BY <1>1, <1>2 DEF Backed, RowsAreBacked

LEMMA StepBacked ==
  ASSUME TypeOK, CallsFit, MenusFit, KeysFit, Backed, [Next]_vars
  PROVE  Backed'
<1> USE DEF At, WithImage, Erasing
<1>1. TypeOK' /\ Grows
  BY StepTypeOK, HistoryGrows
<1>2. CASE UNCHANGED vars
  BY <1>2 DEF vars, world, history, Backed, RowsAreBacked
<1>3. ASSUME NEW c \in Calls, CallStep(c) PROVE Backed'
  <2>1. ASSUME OthersStay(c), RowsKept, UploadKept(c), images \subseteq images',
               \A m \in atLine \ removed : m \in atLine'
        PROVE  Backed'
    BY <1>1, <2>1, BackedFrame
  <2>2. CASE Create(c) \/ Publish(c) \/ SetImage(c) \/ SetDefault(c)
    <3>1. /\ row' = row /\ images' = images /\ OthersStay(c)
          /\ \A m \in atLine \ removed : m \in atLine'
      BY <2>2, CreateStep, PublishStep, SetImageStep, SetDefaultStep
         DEF Create, Publish, SetImage, SetDefault, world
    <3>2. UploadKept(c)
      BY <2>2, CreateStep, PublishStep, SetImageStep, SetDefaultStep
         DEF UploadKept, GoesOn, Publish, SetImage, SetDefault
    <3> QED BY <2>1, <3>1, <3>2 DEF RowsKept
  <2>3. CASE Apply(c) \/ ReadMembers(c) \/ LinkMember(c) \/ Remove(c)
             \/ Join(c) \/ ReadActive(c) \/ Welcome(c)
    <3>1. row' = row /\ images' = images /\ atLine' = atLine /\ OthersStay(c)
      BY <2>3, ApplyStep, ReadMembersStep, LinkMemberStep, RemoveStep, JoinStep, ReadActiveStep,
         WelcomeStep
         DEF Apply, ReadMembers, LinkMember, Remove, Join, ReadActive, Welcome, world
    <3>2. UploadKept(c)
      BY <2>3, ApplyStep, ReadMembersStep, LinkMemberStep, RemoveStep, JoinStep, ReadActiveStep,
         WelcomeStep DEF UploadKept
    <3> QED BY <2>1, <3>1, <3>2 DEF RowsKept
  <2>4. CASE SwitchOff(c)
    <3>1. RowsKept
      BY <2>4, OffRows DEF SwitchOff, RowsKept
    <3>2. OthersStay(c) /\ UploadKept(c)
      BY <2>4, SwitchOffStep DEF UploadKept, GoesOn
    <3> QED BY <2>1, <2>4, <3>1, <3>2 DEF SwitchOff, world
  <2>5. CASE SwitchOn(c)
    <3>1. RowsKept
      <4>1. \A m \in Menus : row'[m] = row[m] \/ (m = call[c].menu /\ row[m] # NoRow
               /\ row'[m].type = row[m].type /\ row'[m].key = row[m].key)
        BY <2>5, SwitchOnStep
      <4> QED BY <4>1 DEF RowsKept
    <3>2. images' = images /\ atLine' = atLine
      BY <2>5 DEF SwitchOn, world
    <3> QED BY <2>1, <2>5, <3>1, <3>2, SwitchOnStep DEF UploadKept
  <2>6. CASE Unpublish(c)
    <3>1. call[c].menu \in removed /\ row' = row /\ images' = images
      BY <2>6 DEF Unpublish, CallsFit, CallFits
    <3>2. OthersStay(c) /\ UploadKept(c) /\ \A m \in atLine \ removed : m \in atLine'
      BY <2>6, <3>1, UnpublishStep DEF UploadKept, GoesOn
    <3> QED BY <2>1, <3>1, <3>2 DEF RowsKept
  <2>7. CASE Drop(c)
    <3>1. images' = images /\ atLine' = atLine
      BY <2>7 DEF Drop, world
    <3>2. RowsKept
      BY <2>7, DropStep DEF RowsKept
    <3> QED BY <2>1, <2>7, <3>1, <3>2, DropStep DEF UploadKept
  <2>8. CASE Cleanup(c) \/ Unstore(c)
    <3> DEFINE k == call[c].key
    <3>1. /\ row' = row /\ atLine' = atLine /\ images \ {k} \subseteq images'
          /\ OthersStay(c) /\ call'[c].pc \in {"idle", "drop"}
      BY <2>8, CleanupStep, UnstoreStep DEF Cleanup, Unstore, GoesOn
    <3>2. At(c, {"cleanup"}) \/ At(c, {"unstore"})
      BY <2>8 DEF Cleanup, Unstore
    <3>3. \A d \in Calls \ {c} : At(d, WithImage) /\ call[d].key = k => k \in shared
      BY <3>2 DEF KeysFit
    <3>4. ASSUME NEW m \in Menus \ removed, row[m] # NoRow, row[m].key = k PROVE k \in shared
      <4>1. CASE At(c, {"cleanup"})
        BY <3>4, <4>1 DEF KeysFit
      <4>2. CASE At(c, {"unstore"})
        <5>1. m # call[c].menu
          BY <4>2 DEF CallsFit, CallFits
        <5> QED BY <3>4, <4>2, <5>1 DEF KeysFit
      <4> QED BY <3>2, <4>1, <4>2
    <3> HIDE DEF k
    <3> QED BY <1>1, <3>1, <3>3, <3>4, BackedFrame DEF RowsKept, UploadKept
  <2>9. CASE Upload(c)
    <3>1. /\ row' = row /\ atLine' = atLine /\ images \subseteq images'
          /\ \A d \in Calls \ {c} : call'[d] = call[d]
      BY <2>9, UploadStep DEF Upload, OthersStay
    <3>2. call'[c].pc = "idle" \/ call'[c].key \in images'
      BY <2>9, UploadStep
    <3>3. RowsAreBacked'
      BY <1>1, <3>1 DEF Backed, RowsAreBacked, Grows
    <3>4. \A d \in Calls : At(d, WithImage \ {"cleanup"})' =>
            call'[d].key \in images' \/ call'[d].key \in shared'
      BY <1>1, <3>1, <3>2 DEF Backed, Grows
    <3> QED BY <3>3, <3>4 DEF Backed
  <2>10. CASE Insert(c)
    <3>1. /\ UNCHANGED <<images, atLine, shared, removed>>
          /\ \A d \in Calls \ {c} : call'[d] = call[d]
          /\ call'[c].pc = "idle" /\ call[c].pc = "insert"
          /\ row'[call[c].menu].key = call[c].key
          /\ \A m \in Menus \ {call[c].menu} : row'[m] = row[m]
      BY <2>10, InsertStep DEF Insert, OthersStay, world, history
    <3>2. call[c].menu \in atLine /\ (call[c].key \in images \/ call[c].key \in shared)
      BY <3>1 DEF MenusFit, WithMenu, Backed
    <3>3. RowsAreBacked'
      BY <3>1, <3>2 DEF Backed, RowsAreBacked
    <3>4. \A d \in Calls : At(d, WithImage \ {"cleanup"})' =>
            call'[d].key \in images' \/ call'[d].key \in shared'
      BY <3>1 DEF Backed
    <3> QED BY <3>3, <3>4 DEF Backed
  <2> QED BY <1>3, <2>2, <2>3, <2>4, <2>5, <2>6, <2>7, <2>8, <2>9, <2>10 DEF CallStep
<1>4. CASE Crash
  <2>1. UNCHANGED <<row, atLine, images, shared, removed>>
    BY <1>4 DEF Crash, world
  <2>2. \A c \in Calls : call'[c].pc = "idle"
    BY <1>4, CrashStep
  <2> QED BY <2>1, <2>2 DEF Backed, RowsAreBacked
<1> QED BY <1>2, <1>3, <1>4 DEF Next

-----------------------------------------------------------------------------
(* The default menu. *)

Defaulting(c) == At(c, {"offCreate", "insert"}) /\ call[c].type = "default"

(* A step that neither activates a default menu nor sets one. *)
LEMMA DefaultFrame ==
  ASSUME MenusFit, DefaultFits, Grows, NEW c \in Calls, OthersStay(c),
         \A m \in Active("default")' : m \in Active("default"),
         \A m \in Menus \ removed : default = m => default' = m,
         Defaulting(c)' => Defaulting(c) /\ call'[c].menu = call[c].menu,
         \A d \in Calls : At(d, WithMenu) => call[d].menu \in Menus,
         call[c].pc = "offCreate" /\ call[c].type = "default" =>
           \/ call'[c].pc = "offCreate" /\ call'[c].type = "default"
           \/ Active("default")' = {}
  PROVE  DefaultFits'
<1>1. ASSUME NEW m \in Active("default")' \ removed'
      PROVE  \/ default' = m \/ halted' \/ "default" \in crossed'
             \/ \E d \in Calls : call'[d].pc = "offCreate" /\ call'[d].type = "default"
  <2>1. m \in Active("default") \ removed /\ m \in Menus
    BY <1>1 DEF Grows, Active
  <2>2. \/ default = m \/ halted \/ "default" \in crossed
        \/ \E d \in Calls : call[d].pc = "offCreate" /\ call[d].type = "default"
    BY <2>1 DEF DefaultFits, ActiveIsDefault
  <2>3. CASE default = m
    BY <2>1, <2>3
  <2>4. CASE halted \/ "default" \in crossed
    BY <2>4 DEF Grows
  <2>5. CASE \E d \in Calls : call[d].pc = "offCreate" /\ call[d].type = "default"
    BY <1>1, <2>5 DEF OthersStay
  <2> QED BY <2>2, <2>3, <2>4, <2>5
<1>2. ASSUME NEW d \in Calls, Defaulting(d)'
      PROVE  default' = call'[d].menu \/ "default" \in crossed'
  <2>1. Defaulting(d) /\ call'[d].menu = call[d].menu
    BY <1>2 DEF Defaulting, At, OthersStay
  <2>2. At(d, WithMenu) /\ call[d].menu \in Menus
    BY <2>1 DEF Defaulting, At, WithMenu
  <2>3. call[d].menu \notin removed
    BY <2>2 DEF MenusFit
  <2>4. default = call[d].menu \/ "default" \in crossed
    BY <2>1 DEF DefaultFits, Defaulting
  <2> QED BY <2>1, <2>2, <2>3, <2>4 DEF Grows
<1> QED BY <1>1, <1>2 DEF DefaultFits, ActiveIsDefault, Defaulting

LEMMA StepDefaultFits ==
  ASSUME TypeOK, CallsFit, MenusFit, OneSwitches, DefaultFits, [Next]_vars
  PROVE  DefaultFits'
<1> USE DEF At
<1>1. TypeOK' /\ Grows /\ \A d \in Calls : At(d, WithMenu) => call[d].menu \in Menus
  BY StepTypeOK, HistoryGrows, MenuOfCall DEF WithMenu, NoMenuPc
<1>2. CASE UNCHANGED vars
  BY <1>2 DEF vars, world, history, DefaultFits, ActiveIsDefault, Active
<1>3. ASSUME NEW c \in Calls, CallStep(c) PROVE DefaultFits'
  <2>1. ASSUME row' = row, default' = default, OthersStay(c), ~ Defaulting(c)',
               ~ (call[c].pc = "offCreate" /\ call[c].type = "default")
        PROVE  DefaultFits'
    BY <1>1, <2>1, DefaultFrame DEF Active
  <2>2. CASE Create(c) \/ Upload(c) \/ Publish(c) \/ SetImage(c) \/ Cleanup(c)
    <3>1. row' = row /\ default' = default /\ OthersStay(c)
      BY <2>2, CreateStep, UploadStep, PublishStep, SetImageStep, CleanupStep
         DEF Create, Upload, Publish, SetImage, Cleanup, world
    <3>2. ~ Defaulting(c)'
      BY <2>2, CreateStep, UploadStep, PublishStep, SetImageStep, CleanupStep DEF Defaulting, GoesOn
    <3>3. call[c].pc # "offCreate"
      BY <2>2 DEF Create, Begin, Upload, Publish, SetImage, Cleanup
    <3> QED BY <2>1, <3>1, <3>2, <3>3
  <2>3. CASE Apply(c) \/ ReadMembers(c) \/ LinkMember(c) \/ Join(c) \/ ReadActive(c) \/ Welcome(c)
    <3>1. row' = row /\ default' = default /\ OthersStay(c)
      BY <2>3, ApplyStep, ReadMembersStep, LinkMemberStep, JoinStep, ReadActiveStep, WelcomeStep
         DEF Apply, ReadMembers, LinkMember, Join, ReadActive, Welcome, world
    <3>2. ~ Defaulting(c)'
      BY <2>3, ApplyStep, ReadMembersStep, LinkMemberStep, JoinStep, ReadActiveStep, WelcomeStep
         DEF Defaulting
    <3>3. call[c].pc # "offCreate"
      BY <2>3 DEF Apply, Begin, ReadMembers, LinkMember, Join, ReadActive, Welcome
    <3> QED BY <2>1, <3>1, <3>2, <3>3
  <2>4. CASE Remove(c) \/ Unstore(c)
    <3>1. row' = row /\ default' = default /\ OthersStay(c) /\ call[c].pc # "offCreate"
      BY <2>4, RemoveStep, UnstoreStep DEF Remove, Begin, Unstore, world
    <3>2. ~ Defaulting(c)'
      BY <2>4, RemoveStep, UnstoreStep DEF Defaulting, GoesOn
    <3> QED BY <2>1, <3>1, <3>2
  <2>5. CASE Drop(c) \/ SwitchOn(c)
    <3>1. default' = default /\ OthersStay(c) /\ call'[c].pc = "idle" /\ call[c].pc # "offCreate"
      BY <2>5, DropStep, SwitchOnStep DEF Drop, SwitchOn, world
    <3>2. \A m \in Menus : row'[m] = row[m] \/ row'[m].type # "default"
      <4>1. CASE Drop(c)
        BY <4>1, DropStep DEF NoRow
      <4>2. CASE SwitchOn(c)
        <5>1. row[call[c].menu] = NoRow \/ row[call[c].menu].type = "member"
          BY <4>2 DEF SwitchOn, MenusFit, Linking
        <5> QED BY <4>2, <5>1, SwitchOnStep
      <4> QED BY <2>5, <4>1, <4>2
    <3>3. \A m \in Active("default")' : m \in Active("default")
      BY <3>2 DEF Active
    <3> QED BY <1>1, <3>1, <3>3, DefaultFrame DEF Defaulting
  <2>6. CASE Unpublish(c)
    <3>1. row' = row /\ call[c].pc = "unpublish" /\ call[c].menu \in removed
      BY <2>6 DEF Unpublish, CallsFit, CallFits, Erasing
    <3>2. OthersStay(c) /\ ~ Defaulting(c)' /\ (default' = default \/ default = call[c].menu)
      BY <2>6, UnpublishStep DEF Defaulting, GoesOn
    <3> QED BY <1>1, <3>1, <3>2, DefaultFrame DEF Active
  <2>7. CASE SwitchOff(c)
    <3>1. default' = default /\ row' = Off(call[c].type)
      BY <2>7 DEF SwitchOff, world
    <3>2. /\ OthersStay(c) /\ call'[c].type = call[c].type /\ call'[c].menu = call[c].menu
          /\ \/ call[c].pc = "offCreate" /\ call'[c].pc = "insert"
             \/ call'[c].pc = "on"
      BY <2>7, SwitchOffStep DEF GoesOn
    <3>3. \A m \in Menus : /\ row'[m].type = row[m].type
                           /\ row'[m].active <=> row[m].active /\ row[m].type # call[c].type
      BY <3>1, OffRows
    <3>4. /\ \A m \in Active("default")' : m \in Active("default")
          /\ call[c].type = "default" => Active("default")' = {}
      BY <3>3 DEF Active
    <3> QED BY <1>1, <3>1, <3>2, <3>4, DefaultFrame DEF Defaulting
  <2>8. CASE SetDefault(c)
    <3>1. call[c].pc = "setDefault" /\ call[c].type = "default" /\ row' = row
      BY <2>8 DEF SetDefault, CallsFit, CallFits
    <3>2. OthersStay(c)
      BY <2>8, SetDefaultStep
    <3>3. CASE GoesOn(c, "cleanup") /\ UNCHANGED <<default, crossed, halted>>
      BY <2>1, <3>1, <3>2, <3>3 DEF Defaulting, GoesOn
    <3>4. CASE /\ default' = call[c].menu
               /\ (\E d \in OthersAt(c, {"offCreate", "insert"}) : call[d].type = "default") =>
                    "default" \in crossed'
               /\ GoesOn(c, "offCreate") \/ (GoesOn(c, "cleanup") /\ halted')
      <4>1. \A d \in Calls \ {c} : Defaulting(d)' => "default" \in crossed'
        BY <3>2, <3>4 DEF OthersAt, Defaulting, OthersStay
      <4>2. \A d \in Calls : Defaulting(d)' => default' = call'[d].menu \/ "default" \in crossed'
        BY <3>2, <3>4, <4>1 DEF GoesOn
      <4>3. halted' \/ (call'[c].pc = "offCreate" /\ call'[c].type = "default")
        BY <3>1, <3>4 DEF GoesOn
      <4>4. ActiveIsDefault'
        BY <4>3 DEF ActiveIsDefault
      <4> QED BY <4>2, <4>4 DEF DefaultFits, Defaulting
    <3> QED BY <2>8, <3>3, <3>4, SetDefaultStep
  <2>9. CASE Insert(c)
    <3>1. /\ UNCHANGED <<default, crossed, halted, removed>> /\ call[c].pc = "insert"
          /\ \A d \in Calls \ {c} : call'[d] = call[d]
          /\ call'[c].pc = "idle" /\ call[c].menu \in Menus
          /\ row'[call[c].menu].type = call[c].type
          /\ \A m \in Menus \ {call[c].menu} : row'[m] = row[m]
      BY <2>9, InsertStep DEF Insert, OthersStay, world, history
    <3>2. CASE call[c].type # "default"
      <4>1. \A m \in Active("default")' : m \in Active("default")
        BY <3>1, <3>2 DEF Active
      <4> QED BY <1>1, <2>9, <3>1, <4>1, InsertStep, DefaultFrame DEF Defaulting
    <3>3. CASE call[c].type = "default"
      <4>1. default = call[c].menu \/ "default" \in crossed
        BY <3>1, <3>3 DEF DefaultFits
      <4>2. Active("default") = {} \/ "default" \in crossed
        BY <3>1, <3>3 DEF OneSwitches, Switching, Types
      <4>3. \A m \in Active("default")' : m = call[c].menu \/ m \in Active("default")
        BY <3>1 DEF Active
      <4>4. ActiveIsDefault'
        BY <3>1, <4>1, <4>2, <4>3 DEF ActiveIsDefault
      <4>5. \A d \in Calls : Defaulting(d)' => default' = call'[d].menu \/ "default" \in crossed'
        BY <3>1 DEF Defaulting, DefaultFits
      <4> QED BY <4>4, <4>5 DEF DefaultFits, Defaulting
    <3> QED BY <3>2, <3>3
  <2> QED BY <1>3, <2>2, <2>3, <2>4, <2>5, <2>6, <2>7, <2>8, <2>9 DEF CallStep
<1>4. CASE Crash
  <2>1. UNCHANGED <<row, default, removed, crossed>> /\ \A c \in Calls : call'[c].pc = "idle"
    BY <1>4, CrashStep DEF Crash, world
  <2>2. halted' \/ ~ \E c \in Calls : call[c].pc = "offCreate" /\ call[c].type = "default"
    BY <1>4 DEF Crash
  <2>3. ActiveIsDefault'
    BY <1>1, <2>1, <2>2 DEF DefaultFits, ActiveIsDefault, Active, Grows
  <2> QED BY <2>1, <2>3 DEF DefaultFits
<1> QED BY <1>2, <1>3, <1>4 DEF Next

-----------------------------------------------------------------------------
(* The loops of applyMemberMenu(). *)

(* The call is in its loop with no more users and in a greeting with no others. *)
LinksKept(c) ==
  /\ At(c, Linking)' => /\ At(c, Linking) /\ call'[c].menu = call[c].menu
                        /\ call'[c].users = call[c].users
  /\ At(c, Greeting)' => At(c, Greeting) /\ call'[c].users = call[c].users

(* No one joins, and nobody's link to a menu in a loop is lost. *)
LEMMA LinksFrame ==
  ASSUME LinksFit, Grows, NEW c \in Calls, OthersStay(c), LinksKept(c), member' \subseteq member,
         \A d \in Calls, u \in member \ missed' :
           At(d, Linking) /\ call[d].menu \notin removed /\ shown[u] = call[d].menu =>
             shown'[u] = call[d].menu
  PROVE  LinksFit'
<1>1. \A d \in Calls :
        /\ At(d, Linking)' => /\ At(d, Linking) /\ call'[d].menu = call[d].menu
                              /\ call'[d].users = call[d].users
        /\ At(d, Greeting)' => At(d, Greeting) /\ call'[d].users = call[d].users
  BY DEF OthersStay, LinksKept, At
<1>2. \A d, e \in Calls : d # e /\ At(d, Linking)' /\ At(e, Linking)' => member' \subseteq missed'
  BY <1>1 DEF LinksFit, Grows
<1>3. ASSUME NEW d \in Calls, At(d, Linking)', call'[d].menu \notin removed',
             NEW u \in member' \ missed'
      PROVE  u \in call'[d].users \/ shown'[u] = call'[d].menu
  <2>1. /\ At(d, Linking) /\ call'[d].menu = call[d].menu /\ call'[d].users = call[d].users
        /\ call[d].menu \notin removed /\ u \in member \ missed
    BY <1>1, <1>3 DEF Grows
  <2>2. u \in call[d].users \/ shown[u] = call[d].menu
    BY <2>1 DEF LinksFit
  <2> QED BY <1>3, <2>1, <2>2
<1>4. \A d, e \in Calls : At(d, Linking)' /\ At(e, Greeting)' => call'[e].users \subseteq missed'
  BY <1>1 DEF LinksFit, Grows
<1> QED BY <1>2, <1>3, <1>4 DEF LinksFit

LEMMA StepLinksFit ==
  ASSUME TypeOK, CallsFit, MenusFit, LinksFit, [Next]_vars
  PROVE  LinksFit'
<1> USE DEF At, Linking, Greeting
<1>1. Grows
  BY HistoryGrows
<1>2. CASE UNCHANGED vars
  BY <1>2 DEF vars, world, history, LinksFit
<1>3. ASSUME NEW c \in Calls, CallStep(c) PROVE LinksFit'
  <2>1. ASSUME member' = member, shown' = shown, OthersStay(c), LinksKept(c)
        PROVE  LinksFit'
    BY <1>1, <2>1, LinksFrame
  <2>2. CASE Create(c) \/ Upload(c) \/ Publish(c) \/ SetImage(c) \/ SetDefault(c) \/ Cleanup(c)
    <3>1. member' = member /\ shown' = shown /\ OthersStay(c)
      BY <2>2, CreateStep, UploadStep, PublishStep, SetImageStep, SetDefaultStep, CleanupStep
         DEF Create, Upload, Publish, SetImage, SetDefault, Cleanup, world
    <3>2. call'[c].pc \in {"upload", "publish", "idle", "image", "cleanup", "setDefault", "offCreate"}
      BY <2>2, CreateStep, UploadStep, PublishStep, SetImageStep, SetDefaultStep, CleanupStep
         DEF GoesOn
    <3> QED BY <2>1, <3>1, <3>2 DEF LinksKept
  <2>3. CASE Insert(c) \/ Apply(c) \/ SwitchOn(c) \/ Remove(c) \/ Unstore(c) \/ Drop(c)
    <3>1. member' = member /\ shown' = shown /\ OthersStay(c)
      BY <2>3, InsertStep, ApplyStep, SwitchOnStep, RemoveStep, UnstoreStep, DropStep
         DEF Insert, Apply, SwitchOn, Remove, Unstore, Drop, world
    <3>2. call'[c].pc \in {"idle", "members", "unpublish", "drop"}
      BY <2>3, InsertStep, ApplyStep, SwitchOnStep, RemoveStep, UnstoreStep, DropStep DEF GoesOn
    <3> QED BY <2>1, <3>1, <3>2 DEF LinksKept
  <2>4. CASE SwitchOff(c)
    <3>1. member' = member /\ shown' = shown
      BY <2>4 DEF SwitchOff, world
    <3> QED BY <2>1, <2>4, <3>1, SwitchOffStep DEF LinksKept, GoesOn
  <2>5. CASE ReadActive(c)
    <3>1. member' = member /\ shown' = shown /\ call[c].pc = "greet"
      BY <2>5 DEF ReadActive, world
    <3> QED BY <2>1, <2>5, <3>1, ReadActiveStep DEF LinksKept
  <2>6. CASE Unpublish(c)
    <3>1. call[c].menu \in removed /\ member' = member
      BY <2>6 DEF Unpublish, CallsFit, CallFits, Erasing
    <3>2. member \subseteq Users
      BY DEF TypeOK
    <3>3. OthersStay(c) /\ LinksKept(c)
      BY <2>6, UnpublishStep DEF LinksKept, GoesOn
    <3>4. \A d \in Calls, u \in member \ missed' :
             At(d, Linking) /\ call[d].menu \notin removed /\ shown[u] = call[d].menu =>
               shown'[u] = call[d].menu
      BY <2>6, <3>1, <3>2, UnpublishStep
    <3> QED BY <1>1, <3>1, <3>3, <3>4, LinksFrame
  <2>7. CASE Welcome(c)
    <3>1. PICK u \in call[c].users : Shows(c, u)
      BY <2>7, WelcomeStep
    <3>2. member' = member /\ call[c].pc = "welcome" /\ member \subseteq Users /\ u \in Users
          /\ shown \in [Users -> 0..made]
      BY <2>7, TypeParts DEF Welcome, TypedRest, CallType
    <3>3. \A v \in Users \ {u} : shown'[v] = shown[v]
      BY <3>1, <3>2 DEF Shows
    <3>4. OthersStay(c) /\ LinksKept(c)
      BY <2>7, WelcomeStep DEF LinksKept
    <3>5. \A d \in Calls : At(d, Linking) => u \in missed
      BY <3>1, <3>2 DEF LinksFit
    <3>6. \A d \in Calls, v \in member \ missed' :
             At(d, Linking) /\ call[d].menu \notin removed /\ shown[v] = call[d].menu =>
               shown'[v] = call[d].menu
      BY <1>1, <3>2, <3>3, <3>5 DEF Grows
    <3> QED BY <1>1, <3>2, <3>4, <3>6, LinksFrame
  <2>8. CASE LinkMember(c)
    <3>1. PICK u \in call[c].users : Shows(c, u) /\ call'[c].users = call[c].users \ {u}
      BY <2>8, LinkMemberStep
    <3>2. /\ member' = member /\ removed' = removed /\ call[c].pc = "link"
          /\ member \subseteq Users /\ u \in Users /\ shown \in [Users -> 0..made]
      BY <2>8, TypeParts DEF LinkMember, TypedRest, CallType
    <3>3. /\ \A v \in Users \ {u} : shown'[v] = shown[v]
          /\ shown'[u] = call[c].menu \/ u \in missed'
      BY <3>1, <3>2 DEF Shows
    <3>4. /\ \A d \in Calls \ {c} : call'[d] = call[d]
          /\ call'[c].pc \in {"link", "offApply"} /\ call'[c].menu = call[c].menu
      BY <2>8, LinkMemberStep DEF OthersStay
    <3>5. \A d, e \in Calls : d # e /\ At(d, Linking)' /\ At(e, Linking)' => member' \subseteq missed'
      BY <1>1, <3>2, <3>4 DEF LinksFit, Grows
    <3>6. ASSUME NEW d \in Calls, At(d, Linking)', call'[d].menu \notin removed',
                 NEW v \in member' \ missed'
          PROVE  v \in call'[d].users \/ shown'[v] = call'[d].menu
      <4>1. CASE d = c
        <5>1. v \in call[c].users \/ shown[v] = call[c].menu
          BY <1>1, <3>2, <3>4, <3>6, <4>1 DEF LinksFit, Grows
        <5> QED BY <3>1, <3>2, <3>3, <3>4, <3>6, <4>1, <5>1
      <4>2. CASE d # c
        BY <1>1, <3>2, <3>4, <3>6, <4>2 DEF LinksFit, Grows
      <4> QED BY <4>1, <4>2
    <3>7. \A d, e \in Calls : At(d, Linking)' /\ At(e, Greeting)' => call'[e].users \subseteq missed'
      BY <1>1, <3>2, <3>4 DEF LinksFit, Grows
    <3> QED BY <3>5, <3>6, <3>7 DEF LinksFit
  <2>9. CASE ReadMembers(c)
    <3>1. /\ call'[c].pc \in {"link", "offApply"} /\ call'[c].users = member
          /\ \A d \in Calls \ {c} : call'[d] = call[d]
      BY <2>9, ReadMembersStep DEF OthersStay
    <3>2. member' = member /\ shown' = shown /\ removed' = removed /\ call[c].pc = "members"
      BY <2>9 DEF ReadMembers, world
    <3>3. \A d \in Calls \ {c} : At(d, Linking) => member \subseteq missed'
      BY <2>9 DEF ReadMembers, OthersAt
    <3>4. \A d \in Calls \ {c} : At(d, Greeting) => call[d].users \subseteq missed'
      BY <2>9 DEF ReadMembers, OthersAt, Overlapping
    <3>5. \A d, e \in Calls : d # e /\ At(d, Linking)' /\ At(e, Linking)' => member' \subseteq missed'
      BY <1>1, <3>1, <3>2, <3>3 DEF LinksFit, Grows
    <3>6. \A d \in Calls : At(d, Linking)' =>
             \/ call'[d].menu \in removed'
             \/ \A u \in member' \ missed' : u \in call'[d].users \/ shown'[u] = call'[d].menu
      BY <1>1, <3>1, <3>2 DEF LinksFit, Grows
    <3>7. \A d, e \in Calls : At(d, Linking)' /\ At(e, Greeting)' => call'[e].users \subseteq missed'
      BY <3>1, <3>4
    <3> QED BY <3>5, <3>6, <3>7 DEF LinksFit
  <2>10. CASE Join(c)
    <3>1. PICK u \in Users :
             /\ call'[c].users = {u} /\ member' = member \cup {u}
             /\ missed' = IF OthersAt(c, Linking) = {} THEN missed ELSE missed \cup {u}
      BY <2>10, JoinStep
    <3>2. /\ shown' = shown /\ removed' = removed /\ call'[c].pc = "greet"
          /\ \A d \in Calls \ {c} : call'[d] = call[d]
      BY <2>10, JoinStep DEF Join, OthersStay, world
    <3>3. \A d \in Calls \ {c} : At(d, Linking) => u \in missed'
      BY <3>1 DEF OthersAt
    <3>4. \A d, e \in Calls : d # e /\ At(d, Linking)' /\ At(e, Linking)' => member' \subseteq missed'
      BY <1>1, <3>1, <3>2, <3>3 DEF LinksFit, Grows
    <3>5. \A d \in Calls : At(d, Linking)' =>
             \/ call'[d].menu \in removed'
             \/ \A v \in member' \ missed' : v \in call'[d].users \/ shown'[v] = call'[d].menu
      BY <1>1, <3>1, <3>2, <3>3 DEF LinksFit, Grows
    <3>6. \A d, e \in Calls : At(d, Linking)' /\ At(e, Greeting)' => call'[e].users \subseteq missed'
      BY <1>1, <3>1, <3>2, <3>3 DEF LinksFit, Grows
    <3> QED BY <3>4, <3>5, <3>6 DEF LinksFit
  <2> QED BY <1>3, <2>2, <2>3, <2>4, <2>5, <2>6, <2>7, <2>8, <2>9, <2>10 DEF CallStep
<1>4. CASE Crash
  BY <1>4, CrashStep DEF LinksFit
<1> QED BY <1>2, <1>3, <1>4 DEF Next

-----------------------------------------------------------------------------
(* The menu in force. *)

(* The call that explains why a Member does not see the menu goes on. *)
WitnessKept(c) ==
  /\ At(c, Linking) => At(c, Linking)'
  /\ At(c, Greeting) => At(c, Greeting)' /\ call'[c].users = call[c].users
  /\ At(c, {"welcome"})' => /\ At(c, {"welcome"}) /\ call'[c].menu = call[c].menu
                            /\ call'[c].users = call[c].users

(* No one joins, no menu comes into force, and nobody loses the one in force. *)
LEMMA ShownFrame ==
  ASSUME ShownFits, Grows, NEW c \in Calls, OthersStay(c), WitnessKept(c), member' = member,
         \A m \in Menus : InForce(m)' => InForce(m),
         \A m \in Menus, u \in member \ missed' :
           InForce(m)' /\ shown[u] = m => shown'[u] = m
  PROVE  ShownFits'
<1>1. \A d \in Calls :
        /\ At(d, Linking) => At(d, Linking)'
        /\ At(d, Greeting) => At(d, Greeting)' /\ call'[d].users = call[d].users
        /\ At(d, {"welcome"})' => /\ At(d, {"welcome"}) /\ call'[d].menu = call[d].menu
                                  /\ call'[d].users = call[d].users
  BY DEF OthersStay, WitnessKept, At
<1> SUFFICES ASSUME NEW m \in Menus, InForce(m)'
             PROVE  /\ \A u \in member' \ missed' :
                         \/ shown'[u] = m
                         \/ \E d \in Calls : \/ At(d, Linking)'
                                             \/ At(d, Greeting)' /\ u \in call'[d].users
                    /\ \A d \in Calls : At(d, {"welcome"})' /\ call'[d].menu # m =>
                         call'[d].users \subseteq missed'
  BY DEF ShownFits
<1>2. /\ \A u \in member \ missed :
           \/ shown[u] = m
           \/ \E d \in Calls : At(d, Linking) \/ (At(d, Greeting) /\ u \in call[d].users)
      /\ \A d \in Calls : At(d, {"welcome"}) /\ call[d].menu # m => call[d].users \subseteq missed
  BY DEF ShownFits
<1>3. ASSUME NEW u \in member' \ missed'
      PROVE  \/ shown'[u] = m
             \/ \E d \in Calls : At(d, Linking)' \/ (At(d, Greeting)' /\ u \in call'[d].users)
  BY <1>1, <1>2, <1>3 DEF Grows
<1>4. \A d \in Calls : At(d, {"welcome"})' /\ call'[d].menu # m => call'[d].users \subseteq missed'
  BY <1>1, <1>2 DEF Grows
<1> QED BY <1>3, <1>4

(* A menu that is active now was active before, and applied before. *)
LEMMA ForceKept ==
  ASSUME Grows, applied' = applied, NEW m \in Menus, InForce(m)',
         m \in Active("member")' => m \in Active("member")
  PROVE  InForce(m)
BY DEF InForce, Grows

LEMMA StepShownFits ==
  ASSUME TypeOK, CallsFit, MenusFit, OneSwitches, LinksFit, ShownFits, [Next]_vars
  PROVE  ShownFits'
<1> USE DEF At, Linking, Greeting
<1>1. Grows
  BY HistoryGrows
<1>2. CASE UNCHANGED vars
  BY <1>2 DEF vars, world, history, ShownFits, InForce, Active
<1>3. ASSUME NEW c \in Calls, CallStep(c) PROVE ShownFits'
  <2>1. ASSUME row' = row, applied' = applied, member' = member, shown' = shown,
               OthersStay(c), WitnessKept(c)
        PROVE  ShownFits'
    <3>1. \A m \in Menus : InForce(m)' => InForce(m)
      BY <1>1, <2>1, ForceKept DEF Active
    <3> QED BY <1>1, <2>1, <3>1, ShownFrame
  <2>2. CASE Create(c) \/ Upload(c) \/ Publish(c) \/ SetImage(c) \/ SetDefault(c) \/ Cleanup(c)
    <3>1. row' = row /\ applied' = applied /\ member' = member /\ shown' = shown /\ OthersStay(c)
      BY <2>2, CreateStep, UploadStep, PublishStep, SetImageStep, SetDefaultStep, CleanupStep
         DEF Create, Upload, Publish, SetImage, SetDefault, Cleanup, world, history
    <3>2. call'[c].pc \in {"upload", "publish", "idle", "image", "cleanup", "setDefault", "offCreate"}
      BY <2>2, CreateStep, UploadStep, PublishStep, SetImageStep, SetDefaultStep, CleanupStep
         DEF GoesOn
    <3>3. call[c].pc \in {"idle", "upload", "publish", "image", "setDefault", "cleanup"}
      BY <2>2 DEF Create, Begin, Upload, Publish, SetImage, SetDefault, Cleanup
    <3> QED BY <2>1, <3>1, <3>2, <3>3 DEF WitnessKept
  <2>3. CASE Apply(c) \/ ReadMembers(c) \/ Remove(c) \/ Unstore(c)
    <3>1. row' = row /\ applied' = applied /\ member' = member /\ shown' = shown /\ OthersStay(c)
      BY <2>3, ApplyStep, ReadMembersStep, RemoveStep, UnstoreStep
         DEF Apply, ReadMembers, Remove, Unstore, world, history
    <3>2. call'[c].pc \in {"members", "link", "offApply", "unpublish", "drop"}
      BY <2>3, ApplyStep, ReadMembersStep, RemoveStep, UnstoreStep DEF GoesOn
    <3>3. call[c].pc \in {"idle", "members", "unstore"}
      BY <2>3 DEF Apply, Begin, ReadMembers, Remove, Unstore
    <3> QED BY <2>1, <3>1, <3>2, <3>3 DEF WitnessKept
  <2>4. CASE SwitchOff(c)
    <3>1. applied' = applied /\ member' = member /\ shown' = shown /\ row' = Off(call[c].type)
      BY <2>4 DEF SwitchOff, world
    <3>2. \A m \in Active("member")' : m \in Active("member")
      BY <3>1, OffRows DEF Active
    <3>3. \A m \in Menus : InForce(m)' => InForce(m)
      BY <1>1, <3>1, <3>2, ForceKept
    <3>4. OthersStay(c) /\ WitnessKept(c)
      BY <2>4, SwitchOffStep DEF WitnessKept, GoesOn
    <3> QED BY <1>1, <3>1, <3>3, <3>4, ShownFrame
  <2>5. CASE Drop(c)
    <3>1. applied' = applied /\ member' = member /\ shown' = shown /\ call[c].pc = "drop"
      BY <2>5 DEF Drop, world, history
    <3>2. \A m \in Active("member")' : m \in Active("member")
      BY <2>5, DropStep DEF Active, NoRow
    <3>3. \A m \in Menus : InForce(m)' => InForce(m)
      BY <1>1, <3>1, <3>2, ForceKept
    <3>4. OthersStay(c) /\ WitnessKept(c)
      BY <2>5, <3>1, DropStep DEF WitnessKept
    <3> QED BY <1>1, <3>1, <3>3, <3>4, ShownFrame
  <2>6. CASE Insert(c)
    <3>1. applied' = applied /\ member' = member /\ shown' = shown /\ call[c].pc = "insert"
      BY <2>6 DEF Insert, world, history
    <3>2. call[c].menu # applied
      BY <3>1 DEF MenusFit, WithMenu
    <3>3. ASSUME NEW m \in Menus, InForce(m)' PROVE InForce(m)
      <4>1. m # call[c].menu
        BY <3>1, <3>2, <3>3 DEF InForce
      <4>2. m \in Active("member")' => m \in Active("member")
        BY <2>6, <4>1, InsertStep DEF Active
      <4> QED BY <1>1, <3>1, <3>3, <4>2, ForceKept
    <3>4. OthersStay(c) /\ WitnessKept(c)
      BY <2>6, <3>1, InsertStep DEF WitnessKept
    <3> QED BY <1>1, <3>1, <3>3, <3>4, ShownFrame
  <2>7. CASE Unpublish(c)
    <3>1. /\ call[c].menu \in removed /\ call[c].pc = "unpublish" /\ member \subseteq Users
          /\ row' = row /\ applied' = applied /\ member' = member /\ removed' = removed
      BY <2>7 DEF Unpublish, CallsFit, CallFits, Erasing, TypeOK, history
    <3>2. \A m \in Menus : InForce(m)' => InForce(m) /\ m \notin removed
      BY <1>1, <3>1, ForceKept DEF Active, InForce
    <3>3. OthersStay(c) /\ WitnessKept(c)
      BY <2>7, <3>1, UnpublishStep DEF WitnessKept, GoesOn
    <3>4. \A m \in Menus, u \in member \ missed' : InForce(m)' /\ shown[u] = m => shown'[u] = m
      BY <2>7, <3>1, <3>2, UnpublishStep
    <3> QED BY <1>1, <3>1, <3>2, <3>3, <3>4, ShownFrame
  <2>8. CASE LinkMember(c)
    <3>1. row' = row /\ applied' = applied /\ member' = member
      BY <2>8 DEF LinkMember
    <3>2. /\ \A d \in Calls \ {c} : call'[d] = call[d]
          /\ call'[c].pc \in {"link", "offApply"}
      BY <2>8, LinkMemberStep DEF OthersStay
    <3>3. \A m \in Menus : InForce(m)' => InForce(m)
      BY <1>1, <3>1, ForceKept DEF Active
    <3>4. \A m \in Menus : InForce(m)' =>
             \A d \in Calls : At(d, {"welcome"})' /\ call'[d].menu # m => call'[d].users \subseteq missed'
      BY <1>1, <3>2, <3>3 DEF ShownFits, Grows
    <3> QED BY <3>2, <3>4 DEF ShownFits
  <2>9. CASE SwitchOn(c)
    <3>1. /\ member' = member /\ shown' = shown /\ removed' = removed /\ missed' = missed
          /\ crossed' = crossed /\ call[c].pc = "on" /\ call'[c].pc = "idle"
          /\ \A d \in Calls \ {c} : call'[d] = call[d]
      BY <2>9, SwitchOnStep DEF SwitchOn, OthersStay, world
    <3>2. call[c].type = "member" /\ call[c].users = {}
      BY <3>1 DEF CallsFit, CallFits
    <3>3. "member" \notin crossed => Active("member") = {}
      BY <3>1, <3>2 DEF OneSwitches, Switching, Types
    <3> SUFFICES ASSUME NEW m \in Menus, InForce(m)'
                 PROVE  /\ \A u \in member' \ missed' : shown'[u] = m
                        /\ \A d \in Calls : At(d, {"welcome"})' /\ call'[d].menu # m =>
                             call'[d].users \subseteq missed'
      BY DEF ShownFits
    <3>4. applied' = call[c].menu
      <4>1. CASE row' = row /\ applied' = applied
        <5>1. InForce(m)
          BY <1>1, <4>1, ForceKept DEF Active
        <5> QED BY <3>3, <5>1 DEF InForce
      <4> QED BY <2>9, <4>1, SwitchOnStep
    <3>5. m = call[c].menu /\ m \notin removed
      BY <3>1, <3>4 DEF InForce
    <3>6. \A u \in member' \ missed' : shown'[u] = m
      BY <3>1, <3>2, <3>5 DEF LinksFit
    <3>7. \A d \in Calls : At(d, {"welcome"})' /\ call'[d].menu # m => call'[d].users \subseteq missed'
      BY <3>1 DEF LinksFit
    <3> QED BY <3>6, <3>7
  <2>10. CASE Join(c)
    <3>1. PICK u \in Users : call'[c].users = {u} /\ member' = member \cup {u}
      BY <2>10, JoinStep
    <3>2. /\ row' = row /\ shown' = shown /\ applied' = applied /\ call[c].pc = "idle"
          /\ call'[c].pc = "greet" /\ \A d \in Calls \ {c} : call'[d] = call[d]
      BY <2>10, JoinStep DEF Join, Begin, OthersStay, world
    <3> SUFFICES ASSUME NEW m \in Menus, InForce(m)'
                 PROVE  /\ \A v \in member' \ missed' :
                             \/ shown'[v] = m
                             \/ \E d \in Calls : \/ At(d, Linking)'
                                                 \/ At(d, Greeting)' /\ v \in call'[d].users
                        /\ \A d \in Calls : At(d, {"welcome"})' /\ call'[d].menu # m =>
                             call'[d].users \subseteq missed'
      BY DEF ShownFits
    <3>3. InForce(m)
      BY <1>1, <3>2, ForceKept DEF Active
    <3>4. ASSUME NEW v \in member' \ missed'
          PROVE  \/ shown'[v] = m
                 \/ \E d \in Calls : At(d, Linking)' \/ (At(d, Greeting)' /\ v \in call'[d].users)
      <4>1. CASE v = u
        BY <3>1, <3>2, <4>1
      <4>2. CASE v # u
        <5>1. \/ shown[v] = m
              \/ \E d \in Calls : At(d, Linking) \/ (At(d, Greeting) /\ v \in call[d].users)
          BY <1>1, <3>1, <3>3, <3>4, <4>2 DEF ShownFits, Grows
        <5> QED BY <3>2, <5>1
      <4> QED BY <4>1, <4>2
    <3>5. \A d \in Calls : At(d, {"welcome"})' /\ call'[d].menu # m => call'[d].users \subseteq missed'
      BY <1>1, <3>2, <3>3 DEF ShownFits, Grows
    <3> QED BY <3>4, <3>5
  <2>11. CASE ReadActive(c)
    <3>1. /\ row' = row /\ shown' = shown /\ applied' = applied /\ member' = member
          /\ missed' = missed /\ call[c].pc = "greet"
          /\ \A d \in Calls \ {c} : call'[d] = call[d]
      BY <2>11, ReadActiveStep DEF ReadActive, OthersStay, world, history
    <3>2. \A m \in Menus : InForce(m)' => InForce(m)
      BY <1>1, <3>1, ForceKept DEF Active
    <3>3. CASE Active("member") = {}
      BY <3>2, <3>3 DEF ShownFits, InForce
    <3>4. CASE Active("member") # {}
      <4>1. /\ call'[c].pc = "welcome" /\ call'[c].users = call[c].users
            /\ call'[c].menu \in Active("member")
        BY <2>11, <3>4, ReadActiveStep
      <4> SUFFICES ASSUME NEW m \in Menus, InForce(m)'
                   PROVE  /\ \A v \in member' \ missed' :
                               \/ shown'[v] = m
                               \/ \E d \in Calls : \/ At(d, Linking)'
                                                   \/ At(d, Greeting)' /\ v \in call'[d].users
                          /\ \A d \in Calls : At(d, {"welcome"})' /\ call'[d].menu # m =>
                               call'[d].users \subseteq missed'
        BY DEF ShownFits
      <4>2. call'[c].menu = m
        BY <3>2, <4>1 DEF InForce, OneSwitches, Types
      <4>3. \A v \in member' \ missed' :
              \/ shown'[v] = m
              \/ \E d \in Calls : At(d, Linking)' \/ (At(d, Greeting)' /\ v \in call'[d].users)
        BY <3>1, <3>2, <4>1 DEF ShownFits
      <4>4. \A d \in Calls : At(d, {"welcome"})' /\ call'[d].menu # m => call'[d].users \subseteq missed'
        BY <3>1, <3>2, <4>2 DEF ShownFits
      <4> QED BY <4>3, <4>4
    <3> QED BY <3>3, <3>4
  <2>12. CASE Welcome(c)
    <3>1. PICK u \in call[c].users : Shows(c, u)
      BY <2>12, WelcomeStep
    <3>2. /\ row' = row /\ applied' = applied /\ member' = member /\ call[c].pc = "welcome"
          /\ member \subseteq Users /\ u \in Users /\ shown \in [Users -> 0..made]
          /\ call'[c].pc = "idle" /\ \A d \in Calls \ {c} : call'[d] = call[d]
      BY <2>12, WelcomeStep, TypeParts DEF Welcome, TypedRest, CallType, OthersStay
    <3>3. /\ \A v \in Users \ {u} : shown'[v] = shown[v]
          /\ shown'[u] = call[c].menu \/ u \in missed'
      BY <3>1, <3>2 DEF Shows
    <3>4. \A v \in call[c].users : v = u
      BY <3>2 DEF CallsFit, CallFits
    <3> SUFFICES ASSUME NEW m \in Menus, InForce(m)'
                 PROVE  /\ \A v \in member' \ missed' :
                             \/ shown'[v] = m
                             \/ \E d \in Calls : \/ At(d, Linking)'
                                                 \/ At(d, Greeting)' /\ v \in call'[d].users
                        /\ \A d \in Calls : At(d, {"welcome"})' /\ call'[d].menu # m =>
                             call'[d].users \subseteq missed'
      BY DEF ShownFits
    <3>5. InForce(m)
      BY <1>1, <3>2, ForceKept DEF Active
    <3>6. u \in missed' \/ shown'[u] = m
      <4>1. call[c].menu # m => u \in missed
        BY <3>1, <3>2, <3>5 DEF ShownFits
      <4> QED BY <1>1, <3>3, <4>1 DEF Grows
    <3>7. ASSUME NEW v \in member' \ missed', v # u
          PROVE  \/ shown'[v] = m
                 \/ \E d \in Calls : At(d, Linking)' \/ (At(d, Greeting)' /\ v \in call'[d].users)
      <4>1. \/ shown[v] = m
            \/ \E d \in Calls : At(d, Linking) \/ (At(d, Greeting) /\ v \in call[d].users)
        BY <1>1, <3>2, <3>5, <3>7 DEF ShownFits, Grows
      <4>2. CASE shown[v] = m
        BY <3>2, <3>3, <3>7, <4>2
      <4>3. CASE \E d \in Calls : At(d, Linking) \/ (At(d, Greeting) /\ v \in call[d].users)
        BY <3>2, <3>4, <3>7, <4>3
      <4> QED BY <4>1, <4>2, <4>3
    <3>8. \A d \in Calls : At(d, {"welcome"})' /\ call'[d].menu # m => call'[d].users \subseteq missed'
      BY <1>1, <3>2, <3>5 DEF ShownFits, Grows
    <3> QED BY <3>6, <3>7, <3>8
  <2> QED BY <1>3, <2>2, <2>3, <2>4, <2>5, <2>6, <2>7, <2>8, <2>9, <2>10, <2>11, <2>12 DEF CallStep
<1>4. CASE Crash
  <2>1. UNCHANGED <<row, shown, applied, member>> /\ \A c \in Calls : call'[c].pc = "idle"
    BY <1>4, CrashStep DEF Crash, world
  <2>2. /\ (\E c \in Calls : At(c, Linking)) => member \subseteq missed'
        /\ \A c \in Calls : call[c].users \subseteq missed'
    BY <1>4 DEF Crash, Overlapping
  <2> SUFFICES ASSUME NEW m \in Menus, InForce(m)', NEW u \in member' \ missed'
               PROVE  shown'[u] = m
    BY <2>1 DEF ShownFits
  <2>3. InForce(m)
    BY <1>1, <2>1, ForceKept DEF Active
  <2> QED BY <1>1, <2>1, <2>2, <2>3 DEF ShownFits, Grows
<1> QED BY <1>2, <1>3, <1>4 DEF Next

-----------------------------------------------------------------------------
(* The invariant and what it says. *)

LEMMA InitMenuInv == Init => MenuInv
<1> SUFFICES ASSUME Init PROVE MenuInv
  OBVIOUS
<1>1. TypeOK
  <2>1. CallAt("idle", "none", NoKey, NoMenu, {}) \in CallType(made) /\ Free.pc = "idle"
    BY DEF Init, CallType, CallAt, Free, CallPc, NoKey, NoMenu
  <2>2. call \in [Calls -> CallType(made)] /\ \A c \in Calls : call[c].pc = "idle"
    BY <2>1 DEF Init, Free
  <2>3. TypedRest
    <3>1. MaxMenus \in Nat /\ MaxTime \in Nat /\ MaxFaults \in Nat
      BY BoundsAssumption
    <3>2. row \in [Menus -> Rows] /\ made \in 0..MaxMenus /\ 0 \in 0..made
      BY <3>1 DEF Init, Rows
    <3>3. shown \in [Users -> 0..made] /\ default \in 0..made /\ applied \in 0..made
      BY <3>2 DEF Init, NoMenu
    <3>4. now \in 0..MaxTime /\ faults \in 0..MaxFaults
      BY <3>1 DEF Init
    <3> QED BY <3>2, <3>3, <3>4 DEF Init, TypedRest
  <2> QED BY <2>2, <2>3, TypeParts DEF NoMenuPc
<1>2. \A c \in Calls : call[c].pc = "idle"
  BY DEF Init, Free, CallAt
<1>3. \A m \in Menus : row[m] = NoRow /\ ~ row[m].active
  BY DEF Init, NoRow
<1>4. CallsFit
  BY <1>2 DEF CallsFit, CallFits, At, WithImage, Linking, Greeting, Erasing
<1>5. MenusFit
  BY <1>2, <1>3 DEF MenusFit, At, WithMenu, Linking
<1>6. \A t : Active(t) = {}
  BY <1>3 DEF Active
<1>7. OneSwitches
  BY <1>2, <1>6 DEF OneSwitches, Switching, At
<1>8. KeysFit
  BY <1>2, <1>3 DEF KeysFit, At, WithImage, Erasing
<1>9. Backed
  BY <1>2, <1>3 DEF Backed, RowsAreBacked, At, WithImage
<1>10. DefaultFits
  BY <1>2, <1>6 DEF DefaultFits, ActiveIsDefault, At
<1>11. LinksFit
  BY <1>2 DEF LinksFit, At, Linking
<1>12. ShownFits
  BY <1>2, <1>6 DEF ShownFits, InForce, At
<1> QED BY <1>1, <1>4, <1>5, <1>7, <1>8, <1>9, <1>10, <1>11, <1>12 DEF MenuInv

LEMMA StepMenuInv == MenuInv /\ [Next]_vars => MenuInv'
BY StepTypeOK, StepCallsFit, StepMenusFit, StepOneSwitches, StepKeysFit, StepBacked,
   StepDefaultFits, StepLinksFit, StepShownFits DEF MenuInv

LEMMA MenuInvInvariant == Spec => []MenuInv
BY InitMenuInv, StepMenuInv, PTL DEF Spec

(* One menu of a type is active, which is what OneActive counts. *)
LEMMA OneIsActive == MenuInv => OneActive
<1> SUFFICES ASSUME MenuInv, NEW t \in Types \ crossed PROVE Cardinality(Active(t)) <= 1
  BY DEF OneActive
<1>1. \A m, n \in Active(t) : m = n
  BY DEF MenuInv, OneSwitches
<1>2. CASE Active(t) = {}
  <2>1. Cardinality(Active(t)) = 0
    BY <1>2, FS_EmptySet
  <2> QED BY <2>1
<1>3. CASE Active(t) # {}
  <2>1. PICK m \in Active(t) : Active(t) = {m}
    BY <1>1, <1>3
  <2>2. Cardinality({m}) = 1
    BY FS_Singleton
  <2> QED BY <2>1, <2>2
<1> QED BY <1>2, <1>3

(* The menu in force is the one of AppliedIsShown. *)
LEMMA ForceIsShown == MenuInv => AppliedIsShown
<1> SUFFICES ASSUME MenuInv, NEW m \in Active("member") \ removed,
                    m = applied, "member" \notin crossed, NEW u \in member \ missed
             PROVE  \/ shown[u] = m
                    \/ \E c \in Calls : \/ u \in call[c].users
                                        \/ call[c].pc \in {"members", "link", "offApply", "on"}
  BY DEF AppliedIsShown
<1>1. m \in Menus /\ InForce(m)
  BY DEF InForce, Active
<1> QED BY <1>1 DEF MenuInv, ShownFits, At, Linking

(* Rows, calls and menus have their types, and a call that goes on with a menu   *)
(* goes on with one that LINE has made.                                         *)
THEOREM MenuTypesHold == Spec => []TypeOK
<1>1. MenuInv => TypeOK
  BY DEF MenuInv
<1> QED BY <1>1, MenuInvInvariant, PTL

(* The updateMany before the insert of create() and before the update of         *)
(* applyMemberMenu() leaves one active menu of a type, unless two calls switched  *)
(* menus of that type at once.                                                  *)
THEOREM OneMenuIsActive == Spec => []OneActive
BY OneIsActive, MenuInvInvariant, PTL

(* No crash, refused call or removal of another menu takes away the image or the *)
(* menu at LINE of a row: only an upload in the same millisecond can.            *)
THEOREM RowsHaveTheirParts == Spec => []RowsAreBacked
<1>1. MenuInv => RowsAreBacked
  BY DEF MenuInv, Backed
<1> QED BY <1>1, MenuInvInvariant, PTL

(* The row of the active default menu and LINE's default menu differ only while  *)
(* create() is between the two, when one stopped there, when two overlapped, and  *)
(* for a menu that is being removed.                                            *)
THEOREM DefaultIsTheActiveOne == Spec => []ActiveIsDefault
<1>1. MenuInv => ActiveIsDefault
  BY DEF MenuInv, DefaultFits
<1> QED BY <1>1, MenuInvInvariant, PTL

(* applyMemberMenu() and the link of a new Member together leave no Member        *)
(* without the menu in force, but for those whose link failed, was cut off or     *)
(* overlapped another call.                                                     *)
THEOREM AppliedMenuIsShown == Spec => []AppliedIsShown
BY ForceIsShown, MenuInvInvariant, PTL
=============================================================================
