------------------------------ MODULE RichMenu ------------------------------
(***************************************************************************)
(* create(), applyMemberMenu() and remove() of RichMenuService, and the link *)
(* of a new Member in MemberLoginService.  A rich menu is a row of rich_menus, *)
(* a menu at LINE and an image in the object storage, written one by one     *)
(* without a transaction.                                                    *)
(*                                                                         *)
(* The calls interleave at every await.  LINE and the storage can refuse any  *)
(* call, or do it and lose the answer.                                       *)
(***************************************************************************)
EXTENDS Naturals, FiniteSets

CONSTANTS
  Users,     \* LINE users that can become Members
  Calls,     \* calls that can overlap in the API process
  MaxMenus,  \* bound on the menus made at LINE
  MaxTime,   \* bound on the milliseconds in which an image is uploaded
  MaxFaults  \* bound on the errors and crashes in one behaviour

ASSUME BoundsAssumption == {MaxMenus, MaxTime, MaxFaults} \subseteq Nat

Types  == {"default", "member"}
Menus  == 1..MaxMenus
NoMenu == 0
Keys   == 1..MaxTime     \* the name of an image is the millisecond of its upload
NoKey  == 0

VARIABLES
  row,      \* rich_menus
  made,     \* how many menus LINE has made
  atLine,   \* those of them that LINE still has
  default,  \* LINE's default rich menu
  shown,    \* the menu that LINE links to a user
  member,   \* users with status following and userType Member
  images,   \* objects in the storage
  now,      \* the millisecond of the last upload
  call,     \* the calls in flight
  faults,   \* errors of LINE and of the storage, and crashes, so far
  applied,  \* history: the menu of the last applyMemberMenu() that returned
  removed,  \* history: menus that remove() has been called for
  shared,   \* history: the names that two uploads have used
  crossed,  \* history: types that two calls were switching at once
  halted,   \* history: a create set LINE's default and did not come to its row
  missed    \* history: users whose link failed or overlapped an apply

world   == <<atLine, made, default, shown, images, now>>
history == <<applied, removed, shared, crossed, halted, missed>>
vars    == <<row, world, member, call, faults, history>>

NoRow == [type |-> "none", active |-> FALSE, key |-> NoKey]

Rows == {NoRow} \cup [type : Types, active : BOOLEAN, key : Keys]

CallPc ==
  {"idle",
   "upload", "publish", "image", "setDefault", "cleanup", "insert",  \* create()
   "members", "link", "on",                                          \* applyMemberMenu()
   "unpublish", "unstore", "drop",                                   \* remove()
   "greet", "welcome",                                               \* a new Member
   "offCreate", "offApply"}                                          \* the updateMany

CallAt(pc, type, key, menu, users) ==
  [pc |-> pc, type |-> type, key |-> key, menu |-> menu, users |-> users]

Free == CallAt("idle", "none", NoKey, NoMenu, {})

(* The type invariant; a call that goes on with a menu goes on with one that    *)
(* LINE has made.                                                              *)
TypeOK ==
  /\ row     \in [Menus -> Rows]
  /\ made    \in 0..MaxMenus
  /\ atLine  \subseteq 1..made
  /\ default \in 0..made
  /\ shown   \in [Users -> 0..made]
  /\ member  \subseteq Users
  /\ images  \subseteq Keys /\ now \in 0..MaxTime /\ faults \in 0..MaxFaults
  /\ call    \in [Calls -> [pc : CallPc, type : Types \cup {"none"}, key : Keys \cup {NoKey},
                            menu : 0..made, users : SUBSET Users]]
  /\ \A c \in Calls : call[c].pc \notin {"idle", "upload", "publish", "cleanup", "greet"} =>
                        call[c].menu # NoMenu
  /\ applied \in 0..made /\ removed \subseteq 1..made
  /\ shared \subseteq Keys /\ crossed \subseteq Types
  /\ halted \in BOOLEAN /\ missed \subseteq Users

Init ==
  /\ row = [m \in Menus |-> NoRow]
  /\ made = 0 /\ atLine = {} /\ default = NoMenu
  /\ shown = [u \in Users |-> NoMenu] /\ member = {}
  /\ images = {} /\ now = 0 /\ faults = 0
  /\ call = [c \in Calls |-> Free]
  /\ applied = NoMenu /\ removed = {} /\ shared = {} /\ crossed = {}
  /\ halted = FALSE /\ missed = {}

Begin(c, k) == call[c].pc = "idle" /\ call' = [call EXCEPT ![c] = k]

Continue(c, pc) == call' = [call EXCEPT ![c].pc = pc]

Return(c) == call' = [call EXCEPT ![c] = Free]

(* The calls other than c that are at one of the points pcs. *)
OthersAt(c, pcs) == {d \in Calls \ {c} : call[d].pc \in pcs}

(* One more error or crash. *)
Fault == faults < MaxFaults /\ faults' = faults + 1

Active(t) == {m \in Menus : row[m].type = t /\ row[m].active}

-----------------------------------------------------------------------------
(* create(). *)

(* The request is valid as far as it is checked before the upload. *)
Create(c) == \E t \in Types :
  /\ Begin(c, CallAt("upload", t, NoKey, NoMenu, {}))
  /\ UNCHANGED <<row, world, member, faults, history>>

(* The upload, in the millisecond of the last one or in a later one.            *)
(* buildLineAction() throws after it for a link without its uri.               *)
Upload(c) == \E k \in Keys \cap {now, now + 1} :
  /\ call[c].pc = "upload"
  /\ \/ /\ images' = images \cup {k}
        /\ shared' = IF k = now THEN shared \cup {k} ELSE shared
        /\ now'    = k
        /\ \/ call' = [call EXCEPT ![c].pc = "publish", ![c].key = k]
           \/ Return(c)
        /\ UNCHANGED faults
     \/ Return(c) /\ Fault /\ UNCHANGED <<images, shared, now>>
  /\ UNCHANGED <<row, atLine, made, default, shown, member,
                 applied, removed, crossed, halted, missed>>

(* createRichMenu(). *)
Publish(c) ==
  /\ call[c].pc = "publish"
  /\ \/ /\ made < MaxMenus
        /\ made' = made + 1
        /\ atLine' = atLine \cup {made'}
        /\ \/ call' = [call EXCEPT ![c].pc = "image", ![c].menu = made'] /\ UNCHANGED faults
           \/ Continue(c, "cleanup") /\ Fault
     \/ Continue(c, "cleanup") /\ Fault /\ UNCHANGED <<made, atLine>>
  /\ UNCHANGED <<row, default, shown, images, now, member, history>>

(* Faulty form: LINE's default menu is not set. *)
FaultyAfterImage(c) == "offCreate"

AfterImage(c) == IF call[c].type = "default" THEN "setDefault" ELSE "offCreate"

(* setRichMenuImage(). *)
SetImage(c) ==
  /\ call[c].pc = "image"
  /\ \/ /\ Continue(c, AfterImage(c))
        /\ UNCHANGED faults
     \/ Continue(c, "cleanup") /\ Fault
  /\ UNCHANGED <<row, world, member, history>>

(* setDefaultRichMenu(). *)
SetDefault(c) ==
  /\ call[c].pc = "setDefault"
  /\ \/ /\ default' = call[c].menu
        /\ crossed' = IF \E d \in OthersAt(c, {"offCreate", "insert"}) : call[d].type = "default"
                      THEN crossed \cup {"default"} ELSE crossed
        /\ \/ Continue(c, "offCreate") /\ UNCHANGED <<halted, faults>>
           \/ Continue(c, "cleanup") /\ Fault /\ halted' = TRUE
     \/ Continue(c, "cleanup") /\ Fault /\ UNCHANGED <<default, crossed, halted>>
  /\ UNCHANGED <<row, atLine, made, shown, images, now, member,
                 applied, removed, shared, missed>>

(* Faulty form: the catch block does not throw the error on. *)
FaultyAfterCleanup(c) == [call[c] EXCEPT !.pc = "offCreate"]

AfterCleanup(c) == Free

(* The catch block deletes the image; an error of that is logged. *)
Cleanup(c) ==
  /\ call[c].pc = "cleanup"
  /\ \/ images' = images \ {call[c].key} /\ UNCHANGED faults
     \/ Fault /\ UNCHANGED images
  /\ call' = [call EXCEPT ![c] = AfterCleanup(c)]
  /\ UNCHANGED <<row, atLine, made, default, shown, now, member, history>>

(* Faulty form: nothing is switched off. *)
FaultyOff(t) == row

(* updateMany(): the active menus of type t are active no longer. *)
Off(t) == [m \in Menus |-> IF m \in Active(t) THEN [row[m] EXCEPT !.active = FALSE] ELSE row[m]]

(* The updateMany of create() and of applyMemberMenu(). *)
SwitchOff(c) == LET t == call[c].type IN
  /\ call[c].pc \in {"offCreate", "offApply"}
  /\ row' = Off(t)
  /\ crossed' = IF \E d \in OthersAt(c, {"insert", "on"}) : call[d].type = t
                THEN crossed \cup {t} ELSE crossed
  /\ Continue(c, IF call[c].pc = "offCreate" THEN "insert" ELSE "on")
  /\ UNCHANGED <<world, member, applied, removed, shared, halted, missed, faults>>

Insert(c) ==
  /\ call[c].pc = "insert"
  /\ row' = [row EXCEPT ![call[c].menu] = [type |-> call[c].type, active |-> TRUE,
                                           key |-> call[c].key]]
  /\ Return(c)
  /\ UNCHANGED <<world, member, history, faults>>

-----------------------------------------------------------------------------
(* applyMemberMenu(). *)

Apply(c) == \E m \in Menus :
  /\ row[m].type = "member"
  /\ Begin(c, CallAt("members", "member", NoKey, m, {}))
  /\ UNCHANGED <<row, world, member, history, faults>>

(* A link call of one of the calls cs is in flight: whoever it is for may end    *)
(* up with either menu.                                                        *)
Overlapping(cs) == UNION {call[d].users : d \in cs}

(* The findMany of the Members. *)
ReadMembers(c) ==
  /\ call[c].pc = "members"
  /\ call' = [call EXCEPT ![c].pc = IF member = {} THEN "offApply" ELSE "link",
                          ![c].users = member]
  /\ missed' = missed \cup Overlapping(OthersAt(c, {"greet", "welcome"}))
                     \cup IF OthersAt(c, {"link", "offApply", "on"}) = {} THEN {} ELSE member
  /\ UNCHANGED <<row, world, member, applied, removed, shared, crossed, halted, faults>>

(* Faulty form: the loop ends with the first error. *)
FaultyUsersLeft(c, u, ok) == IF ok THEN call[c].users \ {u} ELSE {}

UsersLeft(c, u, ok) == call[c].users \ {u}

(* LINE links menu m to u, unless m is gone there. *)
Link(u, m) == m \in atLine /\ shown' = [shown EXCEPT ![u] = m]

Refused(u, m) ==
  /\ IF m \in atLine THEN Fault ELSE UNCHANGED faults
  /\ missed' = missed \cup {u}
  /\ UNCHANGED shown

(* One turn of the loop; an error is logged. *)
LinkMember(c) == \E u \in call[c].users, ok \in BOOLEAN :
  /\ call[c].pc = "link"
  /\ IF ok THEN Link(u, call[c].menu) /\ UNCHANGED <<missed, faults>>
           ELSE Refused(u, call[c].menu)
  /\ call' = [call EXCEPT ![c].pc = IF UsersLeft(c, u, ok) = {} THEN "offApply" ELSE "link",
                          ![c].users = UsersLeft(c, u, ok)]
  /\ UNCHANGED <<row, atLine, made, default, images, now, member,
                 applied, removed, shared, crossed, halted>>

(* The update by id throws when the row is gone. *)
SwitchOn(c) == LET m == call[c].menu IN
  /\ call[c].pc = "on"
  /\ IF row[m] = NoRow THEN UNCHANGED <<row, applied>>
     ELSE row' = [row EXCEPT ![m].active = TRUE] /\ applied' = m
  /\ Return(c)
  /\ UNCHANGED <<world, member, removed, shared, crossed, halted, missed, faults>>

-----------------------------------------------------------------------------
(* remove(). *)

Remove(c) == \E m \in Menus :
  /\ row[m] # NoRow
  /\ Begin(c, CallAt("unpublish", row[m].type, row[m].key, m, {}))
  /\ removed' = removed \cup {m}
  /\ UNCHANGED <<row, world, member, applied, shared, crossed, halted, missed, faults>>

(* deleteRichMenu(): LINE unlinks the menu.  An error is logged. *)
Unpublish(c) == LET m == call[c].menu IN
  /\ call[c].pc = "unpublish"
  /\ \/ /\ atLine'  = atLine \ {m}
        /\ default' = IF default = m THEN NoMenu ELSE default
        /\ shown'   = [u \in Users |-> IF shown[u] = m THEN NoMenu ELSE shown[u]]
        /\ UNCHANGED faults
     \/ Fault /\ UNCHANGED <<atLine, default, shown>>
  /\ Continue(c, "unstore")
  /\ UNCHANGED <<row, made, images, now, member, history>>

(* The image is deleted; an error is logged. *)
Unstore(c) ==
  /\ call[c].pc = "unstore"
  /\ \/ images' = images \ {call[c].key} /\ UNCHANGED faults
     \/ Fault /\ UNCHANGED images
  /\ Continue(c, "drop")
  /\ UNCHANGED <<row, atLine, made, default, shown, now, member, history>>

(* The delete throws when the row is gone. *)
Drop(c) ==
  /\ call[c].pc = "drop"
  /\ row' = [row EXCEPT ![call[c].menu] = NoRow]
  /\ Return(c)
  /\ UNCHANGED <<world, member, history, faults>>

-----------------------------------------------------------------------------
(* linkMemberRichMenu() after the promotion, also of someone who is a Member.   *)

Join(c) == \E u \in Users :
  /\ Begin(c, CallAt("greet", "member", NoKey, NoMenu, {u}))
  /\ member' = member \cup {u}
  /\ missed' = IF OthersAt(c, {"link", "offApply", "on"}) = {} THEN missed ELSE missed \cup {u}
  /\ UNCHANGED <<row, world, applied, removed, shared, crossed, halted, faults>>

(* findFirst takes any of the active member menus. *)
ReadActive(c) ==
  /\ call[c].pc = "greet"
  /\ \/ \E m \in Active("member") :
          call' = [call EXCEPT ![c].pc = "welcome", ![c].menu = m]
     \/ Active("member") = {} /\ Return(c)
  /\ UNCHANGED <<row, world, member, history, faults>>

Welcome(c) == \E u \in call[c].users :
  /\ call[c].pc = "welcome"
  /\ \/ Link(u, call[c].menu) /\ UNCHANGED <<missed, faults>>
     \/ Refused(u, call[c].menu)
  /\ Return(c)
  /\ UNCHANGED <<row, atLine, made, default, images, now, member,
                 applied, removed, shared, crossed, halted>>

-----------------------------------------------------------------------------
(* The API process dies with the calls in flight. *)
Crash ==
  /\ Fault
  /\ \E c \in Calls : call[c].pc # "idle"
  /\ call' = [c \in Calls |-> Free]
  /\ halted' = (halted \/ \E c \in Calls : /\ call[c].pc \in {"offCreate", "insert"}
                                          /\ call[c].type = "default")
  /\ missed' = missed \cup Overlapping(Calls)
                     \cup (IF \E c \in Calls : call[c].pc \in {"link", "offApply", "on"} THEN member ELSE {})
  /\ UNCHANGED <<row, world, member, applied, removed, shared, crossed>>

CallStep(c) ==
  \/ Create(c) \/ Upload(c) \/ Publish(c) \/ SetImage(c) \/ SetDefault(c) \/ Cleanup(c)
  \/ SwitchOff(c) \/ Insert(c)
  \/ Apply(c) \/ ReadMembers(c) \/ LinkMember(c) \/ SwitchOn(c)
  \/ Remove(c) \/ Unpublish(c) \/ Unstore(c) \/ Drop(c)
  \/ Join(c) \/ ReadActive(c) \/ Welcome(c)

Next == (\E c \in Calls : CallStep(c)) \/ Crash

Spec == Init /\ [][Next]_vars

-----------------------------------------------------------------------------
(* At most one menu of each type is active, except where two calls switched     *)
(* menus of that type at once.                                                 *)
OneActive == \A t \in Types \ crossed : Cardinality(Active(t)) <= 1

(* A row has its image and its menu at LINE, from the moment it is inserted      *)
(* until remove() is called for it; only a create in the same millisecond, with  *)
(* the same name for its image, can take the image away.                       *)
RowsAreBacked ==
  \A m \in Menus \ removed : row[m] # NoRow =>
    m \in atLine /\ (row[m].key \in images \/ row[m].key \in shared)

(* The active default menu is the one that LINE shows, but for a create that has *)
(* just set its own, one that came no further, overlapping creates and remove(). *)
ActiveIsDefault ==
  \A m \in Active("default") \ removed :
    \/ default = m
    \/ halted \/ "default" \in crossed
    \/ \E c \in Calls : call[c].pc = "offCreate" /\ call[c].type = "default"

(* The menu that was applied last is linked to every Member as long as it is the *)
(* active one, except for users whose link failed, was cut off or overlapped.   *)
AppliedIsShown ==
  \A m \in Active("member") \ removed :
    m = applied /\ "member" \notin crossed =>
      \A u \in member \ missed :
        \/ shown[u] = m
        \/ \E c \in Calls : u \in call[c].users \/ call[c].pc \in {"members", "link", "offApply", "on"}
=============================================================================
