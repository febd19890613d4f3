--------------------------------- MODULE Api ---------------------------------
(***************************************************************************)
(* The smaller parts of the API: the audiences, the caches of the lists,   *)
(* the status of a follower, and the functions that compute an answer from *)
(* their arguments.  The parts share nothing: "part" says which one a      *)
(* behaviour is about, and the variables of the others rest.  A behaviour  *)
(* of the functions is a state without a step, with one of the inputs.     *)
(***************************************************************************)
EXTENDS Audiences, ListCaches, Follows, DashboardTrend, RichMenuLayout, MessageTemplates

CONSTANT Inputs   \* the arguments the functions are called with

(* What they may be: an audience whose number is asked for; a query of the *)
(* overview at a time for which the calendar has a month, and the rows of  *)
(* broadcasts; the areas of a menu and the size its image turned out to    *)
(* have; the blocks of a template.                                         *)
CountInputs == [about : {"count"}, type : WritableTypes, criteria : StoredCriteria]

OverviewInputs ==
  {i \in [about : {"overview"}, query : Queries, now : Int, broadcasts : Seq(BroadcastRows)] :
     \E m \in MonthStarts : m <= BangkokDay(i.now)}

LayoutInputs ==
  [about : {"layout"}, layout : Layouts, image : [width : Nat, height : Nat],
   areas : Seq({NoBounds} \cup [x : Int, y : Int, width : Int, height : Int])]

TemplateInputs == [about : {"template"}, blocks : Seq(Blocks)]

ASSUME InputsAssumption ==
  \A i \in Inputs : \/ i \in CountInputs \/ i \in OverviewInputs
                    \/ i \in LayoutInputs \/ i \in TemplateInputs

VARIABLES part, input

vars == <<part, input, audienceVars, listVars, followVars>>

NoInput == [about |-> "none"]

(***************************************************************************)
(* The composition.                                                        *)
(***************************************************************************)
Init ==
  /\ part \in {"audiences", "lists", "follows", "functions"}
  /\ AudienceInit
  /\ ListInit /\ (part # "lists" => template = "none")
  /\ FollowInit
  /\ input \in IF part = "functions" THEN Inputs ELSE {NoInput}

AudienceStep == part = "audiences" /\ AudienceNext /\ UNCHANGED <<part, input, listVars, followVars>>
ListStep == part = "lists" /\ ListNext /\ UNCHANGED <<part, input, audienceVars, followVars>>
FollowStep == part = "follows" /\ FollowNext /\ UNCHANGED <<part, input, audienceVars, listVars>>

Next == AudienceStep \/ ListStep \/ FollowStep

Spec == Init /\ [][Next]_vars /\ AudienceFairness

(***************************************************************************)
(* The properties of the functions, for the input of a state.              *)
(***************************************************************************)

(* Two audiences whose numbers are cached under one key select the same    *)
(* LINE users: no audience is shown the number of another one.             *)
KeysAreSound == input.about = "count" => KeyIsSound(input.type, input.criteria)

(* The trend of the overview adds up to its totals: every broadcast that   *)
(* was sent in the range is in exactly one bucket.                         *)
TrendAddsUp ==
  input.about = "overview" => OverviewAddsUp(input.query, input.now, input.broadcasts)

(* The areas of a menu that is created are on the menu, and those of a     *)
(* grid cover it without an overlap.                                       *)
LayoutsFit ==
  input.about = "layout" => AreasFit(input.layout, input.image, input.areas)

(* Messages that are sent to everybody at once would have been the same    *)
(* for each recipient, because merging changes nothing without a known tag. *)
UntaggedNeedsNoMerge == input.about = "template" => SameForEveryone(input.blocks)

(* The URLs of stored media do not expire, also when what was shown is     *)
(* saved again, and a broadcast signs those it sends.                      *)
StoredMediaLast == input.about = "template" => MediaLast(input.blocks)
=============================================================================
