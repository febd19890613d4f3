------------------------------- MODULE MCApi -------------------------------
(***************************************************************************)
(* A small instance of Api for TLC: the bodies of the requests for an      *)
(* audience, and the inputs of the functions.                              *)
(***************************************************************************)
EXTENDS Api

(***************************************************************************)
(* Bodies of requests for an audience: a rename, a change of the type, of  *)
(* the criteria, and of both.                                              *)
(***************************************************************************)
OnlyActive == [NoCriteria EXCEPT !.activityDays = 30]
Members == [NoCriteria EXCEPT !.userTypes = {"Member"}]
Both == [NoCriteria EXCEPT !.userTypes = {"Member"}, !.activityDays = 30]

FewForms ==
  {[type |-> "none", given |-> FALSE, criteria |-> NoCriteria],
   [type |-> "active", given |-> FALSE, criteria |-> NoCriteria],
   [type |-> "none", given |-> TRUE, criteria |-> Members],
   [type |-> "user_type", given |-> TRUE, criteria |-> Both],
   [type |-> "active", given |-> TRUE, criteria |-> OnlyActive],
   [type |-> "combined", given |-> TRUE, criteria |-> Both]}

(***************************************************************************)
(* Inputs of the functions.                                                *)
(***************************************************************************)
(* An audience of each key, compared with every stored one: two of one key *)
(* that select the same users as a third select the same users.            *)
FewCounts ==
  {i \in CountInputs : i.type # "combined" =>
     /\ i.criteria.match = "none"
     /\ i.type \in {"active", "new"} => i.criteria.userTypes = {} /\ i.criteria.userTiers = {}}

(* The first and the last instant of a day and of a month, and one inside; *)
(* two broadcasts, the first sent at such a time of one of several days,   *)
(* the second being sent, failed the day before, or not sent yet.         *)
FewMonths == {-31, 0, 30}
Midnight == -BangkokOffset
Nows == {Midnight, Midnight + 1, Midnight + 19, Midnight + 30 * Day - 1, Midnight + 3 * Day - 1}

Row(status, sentAt, count, success) ==
  [status |-> status, sentAt |-> sentAt, messageCount |-> count, successCount |-> success]

FewOverviews ==
  {[about |-> "overview", query |-> q, now |-> now,
    broadcasts |-> <<Row("completed", At(t), 5, 3), second>>] :
      q \in {q \in Queries : q.period = "none" \/ q.days = 0}, now \in Nows,
      t \in {Midnight + d * Day + k : d \in {-31, -7, -6, -1, 0, 2, 29}, k \in {0, 1, 13, 19, Day - 1}},
      second \in {Row("processing", At(Midnight + 1), 2, 1),
                  Row("failed", At(Midnight - 1), 2, 0),
                  Row("scheduled", Never, 0, 0)}}

(* Bounds of an area: on the menu, to its last pixel, and one pixel past.  *)
SomeBounds ==
  {NoBounds} \cup [x : {0, 1}, y : {0, 842}, width : {1, 2500}, height : {1, 844}]

FewLayouts ==
  {[about |-> "layout", layout |-> l, image |-> i, areas |-> a] :
     l \in Layouts, i \in Sizes,   \* the size of the image may be the wrong one
     a \in UNION {[1 .. n -> SomeBounds] : n \in {1, 2}}
             \cup {[k \in 1 .. n |-> NoBounds] : n \in 0 .. 7 \cup {21}}
             \cup {[k \in 1 .. n |-> [x |-> k, y |-> 0, width |-> 1, height |-> 1]] : n \in 20 .. 21}}

(* Blocks of every type, by the fields that it uses. *)
Texts == {"blank", "plain", "named", "tier", "unknown", "builtin"}
Urls == {"none", "blob", "ours", "signed", "other", "picture"}

WithTexts(b, fs) ==
  {[b EXCEPT !.texts = [f \in TextFields |-> IF f \in DOMAIN g THEN g[f] ELSE @[f]]] :
     g \in [fs -> Texts]}

TextBlocks == WithTexts(Blank, {"text"})
MediaBlocks ==
  {[Blank EXCEPT !.type = t, !.urls = u] : t \in {"image", "video"}, u \in [UrlFields -> Urls]}
FlexBlocks ==
  {[b EXCEPT !.type = "flex", !.urls["imageUrl"] = u, !.contents = c] :
     b \in WithTexts(Blank, {"altText", "title"}), u \in {"none", "signed", "picture"},
     c \in {"none", "other", "plain", "named", "tier", "builtin"}}
CarouselBlocks ==
  {[Blank EXCEPT !.type = "carousel", !.columns = <<c, d>>] :
     c, d \in {[k EXCEPT !.imageUrl = u] : u \in Urls \ {"other"},
               k \in {Column, [Column EXCEPT !.texts["title"] = "tier"]} \cup
                     {[Column EXCEPT !.texts["text"] = "plain", !.texts["label"] = "plain",
                                     !.texts["link"] = "named"]}}}

AnyBlocks == TextBlocks \cup MediaBlocks \cup FlexBlocks \cup CarouselBlocks
             \cup {[Blank EXCEPT !.type = "sticker"]}

Second == {[Blank EXCEPT !.texts["text"] = t] : t \in {"plain", "tier"}}
          \cup {[Blank EXCEPT !.type = "image", !.urls["imageUrl"] = "signed"]}

FewTemplates ==
  [about : {"template"}, blocks : {<<b>> : b \in AnyBlocks} \cup {<<b, c>> : b \in TextBlocks, c \in AnyBlocks}
     \cup {<<Blank, b, b, b, b, c>> : b \in Second, c \in Second}]

FewInputs == FewCounts \cup FewOverviews \cup FewLayouts \cup FewTemplates
=============================================================================
