-------------------------- MODULE MessageTemplates --------------------------
(***************************************************************************)
(* From the blocks of a message template to the messages LINE is sent: the *)
(* checks before a template is stored, the URLs of its media, the merge    *)
(* tags, and the messages that are built.  Only functions of their         *)
(* arguments.                                                              *)
(*                                                                         *)
(* A text is one of these:                                                 *)
(*   "blank"    missing, or nothing but spaces                             *)
(*   "plain"    without braces                                             *)
(*   "named"    with a tag that always has a value: {lineUser}, {userType} *)
(*   "tier"     only tags of columns that may be null: {userTier}, {phone} *)
(*   "unknown"  with a tag that is none of this program                    *)
(*   "builtin"  with a tag that names a property every JavaScript object   *)
(*              has, such as {constructor}                                 *)
(*   "merged", "garbled"  what merging makes of a tag, and of "builtin"    *)
(* A URL is "none", a "blob" of a browser, "ours" (the stable one of our   *)
(* storage), "signed" (the same, but it expires), "other" or "picture",    *)
(* the tag {pictureUrl}.  The contents of a flex message are "none",       *)
(* "other" (neither bubble nor carousel), or named after the texts inside. *)
(***************************************************************************)
EXTENDS Naturals, Sequences, SequencesExt, Functions

MessageTypes == {"text", "image", "video", "flex", "carousel"}
MergeableTypes == {"text", "flex"}

TextFields == {"text", "altText", "title", "description", "label", "link"}
UrlFields == {"imageUrl", "videoUrl", "previewImageUrl"}

Blank == [type |-> "text",
          texts |-> [f \in TextFields |-> "blank"],
          urls |-> [f \in UrlFields |-> "none"],
          contents |-> "none",
          columns |-> <<>>]

Column == [texts |-> [f \in TextFields |-> "blank"], imageUrl |-> "none"]

Map(seq, F(_)) == [i \in DOMAIN seq |-> F(seq[i])]

(* The elements of a sequence that are in a set, in their order. *)
Only(seq, S) ==
  FoldLeft(LAMBDA kept, x : IF x \in S THEN Append(kept, x) ELSE kept, <<>>, seq)

(* The strings of a block are abstracted to kinds; a block in the database *)
(* may have any.                                                           *)
Columns == [texts : [TextFields -> STRING], imageUrl : STRING]
Blocks == [type : STRING, texts : [TextFields -> STRING], urls : [UrlFields -> STRING],
           contents : STRING, columns : Seq(Columns)]

(* What OnText and OnUrl make of a block, in all of its fields. *)
Through(OnText(_), OnUrl(_), b) ==
  [b EXCEPT !.texts = [f \in TextFields |-> OnText(@[f])],
            !.urls = [f \in UrlFields |-> OnUrl(@[f])],
            !.contents = OnText(@),
            !.columns = Map(@, LAMBDA c :
               [texts |-> [f \in TextFields |-> OnText(c.texts[f])],
                imageUrl |-> OnUrl(c.imageUrl)])]

Same(x) == x

(***************************************************************************)
(* Storing a template and showing it.                                      *)
(***************************************************************************)

(* collectMediaUrls *)
MediaUrls(b) ==
  {b.urls[f] : f \in UrlFields} \cup {b.columns[i].imageUrl : i \in DOMAIN b.columns}

(* assertValidFlexMessages, assertPersistedMediaUrls, and the DTO. *)
AcceptsTemplate(blocks) ==
  /\ Len(blocks) \in 1 .. 5
  /\ \A i \in DOMAIN blocks :
       /\ blocks[i].type \in MessageTypes
       /\ blocks[i].type = "flex" =>
            blocks[i].texts["altText"] # "blank" /\ blocks[i].contents \notin {"none", "other"}
       /\ "blob" \notin MediaUrls(blocks[i])

(* Faulty form: the URL is stored as the browser has sent it. *)
FaultyToStable(url) == url

(* toStablePublicUrl: URLs that are not of our storage stay. *)
ToStable(url) == IF url = "signed" THEN "ours" ELSE url

(* canonicalizeMediaUrls *)
Canonicalized(blocks) == Map(blocks, LAMBDA b : Through(Same, ToStable, b))

(* resolveAccessibleUrl: when signing fails the URL is left as it is. *)
Resolve(url, signs) == IF signs /\ url \in {"ours", "signed"} THEN "signed" ELSE url

(* withAccessibleMediaUrls of the templates, and that of the delivery,     *)
(* which leaves the URL of a video alone.                                  *)
Shown(blocks, signs) ==
  Map(blocks, LAMBDA b : Through(Same, LAMBDA u : Resolve(u, signs), b))

Accessible(blocks, signs) ==
  Map(blocks, LAMBDA b :
    [Through(Same, LAMBDA u : Resolve(u, signs), b) EXCEPT !.urls["videoUrl"] = b.urls["videoUrl"]])

(* parseTemplateMessageBlocks: the column content is for older rows. *)
Known(blocks) == Only(blocks, {b \in Range(blocks) : b.type \in MessageTypes})
Parsed(messages, content) == IF Known(messages) # <<>> THEN Known(messages) ELSE Known(content)

(***************************************************************************)
(* Merge tags.  A user has all the columns that may be null, or none.      *)
(***************************************************************************)
Tags == {"named", "tier", "picture"}

(* applyMergeTags with buildMergeTagValues *)
MergeText(text, filled) ==
  CASE text = "named" -> "merged"
    [] text = "tier" -> IF filled THEN "merged" ELSE "blank"
    [] text = "builtin" -> "garbled"
    [] OTHER -> text

MergeUrl(url, filled) ==
  IF url # "picture" THEN url ELSE IF filled THEN "other" ELSE "none"

(* applyMergeTagsToMessageBlocks *)
Merged(blocks, filled) ==
  Map(blocks, LAMBDA b :
    IF b.type \notin MergeableTypes THEN b
    ELSE Through(LAMBDA t : MergeText(t, filled), LAMBDA u : MergeUrl(u, filled), b))

(* Every text and URL of a block. *)
Strings(b) ==
  {b.texts[f] : f \in TextFields} \cup {b.contents} \cup MediaUrls(b)
    \cup {b.columns[i].texts[f] : i \in DOMAIN b.columns, f \in TextFields}

(* Faulty form: only the text of a block is looked at. *)
FaultyContainsTags(b) == b.texts["text"] \in Tags

(* containsKnownMergeTags *)
ContainsTags(b) == Strings(b) \cap Tags # {}

(* messageBlocksHaveMergeTags *)
HaveMergeTags(blocks) ==
  \E i \in DOMAIN blocks : blocks[i].type \in MergeableTypes /\ ContainsTags(blocks[i])

(***************************************************************************)
(* Building the messages.                                                  *)
(***************************************************************************)
Nothing == [type |-> "nothing"]
OrElse(s, t) == IF s # "blank" THEN s ELSE t

(* A bubble needs a text; its image and its button are optional. *)
Bubble(texts, image, label, link) ==
  LET body == Only(texts, Range(texts) \ {"blank"}) IN
  IF body = <<>> THEN Nothing
  ELSE [type |-> "bubble", body |-> body, hero |-> image,
        footer |-> IF "blank" \in {label, link} THEN <<>> ELSE <<label, link>>]

(* buildFlexMessage *)
FlexMessage(b) ==
  LET t == b.texts
      bubble == Bubble(<<t["title"], t["description"]>>, b.urls["imageUrl"], t["label"], t["link"])
  IN CASE b.contents \notin {"none", "other"} ->
            [type |-> "flex", alt |-> OrElse(t["altText"], "plain"), contents |-> b.contents]
       [] b.contents \in {"none", "other"} /\ bubble = Nothing -> Nothing
       [] OTHER -> [type |-> "bubbles", alt |-> OrElse(t["altText"], OrElse(t["title"], "plain")),
                    bubbles |-> <<bubble>>]

(* buildCarouselMessage *)
CarouselMessage(b) ==
  LET cards == Map(b.columns, LAMBDA c :
                   Bubble(<<c.texts["title"], c.texts["text"]>>, c.imageUrl,
                          c.texts["label"], c.texts["link"]))
      bubbles == Only(cards, Range(cards) \ {Nothing})
  IN IF bubbles = <<>> THEN Nothing
     ELSE [type |-> "bubbles", alt |-> OrElse(b.texts["altText"], "plain"), bubbles |-> bubbles]

(* buildLineMessage *)
LineMessage(b) ==
  LET u == b.urls IN
  CASE b.type = "text" /\ b.texts["text"] # "blank" ->
         [type |-> "text", text |-> b.texts["text"]]
    [] b.type = "image" /\ u["imageUrl"] # "none" ->
         [type |-> "image", media |-> <<u["imageUrl"]>>]
    [] b.type = "video" /\ u["videoUrl"] # "none" ->
         [type |-> "video", media |-> <<u["videoUrl"],
            IF u["previewImageUrl"] # "none" THEN u["previewImageUrl"] ELSE u["videoUrl"]>>]
    [] b.type = "flex" -> FlexMessage(b)
    [] b.type = "carousel" -> CarouselMessage(b)
    [] OTHER -> Nothing

(* buildLineMessages: the first five blocks, and of these those that give  *)
(* a message.                                                              *)
LineMessages(blocks) ==
  LET built == Map(SubSeq(blocks, 1, IF Len(blocks) < 5 THEN Len(blocks) ELSE 5), LineMessage)
  IN Only(built, Range(built) \ {Nothing})

(* The URLs of images that LINE loads, apart from those inside contents    *)
(* and a video's.                                                          *)
Images(message) ==
  CASE message.type = "image" -> {message.media[1]}
    [] message.type = "bubbles" -> {message.bubbles[i].hero : i \in DOMAIN message.bubbles} \ {"none"}
    [] OTHER -> {}

(***************************************************************************)
(* Properties, for one sequence of blocks.                                 *)
(***************************************************************************)

(* Blocks without a known tag are sent to all recipients at once: none of  *)
(* them would have been sent something else.  The exception is a tag that  *)
(* names a property of every object.                                       *)
SameForEveryone(blocks) ==
  LET seen == Parsed(blocks, blocks)
      builtin == \E i \in DOMAIN seen : "builtin" \in Strings(seen[i])
  IN ~HaveMergeTags(seen) /\ ~builtin =>
       \A filled \in BOOLEAN : LineMessages(Merged(seen, filled)) = LineMessages(seen)

(* A template that was shown and is saved again is the one that was stored *)
(* although its URLs were signed, so no URL in the database expires; and   *)
(* a broadcast signs every image that it has in our storage.               *)
MediaLast(blocks) ==
  AcceptsTemplate(blocks) =>
    LET stored == Canonicalized(blocks)
        sent(filled) == LineMessages(Merged(Accessible(Parsed(stored, stored), TRUE), filled))
    IN /\ \A signs \in BOOLEAN : Canonicalized(Shown(Parsed(stored, stored), signs)) = stored
       /\ \A i \in DOMAIN stored : MediaUrls(stored[i]) \cap {"blob", "signed"} = {}
       /\ \A filled \in BOOLEAN : \A i \in DOMAIN sent(filled) :
            Images(sent(filled)[i]) \cap {"blob", "ours"} = {}
=============================================================================
