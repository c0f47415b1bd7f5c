--------------------------- MODULE ResourceMutate ---------------------------
(***************************************************************************)
(* The operations of resources/mutate.c, which edit the value of a string  *)
(* or list resource in place: text is put before or after it, a tag (a     *)
(* word of it) is added, replaced or removed.                              *)
(***************************************************************************)
EXTENDS ResourceText

Editable(res) == res.type # "integer" /\ res.type # "boolean"

(* A list only takes text a list may hold.                                 *)
MayHold(res, text) == Editable(res) /\ (res.type = "list" => ValidList(text))

OccursAt(text, item, i) == SubSeq(text, i, i + Len(item) - 1) = item

Found(text, item) == { i \in 1..(Len(text) - Len(item) + 1) : OccursAt(text, item, i) }

First(places) == CHOOSE i \in places : \A j \in places : i <= j

(* Variant: a tag is found inside a longer word.                           *)
FindSubstring(text, item) == Found(text, item)

(* lcfgutils_string_finditem goes on behind an occurrence that is not an   *)
(* item: one that overlaps it, as an item with blanks may, is passed over. *)
Tried(text, item) ==
  LET tried[i \in 0 .. Len(text)] ==
        \A j \in Found(text, item) : j < i /\ tried[j] => j + Len(item) <= i
  IN  { i \in Found(text, item) : tried[i] }

(* An occurrence with blanks or nothing around.                            *)
FindItem(text, item) ==
  { i \in Found(text, item) :
      /\ i \in Tried(text, item)
      /\ i = 1 \/ text[i - 1] \in Blanks
      /\ i + Len(item) > Len(text) \/ text[i + Len(item)] \in Blanks }

HasTag(res, tag) == HasValue(res) /\ FindItem(res.value, tag) # {}

(* The new value replaces the old one if it still fits the type; nothing   *)
(* left unsets it.                                                         *)
Rewrite(res, text) == IF text = << >> THEN UnsetValue(res) ELSE SetValue(res, text)

Append_value(res, text) ==
  CASE ~Editable(res) -> Refused(res)
    [] Editable(res) /\ IsEmpty(text) -> Granted(res)
    [] OTHER -> IF MayHold(res, text) THEN SetValue(res, OrEmpty(res.value) \o text) ELSE Refused(res)

Prepend_value(res, text) ==
  CASE ~Editable(res) -> Refused(res)
    [] Editable(res) /\ IsEmpty(text) -> Granted(res)
    [] OTHER -> IF MayHold(res, text) THEN SetValue(res, text \o OrEmpty(res.value)) ELSE Refused(res)

AppendTag(res, tag) ==
  LET cur == OrEmpty(res.value)
      sep == IF cur # << >> /\ Last(cur) \notin Blanks THEN <<" ">> ELSE << >>
  IN  CASE ~Editable(res) -> Refused(res)
        [] Editable(res) /\ IsEmpty(tag) -> Granted(res)
        [] OTHER -> IF MayHold(res, tag) THEN SetValue(res, cur \o sep \o tag) ELSE Refused(res)

PrependTag(res, tag) ==
  LET cur == OrEmpty(res.value)
      sep == IF cur # << >> /\ Head(cur) \notin Blanks THEN <<" ">> ELSE << >>
  IN  CASE ~Editable(res) -> Refused(res)
        [] Editable(res) /\ IsEmpty(tag) -> Granted(res)
        [] OTHER -> IF MayHold(res, tag) THEN SetValue(res, tag \o sep \o cur) ELSE Refused(res)

AddTag(res, tag) ==
  IF Editable(res) /\ (IsEmpty(tag) \/ HasTag(res, tag)) THEN Granted(res) ELSE AppendTag(res, tag)

(* Blanks that follow a tag go with it when it is removed.                 *)
BlanksAfter(text, i) ==
  LET next == SelectInSubSeq(text, i, Len(text), LAMBDA p : p \notin Blanks)
  IN  IF i > Len(text) THEN 0 ELSE (IF next = 0 THEN Len(text) + 1 ELSE next) - i

(* What both kinds of replacement share: nothing to remove is a success,   *)
(* nothing to replace a failure.                                           *)
ReplaceAtFirst(res, places, length, new) ==
  LET at == First(places)
  IN  IF places = {}
      THEN (IF new = << >> THEN Granted(res) ELSE Refused(res))
      ELSE Rewrite(res, Before(res.value, at) \o new \o From(res.value, at + length))

ReplaceTag(res, old, new) ==
  LET places == FindItem(OrEmpty(res.value), old)
      gap == IF new = << >> /\ places # {} THEN BlanksAfter(res.value, First(places) + Len(old)) ELSE 0
  IN  CASE ~Editable(res) \/ old = << >> -> Refused(res)
        [] Editable(res) /\ old # << >> /\ old = new -> Granted(res)
        [] OTHER -> IF MayHold(res, new) THEN ReplaceAtFirst(res, places, Len(old) + gap, new) ELSE Refused(res)

Replace(res, old, new) ==
  CASE ~Editable(res) \/ old = << >> -> Refused(res)
    [] Editable(res) /\ old # << >> /\ old = new -> Granted(res)
    [] OTHER -> IF MayHold(res, new)
                THEN ReplaceAtFirst(res, Found(OrEmpty(res.value), old), Len(old), new)
                ELSE Refused(res)

(* lcfgresource_value_map_tagstring stops at the first tag that fails.     *)
AddWords(res, tags) ==
  LET upTo[k \in 0 .. Len(tags)] ==
        IF k = 0 THEN IF Editable(res) THEN Granted(res) ELSE Refused(res)
        ELSE Then(upTo[k - 1], LAMBDA r : AddTag(r, tags[k]))
  IN  upTo[Len(tags)]

AddTags(res, text) == AddWords(res, Words(text))
=============================================================================
