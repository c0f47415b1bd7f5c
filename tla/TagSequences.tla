---------------------------- MODULE TagSequences ----------------------------
(***************************************************************************)
(* What the lists of tags of LCFG promise: each list is a sequence of      *)
(* names, an iterator is a place in one of them, and a call does what its  *)
(* name says to the list it is about and nothing to the others.  TagList,  *)
(* with its nodes, links and reference counts, implements this.            *)
(***************************************************************************)
EXTENDS Integers, Sequences, SequencesExt

CONSTANTS Lists, Names, NoList

VARIABLES
  held,      (* [content, cursor, kept]: for each list the names it holds, *)
             (* or NoList; [list, at], the place of the iterator, 0 before *)
             (* a start; the lists whose maker has not relinquished them   *)
  asked      (* [turn, call]: the call that made the last step             *)

Unused == [ list |-> NoList, at |-> 0 ]

Init ==
  /\ held = [ content |-> [ l \in Lists |-> NoList ], cursor |-> Unused, kept |-> {} ]
  /\ asked = [ turn |-> FALSE, call |-> << >> ]

-----------------------------------------------------------------------------
(* Texts, of names, blanks (0) and pieces no name may have                 *)

(* The name in a text that has nothing else but blanks before it.          *)
NamedBy(text) ==
  { n \in Names : Len(text) > 0 /\ text = [ i \in 1 .. Len(text) - 1 |-> 0 ] \o << n >> }

(* The names of a text that has only names, with blanks between them.      *)
SpelledBy(text) ==
  { names \in { SelectSeq(text, LAMBDA s : s # 0) } :
      /\ names \in Seq(Names)
      /\ \A i \in 1 .. Len(text) - 1 : text[i] = 0 \/ text[i + 1] = 0 }

(* The first occurrences, in order, of the members of S in s.              *)
FirstOnly(s, S) ==
  LET first == { i \in DOMAIN s : s[i] \in S /\ \A j \in 1 .. i - 1 : s[j] # s[i] }
      indices == SelectSeq([ i \in DOMAIN s |-> i ], LAMBDA i : i \in first)
  IN  [ p \in DOMAIN indices |-> s[indices[p]] ]

(* The same names, from the lowest to the highest.                         *)
Times(s, n) == Len(SelectSeq(s, LAMBDA m : m = n))
Sorted(s) ==
  { r \in [ DOMAIN s -> ToSet(s) ] :
      /\ \A n \in ToSet(s) : Times(r, n) = Times(s, n)
      /\ \A i \in 1 .. Len(s) - 1 : r[i] <= r[i + 1] }

-----------------------------------------------------------------------------
(* What may be held after call c, if it was h before: calls that change a  *)
(* list                                                                    *)

(* List l becomes r, and the place i of an iterator on it Place(i).        *)
Changed(h, l, r, Place(_)) ==
  [ h EXCEPT !.content[l] = r,
             !.cursor.at = IF h.cursor.list = l /\ @ # 0 THEN Place(@) ELSE @ ]

(* A name comes in behind place i.                                         *)
Inserted(h, l, i, n) ==
  Changed(h, l, InsertAt(h.content[l], i + 1, n), LAMBDA at : IF at > i THEN at + 1 ELSE at)

(* The tag an iterator is at is never the one removed.                     *)
Removed(h, l, i) ==
  Changed(h, l, RemoveAt(h.content[l], i), LAMBDA at : IF at > i THEN at - 1 ELSE at)

(* One name takes the place of another, at its first place or everywhere.  *)
Replaced(h, l, old, new, global) ==
  LET s == h.content[l]
      places == { i \in DOMAIN s : s[i] = old /\ (global \/ \A j \in 1 .. i - 1 : s[j] # old) }
  IN  Changed(h, l, [ i \in DOMAIN s |-> IF i \in places THEN new ELSE s[i] ], LAMBDA at : at)

(* What has no name in it changes nothing.                                 *)
IfAny(h, results) == IF results = {} THEN {h} ELSE results

Edited(h, c) ==
  LET end == Len(h.content[c.list])
  IN  CASE c.op = "append" ->
             IfAny(h, { Inserted(h, c.list, end, n) : n \in NamedBy(c.text) })
        [] c.op = "prepend" ->
             IfAny(h, { Inserted(h, c.list, 0, n) : n \in NamedBy(c.text) })
        [] c.op = "add" ->
             IfAny(h, { Inserted(h, c.list, end, n) :
                          n \in { m \in NamedBy(c.text) :
                                    c.text # << m >> \/ m \notin ToSet(h.content[c.list]) } })
        [] c.op = "insert" -> { Inserted(h, c.list, c.at, c.name) }
        [] c.op = "remove" ->
             { Removed(h, i[1], i[2]) : i \in {<< c.list, c.at >>} \ {<< h.cursor.list, h.cursor.at >>} }
        [] c.op = "replace" ->
             IfAny(h, { Replaced(h, c.list, c.match, n, c.global) :
                          n \in { m \in Names : c.text = << m >> } })
        [] c.op = "sort" ->
             { Changed(h, c.list, r, LAMBDA at : at) : r \in Sorted(h.content[c.list]) }

-----------------------------------------------------------------------------
(* Calls that make a list and give it up                                   *)

Made(h, l, r) == [ h EXCEPT !.content[l] = r, !.kept = @ \cup {l} ]

(* One text with words, or an array of texts: a list of them all or none.  *)
Read(h, c) ==
  CASE c.op = "from_string" ->
         IfAny(h, { Made(h, c.list, names) : names \in SpelledBy(c.text) })
    [] c.op = "from_array" ->
         IfAny(h, { Made(h, c.list, names) :
                      names \in { s \in [ DOMAIN c.words -> Names ] :
                                    \A k \in DOMAIN c.words : s[k] \in NamedBy(c.words[k]) } })

(* Sets hold each name once, in the order the lists first show them.       *)
Combined(h, c) ==
  LET s == h.content[c.from]
  IN  CASE c.op = "clone" -> s
        [] c.op = "unique" -> FirstOnly(s, Names)
        [] c.op = "union" -> FirstOnly(s \o h.content[c.with], Names)
        [] c.op = "intersection" -> FirstOnly(s, ToSet(h.content[c.with]))
        [] c.op = "subtract" -> FirstOnly(s, Names \ ToSet(h.content[c.with]))

(* A list goes with the last of its maker and the iterator.                *)
Released(h, l) ==
  IF l \in h.kept \/ l = h.cursor.list THEN h ELSE [ h EXCEPT !.content[l] = NoList ]

-----------------------------------------------------------------------------
(* Calls of the iterator                                                   *)

(* From before a start next goes to the first place and prev to the last.  *)
Moved(h, c) ==
  LET last == Len(h.content[h.cursor.list])
      to == CASE c.op = "next" -> h.cursor.at + 1
              [] c.op = "prev" -> IF h.cursor.at = 0 THEN last ELSE h.cursor.at - 1
              [] c.op = "reset" -> 0
  IN  { [ h EXCEPT !.cursor.at = i ] : i \in {to} \cap (0 .. last) }

-----------------------------------------------------------------------------
After(h, c) ==
  CASE c.op \in {"append", "prepend", "add", "insert", "remove", "replace", "sort"} -> Edited(h, c)
    [] c.op \in {"from_string", "from_array"} -> Read(h, c)
    [] c.op \in {"clone", "unique", "union", "intersection", "subtract"} ->
         { Made(h, c.list, Combined(h, c)) }
    [] c.op = "relinquish" -> { Released([ h EXCEPT !.kept = @ \ {c.list} ], c.list) }
    [] c.op = "iterate" -> { [ h EXCEPT !.cursor = [ list |-> c.list, at |-> 0 ] ] }
    [] c.op \in {"next", "prev", "reset"} -> Moved(h, c)
    [] c.op = "destroy" -> { Released([ h EXCEPT !.cursor = Unused ], h.cursor.list) }

Next ==
  /\ asked'.turn # asked.turn
  /\ held' \in After(held, asked'.call)

Spec == Init /\ [][Next]_<< held, asked >>
=============================================================================
