--------------------------- MODULE DerivationHeap ---------------------------
(***************************************************************************)
(* Derivations (common/derivation): for a file the numbers of the lines    *)
(* something comes from, and lists of such derivations, one for each file. *)
(* A derivation is shared by the lists, a list by the packages, resources  *)
(* and the map that refer to it; both are counted and copied before they   *)
(* are changed while shared.  The heap is a record [drv, list], an         *)
(* operation an operator from heap to heap.                                *)
(*                                                                         *)
(* A text is a sequence of words [file, lines]: what stands before and     *)
(* behind the last colon of a word.  A line Junk is one strtoul refuses.   *)
(***************************************************************************)
EXTENDS Integers, Sequences, FiniteSets, SequencesExt, FiniteSetsExt

CONSTANTS
  DrvCount,    (* how many derivations, and lists, may be allocated        *)
  ListCount

Nil == 0
NoFile == 0
Junk == -1
Unknown == -1
Drvs == 1 .. DrvCount
DrvLists == 1 .. ListCount

FreeDrv == [ file |-> NoFile, lines |-> << >>, length |-> Unknown, refs |-> 0 ]
FreeDrvList == [ items |-> << >>, id |-> Nil, refs |-> 0 ]

FreshDrv(h) == Min({ d \in Drvs : h.drv[d].refs = 0 })
FreshDrvList(h) == Min({ l \in DrvLists : h.list[l].refs = 0 })

-----------------------------------------------------------------------------
(* One derivation                                                          *)

(* lcfgderivation_new and set_file.                                        *)
NewDerivation(file) == [ FreeDrv EXCEPT !.file = file, !.refs = 1 ]

HasLine(drv, line) == line \in ToSet(drv.lines)

MergeLine(drv, line) ==
  IF HasLine(drv, line) THEN drv
  ELSE [ drv EXCEPT !.lines = Append(@, line), !.length = Unknown ]

MergeLines(drv, other) == FoldLeft(MergeLine, drv, other.lines)

(* A copy has its lines merged again and no length yet.                    *)
CloneDerivation(drv) == MergeLines(NewDerivation(drv.file), drv)

SortLines(drv) == [ drv EXCEPT !.lines = SortSeq(@, <) ]

(* Variant: 10 has one digit.                                              *)
DigitCountAboveTen(n) == 1 + Cardinality({ k \in 1 .. 3 : n > 10 ^ k })

(* The length of a number as the loop of lcfgderivation_get_length counts  *)
(* its digits.                                                             *)
DigitCount(n) == 1 + Cardinality({ k \in 1 .. 3 : n \div (10 ^ k) > 0 })

(* The length is computed once and kept: the file, a colon, the commas and *)
(* the numbers.                                                            *)
GetLength(drv) ==
  IF drv.length # Unknown THEN drv.length
  ELSE IF drv.lines = << >> THEN 1
  ELSE 1 + 1 + (Len(drv.lines) - 1)
         + FoldLeft(LAMBDA sum, n : sum + DigitCount(n), 0, drv.lines)

(* What lcfgderivation_to_string writes, a file name being one piece.      *)
DigitsOf(n) ==
  LET last == Max({ k \in 0 .. 3 : k = 0 \/ 10 ^ k <= n })
  IN  [ k \in 1 .. last + 1 |-> (n \div (10 ^ (last + 1 - k))) % 10 ]
DerivationText(drv) ==
  << drv.file >> \o FlattenSeq([ i \in DOMAIN drv.lines |->
                                   << IF i = 1 THEN ":" ELSE "," >> \o DigitsOf(drv.lines[i]) ])

DrvRelinquish(h, d) ==
  [ h EXCEPT !.drv[d] = IF @.refs <= 1 THEN FreeDrv ELSE [ @ EXCEPT !.refs = @ - 1 ] ]

(* Variant: only more than two references make a derivation shared.        *)
DrvIsSharedByMore(h, d) == h.drv[d].refs > 2

DrvIsShared(h, d) == h.drv[d].refs > 1

-----------------------------------------------------------------------------
(* Lists of derivations                                                    *)

DrvListNew(h, l) == [ h EXCEPT !.list[l] = [ FreeDrvList EXCEPT !.refs = 1 ] ]

AppendDerivation(h, l, d) ==
  [ h EXCEPT !.list[l].items = Append(@, d), !.drv[d].refs = @ + 1 ]

(* The last reference relinquishes the derivations and frees the list.     *)
DrvListRelinquish(h, l) ==
  IF l = Nil THEN h
  ELSE IF h.list[l].refs > 1 THEN [ h EXCEPT !.list[l].refs = @ - 1 ]
  ELSE [ FoldLeft(DrvRelinquish, h, h.list[l].items) EXCEPT !.list[l] = FreeDrvList ]

DrvListAcquire(h, l) == IF l = Nil THEN h ELSE [ h EXCEPT !.list[l].refs = @ + 1 ]

ItemsOf(h, l) == IF l = Nil THEN << >> ELSE h.list[l].items

(* A copy of a list shares its derivations; that of no list is empty.      *)
CloneDrvList(h, new, l) ==
  FoldLeft(LAMBDA g, d : AppendDerivation(g, new, d), DrvListNew(h, new), ItemsOf(h, l))

(* The place of the derivation for a file, or 0.                           *)
FindFile(h, l, file) ==
  SelectInSeq(ItemsOf(h, l), LAMBDA d : h.drv[d].file = file)

(* The derivation d at place k gets the lines of another: in place, or in  *)
(* a copy when it is shared, which is kept only when it has more lines.    *)
UpdateAt(h, l, k, d, other) ==
  IF MergeLines(h.drv[d], other).lines = h.drv[d].lines THEN h
  ELSE IF ~DrvIsShared(h, d)
    THEN [ h EXCEPT !.drv[d] = MergeLines(@, other) ]
    ELSE DrvRelinquish(
           [ h EXCEPT !.drv[FreshDrv(h)] = MergeLines(CloneDerivation(h.drv[d]), other),
                      !.list[l].items[k] = FreshDrv(h) ], d)

MergeDerivation(h, l, d) ==
  LET k == FindFile(h, l, h.drv[d].file)
  IN  IF k = 0 THEN AppendDerivation(h, l, d)
      ELSE IF h.list[l].items[k] = d THEN h
      ELSE UpdateAt(h, l, k, h.list[l].items[k], h.drv[d])

(* lcfgderivlist_merge_file_line: a negative line stands for the file.     *)
MergeFileLine(h, l, file, line) ==
  LET k == FindFile(h, l, file)
      d == FreshDrv(h)
      new == IF line < 0 THEN NewDerivation(file) ELSE MergeLine(NewDerivation(file), line)
  IN  IF file = NoFile THEN h
      ELSE IF k = 0
        THEN DrvRelinquish(AppendDerivation([ h EXCEPT !.drv[d] = new ], l, d), d)
      ELSE IF line < 0 THEN h
      ELSE UpdateAt(h, l, k, h.list[l].items[k], new)

MergeDrvList(h, l, other) ==
  FoldLeft(LAMBDA g, d : MergeDerivation(g, l, d), h, ItemsOf(h, other))

-----------------------------------------------------------------------------
(* Texts                                                                   *)

(* A word has a file, and its lines are numbers.                           *)
GoodWord(w) == w.file # NoFile /\ Junk \notin ToSet(w.lines)
GoodText(text) == text # << >> /\ \A i \in DOMAIN text : GoodWord(text[i])

ParsedDerivation(w) == FoldLeft(MergeLine, NewDerivation(w.file), w.lines)

(* Each word is made a derivation, merged, and relinquished.               *)
MergeWord(h, l, w) ==
  LET d == FreshDrv(h)
  IN  DrvRelinquish(MergeDerivation([ h EXCEPT !.drv[d] = ParsedDerivation(w) ], l, d), d)

(* lcfgderivlist_from_string; the list is given up at a bad word.          *)
MergeWords(h, l, words) == FoldLeft(LAMBDA g, w : MergeWord(g, l, w), h, words)
WordsBeforeBad(text) == SubSeq(text, 1, SelectInSeq(text, LAMBDA w : ~GoodWord(w)) - 1)
DrvListFromString(h, l, text) ==
  IF GoodText(text) THEN MergeWords(DrvListNew(h, l), l, text)
  ELSE DrvListRelinquish(MergeWords(DrvListNew(h, l), l, WordsBeforeBad(text)), l)

(* lcfgderivlist_to_string sorts the lines and computes the lengths.       *)
Printed(drv) == [ SortLines(drv) EXCEPT !.length = GetLength(drv) ]
PrintDrvList(h, l) ==
  [ h EXCEPT !.drv = [ d \in Drvs |-> IF d \in ToSet(ItemsOf(h, l)) THEN Printed(@[d]) ELSE @[d] ] ]

DrvListLength(h, l) ==
  IF ItemsOf(h, l) = << >> THEN 0
  ELSE FoldLeft(LAMBDA sum, d : sum + GetLength(h.drv[d]) + 1, 0, ItemsOf(h, l)) - 1

(* The text of a list: its derivations with blanks between them.           *)
DrvListText(h, l) ==
  LET items == ItemsOf(h, l)
  IN  FlattenSeq([ k \in DOMAIN items |->
                     (IF k = 1 THEN << >> ELSE << " " >>) \o DerivationText(h.drv[items[k]]) ])

(* What a list says: the lines for each file.                              *)
Says(h, l) == { << h.drv[d].file, ToSet(h.drv[d].lines) >> : d \in ToSet(ItemsOf(h, l)) }
=============================================================================
