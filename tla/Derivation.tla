----------------------------- MODULE Derivation -----------------------------
(***************************************************************************)
(* The derivations of packages and resources (packages/package.c,          *)
(* resources/resource.c) and the map in which the loaders keep one list    *)
(* for each text they have met (common/derivation/map.c): an open-         *)
(* addressing table from the hash of a text to a list, which grows.  The   *)
(* map gives a list away without a reference; the package takes one.       *)
(***************************************************************************)
EXTENDS DerivationHeap

CONSTANTS
  Holders,       (* the packages and resources that have a derivation      *)
  Texts,         (* the texts that are read                                *)
  FileLines,     (* the files and line numbers that are added              *)
  HashOf,        (* the hash of each text                                  *)
  InitialBuckets (* the first size of the map                              *)

ASSUME DerivationAssumption ==
  /\ DrvCount \in Nat /\ ListCount \in Nat
  /\ InitialBuckets \in Nat \ {0}
  /\ HashOf \in [ Texts -> Nat \ {Nil} ]

VARIABLES
  heap,      (* [drv, list]: derivations and lists in memory               *)
  of,        (* the list of each holder, or Nil                            *)
  slots,     (* the buckets of the map, << >> without one                  *)
  entries    (* how many of them are in use, as the map counts             *)

vars == << heap, of, slots, entries >>

Init ==
  /\ heap = [ drv |-> [ d \in Drvs |-> FreeDrv ], list |-> [ l \in DrvLists |-> FreeDrvList ] ]
  /\ of = [ i \in Holders |-> Nil ]
  /\ slots = [ k \in 1 .. InitialBuckets |-> Nil ]
  /\ entries = 0

FreeLists == Cardinality({ l \in DrvLists : heap.list[l].refs = 0 })
FreeDrvs == Cardinality({ d \in Drvs : heap.drv[d].refs = 0 })
Room == FreeLists >= 2 /\ FreeDrvs >= 3

HasDerivation(i) == ItemsOf(heap, of[i]) # << >>

(* set_derivation: the old list is relinquished before the new is acquired,*)
(* so a caller has a reference to the new one, and it is not the old one.  *)
SetDerivation(h, i, l) == DrvListAcquire(DrvListRelinquish(h, of[i]), l)

Become(i, h, l) ==
  /\ heap' = SetDerivation(h, i, l)
  /\ of' = [ of EXCEPT ![i] = l ]
  /\ UNCHANGED << slots, entries >>

Stay(h) == heap' = h /\ UNCHANGED << of, slots, entries >>

(* A caller that made list l hands it to a holder and relinquishes it.     *)
HandOver(i, h, l) ==
  /\ heap' = DrvListRelinquish(SetDerivation(h, i, l), l)
  /\ of' = [ of EXCEPT ![i] = l ]
  /\ UNCHANGED << slots, entries >>

(* Variant: the copy that is kept is not relinquished.                     *)
KeepIfChangedHeld(i, h, clone) ==
  IF Says(h, clone) = Says(heap, of[i])
    THEN Stay(DrvListRelinquish(h, clone))
    ELSE Become(i, h, clone)

(* The copy made for a merge is kept only if the merge changed it.         *)
KeepIfChanged(i, h, clone) ==
  IF Says(h, clone) = Says(heap, of[i])
    THEN Stay(DrvListRelinquish(h, clone))
    ELSE HandOver(i, h, clone)

-----------------------------------------------------------------------------
(* Holders                                                                 *)

SetFromString(i, text) ==
  /\ Room
  /\ IF GoodText(text)
       THEN HandOver(i, DrvListFromString(heap, FreshDrvList(heap), text), FreshDrvList(heap))
       ELSE Stay(DrvListFromString(heap, FreshDrvList(heap), text))

Unset(i) == of[i] # Nil /\ Become(i, heap, Nil)

(* A clone of a resource or package takes the list of its original.        *)
Share(i, j) == of[j] # Nil /\ of[i] # of[j] /\ Become(i, heap, of[j])

(* lcfgpackage_merge_derivation.                                           *)
Merge(i, j) ==
  /\ i # j /\ Room /\ HasDerivation(j)
  /\ LET clone == FreshDrvList(heap)
     IN  IF HasDerivation(i)
           THEN KeepIfChanged(i, MergeDrvList(CloneDrvList(heap, clone, of[i]), clone, of[j]), clone)
           ELSE Become(i, heap, of[j])

(* A text that cannot be read changes nothing, and is not reported.        *)
AddString(i, text) ==
  /\ Room /\ FreeLists >= 3 /\ text # << >>
  /\ LET clone == FreshDrvList(heap)
         copied == CloneDrvList(heap, clone, of[i])
         extra == FreshDrvList(copied)
         parsed == DrvListFromString(copied, extra, text)
     IN  IF GoodText(text)
           THEN KeepIfChanged(i, DrvListRelinquish(MergeDrvList(parsed, clone, extra), extra), clone)
           ELSE Stay(DrvListRelinquish(parsed, clone))

AddFileLine(i, file, line) ==
  /\ Room
  /\ LET clone == FreshDrvList(heap)
     IN  KeepIfChanged(i, MergeFileLine(CloneDrvList(heap, clone, of[i]), clone, file, line), clone)

PrintHeld(i) == HasDerivation(i) /\ Stay(PrintDrvList(heap, of[i]))

-----------------------------------------------------------------------------
(* The map                                                                 *)

(* The bucket for a hash: the first, from its home around the end, that is *)
(* empty or has it; 0 when there is none.                                  *)
SlotFor(table, h, id) ==
  LET buckets == Len(table)
      probe == [ k \in 1 .. buckets |-> 1 + ((id + k - 1) % buckets) ]
      hit == SelectInSeq(probe, LAMBDA b : table[b] = Nil \/ h.list[table[b]].id = id)
  IN  IF hit = 0 THEN 0 ELSE probe[hit]

(* Variant: the buckets keep their places in the larger array.             *)
ResizedInPlace(table, h, count) ==
  LET want == IF 10 * count >= 7 * Len(table) THEN 2 * count + 1 ELSE Len(table)
  IN  IF want <= Len(table) THEN table
      ELSE table \o [ b \in 1 .. want - Len(table) |-> Nil ]

(* lcfgderivmap_resize: with a load of 0.7 the lists are put into a larger *)
(* array of a load of 0.5 one by one, each from its own home.              *)
Resized(table, h, count) ==
  LET want == IF 10 * count >= 7 * Len(table) THEN 2 * count + 1 ELSE Len(table)
  IN  IF want <= Len(table) THEN table
      ELSE FoldLeft(LAMBDA new, l : [ new EXCEPT ![SlotFor(new, h, h.list[l].id)] = l ],
                    [ b \in 1 .. want |-> Nil ], SelectSeq(table, LAMBDA l : l # Nil))

(* lcfgderivmap_find_or_insert_string with the package that asked: the     *)
(* list of the text if it is there, else one that is read and stored; a    *)
(* bad text is not stored and the package keeps what it had.               *)
SetFromMap(i, text) ==
  /\ slots # << >> /\ text # << >>
  /\ \E b \in { SlotFor(slots, heap, HashOf[text]) } :
       /\ b # 0
       /\ \/ slots[b] # Nil /\ Become(i, heap, slots[b])
          \/ /\ slots[b] = Nil /\ Room /\ ~GoodText(text)
             /\ Stay(DrvListFromString(heap, FreshDrvList(heap), text))
          \/ /\ slots[b] = Nil /\ Room /\ GoodText(text)
             /\ \E l \in { FreshDrvList(heap) } :
                  \E h \in { [ DrvListFromString(heap, l, text) EXCEPT !.list[l].id = HashOf[text] ] } :
                    /\ heap' = SetDerivation(h, i, l)
                    /\ of' = [ of EXCEPT ![i] = l ]
                    /\ slots' = Resized([ slots EXCEPT ![b] = l ], h, entries + 1)
                    /\ entries' = entries + 1

(* The loader is done: the last reference to the map frees its lists.      *)
RelinquishMap ==
  /\ slots # << >>
  /\ heap' = FoldLeft(DrvListRelinquish, heap, slots)
  /\ slots' = << >> /\ entries' = 0
  /\ UNCHANGED of

NewMap ==
  /\ slots = << >>
  /\ slots' = [ k \in 1 .. InitialBuckets |-> Nil ]
  /\ UNCHANGED << heap, of, entries >>

Next ==
  \/ \E i \in Holders :
       \/ \E text \in Texts : SetFromString(i, text) \/ AddString(i, text) \/ SetFromMap(i, text)
       \/ \E f \in FileLines : AddFileLine(i, f.file, f.line)
       \/ \E j \in Holders : Share(i, j) \/ Merge(i, j)
       \/ Unset(i) \/ PrintHeld(i)
  \/ RelinquishMap \/ NewMap

Spec == Init /\ [][Next]_vars

-----------------------------------------------------------------------------
(* Properties                                                              *)

Occurrences(d) ==
  FoldFunctionOnSet(+, 0, [ l \in DrvLists |-> Cardinality({ k \in DOMAIN heap.list[l].items :
                                                             heap.list[l].items[k] = d }) ], DrvLists)
Uses(l) == Cardinality({ i \in Holders : of[i] = l }) + Cardinality({ b \in DOMAIN slots : slots[b] = l })

(* What is referred to is live, and a list has one derivation for a file,  *)
(* with no line twice, as lcfgderivlist_find_node relies on.               *)
TypeOK ==
  /\ \A d \in Drvs : /\ heap.drv[d].refs \in Nat
                     /\ IsInjective(heap.drv[d].lines)
  /\ \A l \in DrvLists : /\ heap.list[l].refs \in Nat
                         /\ \A k \in DOMAIN heap.list[l].items :
                              heap.drv[heap.list[l].items[k]].refs > 0
                         /\ IsInjective([ k \in DOMAIN heap.list[l].items |->
                                            heap.drv[heap.list[l].items[k]].file ])
  /\ of \in [ Holders -> DrvLists \union {Nil} ] /\ slots \in Seq(DrvLists \union {Nil})
  /\ entries \in Nat

(* Every list and derivation has the references that the holders, the map  *)
(* and the lists hold, so each is freed once and none is forgotten         *)
(* (lcfgderivlist_relinquish, lcfgderivation_relinquish).                  *)
RefsExact ==
  /\ \A d \in Drvs : heap.drv[d].refs = Occurrences(d)
  /\ \A l \in DrvLists : heap.list[l].refs = Uses(l)

(* A length that is kept is that of the text the derivation has now, so    *)
(* the buffer lcfgderivlist_to_string makes is filled exactly.             *)
LengthFresh ==
  /\ \A d \in Drvs : heap.drv[d].refs > 0 =>
       heap.drv[d].length \in { Unknown, Len(DerivationText(heap.drv[d])) }
  /\ \A l \in DrvLists : DrvListLength(heap, l) = Len(DrvListText(heap, l))

(* No file or line twice, no reference too many or too few, so that a list *)
(* or derivation is freed when its last holder goes and not before, and no *)
(* length that is out of date.                                             *)
HeapSound == TypeOK /\ RefsExact /\ LengthFresh

(* The lines a text says for each file.                                    *)
TextSays(text) ==
  LET filesOf == { text[n].file : n \in DOMAIN text }
  IN  { << f, UNION { ToSet(text[n].lines) : n \in { m \in DOMAIN text : text[m].file = f } } >> :
          f \in filesOf }

(* However the map grew, each of its lists is where the next lookup of its *)
(* text looks, says what that text says whatever was added to the packages *)
(* that use it, and a bucket is left free (lcfgderivmap_find_or_insert_    *)
(* string, lcfgderivmap_resize).                                           *)
MapHonest ==
  /\ entries = Cardinality({ b \in DOMAIN slots : slots[b] # Nil })
  /\ slots # << >> => entries < Len(slots)
  /\ \A b \in DOMAIN slots : slots[b] # Nil =>
       \E text \in Texts :
         /\ HashOf[text] = heap.list[slots[b]].id
         /\ SlotFor(slots, heap, HashOf[text]) = b
         /\ Says(heap, slots[b]) = TextSays(text)

(* For the packages a derivation is the set of lines of each file: shared  *)
(* lists, copies and the map cannot be seen, a step changes one package    *)
(* only, and what it merges is united (common/derivation/list.c).  Which   *)
(* call makes which step is not said: that the others stay as they were is *)
(* the point.                                                              *)
AbstractFiles == UNION { { text[n].file : n \in DOMAIN text } : text \in Texts }
                   \union { f.file : f \in FileLines }
SaidLines(l, f) ==
  LET k == FindFile(heap, l, f)
  IN  IF k = 0 THEN {} ELSE {f} \X ({Unknown} \union ToSet(heap.drv[heap.list[l].items[k]].lines))
Unions == INSTANCE DerivationUnions
            WITH says <- [ i \in Holders |-> UNION { SaidLines(of[i], f) : f \in AbstractFiles } ]
ImplementsUnions == Unions!Spec
=============================================================================
