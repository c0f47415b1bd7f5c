------------------------------ MODULE TagList ------------------------------
(***************************************************************************)
(* A caller of the tag lists (resources/tags): lists it makes, changes,    *)
(* combines and relinquishes, and an iterator that walks one of them while *)
(* they change.  Every operation is that of TagHeap on the heap; asked     *)
(* says which it was, so that what it did can be held against its name.    *)
(***************************************************************************)
EXTENDS TagHeap

CONSTANTS
  Lists,       (* the lists the caller may keep                            *)
  Names,       (* the names of tags, numbers                               *)
  NoList,      (* no list                                                  *)
  TagInputs,   (* the texts that name one tag                              *)
  ListInputs,  (* the texts that name several                              *)
  MaxTags,     (* the longest list the caller makes                        *)
  Spare        (* nodes that the caller leaves free                        *)

ASSUME TagListAssumption ==
  /\ NodeCount \in Nat /\ TagCount \in Nat /\ MaxTags \in Nat /\ Spare \in Nat
  /\ Names \subseteq Nat \ {Nil}
  /\ NoList \notin Lists
  /\ \A text \in TagInputs \cup ListInputs : text \in Seq(Names \cup {Blank, -1})

VARIABLES
  heap,    (* [tag, node, list]: the structures in memory                  *)
  owned,   (* the lists whose maker has not relinquished them              *)
  iter,    (* [list, current]: the iterator                                *)
  asked    (* history: the last call, and a turn that tells it from the    *)
           (* same call before it                                          *)

tagVars == << heap, owned, iter, asked >>

NoIterator == [ list |-> NoList, current |-> Nil ]

TagInit ==
  /\ heap = [ tag |-> [ t \in Tags |-> FreeTag ],
              node |-> [ n \in Nodes |-> FreeNode ],
              list |-> [ l \in Lists |-> FreeList ] ]
  /\ owned = {}
  /\ iter = NoIterator
  /\ asked = [ turn |-> FALSE, call |-> << >> ]

Asks(call) == asked' = [ turn |-> ~asked.turn, call |-> call ]

Live == { l \in Lists : heap.list[l].refs > 0 }
FreeNodes == Cardinality({ n \in Nodes : heap.node[n].tag = Nil })
FreeTags == Cardinality({ t \in Tags : heap.tag[t].refs = 0 })

(* The allocator's choice of a list decides nothing: the first free one.   *)
FreshList == { l \in Lists \ Live : \A k \in Lists \ Live : l <= k }

(* Room for a list of up to k more nodes and tags.                         *)
Room(k) == FreeNodes >= k + Spare /\ FreeTags >= k
Short(l) == heap.list[l].size < MaxTags

Becomes(h) == heap' = h /\ UNCHANGED << owned, iter >>
Makes(l, h) ==
  /\ heap' = h
  /\ owned' = IF h.list[l].refs > 0 THEN owned \cup {l} ELSE owned
  /\ UNCHANGED iter

FromString(l) ==
  \E text \in ListInputs :
    /\ Room(Len(Tokens(text)))
    /\ Makes(l, FromWords(heap, l, Tokens(text)))
    /\ Asks([ op |-> "from_string", list |-> l, text |-> text ])

FromArray(l) ==
  \E words \in { << >> } \cup { << a >> : a \in TagInputs } :
    /\ Room(Len(words))
    /\ Makes(l, FromWords(heap, l, words))
    /\ Asks([ op |-> "from_array", list |-> l, words |-> words ])

Edit(l) ==
  \E text \in TagInputs :
    /\ Room(1) /\ Short(l)
    /\ \/ /\ Becomes(MutateAppend(heap, l, text))
          /\ Asks([ op |-> "append", list |-> l, text |-> text ])
       \/ /\ Becomes(MutatePrepend(heap, l, text))
          /\ Asks([ op |-> "prepend", list |-> l, text |-> text ])
       \/ /\ Becomes(MutateAdd(heap, l, text))
          /\ Asks([ op |-> "add", list |-> l, text |-> text ])

(* The place of a node along its list, 0 for no node.                      *)
PlaceOf(l, n) == SelectInSeq(Walk(heap, l), LAMBDA m : m = n)

(* A caller may put a tag it found behind any node.                        *)
Insert(l) ==
  \E n \in ToSet(Walk(heap, l)), k \in owned, name \in Names :
    /\ FreeNodes > Spare /\ Short(l)
    /\ HasTag(heap, k, name)
    /\ Becomes(InsertNext(heap, l, n, heap.node[FindNode(heap, k, name)].tag))
    /\ Asks([ op |-> "insert", list |-> l, at |-> PlaceOf(l, n), name |-> name ])

(* No caller removes the tag its iterator is at.                           *)
RemoveNode(l) ==
  \E n \in ToSet(Walk(heap, l)) :
    /\ iter.current # n
    /\ Becomes(RemoveTag(heap, l, n))
    /\ Asks([ op |-> "remove", list |-> l, at |-> PlaceOf(l, n) ])

ReplaceTag(l) ==
  \E match \in Names, text \in TagInputs, global \in BOOLEAN :
    /\ Room(1)
    /\ Becomes(MutateReplace(heap, l, match, text, global))
    /\ Asks([ op |-> "replace", list |-> l, match |-> match, text |-> text, global |-> global ])

SortList(l) == Becomes(SortTags(heap, l)) /\ Asks([ op |-> "sort", list |-> l ])

(* The lists that a call makes of one list or of two.                      *)
OfOne(l, k) ==
  /\ Room(heap.list[k].size)
  /\ \/ Makes(l, Clone(heap, l, k)) /\ Asks([ op |-> "clone", list |-> l, from |-> k ])
     \/ Makes(l, SetUnique(heap, l, k)) /\ Asks([ op |-> "unique", list |-> l, from |-> k ])

OfTwo(l, j, k) ==
  /\ FreeNodes >= Spare + Cardinality(ToSet(NamesOf(heap, j)) \cup ToSet(NamesOf(heap, k)))
  /\ \/ /\ Makes(l, SetUnion(heap, l, j, k))
        /\ Asks([ op |-> "union", list |-> l, from |-> j, with |-> k ])
     \/ /\ Makes(l, SetIntersection(heap, l, j, k))
        /\ Asks([ op |-> "intersection", list |-> l, from |-> j, with |-> k ])
     \/ /\ Makes(l, SetSubtract(heap, l, j, k))
        /\ Asks([ op |-> "subtract", list |-> l, from |-> j, with |-> k ])

Combine(l) == \E j, k \in owned : OfOne(l, k) \/ OfTwo(l, j, k)

Relinquish(l) ==
  /\ heap' = ListRelinquish(heap, l)
  /\ owned' = owned \ {l}
  /\ UNCHANGED iter
  /\ Asks([ op |-> "relinquish", list |-> l ])

-----------------------------------------------------------------------------
(* The iterator                                                            *)

(* Variant: the iterator has no reference to its list.                     *)
IterNewUncounted(l) ==
  /\ iter = NoIterator
  /\ iter' = [ list |-> l, current |-> Nil ]
  /\ UNCHANGED << heap, owned >>
  /\ Asks([ op |-> "iterate", list |-> l ])

IterNew(l) ==
  /\ iter = NoIterator
  /\ heap' = [ heap EXCEPT !.list[l].refs = @ + 1 ]
  /\ iter' = [ list |-> l, current |-> Nil ]
  /\ UNCHANGED owned
  /\ Asks([ op |-> "iterate", list |-> l ])

(* Before a start next begins at the head; at the end it stays where it is.*)
IterNext ==
  /\ iter # NoIterator
  /\ IF iter.current = Nil THEN ~IsEmpty(heap, iter.list)
     ELSE heap.node[iter.current].next # Nil
  /\ iter' = [ iter EXCEPT !.current = IF @ = Nil THEN heap.list[iter.list].head
                                       ELSE heap.node[@].next ]
  /\ UNCHANGED << heap, owned >>
  /\ Asks([ op |-> "next" ])

IterPrev ==
  /\ iter # NoIterator
  /\ IF iter.current = Nil THEN ~IsEmpty(heap, iter.list)
     ELSE heap.node[iter.current].prev # Nil
  /\ iter' = [ iter EXCEPT !.current = IF @ = Nil THEN heap.list[iter.list].tail
                                       ELSE heap.node[@].prev ]
  /\ UNCHANGED << heap, owned >>
  /\ Asks([ op |-> "prev" ])

IterReset ==
  /\ iter.current # Nil /\ iter' = [ iter EXCEPT !.current = Nil ]
  /\ UNCHANGED << heap, owned >>
  /\ Asks([ op |-> "reset" ])

IterDestroy ==
  /\ iter # NoIterator
  /\ heap' = ListRelinquish(heap, iter.list)
  /\ iter' = NoIterator
  /\ UNCHANGED owned
  /\ Asks([ op |-> "destroy" ])

TagNext ==
  \/ \E l \in FreshList : FromString(l) \/ FromArray(l) \/ Combine(l)
  \/ \E l \in owned :
       \/ Edit(l) \/ Insert(l) \/ RemoveNode(l) \/ ReplaceTag(l) \/ SortList(l)
       \/ Relinquish(l) \/ IterNew(l)
  \/ IterNext \/ IterPrev \/ IterReset \/ IterDestroy

TagSpec == TagInit /\ [][TagNext]_tagVars

-----------------------------------------------------------------------------
(* Properties                                                              *)

(* The heap, the lists and the iterator have their types.                  *)
TagsTyped ==
  /\ heap.tag \in [ Tags -> [ name : Names \cup {Nil}, refs : 0 .. NodeCount + 1 ] ]
  /\ heap.node \in [ Nodes -> [ tag : Tags \cup {Nil}, prev : Nodes \cup {Nil},
                                next : Nodes \cup {Nil} ] ]
  /\ heap.list \in [ Lists -> [ head : Nodes \cup {Nil}, tail : Nodes \cup {Nil},
                                size : 0 .. NodeCount, refs : 0 .. 2 ] ]
  /\ owned \subseteq Lists
  /\ iter \in [ list : Lists \cup {NoList}, current : Nodes \cup {Nil} ]

(* The nodes of a list are as many as its size, different, end at its tail *)
(* and are met in the opposite order from the tail: what insert_next,      *)
(* remove_tag and the loops in both directions rely on.                    *)
LinksMirror ==
  \A l \in Live :
    LET walk == Walk(heap, l)
        last == Len(walk)
    IN  /\ last = heap.list[l].size
        /\ Cardinality(ToSet(walk)) = last
        /\ heap.list[l].tail = IF last = 0 THEN Nil ELSE walk[last]
        /\ \A i \in 1 .. last :
             heap.node[walk[i]].prev = IF i = 1 THEN Nil ELSE walk[i - 1]

(* A tag is freed exactly when the last node that holds it is: replacing,  *)
(* sorting, copying and combining lists shares tags and never loses count, *)
(* and no call leaves a tag or a node behind.                              *)
RefsExact ==
  /\ \A t \in Tags :
       heap.tag[t].refs = Cardinality({ n \in Nodes : heap.node[n].tag = t })
  /\ { n \in Nodes : heap.node[n].tag # Nil } =
       UNION { ToSet(Walk(heap, l)) : l \in Live }

(* An iterator is at a node of a list that lives, whoever relinquishes it. *)
IteratorSound ==
  iter # NoIterator =>
    /\ iter.list \in Live
    /\ iter.current \in {Nil} \cup ToSet(Walk(heap, iter.list))

(* Reading back the text of a list makes the same list, and the length     *)
(* computed for its buffer is that of the text (the assertion at the end   *)
(* of lcfgtaglist_to_string).                                              *)
TextRoundTrip ==
  \A l \in Live :
    /\ Len(ListText(heap, l)) = StringLength(heap, l)
    /\ Tokens(ListText(heap, l)) = [ i \in DOMAIN NamesOf(heap, l) |-> << NamesOf(heap, l)[i] >> ]

(* The lists implement sequences of names and the iterator a place in one. *)
Abstract ==
  INSTANCE TagSequences WITH
    held <- [ content |-> [ l \in Lists |-> IF l \in Live THEN NamesOf(heap, l) ELSE NoList ],
              cursor |-> [ list |-> iter.list,
                           at |-> IF iter.current = Nil THEN 0
                                  ELSE PlaceOf(iter.list, iter.current) ],
              kept |-> owned ]

(* Copies, unions, intersections and differences hold the names that sets  *)
(* would, once each but in a copy, in the order in which the lists they    *)
(* are made from first show them; the nodes that callers spare leave room  *)
(* for the result of lists that hold all the others.  Iterators are of no  *)
(* account here.                                                           *)
CombinedExact ==
  iter = NoIterator =>
  \A l \in FreshList, j, k \in owned :
    LET a == NamesOf(heap, j)
        b == NamesOf(heap, k)
    IN  FreeNodes >= Len(a) /\ FreeNodes >= Cardinality(ToSet(a \o b)) =>
          /\ NamesOf(Clone(heap, l, j), l) = a
          /\ NamesOf(SetUnique(heap, l, j), l) = Abstract!FirstOnly(a, Names)
          /\ NamesOf(SetUnion(heap, l, j, k), l) = Abstract!FirstOnly(a \o b, Names)
          /\ NamesOf(SetIntersection(heap, l, j, k), l) = Abstract!FirstOnly(a, ToSet(b))
          /\ NamesOf(SetSubtract(heap, l, j, k), l) = Abstract!FirstOnly(a, Names \ ToSet(b))

(* Whatever is edited, sorted, combined and relinquished, the links can be *)
(* walked both ways, what nobody refers to is freed, what somebody refers  *)
(* to is not, and an iterator stays inside a live list                     *)
(* (lcfgtaglist_insert_next, lcfgtaglist_remove_tag, lcfgtaglist_sort).    *)
ListsSound == TagsTyped /\ LinksMirror /\ RefsExact /\ IteratorSound

(* Lists made from a text or from other lists hold what they should.       *)
MadeExact == TextRoundTrip /\ CombinedExact

(* Every call on the linked lists does to the sequence of names what that  *)
(* call promises: an append puts the name at the end, a replacement takes  *)
(* the first place or every place, a set has its members in order, an      *)
(* iterator goes forth and back, and all other lists and places stay       *)
(* (lcfgtaglist_mutate_append and the others, lcfgtagiter_next).           *)
ImplementsSequences == Abstract!Spec
=============================================================================
