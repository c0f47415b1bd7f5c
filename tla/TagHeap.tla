------------------------------ MODULE TagHeap ------------------------------
(***************************************************************************)
(* Lists of tags (resources/tags): doubly linked nodes, each with a        *)
(* reference to a tag that several nodes and lists may share.  The heap is *)
(* a record of functions, [tag, node, list], and an operation an operator  *)
(* from heap to heap, so that the compound operations are the loops over   *)
(* the simple ones that they are in the code.  Names are numbers in the    *)
(* order of strcmp; a text is a sequence of names, blanks (0) and pieces   *)
(* that no tag may have (-1).                                              *)
(***************************************************************************)
EXTENDS ListPlaces, Sequences, SequencesExt, FiniteSetsExt

CONSTANTS
  NodeCount,   (* how many nodes, and how many tags, may be allocated      *)
  TagCount

Nil == 0
Nodes == 1 .. NodeCount
Tags == 1 .. TagCount
Blank == 0

FreeTag == [ name |-> Nil, refs |-> 0 ]
FreeNode == [ tag |-> Nil, prev |-> Nil, next |-> Nil ]
FreeList == [ head |-> Nil, tail |-> Nil, size |-> 0, refs |-> 0 ]

FreshNode(h) == Min({ n \in Nodes : h.node[n].tag = Nil })
FreshTag(h) == Min({ t \in Tags : h.tag[t].refs = 0 })

(* A new tag has a name and one reference, a new list no node and one.     *)
TagNew(h, t, name) == [ h EXCEPT !.tag[t] = [ name |-> name, refs |-> 1 ] ]
ListNew(h, l) == [ h EXCEPT !.list[l] = [ FreeList EXCEPT !.refs = 1 ] ]

TagAcquire(h, t) == [ h EXCEPT !.tag[t].refs = @ + 1 ]

(* The last reference frees the tag.                                       *)
TagRelinquish(h, t) ==
  IF h.tag[t].refs <= 1 THEN [ h EXCEPT !.tag[t] = FreeTag ] ELSE [ h EXCEPT !.tag[t].refs = @ - 1 ]

IsEmpty(h, l) == h.list[l].size = 0

(* The nodes of a list as a loop over next meets them, up to the one that  *)
(* has none.                                                               *)
Behind(h, l, walk) == IF walk = << >> THEN h.list[l].head ELSE h.node[walk[Len(walk)]].next
Walk(h, l) ==
  LET longer == [ walk \in Seq(Nodes) |->
                    IF Behind(h, l, walk) = Nil THEN walk ELSE Append(walk, Behind(h, l, walk)) ]
      met[k \in 0 .. NodeCount] == IF k = 0 THEN << >> ELSE longer[met[k - 1]]
  IN  met[NodeCount]

(* A loop over the entries of seq, each of which changes the heap.         *)
Loop(h, seq, Step(_, _)) ==
  LET upTo[k \in 0 .. Len(seq)] == IF k = 0 THEN h ELSE Step(upTo[k - 1], seq[k])
  IN  upTo[Len(seq)]

NameAt(h, n) == h.tag[h.node[n].tag].name
NamesAlong(h, walk) == [ i \in DOMAIN walk |-> NameAt(h, walk[i]) ]
NamesOf(h, l) == NamesAlong(h, Walk(h, l))

-----------------------------------------------------------------------------
(* Nodes                                                                   *)

(* lcfgtaglist_insert_next: behind node n, or at the head for Nil.  A new  *)
(* head is the tail of a list that was empty.                              *)
InsertNext(h, l, n, t) ==
  LET new == FreshNode(h)
      old == h.list[l]
      behind == IF n = Nil THEN old.head ELSE h.node[n].next
      placed == [ h.node EXCEPT
                    ![new] = [ tag |-> t, prev |-> n, next |-> behind ] ]
      linked == IF behind = Nil THEN placed ELSE [ placed EXCEPT ![behind].prev = new ]
      joined == IF n = Nil THEN linked ELSE [ linked EXCEPT ![n].next = new ]
  IN  [ TagAcquire(h, t) EXCEPT
          !.node = joined,
          !.list[l] = [ head |-> IF n = Nil THEN new ELSE old.head,
                        tail |-> IF (IF n = Nil THEN IsEmpty(h, l) ELSE behind = Nil) THEN new ELSE old.tail,
                        size |-> old.size + 1, refs |-> old.refs ] ]

AppendTag(h, l, t) == InsertNext(h, l, h.list[l].tail, t)
PrependTag(h, l, t) == InsertNext(h, l, Nil, t)

(* lcfgtaglist_remove_tag, without the reference to the tag, which the     *)
(* caller now has.                                                         *)
Unlink(h, l, n) ==
  LET gone == h.node[n]
      old == h.list[l]
      first == n = old.head
      forth == IF first THEN h.node ELSE [ h.node EXCEPT ![gone.prev].next = gone.next ]
      back == IF gone.next = Nil THEN forth
              ELSE [ forth EXCEPT ![gone.next].prev = IF first THEN Nil ELSE gone.prev ]
  IN  [ h EXCEPT
          !.node = [ back EXCEPT ![n] = FreeNode ],
          !.list[l] = [ head |-> IF first THEN gone.next ELSE old.head,
                        tail |-> IF gone.next # Nil THEN old.tail ELSE IF first THEN Nil ELSE gone.prev,
                        size |-> old.size - 1, refs |-> old.refs ] ]

RemoveTag(h, l, n) == TagRelinquish(Unlink(h, l, n), h.node[n].tag)

(* A list is destroyed from its tail.                                      *)
ListDestroy(h, l) ==
  [ Loop(h, Reverse(Walk(h, l)), LAMBDA g, n : RemoveTag(g, l, n)) EXCEPT !.list[l] = FreeList ]

ListRelinquish(h, l) ==
  IF h.list[l].refs <= 1 THEN ListDestroy(h, l)
  ELSE [ h EXCEPT !.list[l].refs = @ - 1 ]

(* Where along the list a name is met, and the first node that has it.     *)
Matches(h, walk, name) == { i \in DOMAIN walk : NameAt(h, walk[i]) = name }
FirstMatch(walk, places) == IF places = {} THEN Nil ELSE walk[Min(places)]
FindNode(h, l, name) ==
  LET walk == Walk(h, l) IN FirstMatch(walk, Matches(h, walk, name))

HasTag(h, l, name) == FindNode(h, l, name) # Nil

-----------------------------------------------------------------------------
(* Texts                                                                   *)

(* A word without blanks is a name when it is one and nothing else.        *)
ValidTag(word) == Len(word) = 1 /\ word[1] > Blank

(* lcfgtag_from_string skips blanks before the name, none behind it.       *)
TagWord(text) ==
  LET dark == { i \in DOMAIN text : text[i] # Blank }
  IN  IF dark = {} THEN << >> ELSE SubSeq(text, Min(dark), Len(text))

(* The words strtok_r finds.                                               *)
Tokens(text) ==
  LET dark(i) == i \in DOMAIN text /\ text[i] # Blank
      starts == { i \in DOMAIN text : dark(i) /\ ~dark(i - 1) }
      end(i) == Min({ j \in i .. Len(text) : ~dark(j + 1) })
  IN  AtPlaces([ i \in DOMAIN text |-> SubSeq(text, i, end(i)) ], starts)

(* lcfgtaglist_to_string: the names with single blanks, and its length in  *)
(* pieces.                                                                 *)
Joined(names) ==
  FlattenSeq([ i \in DOMAIN names |->
                 IF i = 1 THEN << names[i] >> ELSE << Blank, names[i] >> ])
ListText(h, l) == Joined(NamesOf(h, l))

StringLength(h, l) == IF IsEmpty(h, l) THEN 0 ELSE 2 * Len(Walk(h, l)) - 1

-----------------------------------------------------------------------------
(* Mutations.  Each makes a tag, hands it to the list, which takes a       *)
(* reference of its own, and relinquishes it.                              *)

MutatePrepend(h, l, text) ==
  IF ~ValidTag(TagWord(text)) THEN h
  ELSE TagRelinquish(PrependTag(TagNew(h, FreshTag(h), TagWord(text)[1]), l, FreshTag(h)),
                     FreshTag(h))

MutateAppend(h, l, text) ==
  IF ~ValidTag(TagWord(text)) THEN h
  ELSE TagRelinquish(AppendTag(TagNew(h, FreshTag(h), TagWord(text)[1]), l, FreshTag(h)),
                     FreshTag(h))

(* The name is looked for as it was given, blanks and all.                 *)
MutateAdd(h, l, text) ==
  IF ValidTag(text) /\ HasTag(h, l, text[1]) THEN h ELSE MutateAppend(h, l, text)

(* One node gives up its tag for the new one.                              *)
Retag(h, n, t) ==
  TagRelinquish([ TagAcquire(h, t) EXCEPT !.node[n].tag = t ], h.node[n].tag)

(* lcfgtaglist_mutate_replace: every match, or the first, gets the one new *)
(* tag; a replacement that is no tag changes nothing.                      *)
MutateReplace(h, l, match, text, global) ==
  LET walk == Walk(h, l)
      matching == Matches(h, walk, match)
      chosen == IF global THEN matching ELSE {Min(matching)}
      new == FreshTag(h)
  IN  IF ~ValidTag(text) \/ matching = {} THEN h
      ELSE TagRelinquish(Loop(TagNew(h, new, text[1]), AtPlaces(walk, chosen),
                              LAMBDA g, n : Retag(g, n, new)),
                         new)

SwapIfAbove(h, n, m) ==
  IF NameAt(h, n) > NameAt(h, m)
    THEN [ h EXCEPT !.node[n].tag = h.node[m].tag, !.node[m].tag = h.node[n].tag ]
    ELSE h

(* One pass over the list swaps the tags, not the nodes, that are out of   *)
(* order; as many passes as nodes leave nothing to swap.                   *)
SortPass(h, walk) ==
  Loop(h, [ i \in 1 .. Len(walk) - 1 |-> i ], LAMBDA g, i : SwapIfAbove(g, walk[i], walk[i + 1]))

SortTags(h, l) ==
  IF h.list[l].size < 2 THEN h
  ELSE LET walk == Walk(h, l) IN Loop(h, walk, LAMBDA g, n : SortPass(g, walk))

-----------------------------------------------------------------------------
(* New lists                                                               *)

(* lcfgtaglist_from_array and, for the tokens of a text, from_string: a    *)
(* word that is no tag gives up the list.                                  *)
FromWords(h, l, words) ==
  LET bad == { i \in DOMAIN words : ~ValidTag(TagWord(words[i])) }
      Appended(some) == Loop(ListNew(h, l), some, LAMBDA g, w : MutateAppend(g, l, w))
  IN  IF bad = {} THEN Appended(words)
      ELSE ListRelinquish(Appended(SubSeq(words, 1, Min(bad) - 1)), l)

(* The nodes hand their tags to list l: once if a name that the list       *)
(* already has is passed over.                                             *)
Hand(g, l, n, once) ==
  IF once /\ HasTag(g, l, NameAt(g, n)) THEN g ELSE AppendTag(g, l, g.node[n].tag)
HandTags(h, l, nodes, once) == Loop(h, nodes, LAMBDA g, n : Hand(g, l, n, once))

Clone(h, l, k) == HandTags(ListNew(h, l), l, Walk(h, k), FALSE)

SetUnique(h, l, k) == HandTags(ListNew(h, l), l, Walk(h, k), TRUE)

(* Variant: the second list is appended whole.                             *)
SetUnionWithDuplicates(h, l, j, k) ==
  HandTags(SetUnique(h, l, j), l, Walk(h, k), FALSE)

SetUnion(h, l, j, k) == HandTags(SetUnique(h, l, j), l, Walk(h, k), TRUE)

(* The nodes of list j whose names list k has, or has not.                 *)
Shared(h, j, k, is) ==
  LET walk == Walk(h, j)
  IN  AtPlaces(walk, { i \in DOMAIN walk : HasTag(h, k, NameAt(h, walk[i])) = is })

SetIntersection(h, l, j, k) == HandTags(ListNew(h, l), l, Shared(h, j, k, TRUE), TRUE)

SetSubtract(h, l, j, k) == HandTags(ListNew(h, l), l, Shared(h, j, k, FALSE), TRUE)
=============================================================================
