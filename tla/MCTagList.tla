----------------------------- MODULE MCTagList -----------------------------
(***************************************************************************)
(* Values for the constants of TagList when TLC checks it.                 *)
(***************************************************************************)
EXTENDS TagList

(* A name, a name behind a blank, and one before a blank, which is none.   *)
OneTag == { << 1 >>, << 2 >>, << Blank, 1 >>, << 1, Blank >> }

(* Which nodes and tags the allocator picked decides nothing: a list is    *)
(* seen as the tags along it, numbered as they are first met, with the     *)
(* places its links back lead to.                                          *)
Along(walks) ==
  LET all == FlattenSeq(walks)
      tagRank(t) == Min({ i \in DOMAIN all : heap.node[all[i]].tag = t })
      place(n) == IF n = Nil THEN 0 ELSE SelectInSeq(all, LAMBDA m : m = n)
  IN  << [ i \in DOMAIN all |-> << tagRank(heap.node[all[i]].tag), NameAt(heap, all[i]),
                                   heap.tag[heap.node[all[i]].tag].refs,
                                   place(heap.node[all[i]].prev) >> ],
         [ l \in DOMAIN walks |-> << Len(walks[l]), place(heap.list[l].tail),
                                     heap.list[l].size, heap.list[l].refs >> ],
         place(iter.current) >>

WithoutAddresses == << Along([ l \in Lists |-> Walk(heap, l) ]), owned, iter.list,
                       FreeNodes, FreeTags >>

(* Two words with and without blanks around, and a bad second word.        *)
SomeTags == { << Blank, 2, Blank, Blank, 1 >>, << 1, Blank, -1 >> }
=============================================================================
