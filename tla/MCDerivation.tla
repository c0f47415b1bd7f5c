---------------------------- MODULE MCDerivation ----------------------------
(***************************************************************************)
(* Values for the constants of Derivation when TLC checks it.              *)
(***************************************************************************)
EXTENDS Derivation

Word(file, lines) == [ file |-> file, lines |-> lines ]

(* Two texts for the same file, one with two words for it, and a text with *)
(* a word that is none behind one that is good.                            *)
First == << Word(1, << 10 >>) >>
Second == << Word(1, << 10 >>), Word(1, << 9 >>) >>
Bad == << Word(2, << 9 >>), Word(1, << 10, Junk >>) >>
SomeTexts == { First, Second, Bad }

(* First and Second collide in a map of 2 buckets and in one of 5.         *)
SomeHashes == [ text \in SomeTexts |->
                  CASE text = First -> 11 [] text = Second -> 21 [] text = Bad -> 8 ]

SomeFileLines == { [ file |-> 1, line |-> 9 ], [ file |-> 2, line |-> -1 ] }

(* Which address a list or derivation has decides nothing: lists are       *)
(* numbered as the holders and the buckets refer to them, derivations as   *)
(* these lists do.                                                         *)
FirstIn(seq, x) == SelectInSeq(seq, LAMBDA y : y = x)
Seen(roots, items) ==
  << [ i \in DOMAIN roots |->
         << FirstIn(roots, roots[i]), Len(ItemsOf(heap, roots[i])),
            IF roots[i] = Nil THEN 0 ELSE heap.list[roots[i]].id >> ],
     [ k \in DOMAIN items |-> << FirstIn(items, items[k]), heap.drv[items[k]] >> ] >>
Canonical(roots) == Seen(roots, FlattenSeq([ i \in DOMAIN roots |-> ItemsOf(heap, roots[i]) ]))
WithoutAddresses ==
  << entries, FreeLists, FreeDrvs, Canonical([ i \in 1 .. Cardinality(Holders) |-> of[i] ] \o slots) >>
=============================================================================
