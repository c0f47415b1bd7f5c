----------------------------- MODULE ListPlaces -----------------------------
(***************************************************************************)
(* Lists made from a list: the entries that a loop over it keeps, and the  *)
(* list after one of the bubble sorts of the code.                         *)
(***************************************************************************)
EXTENDS Integers, FiniteSets

(* The entries at some places of a list, as a loop over the list meets them.*)
AtPlaces(seq, places) ==
  [ k \in 1 .. Cardinality(places) |->
      seq[CHOOSE i \in places : Cardinality({ j \in places : j <= i }) = k] ]

(* A stable sort: entry k is the one that k places come no later than.     *)
SortedByKey(key, seq) ==
  LET upTo(i) == { j \in DOMAIN seq : \/ key[j] < key[i]
                                      \/ key[j] = key[i] /\ j <= i }
  IN  [ k \in DOMAIN seq |-> seq[CHOOSE i \in DOMAIN seq : Cardinality(upTo(i)) = k] ]
=============================================================================
