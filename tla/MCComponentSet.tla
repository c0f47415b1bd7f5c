--------------------------- MODULE MCComponentSet ---------------------------
(***************************************************************************)
(* Values for the constants of ComponentSet when TLC checks it.            *)
(***************************************************************************)
EXTENDS ComponentSet, TLC

CONSTANTS
  a, a2, b, d,   (* components                                            *)
  s1, s2         (* sets                                                  *)

(* Two components of one name, and three names for two buckets: all start  *)
(* at the second one, so probes collide and run over the end of the table, *)
(* and a set can be full.  A name is written as one of its components.     *)
ThreeNames == (a :> a @@ a2 :> a @@ b :> b @@ d :> d)
SameHash == [ n \in {a, b, d} |-> 5 ]

(* What has been merged into a component decides nothing.                  *)
WithoutContent == << slot, entries, setRefs, refs, owned, call >>

(* The two sets are alike, and so are the components b and d.              *)
Alike == { p @@ q : p \in Permutations({s1, s2}), q \in Permutations({b, d}) }
=============================================================================
