----------------------------- MODULE MCComponent -----------------------------
(***************************************************************************)
(* Values for the constants of Component when TLC checks it.               *)
(***************************************************************************)
EXTENDS Component, TLC

CONSTANTS l1, l2, l3, l4, l5    (* lists                                    *)

R(name, value, context, priority, struct) ==
  [ name |-> name, value |-> value, context |-> context,
    priority |-> priority, struct |-> struct ]

(* Two values for one name, the second with a higher priority, and a       *)
(* resource of another name.                                               *)
TwoNames == { R("m", 1, 0, 0, 1), R("m", 2, 0, 1, 2), R("n", 1, 0, 0, 3) }

(* One value in two contexts of equal priority.                            *)
TwoContexts == { R("m", 1, 1, 0, 1), R("m", 1, 2, 0, 2) }

(* The rules that always refuse, that never do, and those of the profiles  *)
(* (xml/components.c: squash identical resources, then by priority).       *)
SomeRules == { {}, {"KEEP_ALL"}, {"SQUASH_IDENTICAL", "USE_PRIORITY"} }
KeepDifferent == { {"KEEP_ALL", "SQUASH_IDENTICAL"} }

(* One resource for each name, and the rules every component starts with.  *)
OnePerName == { R("m", 1, 0, 0, 1), R("n", 1, 0, 0, 2) }
NoRules == { {} }

SymmetricLists == Permutations(Lists)

(* The rules a freed component or list had decide nothing.                 *)
WithoutFreed ==
  << live, [ c \in live |-> rules[c] ], table, items,
     [ l \in { k \in Lists : listRefs[k] # 0 } |-> listRules[l] ],
     listRefs, call >>
=============================================================================
