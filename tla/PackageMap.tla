----------------------------- MODULE PackageMap -----------------------------
(***************************************************************************)
(* What a package set promises its callers: for every package name the     *)
(* list of the packages with that name, each merge going through that list *)
(* alone, by the rules of the set.  How the lists are stored cannot be     *)
(* seen.  That they are moved to a larger table can: a new name may have   *)
(* every list merged again, by the rules the set has now, and what is      *)
(* refused then ends the process.                                          *)
(***************************************************************************)
EXTENDS PackageMerge

CONSTANT RuleSets    (* The combinations of merge rules the callers set.   *)

VARIABLES
  map,         (* the list of packages of each name                       *)
  rules,       (* the merge rules of the set                              *)
  derivation,  (* the source files the derivation of each package names   *)
  ended        (* the process has ended                                   *)

mapVars == << map, rules, derivation, ended >>

Names == { p.name : p \in Packages }

MapInit ==
  /\ map = [ n \in Names |-> << >> ]
  /\ rules \in RuleSets
  /\ derivation = [ p \in Packages |-> {p.file} ]
  /\ ended = FALSE

(* A list is merged again from nothing, one package after the other.       *)
Unmerged(d) == [ list |-> << >>, derivation |-> d, refused |-> FALSE ]

AndMerged(before, r, p) ==
  [ list |-> Merged(before.list, r, p),
    derivation |-> DerivationAfter(before.list, r, p, before.derivation),
    refused |-> before.refused \/ ChangeOf(before.list, r, p) = "ERROR" ]

Remerged(list, r, d) ==
  LET upTo[k \in 0 .. Len(list)] ==
        IF k = 0 THEN Unmerged(d)
        ELSE CHOOSE after \in { AndMerged(before, r, list[k]) :
                                before \in { upTo[k - 1] } } : TRUE
  IN  upTo[Len(list)]

(* All lists become new, and d is the derivation of each package.          *)
MapBecomes(new, d) ==
  map' = new /\ derivation' = d /\ ended' = FALSE

(* ... and every list in new is merged again.                              *)
MapRemerge(new, d) ==
  \E again \in { [ n \in Names |-> Remerged(new[n], rules, d) ] } :
    IF \E n \in Names : again[n].refused
    THEN map' = new /\ derivation' = d /\ ended' = TRUE
    ELSE MapBecomes([ n \in Names |-> again[n].list ],
                    [ q \in Packages |-> again[q.name].derivation[q] ])

(* Only a name that is new may have all lists merged again.                *)
MapMerge(p) ==
  LET new == [ map EXCEPT ![p.name] = Merged(@, rules, p) ]
      d   == DerivationAfter(map[p.name], rules, p, derivation)
  IN /\ \/ MapBecomes(new, d)
        \/ map[p.name] = << >> /\ new[p.name] # << >> /\ MapRemerge(new, d)
     /\ UNCHANGED rules

MapSetRules(r) ==
  /\ rules' = r
  /\ UNCHANGED << map, derivation, ended >>

(* Printing leaves every list sorted.                                      *)
MapSort ==
  /\ map' = [ n \in Names |-> Sorted(map[n]) ]
  /\ UNCHANGED << rules, derivation, ended >>

MapNext ==
  /\ ~ended
  /\ \/ \E p \in Packages : MapMerge(p)
     \/ \E r \in RuleSets : MapSetRules(r)
     \/ MapSort
=============================================================================
