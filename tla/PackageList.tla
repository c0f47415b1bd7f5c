---------------------------- MODULE PackageList -----------------------------
(***************************************************************************)
(* A package list (packages/list.c) as its callers use it: packages and    *)
(* whole lists are merged into it, its merge rules are replaced, it is     *)
(* sorted for printing.                                                    *)
(*                                                                         *)
(* Merging a list is a loop over its packages that stops at the first      *)
(* error and leaves what was merged before; pending holds the packages the *)
(* running call has not reached yet.  The library is single threaded, so   *)
(* no other call starts before the loop has ended.                         *)
(***************************************************************************)
EXTENDS PackageMerge

CONSTANTS
  RuleSets,    (* The combinations of merge rules the callers set.        *)
  MaxLength,   (* Bound: no call may take the list beyond this length.    *)
  MaxMerge     (* Bound on the length of a list merged into it.           *)

ASSUME RuleSetsAssumption == RuleSets \subseteq SUBSET MergeRules

VARIABLES
  list,        (* head .. tail of the LCFGPackageList                     *)
  rules,       (* its merge_rules                                         *)
  derivation,  (* the source files the derivation of each package names   *)
  pending,     (* rest of the list being merged, <<>> when none is        *)
  change       (* LCFGChange of the last or running call                  *)

vars == << list, rules, derivation, pending, change >>

TypeOK ==
  /\ list \in Seq(Packages)
  /\ rules \in RuleSets
  /\ derivation \in [Packages -> SUBSET Nat]
  /\ pending \in Seq(Packages)
  /\ change \in Changes
  /\ pending # << >> => change \in {"NONE", "MODIFIED"}

Init ==
  /\ list = << >>
  /\ rules \in RuleSets
  /\ derivation = [ p \in Packages |-> {p.file} ]
  /\ pending = << >>
  /\ change = "NONE"

(* One package goes through lcfgpkglist_merge_package.                     *)
Absorb(p) ==
  /\ list' = Merged(list, rules, p)
  /\ derivation' = DerivationAfter(list, rules, p, derivation)

MergePackage(p) ==
  /\ pending = << >> /\ Len(list) < MaxLength
  /\ Absorb(p)
  /\ change' = ChangeOf(list, rules, p)
  /\ UNCHANGED << rules, pending >>

MergeList(other) ==
  /\ pending = << >> /\ Len(list) + Len(other) <= MaxLength
  /\ pending' = other
  /\ change' = "NONE"
  /\ UNCHANGED << list, rules, derivation >>

(* What the loops over a list make of the result of one merge.             *)
Accumulate(sofar, one) ==
  CASE one = "ERROR" -> "ERROR"
    [] one = "NONE"  -> sofar
    [] OTHER         -> "MODIFIED"

MergeListStep ==
  /\ pending # << >>
  /\ LET p   == Head(pending)
         one == ChangeOf(list, rules, p)
     IN /\ Absorb(p)
        /\ change' = Accumulate(change, one)
        /\ pending' = IF one = "ERROR" THEN << >> ELSE Tail(pending)
  /\ UNCHANGED rules

SetMergeRules(r) ==
  /\ pending = << >>
  /\ rules' = r
  /\ UNCHANGED << list, derivation, pending, change >>

Sort ==
  /\ pending = << >>
  /\ list' = Sorted(list)
  /\ UNCHANGED << rules, derivation, pending, change >>

Inputs == UNION { [1 .. n -> Packages] : n \in 1 .. MaxMerge }

Next ==
  \/ \E p \in Packages : MergePackage(p)
  \/ \E other \in Inputs : MergeList(other)
  \/ MergeListStep
  \/ \E r \in RuleSets : SetMergeRules(r)
  \/ Sort

Spec == Init /\ [][Next]_vars

(***************************************************************************)
(* Properties.                                                             *)
(***************************************************************************)

(* Two entries with the same primary key exist only where some caller asks *)
(* to keep them all: every other rule either replaces the old entry or     *)
(* leaves it alone (the accept/remove/append logic of merge_package), and  *)
(* changing the rules or sorting in between cannot produce one.            *)
UniqueKeys ==
  (\A r \in RuleSets : "KEEP_ALL" \notin r) =>
     \A i, j \in DOMAIN list : SameKey(list[i], list[j]) => i = j

(* While the rules look at prefixes alone, a pinned package stays in the   *)
(* list, itself and with its pin, whatever is merged, sorted or set (the   *)
(* "Version is pinned" refusal of merge_package).  Where identical specs   *)
(* are squashed as well, it does not: one call puts the same spec without  *)
(* a prefix in its place, the pin is gone with it, and a later "+" or "-"  *)
(* changes or removes the version, although the comments of the function   *)
(* and of package.c say that a pinned version cannot be overridden.        *)
PinnedVersionStays ==
  [][ rules \subseteq {"USE_PREFIX", "SQUASH_IDENTICAL"} =>
        \A p \in ToSet(list) :
          p.prefix = "pin" /\ p \notin ToSet(list') =>
            /\ "SQUASH_IDENTICAL" \in rules
            /\ \E q \in ToSet(list') :
                 /\ Identical(p, q)
                 /\ "USE_PREFIX" \in rules => q.prefix = "none" ]_vars

(* While the rules only look at prefixes, the entry kept for a key knows   *)
(* every source file the entry it replaced knew: merge_package adds the    *)
(* derivation of the package it removes to that of the package it appends. *)
DerivationGrows ==
  [][ rules = {"USE_PREFIX"} =>
        \A p \in ToSet(list), q \in ToSet(list') :
          SameKey(p, q) => derivation[p] \subseteq derivation'[q] ]_vars

(* While equal contexts have equal priorities, and under the rules used    *)
(* for the active packages of a profile, no call leaves a key with a       *)
(* package of lower priority than one that was in the list, or than the    *)
(* one it has just taken from a list that is merged: the highest priority  *)
(* wins in whatever order packages arrive (the last rule of merge_package).*)
PriorityNeverFalls ==
  [][ rules = {"SQUASH_IDENTICAL", "USE_PRIORITY"} =>
        \A p \in ToSet(list) \cup { pending[i] : i \in {1} \cap DOMAIN pending } :
          \E q \in ToSet(list') : SameKey(p, q) /\ q.priority >= p.priority ]_vars

(* A merge loses neither where a package came from nor the package that    *)
(* counts most (lcfgpkglist_merge_package).                                *)
NothingLost == DerivationGrows /\ PriorityNeverFalls

(* The packages are well typed and one is kept for each key, so that what  *)
(* a merge finds and replaces is all there is (lcfgpkglist_merge_package). *)
WellFormed == TypeOK /\ UniqueKeys
=============================================================================
