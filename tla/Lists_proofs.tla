---------------------------- MODULE Lists_proofs ----------------------------
(***************************************************************************)
(* What the calls on lists keep: those on a package list for all packages, *)
(* rules and primary keys and lists of any length, those on tag lists for  *)
(* all texts, any number of lists, tags and nodes and lists of any length. *)
(***************************************************************************)
EXTENDS PackageList, TagList, PackageMerge_proofs

(***************************************************************************)
(* The list stays well typed, with one package for each key.               *)
(***************************************************************************)

(* No caller asks to keep all packages.                                    *)
OneOfAKind == \A r \in RuleSets : "KEEP_ALL" \notin r

LEMMA InputsSound == \A other \in Inputs : other \in Seq(Packages)
<1> SUFFICES ASSUME NEW other \in Inputs
             PROVE  other \in Seq(Packages)
  OBVIOUS
<1>1. PICK n \in 1 .. MaxMerge : other \in [1 .. n -> Packages]
  BY DEF Inputs
<1>2. n \in Nat
  BY SMT
<1> QED BY <1>1, <1>2, SeqDef

LEMMA AbsorbSound ==
  ASSUME TypeOK, NEW p \in Packages, Absorb(p)
  PROVE  /\ list' \in Seq(Packages)
         /\ derivation' \in [Packages -> SUBSET Nat]
         /\ "KEEP_ALL" \notin rules /\ Unique(list) => Unique(list')
<1>1. list \in Seq(Packages) /\ derivation \in [Packages -> SUBSET Nat]
  BY DEF TypeOK
<1>2. /\ list' = Merged(list, rules, p)
      /\ derivation' = DerivationAfter(list, rules, p, derivation)
  BY DEF Absorb
<1>3. Merged(list, rules, p) \in Seq(Packages)
  BY <1>1, MergedShape
<1>4. DerivationAfter(list, rules, p, derivation) \in [Packages -> SUBSET Nat]
  BY <1>1, DerivationSound
<1>5. "KEEP_ALL" \notin rules /\ Unique(list) => Unique(Merged(list, rules, p))
  BY <1>1, MergedUnique
<1> QED BY <1>2, <1>3, <1>4, <1>5

LEMMA WellFormedKept == WellFormed /\ [Next]_vars => WellFormed'
<1> SUFFICES ASSUME TypeOK, OneOfAKind => Unique(list), [Next]_vars
             PROVE  TypeOK' /\ (OneOfAKind => Unique(list)')
  BY DEF WellFormed, UniqueKeys, OneOfAKind, Unique
<1>0. /\ list \in Seq(Packages) /\ rules \in RuleSets /\ change \in Changes
      /\ derivation \in [Packages -> SUBSET Nat] /\ pending \in Seq(Packages)
      /\ pending # << >> => change \in {"NONE", "MODIFIED"}
  BY DEF TypeOK
<1>1. OneOfAKind => "KEEP_ALL" \notin rules
  BY <1>0 DEF OneOfAKind
<1>2. ASSUME NEW p \in Packages, MergePackage(p)
      PROVE  TypeOK' /\ (OneOfAKind => Unique(list)')
  <2>1. /\ list' \in Seq(Packages) /\ derivation' \in [Packages -> SUBSET Nat]
        /\ OneOfAKind => Unique(list')
    BY <1>1, <1>2, AbsorbSound DEF MergePackage
  <2>2. change' \in Changes /\ rules' = rules /\ pending' = << >>
    BY <1>2, ChangesSound DEF MergePackage
  <2> QED BY <1>0, <2>1, <2>2 DEF TypeOK
<1>3. ASSUME NEW other \in Inputs, MergeList(other)
      PROVE  TypeOK' /\ (OneOfAKind => Unique(list)')
  <2>1. /\ list' = list /\ rules' = rules /\ derivation' = derivation
        /\ change' = "NONE" /\ pending' = other /\ other \in Seq(Packages)
    BY <1>3, InputsSound DEF MergeList
  <2> QED BY <1>0, <2>1 DEF TypeOK, Changes
<1>4. CASE MergeListStep
  <2>1. Head(pending) \in Packages /\ Tail(pending) \in Seq(Packages)
        /\ Absorb(Head(pending)) /\ pending # << >> /\ rules' = rules
    BY <1>0, <1>4, HeadTailProperties DEF MergeListStep
  <2>2. /\ list' \in Seq(Packages) /\ derivation' \in [Packages -> SUBSET Nat]
        /\ OneOfAKind => Unique(list')
    BY <1>1, <2>1, AbsorbSound
  <2> DEFINE one == ChangeOf(list, rules, Head(pending))
  <2>3. /\ change' = Accumulate(change, one)
        /\ pending' = IF one = "ERROR" THEN << >> ELSE Tail(pending)
    BY <1>4 DEF MergeListStep
  <2> HIDE DEF one
  <2>4. /\ change' \in Changes
        /\ one # "ERROR" => change' \in {"NONE", "MODIFIED"}
    BY <1>0, <2>1, <2>3 DEF Accumulate, Changes
  <2>5. pending' \in Seq(Packages) /\ (pending' # << >> => one # "ERROR")
    BY <2>1, <2>3
  <2> QED BY <1>0, <2>1, <2>2, <2>4, <2>5 DEF TypeOK
<1>5. ASSUME NEW r \in RuleSets, SetMergeRules(r)
      PROVE  TypeOK' /\ (OneOfAKind => Unique(list)')
  BY <1>0, <1>5 DEF SetMergeRules, TypeOK
<1>6. CASE Sort
  <2>1. /\ list' = Sorted(list) /\ rules' = rules /\ derivation' = derivation
        /\ change' = change /\ pending' = pending
    BY <1>6 DEF Sort
  <2>2. Sorted(list) \in Seq(Packages) /\ (Unique(list) => Unique(Sorted(list)))
    BY <1>0, SortedContents
  <2>3. list' \in Seq(Packages) /\ (Unique(list) => Unique(list'))
    BY <2>1, <2>2
  <2> QED BY <1>0, <2>1, <2>3 DEF TypeOK
<1>7. CASE UNCHANGED vars
  BY <1>0, <1>7 DEF vars, TypeOK
<1> QED BY <1>2, <1>3, <1>4, <1>5, <1>6, <1>7 DEF Next

(* Whatever is merged, one package is kept for each key as long as no      *)
(* caller asks to keep all (lcfgpkglist_merge_package, lcfgpkglist_sort).  *)
THEOREM AlwaysWellFormed == Spec => []WellFormed
<1>1. Init => WellFormed
  <2> SUFFICES ASSUME Init PROVE TypeOK /\ UniqueKeys
    BY DEF WellFormed
  <2>1. [ p \in Packages |-> {p.file} ] \in [Packages -> SUBSET Nat]
    BY PackageFields
  <2>2. << >> \in Seq(Packages) /\ DOMAIN << >> = {}
    OBVIOUS
  <2> QED BY <2>1, <2>2 DEF Init, TypeOK, UniqueKeys, Changes
<1> QED BY <1>1, WellFormedKept, PTL DEF Spec

(***************************************************************************)
(* What a step may do to the packages in the list.                         *)
(***************************************************************************)

(* A step merges one package, which a caller gives or which comes next in  *)
(* the list that is merged, or only reorders the list, or leaves it alone. *)
LEMMA StepKinds ==
  ASSUME TypeOK, [Next]_vars
  PROVE  \/ \E p \in Packages : /\ Absorb(p)
                                /\ pending # << >> => p = Head(pending)
         \/ /\ derivation' = derivation /\ ToSet(list') = ToSet(list)
            /\ pending = << >> \/ UNCHANGED vars
<1>0. list \in Seq(Packages) /\ pending \in Seq(Packages)
  BY DEF TypeOK
<1>1. ASSUME NEW p \in Packages, MergePackage(p)
      PROVE  Absorb(p) /\ pending = << >>
  BY <1>1 DEF MergePackage
<1>2. ASSUME NEW other \in Inputs, MergeList(other)
      PROVE  list' = list /\ derivation' = derivation /\ pending = << >>
  BY <1>2 DEF MergeList
<1>3. CASE MergeListStep
  <2>1. Head(pending) \in Packages /\ Absorb(Head(pending))
    BY <1>0, <1>3, HeadTailProperties DEF MergeListStep
  <2> QED BY <2>1
<1>4. ASSUME NEW r \in RuleSets, SetMergeRules(r)
      PROVE  list' = list /\ derivation' = derivation /\ pending = << >>
  BY <1>4 DEF SetMergeRules
<1>5. CASE Sort
  <2>1. ToSet(list') = ToSet(list)
    BY <1>0, <1>5, SortedContents DEF Sort
  <2>2. derivation' = derivation /\ pending = << >>
    BY <1>5 DEF Sort
  <2> QED BY <2>1, <2>2
<1>6. CASE UNCHANGED vars
  BY <1>6 DEF vars
<1> QED BY <1>1, <1>2, <1>3, <1>4, <1>5, <1>6 DEF Next

(* What a merge takes out of the list is the current entry for the key.    *)
LEMMA LostIsCurrent ==
  ASSUME TypeOK, NEW p \in Packages, Absorb(p),
         NEW q \in ToSet(list), q \notin ToSet(list')
  PROVE  /\ q \in Packages /\ SameKey(q, p)
         /\ Current(list, p) = {q}
         /\ "remove" \in PlanFor(list, rules, p)
<1>1. list \in Seq(Packages) /\ list' = Merged(list, rules, p)
  BY DEF TypeOK, Absorb
<1>2. q = list[Position(list, p)] /\ Removes(list, rules, p)
  BY <1>1, MergedContents
<1> QED BY <1>1, <1>2, CurrentSound DEF Removes

LEMMA AppendedIsThere ==
  ASSUME TypeOK, NEW p \in Packages, Absorb(p),
         "append" \in PlanFor(list, rules, p)
  PROVE  p \in ToSet(list')
<1>1. list \in Seq(Packages) /\ list' = Merged(list, rules, p)
  BY DEF TypeOK, Absorb
<1> QED BY <1>1, MergedContents DEF Appends

(* Under rules that look at prefixes alone a pinned package stays, with    *)
(* its pin; where identical specs are squashed too, only an identical one  *)
(* without a prefix takes its place, and then the pin is gone (the         *)
(* "Version is pinned" refusal of lcfgpkglist_merge_package).              *)
THEOREM PinnedVersionsStay == Spec => PinnedVersionStays
<1> DEFINE Squashed(p) ==
             /\ "SQUASH_IDENTICAL" \in rules
             /\ \E q \in ToSet(list') :
                  /\ Identical(p, q)
                  /\ "USE_PREFIX" \in rules => q.prefix = "none"
           A == rules \subseteq {"USE_PREFIX", "SQUASH_IDENTICAL"} =>
                  \A p \in ToSet(list) :
                    p.prefix = "pin" /\ p \notin ToSet(list') => Squashed(p)
<1>1. ASSUME TypeOK, [Next]_vars, rules \subseteq {"USE_PREFIX", "SQUASH_IDENTICAL"},
             NEW p \in ToSet(list), p.prefix = "pin", p \notin ToSet(list')
      PROVE  Squashed(p)
  <2>1. PICK new \in Packages : Absorb(new)
    BY <1>1, StepKinds
  <2>2. Current(list, new) = {p} /\ "remove" \in MergePlan(rules, {p}, new)
    BY <1>1, <2>1, LostIsCurrent DEF PlanFor
  <2>3. /\ "append" \in MergePlan(rules, {p}, new) /\ Identical(p, new)
        /\ "SQUASH_IDENTICAL" \in rules
        /\ "USE_PREFIX" \in rules => new.prefix = "none"
    BY <1>1, <2>2, PinnedGoesForIdentical
  <2>4. new \in ToSet(list')
    BY <1>1, <2>1, <2>2, <2>3, AppendedIsThere DEF PlanFor
  <2> QED BY <2>3, <2>4
<1>2. WellFormed /\ [Next]_vars => [A]_vars
  BY <1>1 DEF WellFormed
<1> HIDE DEF A
<1>3. Spec => [][A]_vars
  BY <1>2, AlwaysWellFormed, PTL DEF Spec
<1> QED BY <1>3 DEF PinnedVersionStays, A

(* While equal contexts have equal priorities, the highest priority wins   *)
(* in whatever order packages arrive (lcfgpkglist_merge_package).          *)
THEOREM PrioritiesNeverFall ==
  ASSUME ContextsDecide
  PROVE  Spec => PriorityNeverFalls
<1> DEFINE Counted == ToSet(list) \cup { pending[i] : i \in {1} \cap DOMAIN pending }
           Wins(p) == \E q \in ToSet(list') : SameKey(p, q) /\ q.priority >= p.priority
           A == rules = {"SQUASH_IDENTICAL", "USE_PRIORITY"} =>
             \A p \in ToSet(list) \cup { pending[i] : i \in {1} \cap DOMAIN pending } :
               \E q \in ToSet(list') : SameKey(p, q) /\ q.priority >= p.priority
<1>1. ASSUME TypeOK, NEW p \in ToSet(list')
      PROVE  p \in Packages => Wins(p)
  <2> SUFFICES ASSUME p \in Packages PROVE Wins(p)
    OBVIOUS
  <2>1. p.priority \in Int
    BY PackageFields
  <2> QED BY <2>1, SameKeyEquivalence
<1>2. ASSUME TypeOK, rules = ActiveRules, NEW new \in Packages, Absorb(new)
      PROVE  Wins(new) /\ \A p \in ToSet(list) : Wins(p)
  <2>1. list \in Seq(Packages) /\ ToSet(list) \subseteq Packages
    BY <1>2, ContentsTyped DEF TypeOK
  <2>2. ASSUME NEW p \in ToSet(list)
        PROVE  Wins(p)
    <3>1. CASE p \in ToSet(list')
      BY <1>1, <1>2, <2>1, <3>1
    <3>2. CASE p \notin ToSet(list')
      <4>1. /\ SameKey(p, new) /\ Current(list, new) = {p} /\ p \in Packages
            /\ "remove" \in MergePlan(rules, {p}, new)
        BY <1>2, <3>2, LostIsCurrent DEF PlanFor
      <4>2. "append" \in MergePlan(rules, {p}, new) /\ new.priority >= p.priority
        BY <1>2, <4>1, PriorityDecides
      <4>3. new \in ToSet(list')
        BY <1>2, <4>1, <4>2, AppendedIsThere DEF PlanFor
      <4> QED BY <4>1, <4>2, <4>3
    <3> QED BY <3>1, <3>2
  <2>3. Wins(new)
    <3>1. CASE "append" \in PlanFor(list, rules, new)
      BY <1>1, <1>2, <3>1, AppendedIsThere
    <3>2. CASE "append" \notin PlanFor(list, rules, new)
      <4>1. PICK c \in Packages : /\ Current(list, new) = {c} /\ SameKey(c, new)
                                  /\ c \in ToSet(list)
        <5>1. Current(list, new) # {}
          BY <1>2, <3>2, PriorityDecides DEF PlanFor
        <5>2. list[Position(list, new)] \in ToSet(list)
          BY <2>1, <5>1, CurrentSound DEF ToSet
        <5> QED BY <2>1, <5>1, <5>2, CurrentSound
      <4>2. "append" \notin MergePlan(ActiveRules, {c}, new)
        BY <1>2, <3>2, <4>1 DEF PlanFor
      <4>3. c.priority >= new.priority /\ "remove" \notin MergePlan(ActiveRules, {c}, new)
        BY <4>2, PriorityDecides
      <4>4. c \in ToSet(list')
        BY <1>2, <4>1, <4>3, LostIsCurrent DEF PlanFor
      <4> QED BY <4>1, <4>3, <4>4, SameKeyEquivalence
    <3> QED BY <3>1, <3>2
  <2> QED BY <2>2, <2>3
<1>3. ASSUME TypeOK, [Next]_vars, rules = {"SQUASH_IDENTICAL", "USE_PRIORITY"},
             ~(UNCHANGED vars), NEW p \in Counted
      PROVE  Wins(p)
  <2>1. list \in Seq(Packages) /\ pending \in Seq(Packages)
        /\ ToSet(list) \subseteq Packages
    BY <1>3, ContentsTyped DEF TypeOK
  <2>2. rules = ActiveRules
    BY <1>3 DEF ActiveRules
  <2>3. p \in ToSet(list) \/ (pending # << >> /\ p = Head(pending))
    BY <2>1
  <2>4. CASE \E new \in Packages : Absorb(new) /\ (pending # << >> => new = Head(pending))
    <3>1. PICK new \in Packages : Absorb(new) /\ (pending # << >> => new = Head(pending))
      BY <2>4
    <3>2. Wins(new) /\ \A q \in ToSet(list) : Wins(q)
      BY <1>2, <1>3, <2>2, <3>1
    <3> QED BY <2>3, <3>1, <3>2
  <2>5. CASE ToSet(list') = ToSet(list) /\ pending = << >>
    BY <1>1, <1>3, <2>1, <2>3, <2>5
  <2> QED BY <1>3, <2>4, <2>5, StepKinds
<1>4. WellFormed /\ [Next]_vars => [A]_vars
  BY <1>3 DEF WellFormed
<1> QED BY <1>4, AlwaysWellFormed, PTL DEF Spec, PriorityNeverFalls

(* Where one package is kept for each key, the one kept knows every source *)
(* file the one it replaced knew (lcfgpackage_merge_derivation).           *)
THEOREM DerivationsGrow ==
  ASSUME OneOfAKind
  PROVE  Spec => DerivationGrows
<1> DEFINE A == rules = {"USE_PREFIX"} =>
                  \A p \in ToSet(list), q \in ToSet(list') :
                    SameKey(p, q) => derivation[p] \subseteq derivation'[q]
<1>1. ASSUME TypeOK, Unique(list), [Next]_vars, rules = {"USE_PREFIX"},
             NEW p \in ToSet(list), NEW q \in ToSet(list'), SameKey(p, q)
      PROVE  derivation[p] \subseteq derivation'[q]
  <2>1. /\ list \in Seq(Packages) /\ ToSet(list) \subseteq Packages
        /\ derivation \in [Packages -> SUBSET Nat]
    BY <1>1, ContentsTyped DEF TypeOK
  <2>2. q \in ToSet(list) => p = q
    BY <1>1 DEF ToSet, Unique
  <2>3. CASE derivation' = derivation /\ ToSet(list') = ToSet(list)
    BY <2>2, <2>3
  <2>4. ASSUME NEW new \in Packages, Absorb(new)
        PROVE  derivation[p] \subseteq derivation'[q]
    <3>1. /\ list' = Merged(list, rules, new)
          /\ derivation' = DerivationAfter(list, rules, new, derivation)
      BY <2>4 DEF Absorb
    <3>2. /\ \A r \in Packages : derivation[r] \subseteq derivation'[r]
          /\ UsesPrefix(rules, new) /\ PlanFor(list, rules, new) = Swap =>
               \A c \in Current(list, new) : derivation[c] \subseteq derivation'[new]
      BY <2>1, <3>1, DerivationSound
    <3>3. CASE q \in ToSet(list)
      BY <2>1, <2>2, <3>2, <3>3
    <3>4. CASE q \notin ToSet(list)
      <4>1. q = new /\ "append" \in PlanFor(list, rules, new)
        BY <2>1, <3>1, <3>4, MergedContents DEF Appends
      <4>2. PICK i \in DOMAIN list : p = list[i]
        BY DEF ToSet
      <4>3. /\ Position(list, new) \in DOMAIN list
            /\ SameKey(list[Position(list, new)], new)
            /\ Current(list, new) = {list[Position(list, new)]}
        BY <1>1, <2>1, <4>1, <4>2, PositionSound, CurrentSound
      <4>4. Position(list, new) = i
        BY <1>1, <4>1, <4>2, <4>3, SameKeyEquivalence DEF Unique
      <4>5. Current(list, new) = {p}
        BY <4>2, <4>3, <4>4
      <4>6. UsesPrefix(rules, new)
        <5>1. CASE p = new
          BY <2>1, <3>4, <4>1, <5>1
        <5>2. CASE p # new /\ ~UsesPrefix(rules, new)
          <6>1. MergePlan(rules, {p}, new) = Reject
            BY <1>1, <5>2 DEF MergePlan
          <6> QED BY <4>1, <4>5, <6>1, Plans DEF PlanFor
        <5> QED BY <5>1, <5>2
      <4>7. PlanFor(list, rules, new) = Swap
        BY <1>1, <4>1, <4>5, <4>6, AppendReplaces DEF PlanFor
      <4> QED BY <3>2, <4>1, <4>5, <4>6, <4>7
    <3> QED BY <3>3, <3>4
  <2> QED BY <1>1, <2>3, <2>4, StepKinds
<1>2. WellFormed /\ [Next]_vars => [A]_vars
  BY <1>1 DEF WellFormed, UniqueKeys, OneOfAKind, Unique
<1> HIDE DEF A
<1>3. Spec => [][A]_vars
  BY <1>2, AlwaysWellFormed, PTL DEF Spec
<1> QED BY <1>3 DEF DerivationGrows, A

(* A merge loses neither where a package came from nor the package that    *)
(* counts most, when the contexts of all packages were evaluated together  *)
(* and no caller keeps several packages for a key.                         *)
THEOREM NothingIsLost ==
  ASSUME ContextsDecide, OneOfAKind
  PROVE  Spec => NothingLost
BY PrioritiesNeverFall, DerivationsGrow DEF NothingLost

-----------------------------------------------------------------------------
(***************************************************************************)
(* Tag lists.  A list is laid along a path, a sequence of nodes: this is   *)
(* what its links say, and what a loop over it meets.                      *)
(***************************************************************************)
Heaps ==
  [ tag : [ Tags -> [ name : Names \cup {Nil}, refs : Nat ] ],
    node : [ Nodes -> [ tag : Tags \cup {Nil}, prev : Nodes \cup {Nil}, next : Nodes \cup {Nil} ] ],
    list : [ Lists -> [ head : Nodes \cup {Nil}, tail : Nodes \cup {Nil}, size : Nat, refs : Nat ] ] ]

Path(p) ==
  /\ p \in Seq(Nodes) /\ Len(p) \in Nat /\ DOMAIN p = 1 .. Len(p)
  /\ \A i \in 1 .. Len(p) : p[i] \in Nodes
  /\ \A i, j \in 1 .. Len(p) : p[i] = p[j] => i = j

Laid(h, l, p) ==
  /\ h.list[l].size = Len(p)
  /\ h.list[l].head = IF Len(p) = 0 THEN Nil ELSE p[1]
  /\ h.list[l].tail = IF Len(p) = 0 THEN Nil ELSE p[Len(p)]
  /\ \A i \in 1 .. Len(p) :
       /\ h.node[p[i]].prev = IF i = 1 THEN Nil ELSE p[i - 1]
       /\ h.node[p[i]].next = IF i = Len(p) THEN Nil ELSE p[i + 1]

(* No node and no tag is Nil.                                              *)
LEMMA NilIsNoNode == Nil \notin Nodes /\ Nil \notin Tags /\ Nodes \subseteq Nat /\ Tags \subseteq Nat
BY DEF Nil, Nodes, Tags

(* A path has no more nodes than there are.                                *)
LEMMA PathFits ==
  ASSUME NEW p, Path(p)
  PROVE  /\ Len(p) \in 0 .. NodeCount
         /\ IsFiniteSet(ToSet(p)) /\ Cardinality(ToSet(p)) = Len(p)
         /\ \A n : n \in ToSet(p) <=> \E i \in 1 .. Len(p) : p[i] = n
<1> DEFINE n == Len(p)
<1>1. n \in Nat /\ \A i \in 1 .. n : p[i] \in Nodes
  BY DEF Path
<1>2. ToSet(p) = { p[i] : i \in 1 .. n }
  BY DEF Path, ToSet
<1>3. \A m : m \in ToSet(p) <=> \E i \in 1 .. n : p[i] = m
  BY <1>2
<1>4. IsFiniteSet(1 .. n) /\ Cardinality(1 .. n) = n
  <2>1. 1 \in Int /\ n \in Int
    BY <1>1
  <2> HIDE DEF n
  <2>2. IsFiniteSet(1 .. n) /\ Cardinality(1 .. n) = IF 1 > n THEN 0 ELSE n - 1 + 1
    BY <2>1, FS_Interval
  <2> QED BY <1>1, <2>2
<1>5. IsFiniteSet(Nodes) /\ Cardinality(Nodes) = NodeCount /\ NodeCount \in Nat
  <2>1. 1 \in Int /\ NodeCount \in Int /\ NodeCount \in Nat
    BY TagListAssumption
  <2>2. IsFiniteSet(1 .. NodeCount) /\ Cardinality(1 .. NodeCount) = IF 1 > NodeCount THEN 0 ELSE NodeCount - 1 + 1
    BY <2>1, FS_Interval
  <2> QED BY <2>1, <2>2 DEF Nodes
<1> DEFINE f == [ i \in 1 .. n |-> p[i] ]
<1>6. f \in Bijection(1 .. n, ToSet(p))
  <2>1. \A i \in 1 .. n : f[i] \in ToSet(p)
    BY <1>3
  <2>2. f \in [ 1 .. n -> ToSet(p) ]
    BY <2>1
  <2>3. \A i, j \in 1 .. n : f[i] = f[j] => i = j
    BY DEF Path
  <2>4. \A m \in ToSet(p) : \E i \in 1 .. n : f[i] = m
    BY <1>3
  <2> HIDE DEF f, n
  <2> QED BY <2>2, <2>3, <2>4 DEF Bijection, Injection, Surjection, IsInjective
<1> HIDE DEF n, f
<1>7. IsFiniteSet(ToSet(p)) /\ Cardinality(ToSet(p)) = n
  BY <1>4, <1>6, FS_Bijection DEF ExistsBijection
<1>8. ToSet(p) \subseteq Nodes
  BY <1>1, <1>3
<1>9. n <= NodeCount
  BY <1>5, <1>7, <1>8, FS_Subset
<1> QED BY <1>1, <1>3, <1>5, <1>7, <1>9 DEF n

(* A loop over a list meets its path.                                      *)
LEMMA WalkIs ==
  ASSUME NEW h, NEW l, NEW p, Path(p), Laid(h, l, p)
  PROVE  Walk(h, l) = p
<1> DEFINE n == Len(p)
           longer == [ walk \in Seq(Nodes) |->
                         IF Behind(h, l, walk) = Nil THEN walk ELSE Append(walk, Behind(h, l, walk)) ]
           Step(f) == [ k \in 0 .. NodeCount |-> IF k = 0 THEN << >> ELSE longer[f[k - 1]] ]
           met == CHOOSE f : f = Step(f)
           first(k) == IF k <= n THEN SubSeq(p, 1, k) ELSE p
           made == [ k \in 0 .. NodeCount |-> first(k) ]
<1>1. Walk(h, l) = met[NodeCount]
  BY DEF Walk
<1>2. n \in Nat /\ n <= NodeCount /\ NodeCount \in Nat
  BY PathFits, TagListAssumption
<1>3. \A i \in 1 .. n : p[i] \in Nodes /\ p[i] # Nil
  BY NilIsNoNode DEF Path
<1>4. p \in Seq(Nodes) /\ DOMAIN p = 1 .. n
  BY DEF Path
<1>5. ASSUME NEW k \in 0 .. n
      PROVE  /\ SubSeq(p, 1, k) \in Seq(Nodes) /\ Len(SubSeq(p, 1, k)) = k
             /\ \A i \in 1 .. k : SubSeq(p, 1, k)[i] = p[i]
  <2> HIDE DEF n
  <2> QED BY <1>2, <1>3, <1>4, SubSeqProperties DEF n
<1>6. SubSeq(p, 1, 0) = << >> /\ SubSeq(p, 1, n) = p
  <2>1. Len(SubSeq(p, 1, 0)) = 0 /\ SubSeq(p, 1, 0) \in Seq(Nodes)
    BY <1>2, <1>5
  <2>2. SubSeq(p, 1, n) \in Seq(Nodes) /\ Len(SubSeq(p, 1, n)) = n /\ \A i \in 1 .. n : SubSeq(p, 1, n)[i] = p[i]
    BY <1>2, <1>5
  <2> QED BY <1>4, <2>1, <2>2, EmptySeq, SeqEqual
<1>7. ASSUME NEW k \in 1 .. NodeCount
      PROVE  longer[first(k - 1)] = first(k)
  <2>1. CASE k <= n
    <3> DEFINE walk == SubSeq(p, 1, k - 1)
    <3>1. k - 1 \in 0 .. n /\ k \in 1 .. n /\ k \in 0 .. n
      BY <1>2, <2>1
    <3>2. /\ walk \in Seq(Nodes) /\ Len(walk) = k - 1
          /\ \A i \in 1 .. k - 1 : walk[i] = p[i]
      BY <1>5, <3>1
    <3>3. Behind(h, l, walk) = p[k]
      <4>1. CASE k = 1
        <5>1. walk = << >>
          BY <3>2, <4>1, EmptySeq
        <5>2. n # 0
          BY <1>2, <3>1
        <5>3. h.list[l].head = p[1]
          BY <5>2 DEF Laid
        <5> QED BY <4>1, <5>1, <5>3 DEF Behind
      <4>2. CASE k # 1
        <5>1. walk # << >> /\ k - 1 \in 1 .. n /\ k - 1 # n /\ k - 1 + 1 = k
          BY <3>1, <3>2, <4>2
        <5>2. walk[Len(walk)] = p[k - 1]
          BY <3>1, <3>2, <4>2
        <5>3. h.node[p[k - 1]].next = p[k]
          BY <5>1 DEF Laid
        <5> QED BY <5>1, <5>2, <5>3 DEF Behind
      <4> QED BY <4>1, <4>2
    <3>4. Append(walk, p[k]) = SubSeq(p, 1, k)
      <4>1. p[k] \in Nodes
        BY <1>3, <3>1
      <4>2. /\ Append(walk, p[k]) \in Seq(Nodes) /\ Len(Append(walk, p[k])) = k
            /\ \A i \in 1 .. k : Append(walk, p[k])[i] = p[i]
        BY <3>1, <3>2, <4>1, AppendProperties
      <4>3. /\ SubSeq(p, 1, k) \in Seq(Nodes) /\ Len(SubSeq(p, 1, k)) = k
            /\ \A i \in 1 .. k : SubSeq(p, 1, k)[i] = p[i]
        BY <1>5, <3>1
      <4> QED BY <4>2, <4>3, SeqEqual
    <3>5. longer[walk] = Append(walk, p[k])
      BY <1>3, <3>1, <3>2, <3>3
    <3>6. first(k - 1) = walk /\ first(k) = SubSeq(p, 1, k)
      BY <1>2, <2>1
    <3> QED BY <3>4, <3>5, <3>6
  <2>2. CASE k > n
    <3>1. first(k - 1) = p /\ first(k) = p
      <4>1. ~(k <= n) /\ (k - 1 <= n => k - 1 = n)
        BY <1>2, <2>2
      <4> QED BY <1>6, <4>1
    <3>2. Behind(h, l, p) = Nil
      <4>1. CASE n = 0
        <5>1. p = << >> /\ h.list[l].head = Nil
          BY <1>4, <4>1, EmptySeq DEF Laid
        <5> QED BY <5>1 DEF Behind
      <4>2. CASE n # 0
        <5>1. n \in 1 .. n /\ p # << >>
          BY <1>2, <1>4, <4>2
        <5>2. h.node[p[n]].next = Nil
          BY <5>1 DEF Laid
        <5> QED BY <5>1, <5>2 DEF Behind
      <4> QED BY <4>1, <4>2
    <3>3. longer[p] = p
      BY <1>4, <3>2
    <3> QED BY <3>1, <3>3
  <2> QED BY <1>2, <2>1, <2>2
<1>8. first(0) = << >>
  BY <1>2, <1>6
<1>9. first(NodeCount) = p
  <2>1. NodeCount <= n => NodeCount = n
    BY <1>2
  <2> QED BY <1>6, <2>1
<1> HIDE DEF longer, first, n
<1>10. made = Step(made)
  <2>1. ASSUME NEW k \in 0 .. NodeCount PROVE made[k] = Step(made)[k]
    <3>1. CASE k = 0
      BY <1>8, <3>1
    <3>2. CASE k # 0
      <4>1. k \in 1 .. NodeCount /\ k - 1 \in 0 .. NodeCount
        BY <1>2, <3>2
      <4>2. made[k - 1] = first(k - 1) /\ made[k] = first(k)
        BY <4>1
      <4> QED BY <1>7, <3>2, <4>1, <4>2
    <3> QED BY <3>1, <3>2
  <2> QED BY <2>1
<1>11. met = Step(met)
  BY <1>10
<1> HIDE DEF met
<1>12. \A k \in 0 .. NodeCount : met[k] = Step(met)[k]
  BY <1>11
<1> DEFINE S == { k \in 0 .. NodeCount : met[k] = first(k) }
<1>13. 0 \in S
  BY <1>2, <1>8, <1>12
<1>14. ASSUME NEW k \in 1 .. NodeCount, k - 1 \in S
       PROVE  k \in S
  <2>1. met[k - 1] = first(k - 1) /\ k \in 0 .. NodeCount /\ k # 0
    BY <1>2, <1>14
  <2>2. met[k] = longer[met[k - 1]]
    BY <1>12, <2>1
  <2> QED BY <1>7, <2>1, <2>2
<1> HIDE DEF S
<1>15. \A k \in 0 .. NodeCount : k \in S
  BY <1>2, <1>13, <1>14, UpTo
<1>16. NodeCount \in S
  BY <1>2, <1>15
<1> QED BY <1>1, <1>9, <1>16 DEF S

(***************************************************************************)
(* A sound heap: every list is laid along a path, no two paths meet, and   *)
(* the tags are counted.                                                   *)
(***************************************************************************)

(* No node is on two paths,                                                *)
Apart(path) ==
  \A l, k \in Lists : l # k =>
    \A i \in 1 .. Len(path[l]), j \in 1 .. Len(path[k]) : path[l][i] # path[k][j]

On(path, n) == \E l \in Lists : \E i \in 1 .. Len(path[l]) : path[l][i] = n

(* and a tag has a reference for each node that has it, and one for a      *)
(* function at work that holds it.                                         *)
Holders(h, t) == { n \in Nodes : h.node[n].tag = t }
Counted(h, held) ==
  \A t \in Tags : h.tag[t].refs = Cardinality(Holders(h, t)) + (IF t = held THEN 1 ELSE 0)

Sound(h, held, path) ==
  /\ h \in Heaps
  /\ path = [ l \in Lists |-> path[l] ]
  /\ \A l \in Lists : Path(path[l]) /\ Laid(h, l, path[l])
  /\ Apart(path)
  /\ \A n \in Nodes : h.node[n].tag # Nil <=> On(path, n)
  /\ Counted(h, held)

Unused(h) == { n \in Nodes : h.node[n].tag = Nil }

SameRefs(g, h) == \A l \in Lists : g.list[l].refs = h.list[l].refs

(* A path with a node put in behind its first i nodes.                     *)
PutIn(p, i, new) ==
  [ j \in 1 .. Len(p) + 1 |-> IF j <= i THEN p[j] ELSE IF j = i + 1 THEN new ELSE p[j - 1] ]

(* There are finitely many nodes and tags.                                 *)
LEMMA NodesFinite ==
  /\ IsFiniteSet(Nodes) /\ Cardinality(Nodes) = NodeCount /\ NodeCount \in Nat
  /\ IsFiniteSet(Tags)
<1>1. \A n \in Nat : IsFiniteSet(1 .. n) /\ Cardinality(1 .. n) = n
  <2> SUFFICES ASSUME NEW n \in Nat PROVE IsFiniteSet(1 .. n) /\ Cardinality(1 .. n) = n
    OBVIOUS
  <2>1. IsFiniteSet(1 .. n) /\ Cardinality(1 .. n) = IF 1 > n THEN 0 ELSE n - 1 + 1
    BY FS_Interval
  <2> QED BY <2>1
<1> QED BY <1>1, TagListAssumption DEF Nodes, Tags

(* A path stays one when a new node is put in.                             *)
LEMMA PutInPath ==
  ASSUME NEW p, Path(p), NEW i \in 0 .. Len(p), NEW new \in Nodes,
         \A j \in 1 .. Len(p) : p[j] # new
  PROVE  /\ Path(PutIn(p, i, new)) /\ Len(PutIn(p, i, new)) = Len(p) + 1
         /\ \A j \in 1 .. Len(p) + 1 :
              PutIn(p, i, new)[j] = IF j <= i THEN p[j] ELSE IF j = i + 1 THEN new ELSE p[j - 1]
<1> DEFINE q == PutIn(p, i, new)
           n == Len(p)
<1>1. /\ n \in Nat /\ n + 1 \in Nat /\ i \in 0 .. n
      /\ \A j \in 1 .. n : p[j] \in Nodes /\ p[j] # new
      /\ \A j, k \in 1 .. n : p[j] = p[k] => j = k
  BY DEF Path
<1>2. \A j \in 1 .. n + 1 : q[j] = IF j <= i THEN p[j] ELSE IF j = i + 1 THEN new ELSE p[j - 1]
  BY DEF PutIn
<1>3. \A j \in 1 .. n + 1 : q[j] \in Nodes
  <2> HIDE DEF q, n
  <2> QED BY <1>1, <1>2
<1>4. q = [ j \in 1 .. n + 1 |-> q[j] ]
  BY DEF PutIn
<1> HIDE DEF q
<1>5. q \in [ 1 .. n + 1 -> Nodes ]
  BY <1>3, <1>4
<1> HIDE DEF n
<1>6. q \in Seq(Nodes)
  BY <1>1, <1>5, SeqDef
<1>7. Len(q) = n + 1 /\ DOMAIN q = 1 .. n + 1
  BY <1>1, <1>4, FunctionIsList
<1>8. ASSUME NEW j \in 1 .. n + 1, NEW k \in 1 .. n + 1, q[j] = q[k]
      PROVE  j = k
  <2>1. \A m \in 1 .. n + 1 : /\ m <= i => m \in 1 .. n
                              /\ ~(m <= i) /\ m # i + 1 => m - 1 \in 1 .. n
    BY <1>1
  <2>2. \A m \in 1 .. n + 1 : q[m] = new <=> m = i + 1
    BY <1>1, <1>2, <2>1
  <2>3. CASE j = i + 1 \/ k = i + 1
    BY <1>8, <2>2, <2>3
  <2>4. CASE j # i + 1 /\ k # i + 1
    <3> DEFINE a == IF j <= i THEN j ELSE j - 1
               b == IF k <= i THEN k ELSE k - 1
    <3>1. a \in 1 .. n /\ b \in 1 .. n
      BY <2>1, <2>4
    <3>2. q[j] = p[a] /\ q[k] = p[b]
      BY <1>2, <2>4
    <3>3. a = b => j = k
      BY <1>1, <2>4
    <3> HIDE DEF a, b
    <3> QED BY <1>1, <1>8, <3>1, <3>2, <3>3
  <2> QED BY <2>3, <2>4
<1> QED BY <1>1, <1>2, <1>3, <1>6, <1>7, <1>8 DEF Path, q, n

(* The node that comes to stand behind the new one.                        *)
BehindOf(h, l, n) == IF n = Nil THEN h.list[l].head ELSE h.node[n].next

(* What lcfgtaglist_insert_next writes.                                    *)
LEMMA InsertWrites ==
  ASSUME NEW h \in Heaps, NEW l \in Lists, NEW t \in Tags, NEW n \in Nodes \cup {Nil},
         FreshNode(h) \in Nodes, n # FreshNode(h),
         BehindOf(h, l, n) \in Nodes \cup {Nil}, BehindOf(h, l, n) # FreshNode(h),
         BehindOf(h, l, n) = n => n = Nil
  PROVE  LET g == InsertNext(h, l, n, t)
             new == FreshNode(h)
             behind == BehindOf(h, l, n)
         IN  /\ g \in Heaps
             /\ \A u \in Tags : g.tag[u] = IF u = t THEN [ h.tag[u] EXCEPT !.refs = @ + 1 ] ELSE h.tag[u]
             /\ \A m \in Nodes :
                  /\ g.node[m].tag = IF m = new THEN t ELSE h.node[m].tag
                  /\ g.node[m].prev = IF m = new THEN n ELSE IF m = behind THEN new ELSE h.node[m].prev
                  /\ g.node[m].next = IF m = new THEN behind ELSE IF m = n THEN new ELSE h.node[m].next
             /\ \A k \in Lists : k # l => g.list[k] = h.list[k]
             /\ g.list[l].head = IF n = Nil THEN new ELSE h.list[l].head
             /\ g.list[l].tail = IF (IF n = Nil THEN h.list[l].size = 0 ELSE behind = Nil) THEN new
                                 ELSE h.list[l].tail
             /\ g.list[l].size = h.list[l].size + 1
             /\ g.list[l].refs = h.list[l].refs
<1> DEFINE g == InsertNext(h, l, n, t)
           new == FreshNode(h)
           behind == IF n = Nil THEN h.list[l].head ELSE h.node[n].next
           placed == [ h.node EXCEPT ![new] = [ tag |-> t, prev |-> n, next |-> behind ] ]
           linked == IF behind = Nil THEN placed ELSE [ placed EXCEPT ![behind].prev = new ]
           joined == IF n = Nil THEN linked ELSE [ linked EXCEPT ![n].next = new ]
           tags == [ h.tag EXCEPT ![t].refs = @ + 1 ]
           first == IF n = Nil THEN new ELSE h.list[l].head
           last == IF (IF n = Nil THEN IsEmpty(h, l) ELSE behind = Nil) THEN new ELSE h.list[l].tail
           entry == [ head |-> first, tail |-> last, size |-> h.list[l].size + 1, refs |-> h.list[l].refs ]
           lists == [ h.list EXCEPT ![l] = entry ]
<1> DEFINE NodeType == [ tag : Tags \cup {Nil}, prev : Nodes \cup {Nil}, next : Nodes \cup {Nil} ]
           TagType == [ name : Names \cup {Nil}, refs : Nat ]
           ListType == [ head : Nodes \cup {Nil}, tail : Nodes \cup {Nil}, size : Nat, refs : Nat ]
<1>0. behind = BehindOf(h, l, n)
  BY DEF BehindOf
<1> HIDE DEF behind, new
<1>01. /\ new \in Nodes /\ n \in Nodes \cup {Nil} /\ behind \in Nodes \cup {Nil}
       /\ n # new /\ behind # new /\ (behind = n => n = Nil)
  BY <1>0 DEF new
<1>1. /\ h = [ tag |-> h.tag, node |-> h.node, list |-> h.list ]
      /\ h.node \in [ Nodes -> NodeType ] /\ h.tag \in [ Tags -> TagType ] /\ h.list \in [ Lists -> ListType ]
  BY DEF Heaps
<1>2. g = [ tag |-> tags, node |-> joined, list |-> lists ]
  <2> DEFINE base == TagAcquire(h, t)
  <2>1. base = [ tag |-> tags, node |-> h.node, list |-> h.list ]
    BY <1>1 DEF TagAcquire
  <2>2. g = [ base EXCEPT !.node = joined, !.list[l] = entry ]
    BY Zenon DEF InsertNext, new, behind
  <2> HIDE DEF base, joined, tags, g, entry
  <2> QED BY <2>1, <2>2
<1>3. tags \in [ Tags -> TagType ] /\ \A u \in Tags :
        tags[u] = IF u = t THEN [ h.tag[u] EXCEPT !.refs = @ + 1 ] ELSE h.tag[u]
  BY <1>1
<1>4. /\ joined \in [ Nodes -> NodeType ]
      /\ \A m \in Nodes :
           /\ joined[m].tag = IF m = new THEN t ELSE h.node[m].tag
           /\ joined[m].prev = IF m = new THEN n ELSE IF m = behind THEN new ELSE h.node[m].prev
           /\ joined[m].next = IF m = new THEN behind ELSE IF m = n THEN new ELSE h.node[m].next
  <2>1. /\ placed \in [ Nodes -> NodeType ]
        /\ \A m \in Nodes : placed[m] = IF m = new THEN [ tag |-> t, prev |-> n, next |-> behind ] ELSE h.node[m]
    BY <1>1, <1>01
  <2> HIDE DEF placed
  <2>2. /\ linked \in [ Nodes -> NodeType ]
        /\ \A m \in Nodes : linked[m] = IF m = behind THEN [ placed[m] EXCEPT !.prev = new ] ELSE placed[m]
    BY <1>01, <2>1, NilIsNoNode
  <2> HIDE DEF linked
  <2>3. /\ joined \in [ Nodes -> NodeType ]
        /\ \A m \in Nodes : joined[m] = IF m = n THEN [ linked[m] EXCEPT !.next = new ] ELSE linked[m]
    BY <1>01, <2>2, NilIsNoNode
  <2> HIDE DEF joined
  <2>4. \A m \in Nodes : /\ linked[m].tag = placed[m].tag /\ linked[m].next = placed[m].next
                         /\ linked[m].prev = IF m = behind THEN new ELSE placed[m].prev
    BY <2>1, <2>2
  <2>5. \A m \in Nodes : /\ joined[m].tag = linked[m].tag /\ joined[m].prev = linked[m].prev
                         /\ joined[m].next = IF m = n THEN new ELSE linked[m].next
    BY <2>2, <2>3
  <2> QED BY <1>01, <2>1, <2>3, <2>4, <2>5
<1>5. /\ entry \in ListType /\ entry.refs = h.list[l].refs /\ entry.size = h.list[l].size + 1
      /\ entry.head = IF n = Nil THEN new ELSE h.list[l].head
      /\ entry.tail = IF (IF n = Nil THEN h.list[l].size = 0 ELSE behind = Nil) THEN new ELSE h.list[l].tail
  <2>1. /\ last \in Nodes \cup {Nil}
        /\ last = IF (IF n = Nil THEN h.list[l].size = 0 ELSE behind = Nil) THEN new ELSE h.list[l].tail
    <3>1. h.list[l].tail \in Nodes \cup {Nil}
      BY <1>1
    <3> QED BY <1>01, <3>1, Zenon DEF IsEmpty
  <2>2. first \in Nodes \cup {Nil}
    BY <1>1, <1>01
  <2> HIDE DEF last, first
  <2>3. h.list[l] \in ListType
    BY <1>1
  <2>4. /\ entry \in ListType /\ entry.refs = h.list[l].refs /\ entry.size = h.list[l].size + 1
        /\ entry.head = first
        /\ entry.tail = last
    BY <2>1, <2>2, <2>3
  <2> QED BY <2>1, <2>4, Zenon DEF first
<1> HIDE DEF entry
<1>6. lists \in [ Lists -> ListType ] /\ \A k \in Lists : lists[k] = IF k = l THEN entry ELSE h.list[k]
  BY <1>1, <1>5
<1> HIDE DEF tags, joined, lists, g
<1>7. g \in Heaps /\ g.tag = tags /\ g.node = joined /\ g.list = lists
  BY <1>2, <1>3, <1>4, <1>6 DEF Heaps
<1> QED BY <1>0, <1>3, <1>4, <1>5, <1>6, <1>7, Zenon DEF g, new

(* The allocator finds a node as long as there is one.                     *)
LEMMA FreshIs ==
  ASSUME NEW h, Unused(h) # {}
  PROVE  FreshNode(h) \in Unused(h) /\ FreshNode(h) \in Nodes
<1>1. Unused(h) \in SUBSET Nat
  BY NilIsNoNode DEF Unused
<1>2. FreshNode(h) = Min(Unused(h))
  BY DEF FreshNode, Unused
<1> QED BY <1>1, <1>2, PlaceFound DEF Unused

(* An unused node is on no path, the nodes of a path are used.             *)
LEMMA PathNodes ==
  ASSUME NEW h, NEW held, NEW path, Sound(h, held, path), NEW l \in Lists
  PROVE  /\ Path(path[l]) /\ Laid(h, l, path[l]) /\ Walk(h, l) = path[l]
         /\ Len(path[l]) \in Nat
         /\ \A i \in 1 .. Len(path[l]) : /\ path[l][i] \in Nodes /\ path[l][i] # Nil
                                         /\ h.node[path[l][i]].tag \in Tags
         /\ \A n \in Unused(h), i \in 1 .. Len(path[l]) : path[l][i] # n
<1>1. Path(path[l]) /\ Laid(h, l, path[l])
  BY DEF Sound
<1>2. Walk(h, l) = path[l]
  BY <1>1, WalkIs
<1>3. \A i \in 1 .. Len(path[l]) : path[l][i] \in Nodes /\ On(path, path[l][i])
  BY <1>1 DEF Path, On
<1>4. \A n \in Nodes : h.node[n].tag \in Tags \cup {Nil}
  BY DEF Sound, Heaps
<1>5. \A i \in 1 .. Len(path[l]) : h.node[path[l][i]].tag # Nil
  BY <1>3 DEF Sound
<1>6. Len(path[l]) \in Nat
  BY <1>1 DEF Path
<1> QED BY <1>1, <1>2, <1>3, <1>4, <1>5, <1>6, NilIsNoNode DEF Unused

(* lcfgtaglist_insert_next keeps the heap sound: the list has one more     *)
(* node, behind the one given, and the tag one more reference.             *)
LEMMA InsertSound ==
  ASSUME NEW h, NEW held, NEW path, Sound(h, held, path), NEW l \in Lists, NEW t \in Tags,
         NEW i \in 0 .. Len(path[l]), Unused(h) # {}
  PROVE  LET n == IF i = 0 THEN Nil ELSE path[l][i]
             new == FreshNode(h)
             g == InsertNext(h, l, n, t)
         IN  /\ Sound(g, held, [ path EXCEPT ![l] = PutIn(path[l], i, new) ])
             /\ SameRefs(g, h)
             /\ new \in Unused(h) /\ Unused(g) = Unused(h) \ {new}
             /\ \A m \in Nodes : g.node[m].tag = IF m = new THEN t ELSE h.node[m].tag
             /\ \A u \in Tags : /\ g.tag[u].name = h.tag[u].name
                                /\ g.tag[u].refs = IF u = t THEN h.tag[u].refs + 1 ELSE h.tag[u].refs
<1> DEFINE p == path[l]
           n == IF i = 0 THEN Nil ELSE p[i]
           new == FreshNode(h)
           g == InsertNext(h, l, n, t)
           behind == BehindOf(h, l, n)
           q == PutIn(p, i, new)
           made == [ path EXCEPT ![l] = q ]
<1>1. /\ h \in Heaps /\ Path(p) /\ Laid(h, l, p)
      /\ Len(p) \in Nat /\ i \in 0 .. Len(p)
      /\ new \in Nodes /\ new \in Unused(h) /\ new # Nil
      /\ \A j \in 1 .. Len(p) : p[j] \in Nodes /\ p[j] # Nil /\ p[j] # new
      /\ \A j, k \in 1 .. Len(p) : p[j] = p[k] => j = k
  <2>1. new \in Nodes /\ new \in Unused(h) /\ new # Nil
    BY FreshIs, NilIsNoNode
  <2>2. h \in Heaps /\ Path(p) /\ Laid(h, l, p)
    BY DEF Sound
  <2>3. Len(p) \in Nat /\ \A j, k \in 1 .. Len(p) : p[j] = p[k] => j = k
    BY <2>2 DEF Path
  <2> HIDE DEF new
  <2>4. \A j \in 1 .. Len(p) : p[j] \in Nodes /\ p[j] # Nil /\ p[j] # new
    BY <2>1, PathNodes
  <2> QED BY <2>1, <2>2, <2>3, <2>4
<1>2. /\ n \in Nodes \cup {Nil} /\ n # new
      /\ behind = IF i = Len(p) THEN Nil ELSE p[i + 1]
      /\ behind \in Nodes \cup {Nil} /\ behind # new /\ (behind = n => n = Nil)
  <2>1. CASE i = 0
    <3>1. n = Nil /\ behind = h.list[l].head
      BY <2>1 DEF BehindOf
    <3>2. h.list[l].head = IF Len(p) = 0 THEN Nil ELSE p[1]
      BY <1>1 DEF Laid
    <3> HIDE DEF p, n, behind, new
    <3> QED BY <1>1, <2>1, <3>1, <3>2
  <2>2. CASE i # 0
    <3>1. n = p[i] /\ i \in 1 .. Len(p) /\ n # Nil
      BY <1>1, <2>2
    <3>2. behind = h.node[p[i]].next
      BY <3>1 DEF BehindOf
    <3>3. h.node[p[i]].next = IF i = Len(p) THEN Nil ELSE p[i + 1]
      BY <1>1, <3>1 DEF Laid
    <3>4. i # Len(p) => i + 1 \in 1 .. Len(p)
      BY <1>1, <3>1
    <3> HIDE DEF p, n, behind, new
    <3> QED BY <1>1, <3>1, <3>2, <3>3, <3>4
  <2> QED BY <2>1, <2>2
<1> HIDE DEF n, behind
<1>3. /\ g \in Heaps
      /\ \A u \in Tags : g.tag[u] = IF u = t THEN [ h.tag[u] EXCEPT !.refs = @ + 1 ] ELSE h.tag[u]
      /\ \A m \in Nodes :
           /\ g.node[m].tag = IF m = new THEN t ELSE h.node[m].tag
           /\ g.node[m].prev = IF m = new THEN n ELSE IF m = behind THEN new ELSE h.node[m].prev
           /\ g.node[m].next = IF m = new THEN behind ELSE IF m = n THEN new ELSE h.node[m].next
      /\ \A k \in Lists : k # l => g.list[k] = h.list[k]
      /\ g.list[l].head = IF n = Nil THEN new ELSE h.list[l].head
      /\ g.list[l].tail = IF (IF n = Nil THEN h.list[l].size = 0 ELSE behind = Nil) THEN new
                          ELSE h.list[l].tail
      /\ g.list[l].size = h.list[l].size + 1
      /\ g.list[l].refs = h.list[l].refs
  <2>1. FreshNode(h) \in Nodes /\ n # FreshNode(h) /\ behind # FreshNode(h)
    BY <1>1, <1>2
  <2> HIDE DEF new
  <2> QED BY <1>1, <1>2, <2>1, InsertWrites DEF behind, new
<1> HIDE DEF g
<1>4. /\ Path(q) /\ Len(q) = Len(p) + 1
      /\ \A j \in 1 .. Len(p) + 1 : q[j] = IF j <= i THEN p[j] ELSE IF j = i + 1 THEN new ELSE p[j - 1]
  <2> HIDE DEF new, p
  <2> QED BY <1>1, PutInPath DEF q
<1> HIDE DEF q
<1>5. Laid(g, l, q)
  <2>0. /\ h.list[l].size = Len(p)
        /\ h.list[l].head = IF Len(p) = 0 THEN Nil ELSE p[1]
        /\ h.list[l].tail = IF Len(p) = 0 THEN Nil ELSE p[Len(p)]
        /\ \A j \in 1 .. Len(p) :
             /\ h.node[p[j]].prev = IF j = 1 THEN Nil ELSE p[j - 1]
             /\ h.node[p[j]].next = IF j = Len(p) THEN Nil ELSE p[j + 1]
    BY <1>1 DEF Laid
  <2> HIDE DEF p, new
  <2>1. n = (IF i = 0 THEN Nil ELSE p[i]) /\ (n = Nil <=> i = 0)
    BY <1>1 DEF n
  <2>2. g.list[l].size = Len(q)
    BY <1>3, <1>4, <2>0
  <2>3. g.list[l].head = q[1]
    <3>1. 1 \in 1 .. Len(p) + 1
      BY <1>1
    <3>2. q[1] = IF i = 0 THEN new ELSE p[1]
      BY <1>1, <1>4, <3>1
    <3>3. i # 0 => Len(p) # 0
      BY <1>1
    <3> QED BY <1>3, <2>0, <2>1, <3>2, <3>3
  <2>4. g.list[l].tail = q[Len(p) + 1]
    <3>1. Len(p) + 1 \in 1 .. Len(p) + 1
      BY <1>1
    <3>2. q[Len(p) + 1] = IF i = Len(p) THEN new ELSE p[Len(p)]
      BY <1>1, <1>4, <3>1
    <3>3. i # Len(p) => Len(p) # 0 /\ Len(p) \in 1 .. Len(p) /\ i + 1 \in 1 .. Len(p)
      BY <1>1
    <3>4. (IF n = Nil THEN h.list[l].size = 0 ELSE behind = Nil) <=> i = Len(p)
      BY <1>1, <1>2, <2>0, <2>1, <3>3
    <3>5. g.list[l].tail = IF i = Len(p) THEN new ELSE h.list[l].tail
      BY <1>3, <3>4
    <3> QED BY <2>0, <3>2, <3>3, <3>5
  <2>5. ASSUME NEW j \in 1 .. Len(p) + 1
        PROVE  /\ g.node[q[j]].prev = IF j = 1 THEN Nil ELSE q[j - 1]
               /\ g.node[q[j]].next = IF j = Len(p) + 1 THEN Nil ELSE q[j + 1]
    <3>1. CASE j <= i
      <4>1. j \in 1 .. Len(p) /\ j + 1 \in 1 .. Len(p) + 1 /\ j # Len(p) + 1
            /\ (j # 1 => j - 1 \in 1 .. Len(p) + 1 /\ j - 1 <= i /\ ~(j - 1 = i + 1))
        BY <1>1, <3>1
      <4>2. q[j] = p[j] /\ (j # 1 => q[j - 1] = p[j - 1])
            /\ q[j + 1] = IF j = i THEN new ELSE p[j + 1]
        <5>1. j # i => j + 1 <= i
          BY <1>1, <3>1
        <5>2. j = i => ~(j + 1 <= i) /\ j + 1 = i + 1
          BY <1>1
        <5> QED BY <1>4, <3>1, <4>1, <5>1, <5>2
      <4>3. p[j] # new /\ p[j] # behind /\ p[j] \in Nodes
        <5>1. i # Len(p) => i + 1 \in 1 .. Len(p) /\ i + 1 # j
          BY <1>1, <3>1
        <5> QED BY <1>1, <1>2, <4>1, <5>1
      <4>4. p[j] = n <=> j = i
        <5>1. i # 0 => i \in 1 .. Len(p)
          BY <1>1
        <5> QED BY <1>1, <2>1, <4>1, <5>1
      <4>5. j # i => j # Len(p)
        BY <1>1, <3>1
      <4>6. g.node[p[j]].prev = IF j = 1 THEN Nil ELSE p[j - 1]
        <5>1. g.node[p[j]].prev = h.node[p[j]].prev
          BY <1>3, <4>3
        <5> QED BY <2>0, <4>1, <5>1
      <4>7. g.node[p[j]].next = IF j = i THEN new ELSE p[j + 1]
        <5>1. g.node[p[j]].next = IF p[j] = n THEN new ELSE h.node[p[j]].next
          BY <1>3, <4>3
        <5>2. h.node[p[j]].next = IF j = Len(p) THEN Nil ELSE p[j + 1]
          BY <2>0, <4>1
        <5> QED BY <4>4, <4>5, <5>1, <5>2
      <4> QED BY <4>1, <4>2, <4>6, <4>7
    <3>2. CASE j = i + 1
      <4>1. q[j] = new /\ ~(j <= i)
        BY <1>1, <1>4, <3>2
      <4>2. j # 1 => i \in 1 .. Len(p) + 1 /\ j - 1 = i /\ q[i] = p[i]
        BY <1>1, <1>4, <3>2
      <4>3. j = 1 <=> i = 0
        BY <1>1, <3>2
      <4>4. j = Len(p) + 1 <=> i = Len(p)
        BY <1>1, <3>2
      <4>5. j # Len(p) + 1 => q[j + 1] = p[i + 1]
        <5>1. j # Len(p) + 1 => j + 1 \in 1 .. Len(p) + 1 /\ ~(j + 1 <= i) /\ ~(j + 1 = i + 1) /\ j + 1 - 1 = i + 1
          BY <1>1, <3>2
        <5> QED BY <1>4, <5>1
      <4> QED BY <1>1, <1>2, <1>3, <2>1, <4>1, <4>2, <4>3, <4>4, <4>5
    <3>3. CASE ~(j <= i) /\ j # i + 1
      <4> DEFINE k == j - 1
      <4>1. k \in 1 .. Len(p) /\ k \in 1 .. Len(p) + 1 /\ j # 1 /\ k > i /\ q[j] = p[k]
        BY <1>1, <1>4, <3>3
      <4>2. p[k] # new /\ p[k] # n /\ p[k] \in Nodes
        <5>1. i # 0 => i \in 1 .. Len(p) /\ i # k
          BY <1>1, <4>1
        <5> HIDE DEF k
        <5> QED BY <1>1, <2>1, <4>1, <5>1
      <4>3. p[k] = behind <=> k = i + 1
        <5>1. i # Len(p) /\ i + 1 \in 1 .. Len(p)
          BY <1>1, <4>1
        <5> HIDE DEF k
        <5> QED BY <1>1, <1>2, <4>1, <5>1
      <4>4. q[k] = IF k = i + 1 THEN new ELSE p[k - 1]
        BY <1>1, <1>4, <4>1
      <4>5. j # Len(p) + 1 => q[j + 1] = p[j]
        <5>1. j # Len(p) + 1 => j + 1 \in 1 .. Len(p) + 1 /\ ~(j + 1 <= i) /\ ~(j + 1 = i + 1) /\ j + 1 - 1 = j
          BY <1>1, <3>3
        <5> QED BY <1>4, <5>1
      <4>6. (k = Len(p) <=> j = Len(p) + 1) /\ k + 1 = j /\ (k = 1 => k = i + 1)
        BY <1>1, <3>3, <4>1
      <4> HIDE DEF k
      <4>7. g.node[p[k]].prev = IF k = i + 1 THEN new ELSE p[k - 1]
        <5>1. g.node[p[k]].prev = IF p[k] = behind THEN new ELSE h.node[p[k]].prev
          BY <1>3, <4>2
        <5>2. h.node[p[k]].prev = IF k = 1 THEN Nil ELSE p[k - 1]
          BY <2>0, <4>1
        <5> QED BY <4>3, <4>6, <5>1, <5>2
      <4>8. g.node[p[k]].next = IF j = Len(p) + 1 THEN Nil ELSE p[j]
        <5>1. p[k] # new /\ p[k] # n /\ p[k] \in Nodes
          BY <4>2
        <5>2. g.node[p[k]].next = h.node[p[k]].next
          BY <1>3, <5>1
        <5>3. h.node[p[k]].next = IF k = Len(p) THEN Nil ELSE p[k + 1]
          BY <2>0, <4>1
        <5>4. IF k = Len(p) THEN j = Len(p) + 1 ELSE j # Len(p) + 1 /\ k + 1 = j
          BY <4>6
        <5> QED BY <5>2, <5>3, <5>4
      <4>9. j - 1 = k
        BY DEF k
      <4> QED BY <4>1, <4>4, <4>5, <4>7, <4>8, <4>9
    <3> QED BY <3>1, <3>2, <3>3
  <2>6. Len(q) # 0
    BY <1>1, <1>4
  <2> QED BY <1>4, <2>2, <2>3, <2>4, <2>5, <2>6 DEF Laid
<1>6. ASSUME NEW k \in Lists, k # l
      PROVE  Laid(g, k, path[k])
  <2>1. /\ Path(path[k]) /\ Laid(h, k, path[k])
        /\ \A j \in 1 .. Len(path[k]) : path[k][j] \in Nodes /\ path[k][j] # new /\ path[k][j] # Nil
    BY <1>1, PathNodes
  <2>2. \A j \in 1 .. Len(path[k]), m \in 1 .. Len(p) : path[k][j] # p[m]
    BY <1>6 DEF Sound, Apart
  <2>3. n = Nil \/ \E m \in 1 .. Len(p) : n = p[m]
    BY <1>1 DEF n
  <2>4. behind = Nil \/ \E m \in 1 .. Len(p) : behind = p[m]
    <3>1. i # Len(p) => i + 1 \in 1 .. Len(p)
      BY <1>1
    <3> QED BY <1>2, <3>1
  <2>5. \A j \in 1 .. Len(path[k]) : path[k][j] # n /\ path[k][j] # behind
    BY <2>1, <2>2, <2>3, <2>4
  <2> HIDE DEF p, new
  <2>6. \A j \in 1 .. Len(path[k]) : /\ g.node[path[k][j]].prev = h.node[path[k][j]].prev
                                    /\ g.node[path[k][j]].next = h.node[path[k][j]].next
    BY <1>3, <2>1, <2>5
  <2>7. g.list[k] = h.list[k]
    BY <1>3, <1>6
  <2> QED BY <2>1, <2>6, <2>7 DEF Laid
<1>7. path = [ k \in Lists |-> path[k] ] /\ made = [ k \in Lists |-> made[k] ]
      /\ \A k \in Lists : made[k] = IF k = l THEN q ELSE path[k]
  BY DEF Sound
<1> HIDE DEF made
<1>8. \A k \in Lists : Path(made[k]) /\ Laid(g, k, made[k])
  BY <1>4, <1>5, <1>6, <1>7 DEF Sound
<1>9. \A j \in 1 .. Len(q) : q[j] = new \/ \E m \in 1 .. Len(p) : q[j] = p[m]
  <2>1. \A j \in 1 .. Len(p) + 1 : /\ j <= i => j \in 1 .. Len(p)
                                   /\ ~(j <= i) /\ j # i + 1 => j - 1 \in 1 .. Len(p)
    BY <1>1
  <2> HIDE DEF p, new
  <2> QED BY <1>4, <2>1
<1>10. Apart(made)
  <2>1. \A k \in Lists : \A j \in 1 .. Len(path[k]) : path[k][j] # new
    BY <1>1, PathNodes
  <2>2. Apart(path)
    BY DEF Sound
  <2>3. \A k \in Lists : k # l =>
          \A a \in 1 .. Len(q), b \in 1 .. Len(path[k]) : q[a] # path[k][b]
    BY <1>9, <2>1, <2>2 DEF Apart
  <2> HIDE DEF p, new
  <2> QED BY <1>7, <2>2, <2>3 DEF Apart
<1>11. \A m \in Nodes : On(made, m) <=> m = new \/ On(path, m)
  <2>1. \E j \in 1 .. Len(q) : q[j] = new
    <3>1. i + 1 \in 1 .. Len(p) + 1 /\ ~(i + 1 <= i)
      BY <1>1
    <3> QED BY <1>4, <3>1
  <2>2. \A m \in 1 .. Len(p) : \E j \in 1 .. Len(q) : q[j] = p[m]
    <3> TAKE m \in 1 .. Len(p)
    <3>1. m <= i => m \in 1 .. Len(p) + 1
      BY <1>1
    <3>2. ~(m <= i) => m + 1 \in 1 .. Len(p) + 1 /\ ~(m + 1 <= i) /\ m + 1 # i + 1 /\ m + 1 - 1 = m
      BY <1>1
    <3>3. Len(q) = Len(p) + 1
      BY <1>4
    <3> HIDE DEF p, new
    <3>4. CASE m <= i
      <4>1. q[m] = p[m]
        BY <1>4, <3>1, <3>4
      <4> QED BY <3>1, <3>3, <3>4, <4>1
    <3>5. CASE ~(m <= i)
      <4>1. q[m + 1] = p[m]
        BY <1>4, <3>2, <3>5
      <4> QED BY <3>2, <3>3, <3>5, <4>1
    <3> QED BY <3>4, <3>5
  <2>3. \A m : (\E j \in 1 .. Len(q) : q[j] = m) <=> m = new \/ \E j \in 1 .. Len(p) : p[j] = m
    BY <1>9, <2>1, <2>2
  <2> SUFFICES ASSUME NEW m \in Nodes PROVE On(made, m) <=> m = new \/ On(path, m)
    OBVIOUS
  <2> DEFINE others == \E k \in Lists : k # l /\ \E j \in 1 .. Len(path[k]) : path[k][j] = m
  <2>4. On(path, m) <=> (\E j \in 1 .. Len(p) : p[j] = m) \/ others
    BY Zenon DEF On
  <2>5. On(made, m) <=> (\E j \in 1 .. Len(q) : q[j] = m) \/ others
    <3>1. made[l] = q /\ \A k \in Lists : k # l => made[k] = path[k]
      BY <1>7
    <3> QED BY <3>1, Zenon DEF On
  <2> QED BY <2>3, <2>4, <2>5, Zenon
<1>12. \A m \in Nodes : g.node[m].tag # Nil <=> On(made, m)
  <2>1. \A m \in Nodes : g.node[m].tag = IF m = new THEN t ELSE h.node[m].tag
    BY <1>3
  <2>2. t # Nil /\ \A m \in Nodes : h.node[m].tag # Nil <=> On(path, m)
    BY NilIsNoNode DEF Sound
  <2> HIDE DEF new
  <2> QED BY <1>11, <2>1, <2>2
<1>13. ASSUME NEW u \in Tags
       PROVE  g.tag[u].refs = Cardinality(Holders(g, u)) + (IF u = held THEN 1 ELSE 0)
  <2>1. h.tag[u].refs = Cardinality(Holders(h, u)) + (IF u = held THEN 1 ELSE 0)
    BY DEF Sound, Counted
  <2>2. IsFiniteSet(Holders(h, u)) /\ new \notin Holders(h, u)
    <3>1. h.node[new].tag = Nil
      BY <1>1 DEF Unused
    <3>2. Holders(h, u) \subseteq Nodes
      BY DEF Holders
    <3> QED BY <3>1, <3>2, NodesFinite, FS_Subset, NilIsNoNode DEF Holders
  <2>3. Holders(g, u) = IF u = t THEN Holders(h, u) \cup {new} ELSE Holders(h, u)
    BY <1>1, <1>3, <2>2 DEF Holders
  <2>4. h.tag[u] \in [ name : Names \cup {Nil}, refs : Nat ]
    BY <1>1 DEF Heaps
  <2>5. g.tag[u].refs = IF u = t THEN h.tag[u].refs + 1 ELSE h.tag[u].refs
    BY <1>3, <2>4
  <2>6. Cardinality(Holders(h, u)) \in Nat
    BY <2>2, FS_CardinalityType
  <2>7. Cardinality(Holders(h, u) \cup {new}) = Cardinality(Holders(h, u)) + 1
    BY <2>2, FS_AddElement
  <2> QED BY <2>1, <2>3, <2>4, <2>5, <2>6, <2>7
<1>14. Sound(g, held, made)
  BY <1>3, <1>7, <1>8, <1>10, <1>12, <1>13 DEF Sound, Counted
<1>15. SameRefs(g, h)
  BY <1>3 DEF SameRefs
<1>16. Unused(g) = Unused(h) \ {new}
  BY <1>1, <1>3, NilIsNoNode DEF Unused
<1>17. \A u \in Tags : /\ g.tag[u].name = h.tag[u].name
                       /\ g.tag[u].refs = IF u = t THEN h.tag[u].refs + 1 ELSE h.tag[u].refs
  <2>1. \A u \in Tags : h.tag[u] \in [ name : Names \cup {Nil}, refs : Nat ]
    BY <1>1 DEF Heaps
  <2> QED BY <1>3, <2>1
<1> QED BY <1>1, <1>3, <1>14, <1>15, <1>16, <1>17 DEF g, made, q, n

(***************************************************************************)
(* Taking a node out of a list.                                            *)
(***************************************************************************)

(* Giving up a reference frees the tag when it is the last.                *)
LEMMA RelinquishWrites ==
  ASSUME NEW h \in Heaps, NEW t \in Tags
  PROVE  LET g == TagRelinquish(h, t)
         IN  /\ g \in Heaps /\ g.node = h.node /\ g.list = h.list
             /\ \A u \in Tags : /\ u # t => g.tag[u] = h.tag[u]
                                /\ g.tag[u].refs = IF u # t THEN h.tag[u].refs
                                                   ELSE IF h.tag[t].refs = 0 THEN 0 ELSE h.tag[t].refs - 1
                                /\ h.tag[u].refs > 1 \/ u # t => g.tag[u].name = h.tag[u].name
<1> DEFINE TagType == [ name : Names \cup {Nil}, refs : Nat ]
           g == TagRelinquish(h, t)
           tags == IF h.tag[t].refs <= 1 THEN [ h.tag EXCEPT ![t] = FreeTag ]
                   ELSE [ h.tag EXCEPT ![t].refs = @ - 1 ]
<1>1. h = [ tag |-> h.tag, node |-> h.node, list |-> h.list ] /\ h.tag \in [ Tags -> TagType ]
  BY DEF Heaps
<1>2. g = [ tag |-> tags, node |-> h.node, list |-> h.list ]
  BY <1>1 DEF TagRelinquish
<1>3. FreeTag \in TagType /\ FreeTag.refs = 0
  BY DEF FreeTag
<1>4. h.tag[t] \in TagType
  BY <1>1
<1>5. /\ tags \in [ Tags -> TagType ]
      /\ \A u \in Tags : /\ u # t => tags[u] = h.tag[u]
                         /\ tags[u].refs = IF u # t THEN h.tag[u].refs
                                           ELSE IF h.tag[t].refs = 0 THEN 0 ELSE h.tag[t].refs - 1
                         /\ h.tag[u].refs > 1 \/ u # t => tags[u].name = h.tag[u].name
  <2>1. CASE h.tag[t].refs <= 1
    <3>1. tags = [ h.tag EXCEPT ![t] = FreeTag ]
      BY <2>1
    <3>2. \A u \in Tags : tags[u] = IF u = t THEN FreeTag ELSE h.tag[u]
      BY <1>1, <3>1
    <3>3. tags \in [ Tags -> TagType ]
      BY <1>1, <1>3, <3>1
    <3>4. h.tag[t].refs = 0 \/ h.tag[t].refs - 1 = 0
      BY <1>4, <2>1
    <3>5. ~(h.tag[t].refs > 1)
      BY <1>4, <2>1
    <3> QED BY <1>3, <3>2, <3>3, <3>4, <3>5
  <2>2. CASE ~(h.tag[t].refs <= 1)
    <3>1. tags = [ h.tag EXCEPT ![t] = [ h.tag[t] EXCEPT !.refs = h.tag[t].refs - 1 ] ]
      BY <2>2
    <3>2. h.tag[t].refs - 1 \in Nat /\ h.tag[t].refs # 0
      BY <1>4, <2>2
    <3>3. [ h.tag[t] EXCEPT !.refs = h.tag[t].refs - 1 ] \in TagType
      BY <1>4, <3>2
    <3> HIDE DEF tags
    <3> QED BY <1>1, <1>4, <3>1, <3>2, <3>3
  <2> QED BY <2>1, <2>2
<1> HIDE DEF tags, g
<1>6. g \in Heaps /\ g.tag = tags /\ g.node = h.node /\ g.list = h.list
  BY <1>1, <1>2, <1>5 DEF Heaps
<1> QED BY <1>5, <1>6 DEF g

(* A path without its node at place i.                                     *)
TakeOut(p, i) == [ j \in 1 .. Len(p) - 1 |-> IF j < i THEN p[j] ELSE p[j + 1] ]

(* A path stays one when a node is taken out.                              *)
LEMMA TakeOutPath ==
  ASSUME NEW p, Path(p), NEW i \in 1 .. Len(p)
  PROVE  /\ Path(TakeOut(p, i)) /\ Len(TakeOut(p, i)) = Len(p) - 1
         /\ \A j \in 1 .. Len(p) - 1 : TakeOut(p, i)[j] = IF j < i THEN p[j] ELSE p[j + 1]
<1> DEFINE q == TakeOut(p, i)
           n == Len(p)
<1>1. /\ n \in Nat /\ n - 1 \in Nat /\ i \in 1 .. n
      /\ \A j \in 1 .. n : p[j] \in Nodes
      /\ \A j, k \in 1 .. n : p[j] = p[k] => j = k
  BY DEF Path
<1>2. \A j \in 1 .. n - 1 : q[j] = IF j < i THEN p[j] ELSE p[j + 1]
  BY DEF TakeOut
<1>20. \A j \in 1 .. n - 1 : j \in 1 .. n /\ j + 1 \in 1 .. n
  BY <1>1
<1>3. \A j \in 1 .. n - 1 : q[j] \in Nodes
  <2> HIDE DEF q, n
  <2> QED BY <1>1, <1>2, <1>20
<1>4. q = [ j \in 1 .. n - 1 |-> q[j] ]
  BY DEF TakeOut
<1> HIDE DEF q
<1>5. q \in [ 1 .. n - 1 -> Nodes ]
  BY <1>3, <1>4
<1> HIDE DEF n
<1>6. q \in Seq(Nodes)
  BY <1>1, <1>5, SeqDef
<1>7. Len(q) = n - 1 /\ DOMAIN q = 1 .. n - 1
  BY <1>1, <1>4, FunctionIsList
<1>8. ASSUME NEW j \in 1 .. n - 1, NEW k \in 1 .. n - 1, q[j] = q[k]
      PROVE  j = k
  BY <1>1, <1>2, <1>8, <1>20
<1> QED BY <1>1, <1>2, <1>3, <1>6, <1>7, <1>8 DEF Path, q, n

(* What lcfgtaglist_remove_tag writes, the reference apart.                *)
LEMMA UnlinkWrites ==
  ASSUME NEW h \in Heaps, NEW l \in Lists, NEW n \in Nodes,
         h.list[l].size \in Nat \ {0},
         h.node[n].prev # n, h.node[n].next # n,
         h.node[n].prev # h.node[n].next \/ h.node[n].prev = Nil,
         n = h.list[l].head <=> h.node[n].prev = Nil
  PROVE  LET g == Unlink(h, l, n)
             before == h.node[n].prev
             behind == h.node[n].next
         IN  /\ g \in Heaps /\ g.tag = h.tag
             /\ \A m \in Nodes :
                  /\ g.node[m].tag = IF m = n THEN Nil ELSE h.node[m].tag
                  /\ m # n => /\ g.node[m].prev = IF m = behind THEN before ELSE h.node[m].prev
                              /\ g.node[m].next = IF m = before THEN behind ELSE h.node[m].next
             /\ \A k \in Lists : k # l => g.list[k] = h.list[k]
             /\ g.list[l].head = IF before = Nil THEN behind ELSE h.list[l].head
             /\ g.list[l].tail = IF behind = Nil THEN before ELSE h.list[l].tail
             /\ g.list[l].size = h.list[l].size - 1
             /\ g.list[l].refs = h.list[l].refs
<1> DEFINE gone == h.node[n]
           before == h.node[n].prev
           behind == h.node[n].next
           first == n = h.list[l].head
           forth == IF first THEN h.node ELSE [ h.node EXCEPT ![gone.prev].next = gone.next ]
           back == IF gone.next = Nil THEN forth
                   ELSE [ forth EXCEPT ![gone.next].prev = IF first THEN Nil ELSE gone.prev ]
           nodes == [ back EXCEPT ![n] = FreeNode ]
           front == IF first THEN gone.next ELSE h.list[l].head
           last == IF gone.next # Nil THEN h.list[l].tail ELSE IF first THEN Nil ELSE gone.prev
           entry == [ head |-> front, tail |-> last, size |-> h.list[l].size - 1, refs |-> h.list[l].refs ]
           lists == [ h.list EXCEPT ![l] = entry ]
           g == Unlink(h, l, n)
<1> DEFINE NodeType == [ tag : Tags \cup {Nil}, prev : Nodes \cup {Nil}, next : Nodes \cup {Nil} ]
           ListType == [ head : Nodes \cup {Nil}, tail : Nodes \cup {Nil}, size : Nat, refs : Nat ]
<1>1. /\ h = [ tag |-> h.tag, node |-> h.node, list |-> h.list ]
      /\ h.node \in [ Nodes -> NodeType ] /\ h.list \in [ Lists -> ListType ]
      /\ h.tag \in [ Tags -> [ name : Names \cup {Nil}, refs : Nat ] ]
  BY DEF Heaps
<1>2. g = [ tag |-> h.tag, node |-> nodes, list |-> lists ]
  <2>1. g = [ h EXCEPT !.node = nodes, !.list[l] = entry ]
    BY Zenon DEF Unlink
  <2> HIDE DEF nodes, entry, g
  <2> QED BY <1>1, <2>1
<1>3. /\ gone \in NodeType /\ before \in Nodes \cup {Nil} /\ behind \in Nodes \cup {Nil}
      /\ gone.prev = before /\ gone.next = behind
      /\ before # n /\ behind # n /\ (before # behind \/ before = Nil) /\ (first <=> before = Nil)
  BY <1>1
<1> HIDE DEF gone, before, behind
<1> HIDE DEF first
<1>4. /\ nodes \in [ Nodes -> NodeType ]
      /\ \A m \in Nodes :
           /\ nodes[m].tag = IF m = n THEN Nil ELSE h.node[m].tag
           /\ m # n => /\ nodes[m].prev = IF m = behind THEN before ELSE h.node[m].prev
                       /\ nodes[m].next = IF m = before THEN behind ELSE h.node[m].next
  <2>1. /\ forth \in [ Nodes -> NodeType ]
        /\ \A m \in Nodes : forth[m] = IF m = before THEN [ h.node[m] EXCEPT !.next = behind ] ELSE h.node[m]
    BY <1>1, <1>3, NilIsNoNode
  <2> HIDE DEF forth
  <2>2. (IF first THEN Nil ELSE gone.prev) = before
    BY <1>3
  <2>3. /\ back \in [ Nodes -> NodeType ]
        /\ \A m \in Nodes : back[m] = IF m = behind THEN [ forth[m] EXCEPT !.prev = before ] ELSE forth[m]
    BY <1>3, <2>1, <2>2, NilIsNoNode
  <2> HIDE DEF back
  <2>4. FreeNode \in NodeType /\ FreeNode.tag = Nil
    BY DEF FreeNode
  <2>5. /\ nodes \in [ Nodes -> NodeType ]
        /\ \A m \in Nodes : nodes[m] = IF m = n THEN FreeNode ELSE back[m]
    BY <2>3, <2>4
  <2> HIDE DEF nodes
  <2>6. \A m \in Nodes : /\ forth[m].tag = h.node[m].tag /\ forth[m].prev = h.node[m].prev
                         /\ forth[m].next = IF m = before THEN behind ELSE h.node[m].next
    BY <1>1, <2>1
  <2>7. \A m \in Nodes : /\ back[m].tag = forth[m].tag /\ back[m].next = forth[m].next
                         /\ back[m].prev = IF m = behind THEN before ELSE forth[m].prev
    BY <2>1, <2>3
  <2> QED BY <2>4, <2>5, <2>6, <2>7
<1>5. /\ entry \in ListType /\ entry.refs = h.list[l].refs /\ entry.size = h.list[l].size - 1
      /\ entry.head = IF before = Nil THEN behind ELSE h.list[l].head
      /\ entry.tail = IF behind = Nil THEN before ELSE h.list[l].tail
  <2>1. h.list[l] \in ListType
    BY <1>1
  <2>2. front = (IF before = Nil THEN behind ELSE h.list[l].head) /\ front \in Nodes \cup {Nil}
    BY <1>3, <2>1
  <2>3. last = (IF behind = Nil THEN before ELSE h.list[l].tail) /\ last \in Nodes \cup {Nil}
    BY <1>3, <2>1
  <2>4. h.list[l].size - 1 \in Nat
    OBVIOUS
  <2> HIDE DEF front, last
  <2>5. /\ entry \in ListType /\ entry.refs = h.list[l].refs /\ entry.size = h.list[l].size - 1
        /\ entry.head = front /\ entry.tail = last
    BY <2>1, <2>2, <2>3, <2>4
  <2> QED BY <2>2, <2>3, <2>5
<1> HIDE DEF entry
<1>6. lists \in [ Lists -> ListType ] /\ \A k \in Lists : lists[k] = IF k = l THEN entry ELSE h.list[k]
  BY <1>1, <1>5
<1> HIDE DEF nodes, lists, g
<1>7. g \in Heaps /\ g.tag = h.tag /\ g.node = nodes /\ g.list = lists
  BY <1>1, <1>2, <1>4, <1>6 DEF Heaps
<1> QED BY <1>4, <1>5, <1>6, <1>7, Zenon DEF g, before, behind

(* Unlinking a node keeps the heap sound; the function at work holds the   *)
(* reference that the node had.                                            *)
LEMMA UnlinkSound ==
  ASSUME NEW h, NEW path, Sound(h, Nil, path), NEW l \in Lists, NEW i \in 1 .. Len(path[l])
  PROVE  LET n == path[l][i]
             t == h.node[n].tag
             g == Unlink(h, l, n)
         IN  /\ t \in Tags
             /\ Sound(g, t, [ path EXCEPT ![l] = TakeOut(path[l], i) ])
             /\ SameRefs(g, h)
<1> DEFINE p == path[l]
           n == p[i]
           t == h.node[n].tag
           g == Unlink(h, l, n)
           before == h.node[n].prev
           behind == h.node[n].next
           q == TakeOut(p, i)
           made == [ path EXCEPT ![l] = q ]
<1>1. /\ h \in Heaps /\ Path(p) /\ Len(p) \in Nat /\ i \in 1 .. Len(p)
      /\ \A j \in 1 .. Len(p) : p[j] \in Nodes /\ p[j] # Nil
      /\ \A j, k \in 1 .. Len(p) : p[j] = p[k] => j = k
      /\ n \in Nodes /\ t \in Tags
  <2>1. h \in Heaps /\ Path(p)
    BY DEF Sound
  <2>2. Len(p) \in Nat /\ \A j, k \in 1 .. Len(p) : p[j] = p[k] => j = k
    BY <2>1 DEF Path
  <2>3. \A j \in 1 .. Len(p) : p[j] \in Nodes /\ p[j] # Nil /\ h.node[p[j]].tag \in Tags
    BY PathNodes
  <2> QED BY <2>1, <2>2, <2>3
<1>2. /\ h.list[l].size = Len(p) /\ h.list[l].size \in Nat \ {0}
      /\ h.list[l].head = p[1]
      /\ h.list[l].tail = p[Len(p)]
      /\ \A j \in 1 .. Len(p) :
           /\ h.node[p[j]].prev = IF j = 1 THEN Nil ELSE p[j - 1]
           /\ h.node[p[j]].next = IF j = Len(p) THEN Nil ELSE p[j + 1]
  <2>1. Laid(h, l, p)
    BY DEF Sound
  <2>2. Len(p) # 0
    BY <1>1
  <2> HIDE DEF p
  <2> QED BY <1>1, <2>1, <2>2 DEF Laid
<1> HIDE DEF p
<1>3. /\ before = IF i = 1 THEN Nil ELSE p[i - 1]
      /\ behind = IF i = Len(p) THEN Nil ELSE p[i + 1]
  BY <1>1, <1>2
<1>4. /\ i # 1 => i - 1 \in 1 .. Len(p)
      /\ i # Len(p) => i + 1 \in 1 .. Len(p)
      /\ 1 \in 1 .. Len(p) /\ Len(p) \in 1 .. Len(p)
      /\ i - 1 # i /\ i + 1 # i /\ i - 1 # i + 1
  BY <1>1
<1>5. /\ before # n /\ behind # n /\ (before # behind \/ before = Nil)
      /\ (n = h.list[l].head <=> before = Nil)
  BY <1>1, <1>2, <1>3, <1>4
<1>6. /\ g \in Heaps /\ g.tag = h.tag
      /\ \A m \in Nodes :
           /\ g.node[m].tag = IF m = n THEN Nil ELSE h.node[m].tag
           /\ m # n => /\ g.node[m].prev = IF m = behind THEN before ELSE h.node[m].prev
                       /\ g.node[m].next = IF m = before THEN behind ELSE h.node[m].next
      /\ \A k \in Lists : k # l => g.list[k] = h.list[k]
      /\ g.list[l].head = IF before = Nil THEN behind ELSE h.list[l].head
      /\ g.list[l].tail = IF behind = Nil THEN before ELSE h.list[l].tail
      /\ g.list[l].size = h.list[l].size - 1
      /\ g.list[l].refs = h.list[l].refs
  <2> HIDE DEF n
  <2> QED BY <1>1, <1>2, <1>5, UnlinkWrites
<1> HIDE DEF g, before, behind
<1>7. /\ Path(q) /\ Len(q) = Len(p) - 1
      /\ \A j \in 1 .. Len(p) - 1 : q[j] = IF j < i THEN p[j] ELSE p[j + 1]
  BY <1>1, TakeOutPath
<1> HIDE DEF q
<1>70. /\ Len(p) \in Int /\ Len(q) \in Int /\ i \in Int /\ 1 <= i /\ i <= Len(p)
       /\ Len(q) = Len(p) - 1
  BY <1>1, <1>7
<1>8. Laid(g, l, q)
  <2>1. g.list[l].size = Len(q)
    BY <1>2, <1>6, <1>7
  <2>2. g.list[l].head = IF Len(q) = 0 THEN Nil ELSE q[1]
    <3>1. Len(q) # 0 => 1 \in 1 .. Len(p) - 1
      BY <1>1, <1>7
    <3>2. Len(q) = 0 => i = 1 /\ i = Len(p)
      <4> DEFINE a == Len(p)
                 b == Len(q)
      <4>1. a \in Int /\ b \in Int /\ i \in Int /\ 1 <= i /\ i <= a /\ b = a - 1
        BY <1>70
      <4> HIDE DEF a, b
      <4>2. b = 0 => a = 1
        BY <4>1
      <4>3. a = 1 => i = 1
        BY <4>1
      <4> QED BY <4>2, <4>3 DEF a, b
    <3>3. i = 1 => ~(1 < i) /\ i + 1 = 1 + 1
      OBVIOUS
    <3>4. i # 1 => 1 < i
      BY <1>1
    <3>5. before = Nil <=> i = 1
      BY <1>1, <1>3, <1>4
    <3>6. Len(q) # 0 /\ i = 1 => i # Len(p)
      BY <1>7
    <3>7. CASE Len(q) = 0
      BY <1>3, <1>6, <3>2, <3>5, <3>7
    <3>8. CASE Len(q) # 0 /\ i = 1
      <4>1. q[1] = p[1 + 1]
        BY <1>7, <3>1, <3>3, <3>8
      <4>2. behind = p[i + 1]
        BY <1>3, <3>6, <3>8
      <4> QED BY <1>6, <3>5, <3>8, <4>1, <4>2
    <3>9. CASE Len(q) # 0 /\ i # 1
      BY <1>2, <1>6, <1>7, <3>1, <3>4, <3>5, <3>9
    <3> QED BY <3>7, <3>8, <3>9
  <2>3. g.list[l].tail = IF Len(q) = 0 THEN Nil ELSE q[Len(q)]
    <3>1. Len(q) # 0 => Len(p) - 1 \in 1 .. Len(p) - 1
      BY <1>1, <1>7
    <3>2. Len(q) = 0 => i = 1 /\ i = Len(p)
      <4> DEFINE a == Len(p)
                 b == Len(q)
      <4>1. a \in Int /\ b \in Int /\ i \in Int /\ 1 <= i /\ i <= a /\ b = a - 1
        BY <1>70
      <4> HIDE DEF a, b
      <4>2. b = 0 => a = 1
        BY <4>1
      <4>3. a = 1 => i = 1
        BY <4>1
      <4> QED BY <4>2, <4>3 DEF a, b
    <3>5. behind = Nil <=> i = Len(p)
      BY <1>1, <1>3, <1>4
    <3>7. CASE Len(q) = 0
      BY <1>3, <1>6, <3>2, <3>5, <3>7
    <3>8. CASE Len(q) # 0 /\ i = Len(p)
      <4>1. Len(p) - 1 < i /\ i # 1
        BY <1>1, <1>7, <3>8
      <4>2. q[Len(p) - 1] = p[i - 1]
        BY <1>7, <3>1, <3>8, <4>1
      <4> QED BY <1>3, <1>6, <1>7, <3>5, <3>8, <4>1, <4>2
    <3>9. CASE Len(q) # 0 /\ i # Len(p)
      <4>1. ~(Len(p) - 1 < i) /\ Len(p) - 1 + 1 = Len(p)
        BY <1>1, <3>9
      <4>2. q[Len(p) - 1] = p[Len(p)]
        BY <1>7, <3>1, <3>9, <4>1
      <4> QED BY <1>2, <1>6, <1>7, <3>5, <3>9, <4>2
    <3> QED BY <3>7, <3>8, <3>9
  <2>4. ASSUME NEW j \in 1 .. Len(q)
        PROVE  /\ g.node[q[j]].prev = IF j = 1 THEN Nil ELSE q[j - 1]
               /\ g.node[q[j]].next = IF j = Len(q) THEN Nil ELSE q[j + 1]
    <3>0. /\ j \in Int /\ i \in Int /\ Len(p) \in Int /\ 1 <= j /\ j <= Len(p) - 1 /\ 1 <= i /\ i <= Len(p)
          /\ j \in 1 .. Len(p) - 1 /\ j \in 1 .. Len(p) /\ j + 1 \in 1 .. Len(p)
      BY <1>1, <1>7
    <3>01. /\ j # 1 => j - 1 \in 1 .. Len(p) - 1 /\ j - 1 + 1 = j
           /\ j # Len(q) => j + 1 \in 1 .. Len(p) - 1
      BY <1>7, <3>0
    <3>1. CASE j < i
      <4>1. q[j] = p[j] /\ (j # 1 => q[j - 1] = p[j - 1])
        <5>1. j - 1 < i
          BY <3>0, <3>1
        <5> QED BY <1>7, <3>0, <3>01, <3>1, <5>1
      <4>2. p[j] # n /\ p[j] # behind /\ p[j] \in Nodes /\ (p[j] = before <=> j = i - 1)
        <5>1. j # i /\ j # i + 1
          BY <3>0, <3>1
        <5>2. p[j] # behind
          BY <1>1, <1>3, <1>4, <3>0, <5>1
        <5>3. i = 1 => j # i - 1
          BY <3>0
        <5>4. p[j] = before <=> j = i - 1
          BY <1>1, <1>3, <1>4, <3>0, <5>3
        <5> QED BY <1>1, <3>0, <5>1, <5>2, <5>4
      <4>3. g.node[p[j]].prev = IF j = 1 THEN Nil ELSE p[j - 1]
        <5>1. g.node[p[j]].prev = IF p[j] = behind THEN before ELSE h.node[p[j]].prev
          BY <1>6, <4>2
        <5>2. h.node[p[j]].prev = IF j = 1 THEN Nil ELSE p[j - 1]
          BY <1>2, <3>0
        <5> QED BY <4>2, <5>1, <5>2
      <4>4. g.node[p[j]].next = IF j = i - 1 THEN behind ELSE p[j + 1]
        <5>1. j # Len(p)
          BY <3>0
        <5>2. h.node[p[j]].next = p[j + 1]
          BY <1>2, <3>0, <5>1
        <5>3. g.node[p[j]].next = IF p[j] = before THEN behind ELSE h.node[p[j]].next
          BY <1>6, <4>2
        <5> QED BY <4>2, <5>2, <5>3
      <4>5. CASE j = i - 1
        <5>1. j = Len(q) <=> i = Len(p)
          BY <1>7, <3>0, <4>5
        <5>2. j # Len(q) => q[j + 1] = p[i + 1]
          <6>1. ~(j + 1 < i) /\ j + 1 + 1 = i + 1
            BY <3>0, <4>5
          <6> QED BY <1>7, <3>01, <6>1
        <5>3. g.node[q[j]].next = IF j = Len(q) THEN Nil ELSE q[j + 1]
          BY <1>3, <4>1, <4>4, <4>5, <5>1, <5>2
        <5> QED BY <4>1, <4>3, <5>3
      <4>6. CASE j # i - 1
        <5>1. j + 1 < i /\ j # Len(q)
          BY <1>7, <3>0, <3>1, <4>6
        <5>2. q[j + 1] = p[j + 1]
          BY <1>7, <3>01, <5>1
        <5> QED BY <4>1, <4>3, <4>4, <4>6, <5>1, <5>2
      <4> QED BY <4>5, <4>6
    <3>2. CASE ~(j < i)
      <4> DEFINE k == j + 1
      <4>1. q[j] = p[k] /\ k \in 1 .. Len(p) /\ k # 1 /\ k - 1 = j
        BY <1>7, <3>0, <3>2
      <4>2. p[k] # n /\ p[k] # before /\ p[k] \in Nodes /\ (p[k] = behind <=> k = i + 1)
        <5>1. k # i /\ k # i - 1
          BY <3>0, <3>2
        <5>2. k = i + 1 => i # Len(p)
          BY <3>0
        <5> HIDE DEF k
        <5> QED BY <1>1, <1>3, <1>4, <4>1, <5>1, <5>2
      <4>3. g.node[p[k]].prev = IF k = i + 1 THEN before ELSE p[j]
        <5> HIDE DEF k
        <5>1. h.node[p[k]].prev = p[j]
          BY <1>2, <4>1
        <5>2. g.node[p[k]].prev = IF p[k] = behind THEN before ELSE h.node[p[k]].prev
          BY <1>6, <4>2
        <5> QED BY <4>2, <5>1, <5>2
      <4>4. g.node[p[k]].next = IF k = Len(p) THEN Nil ELSE p[k + 1]
        <5> HIDE DEF k
        <5>1. g.node[p[k]].next = h.node[p[k]].next
          BY <1>6, <4>2
        <5> QED BY <1>2, <4>1, <5>1
      <4>5. g.node[q[j]].next = IF j = Len(q) THEN Nil ELSE q[j + 1]
        <5>1. k = Len(p) <=> j = Len(q)
          BY <1>7, <3>0
        <5>2. j # Len(q) => q[j + 1] = p[k + 1]
          <6>1. ~(j + 1 < i)
            BY <3>0, <3>2
          <6> QED BY <1>7, <3>01, <6>1
        <5> HIDE DEF k
        <5> QED BY <4>1, <4>4, <5>1, <5>2
      <4>6. CASE k = i + 1
        <5>1. j = i /\ (j = 1 <=> i = 1)
          BY <3>0, <4>6
        <5>2. j # 1 => q[j - 1] = p[i - 1]
          <6>1. j - 1 < i
            BY <3>0, <5>1
          <6> QED BY <1>7, <3>01, <5>1, <6>1
        <5>3. g.node[q[j]].prev = before
          BY <4>1, <4>3, <4>6
        <5> HIDE DEF k
        <5> QED BY <1>3, <4>5, <5>1, <5>2, <5>3
      <4>7. CASE k # i + 1
        <5>1. j # 1 /\ ~(j - 1 < i)
          BY <3>0, <3>2, <4>7
        <5>2. q[j - 1] = p[j]
          BY <1>7, <3>01, <5>1
        <5> HIDE DEF k
        <5> QED BY <4>1, <4>3, <4>5, <4>7, <5>1, <5>2
      <4> QED BY <4>6, <4>7
    <3> QED BY <3>1, <3>2
  <2> QED BY <2>1, <2>2, <2>3, <2>4 DEF Laid
<1>9. ASSUME NEW k \in Lists, k # l
      PROVE  Laid(g, k, path[k])
  <2>1. /\ Path(path[k]) /\ Laid(h, k, path[k])
        /\ \A j \in 1 .. Len(path[k]) : path[k][j] \in Nodes /\ path[k][j] # Nil
    BY PathNodes
  <2>2. \A j \in 1 .. Len(path[k]), m \in 1 .. Len(p) : path[k][j] # p[m]
    BY <1>9 DEF Sound, Apart, p
  <2>3. before = Nil \/ \E m \in 1 .. Len(p) : before = p[m]
    BY <1>3, <1>4
  <2>4. behind = Nil \/ \E m \in 1 .. Len(p) : behind = p[m]
    BY <1>3, <1>4
  <2>5. \A j \in 1 .. Len(path[k]) : path[k][j] # n /\ path[k][j] # behind /\ path[k][j] # before
    BY <1>1, <2>1, <2>2, <2>3, <2>4
  <2>6. \A j \in 1 .. Len(path[k]) : /\ g.node[path[k][j]].prev = h.node[path[k][j]].prev
                                    /\ g.node[path[k][j]].next = h.node[path[k][j]].next
    BY <1>6, <2>1, <2>5
  <2>7. g.list[k] = h.list[k]
    BY <1>6, <1>9
  <2> QED BY <2>1, <2>6, <2>7 DEF Laid
<1>10. path = [ k \in Lists |-> path[k] ] /\ made = [ k \in Lists |-> made[k] ]
       /\ \A k \in Lists : made[k] = IF k = l THEN q ELSE path[k]
  BY DEF Sound
<1> HIDE DEF made
<1>11. \A k \in Lists : Path(made[k]) /\ Laid(g, k, made[k])
  <2>1. \A k \in Lists : Path(path[k])
    BY DEF Sound
  <2> QED BY <1>7, <1>8, <1>9, <1>10, <2>1
<1>12. \A m : (\E j \in 1 .. Len(q) : q[j] = m) <=> m # n /\ \E j \in 1 .. Len(p) : p[j] = m
  <2>1. \A j \in 1 .. Len(q) : \E k \in 1 .. Len(p) : k # i /\ q[j] = p[k]
    <3> TAKE j \in 1 .. Len(q)
    <3>1. j \in 1 .. Len(p) - 1 /\ j \in 1 .. Len(p) /\ j + 1 \in 1 .. Len(p)
      BY <1>1, <1>7
    <3>2. (j < i => j # i) /\ (~(j < i) => j + 1 # i)
      BY <1>1
    <3> QED BY <1>7, <3>1, <3>2
  <2>2. \A k \in 1 .. Len(p) : k # i => \E j \in 1 .. Len(q) : q[j] = p[k]
    <3> SUFFICES ASSUME NEW k \in 1 .. Len(p), k # i PROVE \E j \in 1 .. Len(q) : q[j] = p[k]
      OBVIOUS
    <3>0. k \in Int /\ i \in Int /\ Len(p) \in Int /\ 1 <= k /\ k <= Len(p) /\ 1 <= i /\ i <= Len(p)
      BY <1>1
    <3>1. CASE k < i
      <4>1. k \in 1 .. Len(p) - 1
        BY <3>0, <3>1
      <4> QED BY <1>7, <3>1, <4>1
    <3>2. CASE ~(k < i)
      <4>1. k - 1 \in 1 .. Len(p) - 1 /\ ~(k - 1 < i) /\ k - 1 + 1 = k
        BY <3>0, <3>2
      <4> QED BY <1>7, <4>1
    <3> QED BY <3>1, <3>2
  <2>3. \A j \in 1 .. Len(p) : p[j] = n <=> j = i
    BY <1>1
  <2> HIDE DEF n
  <2> QED BY <2>1, <2>2, <2>3
<1>13. Apart(made)
  <2>1. Apart(path)
    BY DEF Sound
  <2>2. \A k \in Lists : k # l =>
          \A a \in 1 .. Len(q), b \in 1 .. Len(path[k]) : q[a] # path[k][b]
    <3>1. \A a \in 1 .. Len(q) : \E j \in 1 .. Len(p) : p[j] = q[a]
      BY <1>12
    <3>2. \A k \in Lists : k # l =>
            \A a \in 1 .. Len(p), b \in 1 .. Len(path[k]) : p[a] # path[k][b]
      BY <2>1 DEF Apart, p
    <3> QED BY <3>1, <3>2
  <2> QED BY <1>10, <2>1, <2>2 DEF Apart
<1>14. \A m \in Nodes : g.node[m].tag # Nil <=> On(made, m)
  <2> SUFFICES ASSUME NEW m \in Nodes PROVE On(made, m) <=> m # n /\ On(path, m)
    <3>1. \A m \in Nodes : h.node[m].tag # Nil <=> On(path, m)
      BY DEF Sound
    <3> QED BY <1>6, <3>1
  <2> DEFINE others == \E k \in Lists : k # l /\ \E j \in 1 .. Len(path[k]) : path[k][j] = m
  <2>1. On(path, m) <=> (\E j \in 1 .. Len(p) : p[j] = m) \/ others
    BY Zenon DEF On, p
  <2>2. On(made, m) <=> (\E j \in 1 .. Len(q) : q[j] = m) \/ others
    <3>1. made[l] = q /\ \A k \in Lists : k # l => made[k] = path[k]
      BY <1>10
    <3> QED BY <3>1, Zenon DEF On
  <2>3. m = n => ~others
    <3>1. Apart(path) /\ i \in 1 .. Len(path[l]) /\ n = path[l][i]
      BY <1>1 DEF Sound, p
    <3>2. \A k \in Lists : k # l => \A j \in 1 .. Len(path[k]) : path[l][i] # path[k][j]
      BY <3>1 DEF Apart
    <3> HIDE DEF n
    <3> QED BY <3>1, <3>2
  <2> QED BY <1>12, <2>1, <2>2, <2>3
<1>15. ASSUME NEW u \in Tags
       PROVE  g.tag[u].refs = Cardinality(Holders(g, u)) + (IF u = t THEN 1 ELSE 0)
  <2>1. h.tag[u].refs = Cardinality(Holders(h, u)) + (IF u = Nil THEN 1 ELSE 0)
    BY DEF Sound, Counted
  <2>2. u # Nil
    BY NilIsNoNode
  <2>3. IsFiniteSet(Holders(h, u)) /\ (u = t <=> n \in Holders(h, u))
    <3>1. Holders(h, u) \subseteq Nodes
      BY DEF Holders
    <3> QED BY <1>1, <3>1, NodesFinite, FS_Subset DEF Holders
  <2>4. Holders(g, u) = Holders(h, u) \ {n}
    BY <1>6, <2>2 DEF Holders
  <2>5. Cardinality(Holders(h, u)) \in Nat
    BY <2>3, FS_CardinalityType
  <2>6. u = t => Cardinality(Holders(h, u) \ {n}) = Cardinality(Holders(h, u)) - 1
    BY <2>3, FS_RemoveElement
  <2>7. u # t => Holders(h, u) \ {n} = Holders(h, u)
    BY <2>3
  <2>8. g.tag[u].refs = h.tag[u].refs
    BY <1>6
  <2> HIDE DEF t, n
  <2>9. CASE u = t
    BY <2>1, <2>2, <2>4, <2>5, <2>6, <2>8, <2>9
  <2>10. CASE u # t
    BY <2>1, <2>2, <2>4, <2>5, <2>7, <2>8, <2>10
  <2> QED BY <2>9, <2>10
<1>16. Sound(g, t, made)
  BY <1>6, <1>10, <1>11, <1>13, <1>14, <1>15 DEF Sound, Counted
<1>17. SameRefs(g, h)
  BY <1>6 DEF SameRefs
<1> QED BY <1>1, <1>16, <1>17 DEF g, made, q, p

(***************************************************************************)
(* Tags change hands: calls that leave the nodes on their paths.           *)
(***************************************************************************)

(* Only the tags of nodes and the references to tags and lists changed.    *)
LEMMA SameShape ==
  ASSUME NEW h, NEW held, NEW path, Sound(h, held, path), NEW g \in Heaps, NEW hand,
         \A n \in Nodes : /\ g.node[n].prev = h.node[n].prev /\ g.node[n].next = h.node[n].next
                          /\ g.node[n].tag = Nil <=> h.node[n].tag = Nil,
         \A l \in Lists : /\ g.list[l].head = h.list[l].head /\ g.list[l].tail = h.list[l].tail
                          /\ g.list[l].size = h.list[l].size,
         Counted(g, hand)
  PROVE  Sound(g, hand, path) /\ Unused(g) = Unused(h)
<1>1. ASSUME NEW l \in Lists
      PROVE  Path(path[l]) /\ Laid(g, l, path[l])
  <2>1. Path(path[l]) /\ Laid(h, l, path[l])
    BY DEF Sound
  <2>2. \A i \in 1 .. Len(path[l]) : path[l][i] \in Nodes
    BY <2>1 DEF Path
  <2>3. \A i \in 1 .. Len(path[l]) : /\ g.node[path[l][i]].prev = h.node[path[l][i]].prev
                                     /\ g.node[path[l][i]].next = h.node[path[l][i]].next
    BY <2>2
  <2>4. /\ g.list[l].head = h.list[l].head /\ g.list[l].tail = h.list[l].tail
        /\ g.list[l].size = h.list[l].size
    OBVIOUS
  <2> DEFINE p == path[l]
  <2>5. /\ h.list[l].size = Len(p)
        /\ h.list[l].head = IF Len(p) = 0 THEN Nil ELSE p[1]
        /\ h.list[l].tail = IF Len(p) = 0 THEN Nil ELSE p[Len(p)]
        /\ \A i \in 1 .. Len(p) :
             /\ h.node[p[i]].prev = IF i = 1 THEN Nil ELSE p[i - 1]
             /\ h.node[p[i]].next = IF i = Len(p) THEN Nil ELSE p[i + 1]
    BY <2>1, Zenon DEF Laid
  <2>6. Laid(g, l, p)
    <3> HIDE DEF p
    <3>1. \A i \in 1 .. Len(p) : /\ g.node[p[i]].prev = h.node[p[i]].prev
                                 /\ g.node[p[i]].next = h.node[p[i]].next
      BY <2>3 DEF p
    <3> QED BY <2>4, <2>5, <3>1 DEF Laid
  <2> QED BY <2>1, <2>6
<1>2. \A n \in Nodes : g.node[n].tag # Nil <=> On(path, n)
  BY DEF Sound
<1>3. path = [ l \in Lists |-> path[l] ] /\ Apart(path)
  BY DEF Sound
<1>4. Unused(g) = Unused(h)
  BY DEF Unused
<1> QED BY <1>1, <1>2, <1>3, <1>4 DEF Sound

(* Nil is no name.                                                         *)
LEMMA NamesAreNumbers == \A x \in Names : x \in Nat /\ x # Nil
<1>1. Names \subseteq Nat \ {Nil}
  BY TagListAssumption, Zenon
<1> QED BY <1>1

(* A tag has finitely many holders.                                        *)
LEMMA HoldersFinite ==
  ASSUME NEW h, NEW t
  PROVE  IsFiniteSet(Holders(h, t)) /\ Cardinality(Holders(h, t)) \in Nat /\ Holders(h, t) \subseteq Nodes
<1>1. Holders(h, t) \subseteq Nodes
  BY DEF Holders
<1>2. IsFiniteSet(Holders(h, t))
  BY <1>1, NodesFinite, FS_Subset
<1> QED BY <1>1, <1>2, FS_CardinalityType

(* One member for another leaves a finite set as large as it was.          *)
LEMMA ExchangeKeepsSize ==
  ASSUME NEW S, IsFiniteSet(S), NEW a \in S, NEW b, b \notin S
  PROVE  Cardinality((S \ {a}) \cup {b}) = Cardinality(S)
<1>1. Cardinality(S) \in Nat
  BY FS_CardinalityType
<1>2. IsFiniteSet(S \ {a}) /\ Cardinality(S \ {a}) = Cardinality(S) - 1
  BY FS_RemoveElement
<1>3. b \notin S \ {a}
  OBVIOUS
<1>4. Cardinality((S \ {a}) \cup {b}) = Cardinality(S \ {a}) + 1
  BY <1>2, <1>3, FS_AddElement
<1> QED BY <1>1, <1>2, <1>4

Idle(h) == { t \in Tags : h.tag[t].refs = 0 }

(* The function at work gives up the tag it made.                          *)
LEMMA ReleaseSound ==
  ASSUME NEW h, NEW path, NEW t \in Tags, Sound(h, t, path)
  PROVE  LET g == TagRelinquish(h, t)
         IN  Sound(g, Nil, path) /\ SameRefs(g, h) /\ g.node = h.node /\ Unused(g) = Unused(h)
<1> DEFINE g == TagRelinquish(h, t)
<1>1. h \in Heaps
  BY DEF Sound
<1>2. /\ g \in Heaps /\ g.node = h.node /\ g.list = h.list
      /\ \A u \in Tags : g.tag[u].refs = IF u # t THEN h.tag[u].refs
                                         ELSE IF h.tag[t].refs = 0 THEN 0 ELSE h.tag[t].refs - 1
  BY <1>1, RelinquishWrites
<1> HIDE DEF g
<1>3. Counted(g, Nil)
  <2> SUFFICES ASSUME NEW u \in Tags
               PROVE  g.tag[u].refs = Cardinality(Holders(g, u)) + (IF u = Nil THEN 1 ELSE 0)
    BY DEF Counted
  <2>1. h.tag[u].refs = Cardinality(Holders(h, u)) + (IF u = t THEN 1 ELSE 0)
    BY DEF Sound, Counted
  <2>2. Holders(g, u) = Holders(h, u)
    BY <1>2 DEF Holders
  <2>3. u # Nil /\ Cardinality(Holders(h, u)) \in Nat
    BY NilIsNoNode, HoldersFinite
  <2> QED BY <1>2, <2>1, <2>2, <2>3
<1>4. Sound(g, Nil, path) /\ Unused(g) = Unused(h)
  BY <1>2, <1>3, SameShape
<1> QED BY <1>2, <1>4 DEF g, SameRefs

(* A tag that nobody refers to is made and held.                           *)
LEMMA NewTagSound ==
  ASSUME NEW h, NEW path, NEW t \in Idle(h), NEW name \in Names, Sound(h, Nil, path)
  PROVE  LET g == TagNew(h, t, name)
         IN  /\ Sound(g, t, path) /\ g.list = h.list /\ g.node = h.node
             /\ \A u \in Tags : u # t => g.tag[u] = h.tag[u]
<1> DEFINE g == TagNew(h, t, name)
           TagType == [ name : Names \cup {Nil}, refs : Nat ]
           tags == [ h.tag EXCEPT ![t] = [ name |-> name, refs |-> 1 ] ]
<1>1. /\ h \in Heaps /\ h.tag \in [ Tags -> TagType ]
      /\ h = [ tag |-> h.tag, node |-> h.node, list |-> h.list ]
  BY DEF Sound, Heaps
<1>2. t \in Tags /\ h.tag[t].refs = 0
  BY DEF Idle
<1>3. /\ tags \in [ Tags -> TagType ] /\ tags[t].refs = 1
      /\ \A u \in Tags : u # t => tags[u] = h.tag[u]
  BY <1>1, <1>2
<1>4. g = [ tag |-> tags, node |-> h.node, list |-> h.list ]
  BY <1>1 DEF TagNew
<1> HIDE DEF g, tags
<1>5. g \in Heaps /\ g.tag = tags /\ g.node = h.node /\ g.list = h.list
  BY <1>1, <1>3, <1>4 DEF Heaps
<1>6. Counted(g, t)
  <2> SUFFICES ASSUME NEW u \in Tags
               PROVE  g.tag[u].refs = Cardinality(Holders(g, u)) + (IF u = t THEN 1 ELSE 0)
    BY DEF Counted
  <2>1. h.tag[u].refs = Cardinality(Holders(h, u)) + (IF u = Nil THEN 1 ELSE 0)
    BY DEF Sound, Counted
  <2>2. Holders(g, u) = Holders(h, u)
    BY <1>5 DEF Holders
  <2>3. u # Nil /\ Cardinality(Holders(h, u)) \in Nat
    BY NilIsNoNode, HoldersFinite
  <2> QED BY <1>2, <1>3, <1>5, <2>1, <2>2, <2>3
<1>7. Sound(g, t, path)
  BY <1>5, <1>6, SameShape
<1> QED BY <1>3, <1>5, <1>7 DEF g

(* A node gives up its tag for the one that is held.                       *)
LEMMA RetagSound ==
  ASSUME NEW h, NEW path, NEW t \in Tags, Sound(h, t, path), NEW n \in Nodes, h.node[n].tag # Nil
  PROVE  LET g == Retag(h, n, t)
         IN  Sound(g, t, path) /\ SameRefs(g, h)
<1> DEFINE TagType == [ name : Names \cup {Nil}, refs : Nat ]
           NodeType == [ tag : Tags \cup {Nil}, prev : Nodes \cup {Nil}, next : Nodes \cup {Nil} ]
           old == h.node[n].tag
           tags == [ h.tag EXCEPT ![t].refs = @ + 1 ]
           nodes == [ h.node EXCEPT ![n] = [ h.node[n] EXCEPT !.tag = t ] ]
           f == [ TagAcquire(h, t) EXCEPT !.node[n].tag = t ]
           g == Retag(h, n, t)
<1>1. /\ h \in Heaps /\ h.tag \in [ Tags -> TagType ] /\ h.node \in [ Nodes -> NodeType ]
      /\ h = [ tag |-> h.tag, node |-> h.node, list |-> h.list ]
  BY DEF Sound, Heaps
<1>2. /\ tags \in [ Tags -> TagType ]
      /\ \A u \in Tags : tags[u].refs = IF u = t THEN h.tag[u].refs + 1 ELSE h.tag[u].refs
  BY <1>1
<1>3. /\ nodes \in [ Nodes -> NodeType ]
      /\ \A m \in Nodes : /\ nodes[m].tag = IF m = n THEN t ELSE h.node[m].tag
                          /\ nodes[m].prev = h.node[m].prev /\ nodes[m].next = h.node[m].next
  BY <1>1
<1>4. f = [ tag |-> tags, node |-> nodes, list |-> h.list ]
  <2> DEFINE base == TagAcquire(h, t)
  <2>1. base = [ tag |-> tags, node |-> h.node, list |-> h.list ]
    <3>1. h = [ tag |-> h.tag, node |-> h.node, list |-> h.list ]
      BY <1>1
    <3> HIDE DEF TagType, NodeType
    <3> QED BY <3>1 DEF TagAcquire
  <2> HIDE DEF base, tags
  <2>2. f = [ base EXCEPT !.node[n].tag = t ]
    BY DEF base
  <2> QED BY <1>1, <2>1, <2>2
<1>5. old \in Tags
  BY <1>1
<1>6. g = TagRelinquish(f, old)
  BY DEF Retag
<1> HIDE DEF f, g, old, tags, nodes
<1>7. f \in Heaps /\ f.tag = tags /\ f.node = nodes /\ f.list = h.list
  BY <1>1, <1>2, <1>3, <1>4 DEF Heaps
<1>8. /\ g \in Heaps /\ g.node = nodes /\ g.list = h.list
      /\ \A u \in Tags : g.tag[u].refs = IF u # old THEN tags[u].refs
                                         ELSE IF tags[old].refs = 0 THEN 0 ELSE tags[old].refs - 1
  <2>1. /\ g \in Heaps /\ g.node = f.node /\ g.list = f.list
        /\ \A u \in Tags : g.tag[u].refs = IF u # old THEN f.tag[u].refs
                                           ELSE IF f.tag[old].refs = 0 THEN 0 ELSE f.tag[old].refs - 1
    <3> DEFINE r == TagRelinquish(f, old)
    <3>1. /\ r \in Heaps /\ r.node = f.node /\ r.list = f.list
          /\ \A u \in Tags : r.tag[u].refs = IF u # old THEN f.tag[u].refs
                                             ELSE IF f.tag[old].refs = 0 THEN 0 ELSE f.tag[old].refs - 1
      <4>1. f \in Heaps
        BY <1>7
      <4> QED BY <1>5, <4>1, RelinquishWrites
    <3> HIDE DEF r
    <3>2. g = r
      BY <1>6 DEF r
    <3> QED BY <3>1, <3>2
  <2> QED BY <1>7, <2>1
<1>9. Counted(g, t)
  <2> SUFFICES ASSUME NEW u \in Tags
               PROVE  g.tag[u].refs = Cardinality(Holders(g, u)) + (IF u = t THEN 1 ELSE 0)
    BY DEF Counted
  <2>1. h.tag[u].refs = Cardinality(Holders(h, u)) + (IF u = t THEN 1 ELSE 0)
    BY DEF Sound, Counted
  <2>2. IsFiniteSet(Holders(h, u)) /\ Cardinality(Holders(h, u)) \in Nat
    BY HoldersFinite
  <2>3. n \in Holders(h, u) <=> u = old
    BY DEF Holders, old
  <2>4. Holders(g, u) = IF u = t THEN Holders(h, u) \cup {n} ELSE Holders(h, u) \ {n}
    BY <1>3, <1>8 DEF Holders
  <2>5. Cardinality(Holders(h, u) \cup {n}) = Cardinality(Holders(h, u)) + (IF u = old THEN 0 ELSE 1)
    <3>1. u # old => Cardinality(Holders(h, u) \cup {n}) = Cardinality(Holders(h, u)) + 1
      BY <2>2, <2>3, FS_AddElement
    <3>2. u = old => Holders(h, u) \cup {n} = Holders(h, u)
      BY <2>3
    <3>3. u = old => Cardinality(Holders(h, u) \cup {n}) = Cardinality(Holders(h, u))
      BY <3>2
    <3>4. CASE u = old
      BY <2>2, <3>3, <3>4
    <3>5. CASE u # old
      BY <2>2, <3>1, <3>5
    <3> QED BY <3>4, <3>5
  <2>6. /\ Cardinality(Holders(h, u) \ {n}) = Cardinality(Holders(h, u)) - (IF u = old THEN 1 ELSE 0)
        /\ Cardinality(Holders(h, u) \ {n}) \in Nat
    <3>1. u = old => Cardinality(Holders(h, u) \ {n}) = Cardinality(Holders(h, u)) - 1
      BY <2>2, <2>3, FS_RemoveElement
    <3>2. u # old => Holders(h, u) \ {n} = Holders(h, u)
      BY <2>3
    <3>3. IsFiniteSet(Holders(h, u) \ {n})
      BY <2>2, FS_Subset
    <3>4. Cardinality(Holders(h, u) \ {n}) \in Nat
      BY <3>3, FS_CardinalityType
    <3>5. CASE u = old
      BY <2>2, <3>1, <3>4, <3>5
    <3>6. CASE u # old
      BY <2>2, <3>2, <3>4, <3>6
    <3> QED BY <3>5, <3>6
  <2>7. CASE u = old
    BY <1>2, <1>5, <1>8, <2>1, <2>2, <2>4, <2>5, <2>6, <2>7
  <2>8. CASE u # old
    BY <1>2, <1>8, <2>1, <2>2, <2>4, <2>5, <2>6, <2>8
  <2> QED BY <2>7, <2>8
<1>10. /\ \A m \in Nodes : /\ g.node[m].prev = h.node[m].prev /\ g.node[m].next = h.node[m].next
                           /\ g.node[m].tag = Nil <=> h.node[m].tag = Nil
  BY <1>3, <1>8, NilIsNoNode
<1>11. Sound(g, t, path)
  BY <1>8, <1>9, <1>10, SameShape
<1> QED BY <1>8, <1>11 DEF g, SameRefs

(* Two nodes exchange their tags.                                          *)
LEMMA SwapSound ==
  ASSUME NEW h, NEW path, Sound(h, Nil, path), NEW n \in Nodes, NEW m \in Nodes,
         h.node[n].tag # Nil, h.node[m].tag # Nil
  PROVE  LET g == SwapIfAbove(h, n, m)
         IN  Sound(g, Nil, path) /\ SameRefs(g, h)
<1> DEFINE NodeType == [ tag : Tags \cup {Nil}, prev : Nodes \cup {Nil}, next : Nodes \cup {Nil} ]
           a == h.node[n].tag
           b == h.node[m].tag
           nodes == [ h.node EXCEPT ![n] = [ h.node[n] EXCEPT !.tag = b ], ![m] = [ h.node[m] EXCEPT !.tag = a ] ]
           g == SwapIfAbove(h, n, m)
<1>1. CASE ~(NameAt(h, n) > NameAt(h, m))
  <2>1. g = h
    BY <1>1 DEF SwapIfAbove
  <2> QED BY <2>1 DEF SameRefs
<1>2. CASE NameAt(h, n) > NameAt(h, m)
  <2>1. /\ h \in Heaps /\ h.node \in [ Nodes -> NodeType ]
        /\ h = [ tag |-> h.tag, node |-> h.node, list |-> h.list ]
        /\ h.tag \in [ Tags -> [ name : Names \cup {Nil}, refs : Nat ] ]
    BY DEF Sound, Heaps
  <2>2. a \in Tags /\ b \in Tags
    BY <2>1
  <2>3. a # b
    <3>1. h.tag[a].name \in Names \cup {Nil}
      <4> HIDE DEF a
      <4> QED BY <2>1, <2>2
    <3>2. h.tag[a].name \in Nat
      <4> HIDE DEF a
      <4> QED BY <3>1, NamesAreNumbers DEF Nil
    <3> HIDE DEF a, b
    <3>3. NameAt(h, n) = h.tag[a].name /\ NameAt(h, m) = h.tag[b].name
      BY DEF NameAt, a, b
    <3> QED BY <1>2, <3>2, <3>3
  <2>4. n # m
    BY <2>3
  <2>5. g = [ tag |-> h.tag, node |-> nodes, list |-> h.list ]
    BY <1>2, <2>1 DEF SwapIfAbove
  <2>6. /\ nodes \in [ Nodes -> NodeType ]
        /\ \A k \in Nodes : /\ nodes[k].tag = IF k = n THEN b ELSE IF k = m THEN a ELSE h.node[k].tag
                            /\ nodes[k].prev = h.node[k].prev /\ nodes[k].next = h.node[k].next
    BY <2>1, <2>2, <2>4
  <2> HIDE DEF g, nodes
  <2>7. g \in Heaps /\ g.tag = h.tag /\ g.node = nodes /\ g.list = h.list
    BY <2>1, <2>5, <2>6 DEF Heaps
  <2>8. Counted(g, Nil)
    <3> SUFFICES ASSUME NEW u \in Tags
                 PROVE  Cardinality(Holders(g, u)) = Cardinality(Holders(h, u))
      BY <2>7 DEF Sound, Counted
    <3>1. IsFiniteSet(Holders(h, u)) /\ Cardinality(Holders(h, u)) \in Nat
      BY HoldersFinite
    <3>2. (n \in Holders(h, u) <=> u = a) /\ (m \in Holders(h, u) <=> u = b)
      BY DEF Holders
    <3>3. CASE u = a
      <4>1. Holders(g, u) = (Holders(h, u) \ {n}) \cup {m}
        BY <2>3, <2>4, <2>6, <2>7, <3>3 DEF Holders
      <4> QED BY <2>3, <3>1, <3>2, <3>3, <4>1, ExchangeKeepsSize
    <3>4. CASE u = b
      <4>1. Holders(g, u) = (Holders(h, u) \ {m}) \cup {n}
        BY <2>3, <2>4, <2>6, <2>7, <3>4 DEF Holders
      <4> QED BY <2>3, <3>1, <3>2, <3>4, <4>1, ExchangeKeepsSize
    <3>5. CASE u # a /\ u # b
      <4>1. Holders(g, u) = Holders(h, u)
        BY <2>6, <2>7, <3>5 DEF Holders
      <4> QED BY <4>1
    <3> QED BY <3>3, <3>4, <3>5
  <2>9. \A k \in Nodes : /\ g.node[k].prev = h.node[k].prev /\ g.node[k].next = h.node[k].next
                         /\ g.node[k].tag = Nil <=> h.node[k].tag = Nil
    BY <2>2, <2>6, <2>7, NilIsNoNode
  <2>10. Sound(g, Nil, path)
    BY <2>7, <2>8, <2>9, SameShape
  <2> QED BY <2>7, <2>10 DEF g, SameRefs
<1> QED BY <1>1, <1>2

(* A list is referred to, or no longer.                                    *)
WithRefs(h, l, r) ==
  [ h EXCEPT !.list[l] = [ head |-> h.list[l].head, tail |-> h.list[l].tail,
                           size |-> h.list[l].size, refs |-> r ] ]

(* Who refers to a list says nothing about its nodes.                      *)
LEMMA ListRefsSound ==
  ASSUME NEW h, NEW path, NEW held, Sound(h, held, path), NEW l \in Lists, NEW r \in Nat
  PROVE  LET g == WithRefs(h, l, r)
         IN  /\ Sound(g, held, path) /\ Unused(g) = Unused(h) /\ g.node = h.node /\ g.tag = h.tag
             /\ \A k \in Lists : g.list[k].refs = IF k = l THEN r ELSE h.list[k].refs
<1> DEFINE ListType == [ head : Nodes \cup {Nil}, tail : Nodes \cup {Nil}, size : Nat, refs : Nat ]
           entry == [ head |-> h.list[l].head, tail |-> h.list[l].tail,
                      size |-> h.list[l].size, refs |-> r ]
           lists == [ h.list EXCEPT ![l] = entry ]
           g == WithRefs(h, l, r)
<1>1. /\ h \in Heaps /\ h.list \in [ Lists -> ListType ]
      /\ h = [ tag |-> h.tag, node |-> h.node, list |-> h.list ]
  BY DEF Sound, Heaps
<1>2. /\ lists \in [ Lists -> ListType ]
      /\ \A k \in Lists : /\ lists[k].refs = IF k = l THEN r ELSE h.list[k].refs
                          /\ lists[k].head = h.list[k].head /\ lists[k].tail = h.list[k].tail
                          /\ lists[k].size = h.list[k].size
  BY <1>1
<1> HIDE DEF lists
<1>3. g = [ tag |-> h.tag, node |-> h.node, list |-> lists ]
  BY <1>1 DEF lists, WithRefs
<1> HIDE DEF g
<1>30. /\ h.tag \in [ Tags -> [ name : Names \cup {Nil}, refs : Nat ] ]
       /\ h.node \in [ Nodes -> [ tag : Tags \cup {Nil}, prev : Nodes \cup {Nil}, next : Nodes \cup {Nil} ] ]
  BY <1>1 DEF Heaps
<1>4. g \in Heaps /\ g.tag = h.tag /\ g.node = h.node /\ g.list = lists
  BY <1>2, <1>3, <1>30 DEF Heaps
<1>5. Counted(g, held)
  BY <1>4 DEF Sound, Counted, Holders
<1>6. Sound(g, held, path) /\ Unused(g) = Unused(h)
  BY <1>2, <1>4, <1>5, SameShape
<1> QED BY <1>2, <1>4, <1>6 DEF g

(***************************************************************************)
(* Texts, and the calls that put a new tag into a list.                    *)
(***************************************************************************)

(* Texts are made of names, blanks and pieces that no tag may have: what   *)
(* makes a tag is a name.                                                  *)
Signs == Names \cup {Blank, -1}

(* A part of a text is a text.                                             *)
LEMMA PartOfText ==
  ASSUME NEW text \in Seq(Signs), NEW i \in 1 .. Len(text), NEW j \in Int, j <= Len(text)
  PROVE  SubSeq(text, i, j) \in Seq(Signs)
<1>1. Len(text) \in Nat /\ \A m \in 1 .. Len(text) : text[m] \in Signs
  BY LenProperties, ElementOfSeq
<1>2. i \in Int
  OBVIOUS
<1>3. \A m \in i .. j : m \in 1 .. Len(text)
  BY <1>1
<1> HIDE DEF Signs
<1> QED BY <1>1, <1>2, <1>3, SubSeqProperties

(* What remains behind leading blanks is a text.                           *)
LEMMA TagWordIsText ==
  ASSUME NEW text \in Seq(Signs)
  PROVE  TagWord(text) \in Seq(Signs)
<1> DEFINE dark == { i \in DOMAIN text : text[i] # Blank }
<1>1. Len(text) \in Nat /\ DOMAIN text = 1 .. Len(text)
  BY LenProperties
<1>2. dark \in SUBSET Nat /\ dark \subseteq 1 .. Len(text)
  BY <1>1
<1>3. TagWord(text) = IF dark = {} THEN << >> ELSE SubSeq(text, Min(dark), Len(text))
  BY DEF TagWord
<1> HIDE DEF dark, Signs
<1>4. dark # {} => Min(dark) \in 1 .. Len(text)
  BY <1>2, PlaceFound
<1>5. dark # {} => SubSeq(text, Min(dark), Len(text)) \in Seq(Signs)
  BY <1>1, <1>4, PartOfText
<1>6. << >> \in Seq(Signs)
  BY EmptySeq
<1> QED BY <1>3, <1>5, <1>6

(* A valid tag is a name.                                                  *)
LEMMA ValidTagIsName ==
  ASSUME NEW word \in Seq(Signs), ValidTag(word)
  PROVE  word[1] \in Names
<1>1. word[1] \in Signs /\ word[1] > Blank
  BY ElementOfSeq DEF ValidTag
<1> QED BY <1>1 DEF Signs, Blank

(* As many unused nodes, and tags, as k.                                   *)
RoomFor(h, k) == Cardinality(Unused(h)) >= k /\ Cardinality(Idle(h)) >= k

(* The unused nodes and tags are finitely many; one of them is one to use. *)
LEMMA SparesFinite ==
  ASSUME NEW h
  PROVE  /\ IsFiniteSet(Unused(h)) /\ Cardinality(Unused(h)) \in Nat
         /\ IsFiniteSet(Idle(h)) /\ Cardinality(Idle(h)) \in Nat
         /\ Cardinality(Unused(h)) >= 1 => Unused(h) # {}
         /\ Cardinality(Idle(h)) >= 1 => Idle(h) # {}
<1>1. Unused(h) \subseteq Nodes /\ Idle(h) \subseteq Tags
  BY DEF Unused, Idle
<1>2. IsFiniteSet(Unused(h)) /\ IsFiniteSet(Idle(h))
  BY <1>1, NodesFinite, FS_Subset
<1>3. Cardinality(Unused(h)) \in Nat /\ Cardinality(Idle(h)) \in Nat
  BY <1>2, FS_CardinalityType
<1>4. Unused(h) = {} => Cardinality(Unused(h)) = 0
  BY FS_EmptySet
<1>5. Idle(h) = {} => Cardinality(Idle(h)) = 0
  BY FS_EmptySet
<1> QED BY <1>2, <1>3, <1>4, <1>5

(* The other lists are as they were, and list l has the nodes it had.      *)
Grown(made, path, l) ==
  /\ \A k \in Lists : k # l => made[k] = path[k]
  /\ \A i \in 1 .. Len(path[l]) : \E j \in 1 .. Len(made[l]) : made[l][j] = path[l][i]

(* A list that gets a node keeps the others.                               *)
LEMMA PutInGrown ==
  ASSUME NEW path, NEW l \in Lists, Path(path[l]), path = [ k \in Lists |-> path[k] ],
         NEW i \in 0 .. Len(path[l]), NEW new \in Nodes,
         \A j \in 1 .. Len(path[l]) : path[l][j] # new
  PROVE  Grown([ path EXCEPT ![l] = PutIn(path[l], i, new) ], path, l)
<1> DEFINE p == path[l]
           q == PutIn(p, i, new)
           made == [ path EXCEPT ![l] = q ]
<1>1. made[l] = q /\ \A k \in Lists : k # l => made[k] = path[k]
  OBVIOUS
<1>2. /\ Len(q) = Len(p) + 1
      /\ \A j \in 1 .. Len(p) + 1 : q[j] = IF j <= i THEN p[j] ELSE IF j = i + 1 THEN new ELSE p[j - 1]
  BY PutInPath
<1>3. Len(p) \in Nat /\ i \in 0 .. Len(p)
  BY DEF Path
<1> HIDE DEF made, q, p
<1>4. ASSUME NEW m \in 1 .. Len(p)
      PROVE  \E j \in 1 .. Len(q) : q[j] = p[m]
  <2>1. m <= i => m \in 1 .. Len(p) + 1
    BY <1>3
  <2>2. ~(m <= i) => m + 1 \in 1 .. Len(p) + 1 /\ ~(m + 1 <= i) /\ m + 1 # i + 1 /\ m + 1 - 1 = m
    BY <1>3
  <2> QED BY <1>2, <2>1, <2>2
<1> QED BY <1>1, <1>4 DEF Grown, made, q, p

(* What has been done to list l: it is longer, and less room is left.      *)
Filled(g, h, path, l) ==
  /\ \E made : Sound(g, Nil, made) /\ Grown(made, path, l)
  /\ SameRefs(g, h)
  /\ \A k \in Nat : RoomFor(h, k + 1) => RoomFor(g, k)

(* Nothing done is one way to fill a list.                                 *)
LEMMA SameFilled ==
  ASSUME NEW h, NEW path, Sound(h, Nil, path), NEW l \in Lists
  PROVE  Filled(h, h, path, l)
<1>1. Grown(path, path, l)
  BY DEF Grown
<1>2. ASSUME NEW k \in Nat, RoomFor(h, k + 1) PROVE RoomFor(h, k)
  BY <1>2, SparesFinite DEF RoomFor
<1> QED BY <1>1, <1>2 DEF Filled, SameRefs

(* A new tag is put behind the first i nodes.                              *)
PutNew(h, l, n, t, name) == TagRelinquish(InsertNext(TagNew(h, t, name), l, n, t), t)

(* A new tag that is handed to a list and relinquished is held by its node *)
(* alone.                                                                  *)
LEMMA PutNewSound ==
  ASSUME NEW h, NEW path, Sound(h, Nil, path), NEW l \in Lists, NEW i \in 0 .. Len(path[l]),
         NEW name \in Names, RoomFor(h, 1)
  PROVE  Filled(PutNew(h, l, IF i = 0 THEN Nil ELSE path[l][i], FreshTag(h), name), h, path, l)
<1> DEFINE t == FreshTag(h)
           n == IF i = 0 THEN Nil ELSE path[l][i]
           f == TagNew(h, t, name)
           e == InsertNext(f, l, n, t)
           g == TagRelinquish(e, t)
           new == FreshNode(f)
           made == [ path EXCEPT ![l] = PutIn(path[l], i, new) ]
<1>1. Unused(h) # {} /\ Idle(h) # {}
  BY SparesFinite DEF RoomFor
<1>2. t \in Idle(h) /\ t \in Tags /\ h.tag[t].refs = 0
  <2>1. Idle(h) \in SUBSET Nat
    BY NilIsNoNode DEF Idle
  <2>2. FreshTag(h) = Min(Idle(h))
    BY DEF FreshTag, Idle
  <2> QED BY <1>1, <2>1, <2>2, PlaceFound DEF Idle
<1> HIDE DEF t
<1>3. /\ Sound(f, t, path) /\ f.list = h.list /\ f.node = h.node
      /\ \A u \in Tags : u # t => f.tag[u] = h.tag[u]
  BY <1>2, NewTagSound
<1> HIDE DEF f
<1>4. Unused(f) = Unused(h)
  BY <1>3 DEF Unused
<1>5. /\ Sound(e, t, made) /\ SameRefs(e, f)
      /\ new \in Unused(f) /\ Unused(e) = Unused(f) \ {new}
      /\ \A u \in Tags : u # t => e.tag[u].refs = f.tag[u].refs
  <2>1. Unused(f) # {} /\ t \in Tags /\ Sound(f, t, path)
    BY <1>1, <1>2, <1>3, <1>4
  <2>2. /\ Sound(e, t, made) /\ SameRefs(e, f)
        /\ new \in Unused(f) /\ Unused(e) = Unused(f) \ {new}
        /\ \A u \in Tags : e.tag[u].refs = IF u = t THEN f.tag[u].refs + 1 ELSE f.tag[u].refs
    BY <2>1, InsertSound DEF n, e, new, made
  <2> HIDE DEF e, new, made
  <2> QED BY <2>2
<1>6. Grown(made, path, l)
  <2>1. Path(path[l]) /\ path = [ k \in Lists |-> path[k] ]
    BY DEF Sound
  <2>2. \A j \in 1 .. Len(path[l]) : path[l][j] # new
    BY <1>3, <1>5, PathNodes
  <2>3. new \in Nodes
    BY <1>5 DEF Unused
  <2> HIDE DEF new
  <2> QED BY <2>1, <2>2, <2>3, PutInGrown
<1> HIDE DEF made, new, e
<1>7. Sound(g, Nil, made) /\ SameRefs(g, e) /\ g.node = e.node /\ Unused(g) = Unused(e)
  BY <1>2, <1>5, ReleaseSound
<1>8. e \in Heaps
  BY <1>5 DEF Sound
<1>9. \A u \in Tags : u # t => g.tag[u].refs = h.tag[u].refs
  <2>1. \A u \in Tags : u # t => g.tag[u] = e.tag[u]
    BY <1>2, <1>8, RelinquishWrites
  <2> HIDE DEF g
  <2> QED BY <1>3, <1>5, <2>1
<1> HIDE DEF g
<1>10. SameRefs(g, h)
  BY <1>3, <1>5, <1>7 DEF SameRefs
<1>11. ASSUME NEW k \in Nat, RoomFor(h, k + 1)
       PROVE  RoomFor(g, k)
  <2>1. Unused(g) = Unused(h) \ {new} /\ new \in Unused(h)
    BY <1>4, <1>5, <1>7
  <2>2. Idle(h) \ {t} \subseteq Idle(g)
    BY <1>9 DEF Idle
  <2>3. Cardinality(Unused(g)) = Cardinality(Unused(h)) - 1
    <3>1. IsFiniteSet(Unused(h))
      BY SparesFinite
    <3> QED BY <2>1, <3>1, FS_RemoveElement
  <2>4. Cardinality(Idle(h) \ {t}) = Cardinality(Idle(h)) - 1
    BY <1>2, SparesFinite, FS_RemoveElement
  <2>5. Cardinality(Idle(h) \ {t}) <= Cardinality(Idle(g))
    BY <2>2, SparesFinite, FS_Subset
  <2> QED BY <1>11, <2>3, <2>4, <2>5, SparesFinite DEF RoomFor
<1>12. Filled(g, h, path, l)
  BY <1>6, <1>7, <1>10, <1>11 DEF Filled
<1> QED BY <1>12 DEF g, e, f, n, t, PutNew

(* The place behind the last node is one to insert at.                     *)
LEMMA EndOfPath ==
  ASSUME NEW h, NEW held, NEW path, Sound(h, held, path), NEW l \in Lists
  PROVE  /\ Len(path[l]) \in 0 .. Len(path[l]) /\ 0 \in 0 .. Len(path[l])
         /\ h.list[l].tail = IF Len(path[l]) = 0 THEN Nil ELSE path[l][Len(path[l])]
BY PathNodes DEF Laid

(* lcfgtaglist_mutate_append, _prepend and _add keep the heap sound,       *)
(* whatever text they get.                                                 *)
LEMMA MutateSound ==
  ASSUME NEW h, NEW path, Sound(h, Nil, path), NEW l \in Lists, NEW text \in Seq(Signs),
         RoomFor(h, 1)
  PROVE  /\ Filled(MutateAppend(h, l, text), h, path, l)
         /\ Filled(MutatePrepend(h, l, text), h, path, l)
         /\ Filled(MutateAdd(h, l, text), h, path, l)
<1> DEFINE t == FreshTag(h)
           name == TagWord(text)[1]
           f == TagNew(h, t, name)
<1>1. Filled(h, h, path, l)
  BY SameFilled
<1>2. ASSUME ValidTag(TagWord(text))
      PROVE  /\ Filled(MutateAppend(h, l, text), h, path, l)
             /\ Filled(MutatePrepend(h, l, text), h, path, l)
  <2>1. name \in Names
    BY <1>2, TagWordIsText, ValidTagIsName
  <2>2. f.list[l].tail = IF Len(path[l]) = 0 THEN Nil ELSE path[l][Len(path[l])]
    <3>1. f.list = h.list
      <4>1. h = [ tag |-> h.tag, node |-> h.node, list |-> h.list ]
        BY DEF Sound, Heaps
      <4> QED BY <4>1 DEF TagNew
    <3> QED BY <3>1, EndOfPath
  <2>3. MutateAppend(h, l, text) =
          PutNew(h, l, IF Len(path[l]) = 0 THEN Nil ELSE path[l][Len(path[l])], t, name)
    <3> HIDE DEF t, name
    <3>1. MutateAppend(h, l, text) = PutNew(h, l, f.list[l].tail, t, name)
      BY <1>2, Zenon DEF MutateAppend, AppendTag, PutNew, t, name
    <3> QED BY <2>2, <3>1
  <2>4. MutatePrepend(h, l, text) = PutNew(h, l, Nil, t, name)
    BY <1>2, Zenon DEF MutatePrepend, PrependTag, PutNew
  <2> HIDE DEF name
  <2>5. Filled(MutateAppend(h, l, text), h, path, l)
    BY <2>1, <2>3, EndOfPath, PutNewSound
  <2>6. Filled(PutNew(h, l, IF 0 = 0 THEN Nil ELSE path[l][0], t, name), h, path, l)
    BY <2>1, EndOfPath, PutNewSound
  <2>7. Filled(MutatePrepend(h, l, text), h, path, l)
    BY <2>4, <2>6
  <2> QED BY <2>5, <2>7
<1>3. /\ Filled(MutateAppend(h, l, text), h, path, l)
      /\ Filled(MutatePrepend(h, l, text), h, path, l)
  <2>1. CASE ValidTag(TagWord(text))
    BY <1>2, <2>1
  <2>2. CASE ~ValidTag(TagWord(text))
    BY <1>1, <2>2, Zenon DEF MutateAppend, MutatePrepend
  <2> QED BY <2>1, <2>2
<1>4. MutateAdd(h, l, text) = h \/ MutateAdd(h, l, text) = MutateAppend(h, l, text)
  BY Zenon DEF MutateAdd
<1> QED BY <1>1, <1>3, <1>4

(***************************************************************************)
(* Loops over the calls on one list.                                       *)
(***************************************************************************)

(* A loop whose step k leads from the heaps in Gs[k - 1] to those in Gs[k].*)
LoopRun(f, h, step, n, Gs) ==
  /\ f = [ k \in 0 .. n |-> IF k = 0 THEN h ELSE step[k][f[k - 1]] ]
  /\ \A k \in 0 .. n : f[k] \in Gs[k]

(* Such a loop can be run.                                                 *)
LEMMA LoopExists ==
  ASSUME NEW n \in Nat, NEW Gs, NEW h, h \in Gs[0], NEW step,
         \A k \in 1 .. n : \A g \in Gs[k - 1] : step[k][g] \in Gs[k]
  PROVE  \E f : LoopRun(f, h, step, n, Gs)
<1> DEFINE Run(f, m) == /\ f = [ k \in 0 .. m |-> IF k = 0 THEN h ELSE step[k][f[k - 1]] ]
                        /\ \A k \in 0 .. m : f[k] \in Gs[k]
           S == { m \in 0 .. n : \E f : Run(f, m) }
<1>1. 0 \in S
  <2> DEFINE f == [ k \in 0 .. 0 |-> h ]
  <2>1. f = [ k \in 0 .. 0 |-> IF k = 0 THEN h ELSE step[k][f[k - 1]] ]
    OBVIOUS
  <2>2. \A k \in 0 .. 0 : f[k] \in Gs[k]
    OBVIOUS
  <2> HIDE DEF f
  <2> QED BY <2>1, <2>2
<1>2. ASSUME NEW m \in 1 .. n, m - 1 \in S
      PROVE  m \in S
  <2>1. PICK f : Run(f, m - 1)
    BY <1>2
  <2> DEFINE last == step[m][f[m - 1]]
             e == [ k \in 0 .. m |-> IF k = m THEN last ELSE f[k] ]
  <2>2. f[m - 1] \in Gs[m - 1]
    BY <2>1
  <2>3. last \in Gs[m]
    BY <2>2
  <2> HIDE DEF last
  <2>4. e[m] = last /\ \A k \in 0 .. m - 1 : e[k] = f[k]
    OBVIOUS
  <2>5. e = [ k \in 0 .. m |-> e[k] ]
    OBVIOUS
  <2> HIDE DEF e
  <2>6. ASSUME NEW k \in 0 .. m
        PROVE  e[k] = (IF k = 0 THEN h ELSE step[k][e[k - 1]]) /\ e[k] \in Gs[k]
    <3>1. CASE k = m
      <4>1. k # 0 /\ k - 1 \in 0 .. m - 1
        BY <3>1
      <4> QED BY <2>3, <2>4, <3>1, <4>1 DEF last
    <3>2. CASE k # m
      <4>1. k \in 0 .. m - 1 /\ (k # 0 => k - 1 \in 0 .. m - 1)
        BY <3>2
      <4>2. f[k] = (IF k = 0 THEN h ELSE step[k][f[k - 1]]) /\ f[k] \in Gs[k]
        BY <2>1, <4>1
      <4> QED BY <2>4, <4>1, <4>2
    <3> QED BY <3>1, <3>2
  <2>7. e = [ k \in 0 .. m |-> IF k = 0 THEN h ELSE step[k][e[k - 1]] ]
    BY <2>5, <2>6
  <2>8. Run(e, m)
    BY <2>6, <2>7
  <2> HIDE DEF Run
  <2> QED BY <2>8
<1> HIDE DEF S
<1>3. \A m \in 0 .. n : m \in S
  BY <1>1, <1>2, UpTo
<1>4. n \in S
  BY <1>3
<1>5. PICK f : Run(f, n)
  <2> HIDE DEF Run
  <2> QED BY <1>4 DEF S
<1>6. LoopRun(f, h, step, n, Gs)
  BY <1>5 DEF LoopRun
<1> QED BY <1>6

(* The tags of a list, each with its name.                                 *)
Called(h, p) == { NameAt(h, p[i]) : i \in 1 .. Len(p) }

TagsStay(g, h) ==
  /\ \A n \in Nodes : h.node[n].tag # Nil => g.node[n].tag = h.node[n].tag
  /\ \A u \in Tags : g.tag[u].name = h.tag[u].name

(* lcfgtaglist_append_tag: the tag stands at the end of the list.          *)
LEMMA AppendTagSound ==
  ASSUME NEW h, NEW path, Sound(h, Nil, path), NEW l \in Lists, NEW t \in Tags, Unused(h) # {}
  PROVE  LET g == AppendTag(h, l, t)
         IN  \E made, new :
               /\ Sound(g, Nil, made) /\ Grown(made, path, l) /\ SameRefs(g, h) /\ TagsStay(g, h)
               /\ new \in Unused(h) /\ Unused(g) = Unused(h) \ {new}
               /\ Called(g, made[l]) = Called(h, path[l]) \cup {h.tag[t].name}
<1> DEFINE p == path[l]
           n == IF Len(p) = 0 THEN Nil ELSE p[Len(p)]
           g == AppendTag(h, l, t)
           new == FreshNode(h)
           q == PutIn(p, Len(p), new)
           made == [ path EXCEPT ![l] = q ]
<1>1. Len(p) \in 0 .. Len(p) /\ h.list[l].tail = n
  BY EndOfPath
<1>2. g = InsertNext(h, l, n, t)
  BY <1>1 DEF AppendTag
<1> DEFINE e == InsertNext(h, l, n, t)
<1>3. /\ Sound(e, Nil, made) /\ SameRefs(e, h)
      /\ new \in Unused(h) /\ Unused(e) = Unused(h) \ {new}
      /\ \A m \in Nodes : e.node[m].tag = IF m = new THEN t ELSE h.node[m].tag
      /\ \A u \in Tags : e.tag[u].name = h.tag[u].name
  BY <1>1, InsertSound
<1> HIDE DEF e, n
<1>4. /\ Path(p) /\ path = [ k \in Lists |-> path[k] ] /\ new \in Nodes /\ h.node[new].tag = Nil
      /\ \A j \in 1 .. Len(p) : p[j] # new /\ p[j] \in Nodes /\ h.node[p[j]].tag \in Tags
  <2>1. Path(p) /\ path = [ k \in Lists |-> path[k] ]
    BY DEF Sound
  <2> HIDE DEF new
  <2> QED BY <1>3, <2>1, PathNodes DEF Unused
<1> HIDE DEF new
<1>5. Grown(made, path, l)
  BY <1>1, <1>4, PutInGrown
<1>6. /\ Len(q) = Len(p) + 1
      /\ \A j \in 1 .. Len(p) + 1 : q[j] = IF j <= Len(p) THEN p[j] ELSE IF j = Len(p) + 1 THEN new ELSE p[j - 1]
  BY <1>1, <1>4, PutInPath
<1>7. made[l] = q
  BY <1>4
<1> HIDE DEF made, q
<1>8. Called(e, q) = Called(h, p) \cup {h.tag[t].name}
  <2>1. Len(p) \in Nat
    BY <1>4 DEF Path
  <2>2. \A j \in 1 .. Len(p) : j \in 1 .. Len(p) + 1 /\ q[j] = p[j]
    BY <1>6, <2>1
  <2>3. Len(p) + 1 \in 1 .. Len(p) + 1 /\ q[Len(p) + 1] = new
    BY <1>6, <2>1
  <2>4. \A j \in 1 .. Len(p) + 1 : j \in 1 .. Len(p) \/ j = Len(p) + 1
    BY <2>1
  <2>5. \A j \in 1 .. Len(p) : NameAt(e, q[j]) = NameAt(h, p[j])
    BY <1>3, <1>4, <2>2 DEF NameAt
  <2>6. NameAt(e, q[Len(p) + 1]) = h.tag[t].name
    BY <1>3, <1>4, <2>3 DEF NameAt
  <2> HIDE DEF p
  <2>7. \A x : x \in Called(e, q) <=> \E j \in 1 .. Len(p) + 1 : x = NameAt(e, q[j])
    BY <1>6 DEF Called
  <2>8. \A x : x \in Called(h, p) <=> \E j \in 1 .. Len(p) : x = NameAt(h, p[j])
    BY DEF Called
  <2> QED BY <2>2, <2>3, <2>4, <2>5, <2>6, <2>7, <2>8
<1>9. TagsStay(e, h)
  BY <1>3, <1>4 DEF TagsStay
<1>10. e = g
  BY <1>2 DEF e
<1> HIDE DEF g
<1> QED BY <1>3, <1>5, <1>7, <1>8, <1>9, <1>10 DEF g, p

(* There is room for what is still to be handed over: for each node, or    *)
(* for each name of U that the list does not have.                         *)
Roomy(g, p, U, once, k) ==
  /\ Called(g, p) \subseteq U
  /\ IF once THEN Cardinality(U) <= Cardinality(Unused(g)) + Cardinality(Called(g, p))
     ELSE k <= Cardinality(Unused(g))

Handing(g, h, path, l, U, once, k) ==
  \E made : /\ Sound(g, Nil, made) /\ \A m \in Lists : m # l => made[m] = path[m]
            /\ SameRefs(g, h) /\ TagsStay(g, h)
            /\ Roomy(g, made[l], U, once, k)

(* One node hands its tag to list l, which has room for one fewer.         *)
LEMMA HandSound ==
  ASSUME NEW h, NEW path, Sound(h, Nil, path), NEW l \in Lists, NEW g, NEW U, IsFiniteSet(U),
         NEW once \in BOOLEAN, NEW k \in Nat, Handing(g, h, path, l, U, once, k + 1),
         NEW n \in Nodes, h.node[n].tag # Nil, NameAt(h, n) \in U
  PROVE  Handing(Hand(g, l, n, once), h, path, l, U, once, k)
<1>1. PICK made : /\ Sound(g, Nil, made) /\ \A m \in Lists : m # l => made[m] = path[m]
                  /\ SameRefs(g, h) /\ TagsStay(g, h)
                  /\ Roomy(g, made[l], U, once, k + 1)
  BY DEF Handing
<1> DEFINE p == made[l]
           C == Called(g, p)
           t == g.node[n].tag
           f == AppendTag(g, l, t)
<1>2. h \in Heaps /\ h.node[n].tag \in Tags
  BY DEF Sound, Heaps
<1>3. t = h.node[n].tag /\ t \in Tags /\ NameAt(g, n) = NameAt(h, n) /\ NameAt(g, n) = g.tag[t].name
  BY <1>1, <1>2 DEF TagsStay, NameAt
<1>4. HasTag(g, l, NameAt(g, n)) <=> NameAt(g, n) \in C
  <2> DEFINE name == NameAt(g, n)
             places == Matches(g, p, name)
  <2>1. /\ Walk(g, l) = p /\ DOMAIN p = 1 .. Len(p)
        /\ \A i \in 1 .. Len(p) : p[i] \in Nodes /\ p[i] # Nil
    BY <1>1, PathNodes DEF Path
  <2>2. HasTag(g, l, name) <=> FirstMatch(p, places) # Nil
    BY <2>1 DEF HasTag, FindNode
  <2>3. places = { i \in 1 .. Len(p) : NameAt(g, p[i]) = name }
    BY <2>1 DEF Matches
  <2>4. places # {} => Min(places) \in places
    <3>1. places \in SUBSET Nat
      BY <2>3
    <3> QED BY <3>1, PlaceFound
  <2>5. FirstMatch(p, places) # Nil <=> places # {}
    BY <2>1, <2>3, <2>4 DEF FirstMatch
  <2>6. name \in C <=> places # {}
    BY <2>3 DEF Called
  <2> QED BY <2>2, <2>5, <2>6
<1>5. IsFiniteSet(C) /\ C \subseteq U /\ Cardinality(C) \in Nat /\ Cardinality(U) \in Nat
      /\ Cardinality(C) <= Cardinality(U) /\ (Cardinality(C) = Cardinality(U) => C = U)
  <2>1. C \subseteq U
    BY <1>1 DEF Roomy
  <2> HIDE DEF C
  <2> QED BY <2>1, FS_Subset, FS_CardinalityType
<1>6. CASE once /\ NameAt(g, n) \in C
  <2>1. Hand(g, l, n, once) = g
    BY <1>4, <1>6 DEF Hand
  <2>2. Roomy(g, made[l], U, once, k)
    BY <1>1, <1>6 DEF Roomy
  <2> QED BY <1>1, <2>1, <2>2 DEF Handing
<1>7. CASE ~(once /\ NameAt(g, n) \in C)
  <2>1. Hand(g, l, n, once) = f
    BY <1>4, <1>7 DEF Hand
  <2>2. Cardinality(Unused(g)) \in Nat /\ IsFiniteSet(Unused(g))
    BY SparesFinite
  <2>3. once => C # U
    BY <1>3, <1>7
  <2>4. Cardinality(Unused(g)) >= 1
    <3>1. CASE once
      <4>1. Cardinality(U) <= Cardinality(Unused(g)) + Cardinality(C)
        BY <1>1, <3>1 DEF Roomy
      <4> HIDE DEF C
      <4> QED BY <1>5, <2>2, <2>3, <3>1, <4>1
    <3>2. CASE ~once
      BY <1>1, <2>2, <3>2 DEF Roomy
    <3> QED BY <3>1, <3>2
  <2>5. Unused(g) # {}
    BY <2>4, SparesFinite
  <2>6. PICK next, new :
          /\ Sound(f, Nil, next) /\ Grown(next, made, l) /\ SameRefs(f, g) /\ TagsStay(f, g)
          /\ new \in Unused(g) /\ Unused(f) = Unused(g) \ {new}
          /\ Called(f, next[l]) = C \cup {g.tag[t].name}
    BY <1>1, <1>3, <2>5, AppendTagSound
  <2> HIDE DEF f, t, C
  <2>7. Cardinality(Unused(f)) = Cardinality(Unused(g)) - 1
    BY <2>2, <2>6, FS_RemoveElement
  <2>8. Called(f, next[l]) = C \cup {NameAt(g, n)}
    BY <1>3, <2>6
  <2>9. Called(f, next[l]) \subseteq U
    BY <1>3, <1>5, <2>8
  <2>10. once => Cardinality(Called(f, next[l])) = Cardinality(C) + 1
    BY <1>5, <1>7, <2>8, FS_AddElement
  <2>11. Roomy(f, next[l], U, once, k)
    <3>1. CASE once
      <4>1. Cardinality(U) <= Cardinality(Unused(g)) + Cardinality(C)
        BY <1>1, <3>1 DEF Roomy, C
      <4>2. Cardinality(U) <= Cardinality(Unused(f)) + Cardinality(Called(f, next[l]))
        BY <1>5, <2>2, <2>7, <2>10, <3>1, <4>1
      <4> QED BY <2>9, <3>1, <4>2 DEF Roomy
    <3>2. CASE ~once
      <4>1. k + 1 <= Cardinality(Unused(g))
        BY <1>1, <3>2 DEF Roomy
      <4>2. k <= Cardinality(Unused(f))
        BY <2>2, <2>7, <4>1
      <4> QED BY <2>9, <3>2, <4>2 DEF Roomy
    <3> QED BY <3>1, <3>2
  <2>12. \A m \in Lists : m # l => next[m] = path[m]
    BY <1>1, <2>6 DEF Grown
  <2>13. SameRefs(f, h)
    BY <1>1, <2>6 DEF SameRefs
  <2>14. TagsStay(f, h)
    BY <1>1, <2>6, NilIsNoNode DEF TagsStay
  <2>15. Handing(f, h, path, l, U, once, k)
    BY <2>6, <2>11, <2>12, <2>13, <2>14 DEF Handing
  <2> QED BY <2>1, <2>15
<1> QED BY <1>6, <1>7

(* Every node hands its tag to list l.                                     *)
LEMMA HandTagsSound ==
  ASSUME NEW h, NEW path, Sound(h, Nil, path), NEW l \in Lists, NEW U, IsFiniteSet(U),
         NEW once \in BOOLEAN, NEW nodes, Len(nodes) \in Nat,
         \A i \in 1 .. Len(nodes) : /\ nodes[i] \in Nodes /\ h.node[nodes[i]].tag # Nil
                                    /\ NameAt(h, nodes[i]) \in U,
         Roomy(h, path[l], U, once, Len(nodes))
  PROVE  Handing(HandTags(h, l, nodes, once), h, path, l, U, once, 0)
<1> DEFINE n == Len(nodes)
           Gs == [ k \in 0 .. n |-> { g \in Heaps : Handing(g, h, path, l, U, once, n - k) } ]
           step == [ k \in 1 .. n |-> [ g \in Gs[k - 1] |-> Hand(g, l, nodes[k], once) ] ]
           Eq(f) == f = [ k \in 0 .. n |-> IF k = 0 THEN h ELSE Hand(f[k - 1], l, nodes[k], once) ]
           run == CHOOSE f : Eq(f)
<1>0. n \in Nat
  OBVIOUS
<1>1. HandTags(h, l, nodes, once) = run[n]
  BY DEF HandTags, Loop
<1>2. h \in Gs[0]
  <2>1. h \in Heaps
    BY DEF Sound
  <2>2. SameRefs(h, h) /\ TagsStay(h, h)
    BY DEF SameRefs, TagsStay
  <2>3. Handing(h, h, path, l, U, once, n)
    BY <2>2 DEF Handing
  <2>4. n - 0 = n /\ 0 \in 0 .. n
    OBVIOUS
  <2> HIDE DEF n
  <2> QED BY <2>1, <2>3, <2>4
<1>3. ASSUME NEW k \in 1 .. n, NEW g \in Gs[k - 1]
      PROVE  Hand(g, l, nodes[k], once) \in Gs[k]
  <2>1. k - 1 \in 0 .. n /\ k \in 0 .. n /\ n - k \in Nat /\ n - (k - 1) = (n - k) + 1
    OBVIOUS
  <2>2. Handing(g, h, path, l, U, once, (n - k) + 1)
    BY <2>1
  <2>3. Handing(Hand(g, l, nodes[k], once), h, path, l, U, once, n - k)
    <3> DEFINE m == n - k
    <3>1. m \in Nat /\ Handing(g, h, path, l, U, once, m + 1)
      BY <2>1, <2>2
    <3> HIDE DEF m
    <3>2. Handing(Hand(g, l, nodes[k], once), h, path, l, U, once, m)
      BY <3>1, HandSound
    <3> QED BY <3>2 DEF m
  <2>4. Hand(g, l, nodes[k], once) \in Heaps
    BY <2>3 DEF Handing, Sound
  <2> HIDE DEF n
  <2> QED BY <2>1, <2>3, <2>4
<1> HIDE DEF n, Gs
<1>4. \A k \in 1 .. n : \A g \in Gs[k - 1] : step[k][g] \in Gs[k]
  BY <1>3
<1>50. PICK f : LoopRun(f, h, step, n, Gs)
  <2> HIDE DEF step
  <2> QED BY <1>0, <1>2, <1>4, LoopExists
<1>5. /\ f = [ k \in 0 .. n |-> IF k = 0 THEN h ELSE step[k][f[k - 1]] ]
      /\ \A k \in 0 .. n : f[k] \in Gs[k]
  BY <1>50 DEF LoopRun
<1>6. Eq(f)
  <2>1. \A k \in 1 .. n : k - 1 \in 0 .. n /\ k # 0
    BY <1>0
  <2>2. ASSUME NEW k \in 1 .. n
        PROVE  step[k][f[k - 1]] = Hand(f[k - 1], l, nodes[k], once)
    <3>1. f[k - 1] \in Gs[k - 1]
      <4> HIDE DEF step
      <4> QED BY <1>5, <2>1
    <3> QED BY <3>1
  <2>3. \A k \in 0 .. n : k = 0 \/ k \in 1 .. n
    BY <1>0
  <2> DEFINE e == [ k \in 0 .. n |-> IF k = 0 THEN h ELSE step[k][f[k - 1]] ]
             d == [ k \in 0 .. n |-> IF k = 0 THEN h ELSE Hand(f[k - 1], l, nodes[k], once) ]
  <2>4. \A k \in 0 .. n : e[k] = d[k]
    <3> HIDE DEF step
    <3> QED BY <2>2, <2>3
  <2>5. e = d
    BY <2>4
  <2>6. f = e
    BY <1>5
  <2> HIDE DEF e, step
  <2> QED BY <2>5, <2>6
<1>7. Eq(run)
  <2> HIDE DEF Eq
  <2> QED BY <1>6
<1> HIDE DEF run
<1>8. \A k \in 0 .. n : run[k] \in Gs[k]
  <2> DEFINE S == { k \in 0 .. n : run[k] \in Gs[k] }
  <2>1. 0 \in S
    BY <1>0, <1>2, <1>7
  <2>2. ASSUME NEW k \in 1 .. n, k - 1 \in S
        PROVE  k \in S
    <3>1. k \in 0 .. n /\ k # 0 /\ run[k - 1] \in Gs[k - 1]
      BY <1>0, <2>2
    <3>2. run[k] = Hand(run[k - 1], l, nodes[k], once)
      BY <1>7, <3>1
    <3> QED BY <1>3, <3>1, <3>2
  <2> HIDE DEF S
  <2>3. \A k \in 0 .. n : k \in S
    BY <1>0, <2>1, <2>2, UpTo
  <2> QED BY <2>3 DEF S
<1>9. n \in 0 .. n /\ n - n = 0
  BY <1>0
<1>10. run[n] \in Gs[n]
  BY <1>8, <1>9
<1> QED BY <1>1, <1>9, <1>10 DEF Gs

(***************************************************************************)
(* Removing nodes, and destroying lists.                                   *)
(***************************************************************************)

(* lcfgtaglist_remove_tag and the reference it leaves to its caller.       *)
LEMMA RemoveSound ==
  ASSUME NEW h, NEW path, Sound(h, Nil, path), NEW l \in Lists, NEW i \in 1 .. Len(path[l])
  PROVE  LET g == RemoveTag(h, l, path[l][i])
         IN  Sound(g, Nil, [ path EXCEPT ![l] = TakeOut(path[l], i) ]) /\ SameRefs(g, h)
<1> DEFINE n == path[l][i]
           t == h.node[n].tag
           f == Unlink(h, l, n)
           made == [ path EXCEPT ![l] = TakeOut(path[l], i) ]
           g == TagRelinquish(f, t)
<1>1. t \in Tags /\ Sound(f, t, made) /\ SameRefs(f, h)
  BY UnlinkSound
<1> HIDE DEF t, f, made
<1>2. Sound(g, Nil, made) /\ SameRefs(g, f)
  BY <1>1, ReleaseSound
<1>3. RemoveTag(h, l, n) = g
  BY DEF RemoveTag, f, t
<1> HIDE DEF g
<1>4. SameRefs(g, h)
  BY <1>1, <1>2 DEF SameRefs
<1> QED BY <1>2, <1>3, <1>4 DEF made, n

(* A list that is being taken down still has its first k nodes.            *)
Taking(g, h, path, l, k) ==
  \E made : /\ Sound(g, Nil, made) /\ \A m \in Lists : m # l => made[m] = path[m]
            /\ SameRefs(g, h)
            /\ Len(made[l]) = k /\ \A i \in 1 .. k : made[l][i] = path[l][i]

(* Removing the last node that is left leaves one fewer.                   *)
LEMMA TakenLast ==
  ASSUME NEW h, NEW path, NEW l \in Lists, NEW g, NEW k \in Nat, Taking(g, h, path, l, k + 1)
  PROVE  Taking(RemoveTag(g, l, path[l][k + 1]), h, path, l, k)
<1>1. PICK made : /\ Sound(g, Nil, made) /\ \A m \in Lists : m # l => made[m] = path[m]
                  /\ SameRefs(g, h)
                  /\ Len(made[l]) = k + 1 /\ \A i \in 1 .. k + 1 : made[l][i] = path[l][i]
  BY DEF Taking
<1> DEFINE p == made[l]
           q == TakeOut(p, k + 1)
           next == [ made EXCEPT ![l] = q ]
           f == RemoveTag(g, l, p[k + 1])
<1>2. k + 1 \in 1 .. Len(p) /\ Path(p) /\ made = [ m \in Lists |-> made[m] ]
  BY <1>1 DEF Sound
<1>3. Sound(f, Nil, next) /\ SameRefs(f, g)
  BY <1>1, <1>2, RemoveSound
<1> HIDE DEF f
<1>4. Len(q) = k /\ \A j \in 1 .. k : q[j] = p[j]
  <2>1. Len(q) = k + 1 - 1 /\ \A j \in 1 .. k + 1 - 1 : q[j] = IF j < k + 1 THEN p[j] ELSE p[j + 1]
    BY <1>1, <1>2, TakeOutPath
  <2>2. k + 1 - 1 = k /\ \A j \in 1 .. k : j < k + 1
    OBVIOUS
  <2> HIDE DEF q, p
  <2> QED BY <2>1, <2>2
<1> HIDE DEF q
<1>5. next[l] = q /\ \A m \in Lists : m # l => next[m] = made[m]
  BY <1>2
<1> HIDE DEF next
<1>6. \A j \in 1 .. k : j \in 1 .. k + 1
  OBVIOUS
<1>7. SameRefs(f, h)
  BY <1>1, <1>3 DEF SameRefs
<1>8. Taking(f, h, path, l, k)
  BY <1>1, <1>3, <1>4, <1>5, <1>6, <1>7 DEF Taking
<1>9. p[k + 1] = path[l][k + 1]
  BY <1>1, <1>2
<1> QED BY <1>8, <1>9 DEF f

(* The loop of lcfgtaglist_destroy leaves no node.                         *)
LEMMA AllTaken ==
  ASSUME NEW h, NEW path, Sound(h, Nil, path), NEW l \in Lists
  PROVE  Taking(Loop(h, Reverse(Walk(h, l)), LAMBDA g, n : RemoveTag(g, l, n)), h, path, l, 0)
<1> DEFINE p == path[l]
           n == Len(p)
           Gs == [ k \in 0 .. n |-> { g \in Heaps : Taking(g, h, path, l, n - k) } ]
           step == [ k \in 1 .. n |-> [ g \in Gs[k - 1] |-> RemoveTag(g, l, p[n - k + 1]) ] ]
           Eq(f) == f = [ k \in 0 .. n |-> IF k = 0 THEN h ELSE RemoveTag(f[k - 1], l, p[n - k + 1]) ]
           run == CHOOSE f : Eq(f)
           seq == Reverse(p)
           Meets(f) == f = [ k \in 0 .. Len(seq) |-> IF k = 0 THEN h ELSE RemoveTag(f[k - 1], l, seq[k]) ]
           met == CHOOSE f : Meets(f)
<1>0. n \in Nat /\ Walk(h, l) = p
  BY PathNodes
<1>1. Loop(h, Reverse(Walk(h, l)), LAMBDA g, m : RemoveTag(g, l, m)) = met[Len(seq)]
  BY <1>0 DEF Loop
<1>10. Len(seq) = n /\ \A k \in 1 .. n : seq[k] = p[n - k + 1]
  <2>1. seq = [ k \in 1 .. n |-> p[n - k + 1] ]
    BY DEF Reverse
  <2> HIDE DEF seq, n
  <2>2. seq = [ k \in 1 .. n |-> seq[k] ]
    BY <2>1
  <2> QED BY <1>0, <2>1, <2>2, FunctionIsList
<1> HIDE DEF seq
<1>11. \A f : Meets(f) <=> Eq(f)
  <2> SUFFICES ASSUME NEW f PROVE Meets(f) <=> Eq(f)
    OBVIOUS
  <2> DEFINE e == [ k \in 0 .. Len(seq) |-> IF k = 0 THEN h ELSE RemoveTag(f[k - 1], l, seq[k]) ]
             d == [ k \in 0 .. n |-> IF k = 0 THEN h ELSE RemoveTag(f[k - 1], l, p[n - k + 1]) ]
  <2>1. \A k \in 0 .. n : k = 0 \/ k \in 1 .. n
    BY <1>0
  <2> HIDE DEF n
  <2>2. e = d
    BY <1>10, <2>1
  <2> HIDE DEF e, d
  <2>3. (Meets(f) <=> f = e) /\ (Eq(f) <=> f = d)
    BY DEF e, d
  <2> HIDE DEF Meets, Eq
  <2> QED BY <2>2, <2>3
<1>2. h \in Gs[0]
  <2>1. h \in Heaps
    BY DEF Sound
  <2>2. Taking(h, h, path, l, n)
    BY DEF SameRefs, Taking
  <2>4. n - 0 = n /\ 0 \in 0 .. n
    BY <1>0
  <2> HIDE DEF n
  <2> QED BY <2>1, <2>2, <2>4
<1> HIDE DEF p
<1>3. ASSUME NEW k \in 1 .. n, NEW g \in Gs[k - 1]
      PROVE  RemoveTag(g, l, p[n - k + 1]) \in Gs[k]
  <2> DEFINE m == n - k
  <2>1. k - 1 \in 0 .. n /\ k \in 0 .. n /\ m \in Nat /\ n - (k - 1) = m + 1
    BY <1>0
  <2>2. Taking(g, h, path, l, m + 1)
    BY <2>1
  <2> HIDE DEF m
  <2>3. Taking(RemoveTag(g, l, p[m + 1]), h, path, l, m)
    BY <2>1, <2>2, TakenLast DEF p
  <2>4. RemoveTag(g, l, p[m + 1]) \in Heaps
    BY <2>3 DEF Taking, Sound
  <2> HIDE DEF n
  <2> QED BY <2>1, <2>3, <2>4 DEF m
<1> HIDE DEF n, Gs
<1>4. \A k \in 1 .. n : \A g \in Gs[k - 1] : step[k][g] \in Gs[k]
  BY <1>3
<1>50. PICK f : LoopRun(f, h, step, n, Gs)
  <2> HIDE DEF step
  <2> QED BY <1>0, <1>2, <1>4, LoopExists
<1>5. /\ f = [ k \in 0 .. n |-> IF k = 0 THEN h ELSE step[k][f[k - 1]] ]
      /\ \A k \in 0 .. n : f[k] \in Gs[k]
  BY <1>50 DEF LoopRun
<1>6. Eq(f)
  <2>1. \A k \in 1 .. n : k - 1 \in 0 .. n /\ k # 0
    BY <1>0
  <2>2. ASSUME NEW k \in 1 .. n
        PROVE  step[k][f[k - 1]] = RemoveTag(f[k - 1], l, p[n - k + 1])
    <3>1. f[k - 1] \in Gs[k - 1]
      <4> HIDE DEF step
      <4> QED BY <1>5, <2>1
    <3> QED BY <3>1
  <2>3. \A k \in 0 .. n : k = 0 \/ k \in 1 .. n
    BY <1>0
  <2> DEFINE e == [ k \in 0 .. n |-> IF k = 0 THEN h ELSE step[k][f[k - 1]] ]
             d == [ k \in 0 .. n |-> IF k = 0 THEN h ELSE RemoveTag(f[k - 1], l, p[n - k + 1]) ]
  <2>4. \A k \in 0 .. n : e[k] = d[k]
    <3> HIDE DEF step
    <3> QED BY <2>2, <2>3
  <2>5. e = d
    BY <2>4
  <2>6. f = e
    BY <1>5
  <2> HIDE DEF e, step
  <2> QED BY <2>5, <2>6
<1>7. Eq(met)
  <2>1. Meets(f)
    BY <1>6, <1>11
  <2> HIDE DEF Meets
  <2>2. Meets(met)
    BY <2>1
  <2> HIDE DEF Eq, met
  <2> QED BY <1>11, <2>2
<1> HIDE DEF met
<1>8. \A k \in 0 .. n : met[k] \in Gs[k]
  <2> DEFINE S == { k \in 0 .. n : met[k] \in Gs[k] }
  <2>1. 0 \in S
    BY <1>0, <1>2, <1>7
  <2>2. ASSUME NEW k \in 1 .. n, k - 1 \in S
        PROVE  k \in S
    <3>1. k \in 0 .. n /\ k # 0 /\ met[k - 1] \in Gs[k - 1]
      BY <1>0, <2>2
    <3>2. met[k] = RemoveTag(met[k - 1], l, p[n - k + 1])
      BY <1>7, <3>1
    <3> QED BY <1>3, <3>1, <3>2
  <2> HIDE DEF S
  <2>3. \A k \in 0 .. n : k \in S
    BY <1>0, <2>1, <2>2, UpTo
  <2> QED BY <2>3 DEF S
<1>9. n \in 0 .. n /\ n - n = 0
  BY <1>0
<1>12. met[n] \in Gs[n]
  BY <1>8, <1>9
<1> QED BY <1>1, <1>9, <1>10, <1>12 DEF Gs

(* A list without nodes is a free one but for who refers to it.            *)
LEMMA EmptyEntry ==
  ASSUME NEW h, NEW path, NEW held, Sound(h, held, path), NEW l \in Lists, Len(path[l]) = 0
  PROVE  /\ [ h EXCEPT !.list[l] = FreeList ] = WithRefs(h, l, 0)
         /\ ListNew(h, l) = WithRefs(h, l, 1)
<1>1. h.list[l].head = Nil /\ h.list[l].tail = Nil /\ h.list[l].size = 0
  <2>1. Laid(h, l, path[l])
    BY DEF Sound
  <2> QED BY <2>1 DEF Laid
<1>2. FreeList = [ head |-> Nil, tail |-> Nil, size |-> 0, refs |-> 0 ]
  BY DEF FreeList
<1>3. [ FreeList EXCEPT !.refs = 1 ] = [ head |-> Nil, tail |-> Nil, size |-> 0, refs |-> 1 ]
  BY <1>2
<1>4. /\ h.list[l].head = Nil /\ h.list[l].tail = Nil /\ h.list[l].size = 0
  BY <1>1
<1>5. [ h EXCEPT !.list[l] = FreeList ] = WithRefs(h, l, 0)
  BY <1>1, <1>2, Zenon DEF WithRefs
<1>6. ListNew(h, l) = WithRefs(h, l, 1)
  BY <1>1, <1>3, Zenon DEF WithRefs, ListNew
<1> QED BY <1>5, <1>6

(* The other lists are as they were, and list l has r references.          *)
Referred(g, h, l, r) == \A k \in Lists : g.list[k].refs = IF k = l THEN r ELSE h.list[k].refs

(* lcfgtaglist_new: a list without nodes, with one reference.              *)
LEMMA ListNewSound ==
  ASSUME NEW h, NEW path, Sound(h, Nil, path), NEW l \in Lists, Len(path[l]) = 0
  PROVE  LET g == ListNew(h, l)
         IN  /\ Sound(g, Nil, path) /\ Unused(g) = Unused(h) /\ Idle(g) = Idle(h)
             /\ g.node = h.node /\ g.tag = h.tag /\ Referred(g, h, l, 1)
<1>1. ListNew(h, l) = WithRefs(h, l, 1)
  BY EmptyEntry
<1> DEFINE g == WithRefs(h, l, 1)
<1>2. /\ Sound(g, Nil, path) /\ Unused(g) = Unused(h) /\ g.node = h.node /\ g.tag = h.tag
      /\ \A k \in Lists : g.list[k].refs = IF k = l THEN 1 ELSE h.list[k].refs
  BY ListRefsSound
<1> HIDE DEF g
<1>3. Idle(g) = Idle(h) /\ Referred(g, h, l, 1)
  BY <1>2 DEF Idle, Referred
<1> QED BY <1>1, <1>2, <1>3 DEF g

(* lcfgtaglist_destroy frees the nodes of one list and gives back what     *)
(* they held; the other lists keep theirs.                                 *)
LEMMA DestroySound ==
  ASSUME NEW h, NEW path, Sound(h, Nil, path), NEW l \in Lists
  PROVE  \E made : /\ Sound(ListDestroy(h, l), Nil, made)
                   /\ \A k \in Lists : k # l => made[k] = path[k]
                   /\ Len(made[l]) = 0 /\ Referred(ListDestroy(h, l), h, l, 0)
<1> DEFINE f == Loop(h, Reverse(Walk(h, l)), LAMBDA g, n : RemoveTag(g, l, n))
           g == WithRefs(f, l, 0)
<1>0. Taking(f, h, path, l, 0)
  BY AllTaken
<1> HIDE DEF f
<1>1. PICK made : /\ Sound(f, Nil, made) /\ \A k \in Lists : k # l => made[k] = path[k]
                  /\ SameRefs(f, h) /\ Len(made[l]) = 0
  BY <1>0 DEF Taking
<1>2. ListDestroy(h, l) = [ f EXCEPT !.list[l] = FreeList ]
  BY Zenon DEF ListDestroy, f
<1>3. ListDestroy(h, l) = g
  <2>1. [ f EXCEPT !.list[l] = FreeList ] = WithRefs(f, l, 0)
    BY <1>1, EmptyEntry, Zenon
  <2> QED BY <1>2, <2>1, Zenon
<1>4. Sound(g, Nil, made) /\ \A k \in Lists : g.list[k].refs = IF k = l THEN 0 ELSE f.list[k].refs
  BY <1>1, ListRefsSound
<1> HIDE DEF g
<1>5. Referred(g, h, l, 0)
  BY <1>1, <1>4 DEF Referred, SameRefs
<1> QED BY <1>1, <1>3, <1>4, <1>5

(* Giving up a reference to a list leaves the others as they were; the     *)
(* list itself has its nodes as long as somebody refers to it.             *)
LEMMA ListRelinquishSound ==
  ASSUME NEW h, NEW path, Sound(h, Nil, path), NEW l \in Lists
  PROVE  LET g == ListRelinquish(h, l)
             r == IF h.list[l].refs = 0 THEN 0 ELSE h.list[l].refs - 1
         IN  \E made : /\ Sound(g, Nil, made) /\ \A k \in Lists : k # l => made[k] = path[k]
                       /\ Referred(g, h, l, r)
                       /\ IF r = 0 THEN Len(made[l]) = 0 ELSE made[l] = path[l]
<1> DEFINE g == ListRelinquish(h, l)
           old == h.list[l].refs
           r == IF old = 0 THEN 0 ELSE old - 1
<1>1. old \in Nat
  BY DEF Sound, Heaps
<1>2. CASE old <= 1
  <2>1. g = ListDestroy(h, l) /\ r = 0
    BY <1>1, <1>2 DEF ListRelinquish
  <2> HIDE DEF g, r
  <2> QED BY <2>1, DestroySound DEF g, r
<1>3. CASE ~(old <= 1)
  <2>1. r = old - 1 /\ r \in Nat /\ r # 0
    BY <1>1, <1>3
  <2>2. g = [ h EXCEPT !.list[l].refs = @ - 1 ]
    BY <1>3 DEF ListRelinquish
  <2>3. g = WithRefs(h, l, r)
    <3> DEFINE ListType == [ head : Nodes \cup {Nil}, tail : Nodes \cup {Nil}, size : Nat, refs : Nat ]
               entry == [ head |-> h.list[l].head, tail |-> h.list[l].tail,
                          size |-> h.list[l].size, refs |-> r ]
    <3>1. h = [ tag |-> h.tag, node |-> h.node, list |-> h.list ] /\ h.list \in [ Lists -> ListType ]
      BY DEF Sound, Heaps
    <3>2. WithRefs(h, l, r) = [ tag |-> h.tag, node |-> h.node, list |-> [ h.list EXCEPT ![l] = entry ] ]
      BY <3>1 DEF WithRefs
    <3>3. [ h.list[l] EXCEPT !.refs = old - 1 ] = entry
      <4>1. h.list[l] \in ListType
        BY <3>1
      <4> QED BY <2>1, <4>1
    <3>4. [ h.list EXCEPT ![l] = [ h.list[l] EXCEPT !.refs = old - 1 ] ] = [ h.list EXCEPT ![l] = entry ]
      BY <3>3
    <3>5. g = [ tag |-> h.tag, node |-> h.node, list |-> [ h.list EXCEPT ![l] = [ h.list[l] EXCEPT !.refs = old - 1 ] ] ]
      BY <2>2, <3>1
    <3> QED BY <3>2, <3>4, <3>5
  <2> HIDE DEF g, r
  <2>30. \A s \in Nat : /\ Sound(WithRefs(h, l, s), Nil, path)
                        /\ \A k \in Lists : WithRefs(h, l, s).list[k].refs = IF k = l THEN s ELSE h.list[k].refs
    BY ListRefsSound
  <2>4. /\ Sound(g, Nil, path)
        /\ \A k \in Lists : g.list[k].refs = IF k = l THEN r ELSE h.list[k].refs
    BY <2>1, <2>3, <2>30
  <2>5. Referred(g, h, l, r)
    BY <2>4 DEF Referred
  <2>6. \E made : /\ Sound(g, Nil, made) /\ \A k \in Lists : k # l => made[k] = path[k]
                  /\ Referred(g, h, l, r)
                  /\ IF r = 0 THEN Len(made[l]) = 0 ELSE made[l] = path[l]
    BY <2>1, <2>4, <2>5
  <2> QED BY <2>6 DEF g, r
<1> QED BY <1>2, <1>3

(***************************************************************************)
(* Lists made from texts.                                                  *)
(***************************************************************************)

(* A run whose steps lead from each set of heaps to the next stays in      *)
(* them.                                                                   *)
LEMMA LoopStays ==
  ASSUME NEW n \in Nat, NEW Gs, NEW run, run[0] \in Gs[0],
         \A k \in 1 .. n : run[k - 1] \in Gs[k - 1] => run[k] \in Gs[k]
  PROVE  \A k \in 0 .. n : run[k] \in Gs[k]
<1> DEFINE S == { k \in 0 .. n : run[k] \in Gs[k] }
<1>1. 0 \in S
  OBVIOUS
<1>2. ASSUME NEW k \in 1 .. n, k - 1 \in S
      PROVE  k \in S
  BY <1>2
<1> HIDE DEF S
<1>3. \A k \in 0 .. n : k \in S
  BY <1>1, <1>2, UpTo
<1> QED BY <1>3 DEF S

(* Some of the words have been appended, there is room for k more.         *)
Wording(g, h, path, l, k) ==
  \E made : /\ Sound(g, Nil, made) /\ \A m \in Lists : m # l => made[m] = path[m]
            /\ SameRefs(g, h) /\ RoomFor(g, k)

(* The words of an array are appended one after the other.                 *)
LEMMA WordsAppended ==
  ASSUME NEW h, NEW path, Sound(h, Nil, path), NEW l \in Lists,
         NEW some, Len(some) \in Nat, \A i \in 1 .. Len(some) : some[i] \in Seq(Signs),
         RoomFor(h, Len(some))
  PROVE  Wording(Loop(h, some, LAMBDA g, w : MutateAppend(g, l, w)), h, path, l, 0)
<1> DEFINE n == Len(some)
           Gs == [ k \in 0 .. n |-> { g \in Heaps : Wording(g, h, path, l, n - k) } ]
           step == [ k \in 1 .. n |-> [ g \in Gs[k - 1] |-> MutateAppend(g, l, some[k]) ] ]
           Eq(f) == f = [ k \in 0 .. n |-> IF k = 0 THEN h ELSE MutateAppend(f[k - 1], l, some[k]) ]
           run == CHOOSE f : Eq(f)
<1>0. n \in Nat
  OBVIOUS
<1>1. Loop(h, some, LAMBDA g, w : MutateAppend(g, l, w)) = run[n]
  BY DEF Loop
<1>2. h \in Gs[0]
  <2>1. h \in Heaps
    BY DEF Sound
  <2>2. Wording(h, h, path, l, n)
    BY DEF SameRefs, Wording
  <2>3. n - 0 = n /\ 0 \in 0 .. n
    OBVIOUS
  <2> HIDE DEF n
  <2> QED BY <2>1, <2>2, <2>3
<1>3. ASSUME NEW k \in 1 .. n, NEW g \in Gs[k - 1]
      PROVE  MutateAppend(g, l, some[k]) \in Gs[k]
  <2> DEFINE m == n - k
             e == MutateAppend(g, l, some[k])
  <2>1. k - 1 \in 0 .. n /\ k \in 0 .. n /\ m \in Nat /\ n - (k - 1) = m + 1
    OBVIOUS
  <2>2. Wording(g, h, path, l, m + 1)
    BY <2>1
  <2> HIDE DEF m
  <2>3. PICK made : /\ Sound(g, Nil, made) /\ \A i \in Lists : i # l => made[i] = path[i]
                    /\ SameRefs(g, h) /\ RoomFor(g, m + 1)
    BY <2>2 DEF Wording
  <2>4. RoomFor(g, 1)
    BY <2>1, <2>3, SparesFinite DEF RoomFor
  <2>5. Filled(e, g, made, l)
    BY <2>3, <2>4, MutateSound
  <2> HIDE DEF e
  <2>6. PICK next : Sound(e, Nil, next) /\ Grown(next, made, l)
    BY <2>5 DEF Filled
  <2>7. \A i \in Lists : i # l => next[i] = path[i]
    BY <2>3, <2>6 DEF Grown
  <2>8. SameRefs(e, h)
    BY <2>3, <2>5 DEF Filled, SameRefs
  <2>9. RoomFor(e, m)
    BY <2>1, <2>3, <2>5 DEF Filled
  <2>10. Wording(e, h, path, l, m) /\ e \in Heaps
    BY <2>6, <2>7, <2>8, <2>9 DEF Wording, Sound
  <2> HIDE DEF n
  <2> QED BY <2>1, <2>10 DEF m, e
<1> HIDE DEF n, Gs
<1>4. \A k \in 1 .. n : \A g \in Gs[k - 1] : step[k][g] \in Gs[k]
  BY <1>3
<1>5. PICK f : LoopRun(f, h, step, n, Gs)
  <2> HIDE DEF step
  <2> QED BY <1>0, <1>2, <1>4, LoopExists
<1>6. Eq(f)
  <2>1. /\ f = [ k \in 0 .. n |-> IF k = 0 THEN h ELSE step[k][f[k - 1]] ]
        /\ \A k \in 0 .. n : f[k] \in Gs[k]
    BY <1>5 DEF LoopRun
  <2>2. \A k \in 1 .. n : k - 1 \in 0 .. n /\ k # 0
    BY <1>0
  <2>3. ASSUME NEW k \in 1 .. n
        PROVE  step[k][f[k - 1]] = MutateAppend(f[k - 1], l, some[k])
    <3>1. f[k - 1] \in Gs[k - 1]
      <4> HIDE DEF step
      <4> QED BY <2>1, <2>2
    <3> QED BY <3>1
  <2>4. \A k \in 0 .. n : k = 0 \/ k \in 1 .. n
    BY <1>0
  <2> DEFINE e == [ k \in 0 .. n |-> IF k = 0 THEN h ELSE step[k][f[k - 1]] ]
             d == [ k \in 0 .. n |-> IF k = 0 THEN h ELSE MutateAppend(f[k - 1], l, some[k]) ]
  <2>5. \A k \in 0 .. n : e[k] = d[k]
    <3> HIDE DEF step
    <3> QED BY <2>3, <2>4
  <2>6. e = d
    BY <2>5
  <2>7. f = e
    BY <2>1
  <2> HIDE DEF e, step
  <2> QED BY <2>6, <2>7
<1>7. Eq(run)
  <2> HIDE DEF Eq
  <2> QED BY <1>6
<1> HIDE DEF run
<1>8. \A k \in 0 .. n : run[k] \in Gs[k]
  <2>1. run[0] \in Gs[0]
    BY <1>0, <1>2, <1>7
  <2>2. ASSUME NEW k \in 1 .. n, run[k - 1] \in Gs[k - 1]
        PROVE  run[k] \in Gs[k]
    <3>1. k \in 0 .. n /\ k # 0
      BY <1>0
    <3>2. run[k] = MutateAppend(run[k - 1], l, some[k])
      BY <1>7, <3>1
    <3> QED BY <1>3, <2>2, <3>2
  <2> QED BY <1>0, <2>1, <2>2, LoopStays
<1>9. n \in 0 .. n
  BY <1>0
<1>10. run[n] \in Gs[n]
  BY <1>8, <1>9
<1>11. n - n = 0
  BY <1>0
<1> QED BY <1>1, <1>9, <1>10, <1>11 DEF Gs

(* A list that was made, or given up: it has one reference or none.        *)
Made(g, h, path, l) ==
  \E made : /\ Sound(g, Nil, made) /\ \A k \in Lists : k # l => made[k] = path[k]
            /\ \/ Referred(g, h, l, 1)
               \/ Referred(g, h, l, 0) /\ Len(made[l]) = 0

(* lcfgtaglist_from_array makes a list, or gives it up at a bad word.      *)
LEMMA FromWordsSound ==
  ASSUME NEW h, NEW path, Sound(h, Nil, path), NEW l \in Lists, Len(path[l]) = 0,
         NEW words, words \in Seq(Seq(Signs)), RoomFor(h, Len(words))
  PROVE  Made(FromWords(h, l, words), h, path, l)
<1> DEFINE bad == { i \in DOMAIN words : ~ValidTag(TagWord(words[i])) }
           base == ListNew(h, l)
           Done(some) == Loop(base, some, LAMBDA g, w : MutateAppend(g, l, w))
           part == SubSeq(words, 1, Min(bad) - 1)
<1>1. Len(words) \in Nat /\ DOMAIN words = 1 .. Len(words)
      /\ \A i \in 1 .. Len(words) : words[i] \in Seq(Signs)
  <2> HIDE DEF Signs
  <2> QED BY LenProperties, ElementOfSeq
<1>2. FromWords(h, l, words) = IF bad = {} THEN Done(words) ELSE ListRelinquish(Done(part), l)
  BY DEF FromWords
<1>3. /\ Sound(base, Nil, path) /\ Unused(base) = Unused(h) /\ Idle(base) = Idle(h)
      /\ Referred(base, h, l, 1)
  BY ListNewSound
<1> HIDE DEF base
<1>4. RoomFor(base, Len(words))
  BY <1>3 DEF RoomFor
<1>5. CASE bad = {}
  <2> DEFINE g == Done(words)
  <2>1. Wording(g, base, path, l, 0)
    BY <1>1, <1>3, <1>4, WordsAppended
  <2>2. FromWords(h, l, words) = g
    BY <1>2, <1>5
  <2> HIDE DEF g, Done
  <2>3. Made(g, h, path, l)
    <3>1. PICK made : Sound(g, Nil, made) /\ (\A m \in Lists : m # l => made[m] = path[m]) /\ SameRefs(g, base)
      BY <2>1 DEF Wording
    <3>2. Referred(g, h, l, 1)
      BY <1>3, <3>1 DEF Referred, SameRefs
    <3> QED BY <3>1, <3>2 DEF Made
  <2> QED BY <2>2, <2>3
<1>6. CASE bad # {}
  <2> DEFINE g == Done(part)
             e == ListRelinquish(g, l)
  <2>1. Min(bad) \in 1 .. Len(words)
    <3>1. bad \in SUBSET Nat /\ bad \subseteq 1 .. Len(words)
      BY <1>1
    <3> HIDE DEF bad
    <3> QED BY <1>6, <3>1, PlaceFound
  <2> DEFINE j == Min(bad) - 1
  <2>2. j \in Int /\ j \in Nat /\ j <= Len(words) /\ 1 \in Int
    BY <1>1, <2>1
  <2>3. part = SubSeq(words, 1, j)
    OBVIOUS
  <2> HIDE DEF j, part, bad
  <2>4. Len(part) = j /\ \A i \in 1 .. Len(part) : part[i] \in Seq(Signs)
    <3> DEFINE T == Seq(Signs)
    <3>1. \A i \in 1 .. j : i \in 1 .. Len(words) /\ words[i] \in T
      BY <1>1, <2>2
    <3> HIDE DEF T
    <3>2. part \in Seq(T) /\ Len(part) = IF 1 <= j THEN j - 1 + 1 ELSE 0
      BY <2>2, <2>3, <3>1, SubSeqProperties
    <3>3. Len(part) = j
      BY <2>2, <3>2
    <3> QED BY <3>2, <3>3, ElementOfSeq DEF T
  <2>5. RoomFor(base, Len(part))
    BY <1>1, <1>4, <2>2, <2>4, SparesFinite DEF RoomFor
  <2>6. Wording(g, base, path, l, 0)
    BY <1>3, <2>2, <2>4, <2>5, WordsAppended
  <2>7. FromWords(h, l, words) = e
    BY <1>2, <1>6
  <2> HIDE DEF g, Done
  <2>8. PICK made : Sound(g, Nil, made) /\ (\A m \in Lists : m # l => made[m] = path[m]) /\ SameRefs(g, base)
    BY <2>6 DEF Wording
  <2>9. g.list[l].refs = 1
    BY <1>3, <2>8 DEF Referred, SameRefs
  <2>10. \E next : /\ Sound(e, Nil, next) /\ \A k \in Lists : k # l => next[k] = made[k]
                   /\ Referred(e, g, l, 0) /\ Len(next[l]) = 0
    BY <2>8, <2>9, ListRelinquishSound
  <2> HIDE DEF e
  <2>11. PICK next : /\ Sound(e, Nil, next) /\ \A k \in Lists : k # l => next[k] = made[k]
                     /\ Referred(e, g, l, 0) /\ Len(next[l]) = 0
    BY <2>10
  <2>12. Referred(e, h, l, 0)
    BY <1>3, <2>8, <2>11 DEF Referred, SameRefs
  <2>13. Made(e, h, path, l)
    BY <2>8, <2>11, <2>12 DEF Made
  <2> QED BY <2>7, <2>13
<1> QED BY <1>5, <1>6

(***************************************************************************)
(* Replacing and sorting tags.                                             *)
(***************************************************************************)

(* The nodes keep their places: only their tags are changed.               *)
Shaped(g, h, held, path) == Sound(g, held, path) /\ SameRefs(g, h)

(* Nodes of a list that all get tag t keep their places.                   *)
LEMMA RetaggedSound ==
  ASSUME NEW h, NEW t \in Tags, NEW path, Sound(h, t, path), NEW l \in Lists,
         NEW nodes, Len(nodes) \in Nat,
         \A k \in 1 .. Len(nodes) : \E i \in 1 .. Len(path[l]) : nodes[k] = path[l][i]
  PROVE  Shaped(Loop(h, nodes, LAMBDA g, n : Retag(g, n, t)), h, t, path)
<1> DEFINE n == Len(nodes)
           Gs == [ k \in 0 .. n |-> { g \in Heaps : Shaped(g, h, t, path) } ]
           step == [ k \in 1 .. n |-> [ g \in Gs[k - 1] |-> Retag(g, nodes[k], t) ] ]
           Eq(f) == f = [ k \in 0 .. n |-> IF k = 0 THEN h ELSE Retag(f[k - 1], nodes[k], t) ]
           run == CHOOSE f : Eq(f)
<1>0. n \in Nat
  OBVIOUS
<1>1. Loop(h, nodes, LAMBDA g, m : Retag(g, m, t)) = run[n]
  BY DEF Loop
<1>2. h \in Gs[0]
  <2>1. h \in Heaps /\ Shaped(h, h, t, path)
    BY DEF Sound, Shaped, SameRefs
  <2>2. 0 \in 0 .. n
    OBVIOUS
  <2> HIDE DEF n
  <2> QED BY <2>1, <2>2
<1>3. ASSUME NEW k \in 1 .. n, NEW g \in Gs[k - 1]
      PROVE  Retag(g, nodes[k], t) \in Gs[k]
  <2> DEFINE m == nodes[k]
             e == Retag(g, m, t)
  <2>1. k - 1 \in 0 .. n /\ k \in 0 .. n
    OBVIOUS
  <2>2. Sound(g, t, path) /\ SameRefs(g, h)
    BY <2>1 DEF Shaped
  <2>3. m \in Nodes /\ g.node[m].tag # Nil
    <3>1. PICK i \in 1 .. Len(path[l]) : m = path[l][i]
      OBVIOUS
    <3> HIDE DEF m
    <3>2. m \in Nodes /\ g.node[m].tag \in Tags
      BY <2>2, <3>1, PathNodes
    <3> QED BY <3>2, NilIsNoNode
  <2> HIDE DEF m
  <2>4. Sound(e, t, path) /\ SameRefs(e, g)
    BY <2>2, <2>3, RetagSound
  <2> HIDE DEF e
  <2>5. e \in Heaps /\ Shaped(e, h, t, path)
    BY <2>2, <2>4 DEF Sound, Shaped, SameRefs
  <2> HIDE DEF n
  <2> QED BY <2>1, <2>5 DEF e, m
<1> HIDE DEF n, Gs
<1>4. \A k \in 1 .. n : \A g \in Gs[k - 1] : step[k][g] \in Gs[k]
  BY <1>3
<1>5. PICK f : LoopRun(f, h, step, n, Gs)
  <2> HIDE DEF step
  <2> QED BY <1>0, <1>2, <1>4, LoopExists
<1>6. Eq(f)
  <2>1. /\ f = [ k \in 0 .. n |-> IF k = 0 THEN h ELSE step[k][f[k - 1]] ]
        /\ \A k \in 0 .. n : f[k] \in Gs[k]
    BY <1>5 DEF LoopRun
  <2>2. \A k \in 1 .. n : k - 1 \in 0 .. n /\ k # 0
    BY <1>0
  <2>3. ASSUME NEW k \in 1 .. n
        PROVE  step[k][f[k - 1]] = Retag(f[k - 1], nodes[k], t)
    <3>1. f[k - 1] \in Gs[k - 1]
      <4> HIDE DEF step
      <4> QED BY <2>1, <2>2
    <3> QED BY <3>1
  <2>4. \A k \in 0 .. n : k = 0 \/ k \in 1 .. n
    BY <1>0
  <2> DEFINE e == [ k \in 0 .. n |-> IF k = 0 THEN h ELSE step[k][f[k - 1]] ]
             d == [ k \in 0 .. n |-> IF k = 0 THEN h ELSE Retag(f[k - 1], nodes[k], t) ]
  <2>5. \A k \in 0 .. n : e[k] = d[k]
    <3> HIDE DEF step
    <3> QED BY <2>3, <2>4
  <2>6. e = d
    BY <2>5
  <2>7. f = e
    BY <2>1
  <2> HIDE DEF e, step
  <2> QED BY <2>6, <2>7
<1>7. Eq(run)
  <2> HIDE DEF Eq
  <2> QED BY <1>6
<1> HIDE DEF run
<1>8. \A k \in 0 .. n : run[k] \in Gs[k]
  <2>1. run[0] \in Gs[0]
    BY <1>0, <1>2, <1>7
  <2>2. ASSUME NEW k \in 1 .. n, run[k - 1] \in Gs[k - 1]
        PROVE  run[k] \in Gs[k]
    <3>1. k \in 0 .. n /\ k # 0
      BY <1>0
    <3>2. run[k] = Retag(run[k - 1], nodes[k], t)
      BY <1>7, <3>1
    <3> QED BY <1>3, <2>2, <3>2
  <2> QED BY <1>0, <2>1, <2>2, LoopStays
<1>9. n \in 0 .. n
  BY <1>0
<1>10. run[n] \in Gs[n]
  BY <1>8, <1>9
<1> QED BY <1>1, <1>9, <1>10 DEF Gs

(* lcfgtaglist_mutate_replace.                                             *)
LEMMA ReplaceSound ==
  ASSUME NEW h, NEW path, Sound(h, Nil, path), NEW l \in Lists, NEW match, NEW text \in Seq(Signs),
         NEW global, RoomFor(h, 1)
  PROVE  Shaped(MutateReplace(h, l, match, text, global), h, Nil, path)
<1> DEFINE p == path[l]
           matching == Matches(h, p, match)
           chosen == IF global THEN matching ELSE {Min(matching)}
           t == FreshTag(h)
           nodes == AtPlaces(p, chosen)
           base == TagNew(h, t, text[1])
           done == Loop(base, nodes, LAMBDA g, n : Retag(g, n, t))
           g == TagRelinquish(done, t)
<1>1. Walk(h, l) = p /\ DOMAIN p = 1 .. Len(p) /\ Len(p) \in Nat
  BY PathNodes DEF Path
<1>2. MutateReplace(h, l, match, text, global) = IF ~ValidTag(text) \/ matching = {} THEN h ELSE g
  BY <1>1, Zenon DEF MutateReplace
<1>3. CASE ~ValidTag(text) \/ matching = {}
  BY <1>2, <1>3, Zenon DEF Shaped, SameRefs
<1>4. CASE ValidTag(text) /\ matching # {}
  <2>1. matching \subseteq 1 .. Len(p) /\ matching \in SUBSET Nat
    BY <1>1 DEF Matches
  <2>2. chosen \subseteq 1 .. Len(p) /\ chosen \in SUBSET Nat
    <3> HIDE DEF matching
    <3>1. Min(matching) \in matching
      BY <1>4, <2>1, PlaceFound
    <3> QED BY <2>1, <3>1
  <2>3. IsFiniteSet(chosen)
    <3>1. IsFiniteSet(1 .. Len(p))
      <4> DEFINE a == Len(p)
      <4>1. 1 \in Int /\ a \in Int
        BY <1>1
      <4> HIDE DEF a
      <4> QED BY <4>1, FS_Interval DEF a
    <3> HIDE DEF chosen
    <3> QED BY <2>2, <3>1, FS_Subset
  <2> HIDE DEF chosen
  <2>4. Len(nodes) \in Nat /\ \A k \in 1 .. Len(nodes) : \E i \in 1 .. Len(p) : nodes[k] = p[i]
    <3>1. Takes(nodes, p, chosen)
      BY <2>2, <2>3, AtPlacesSound
    <3> HIDE DEF nodes
    <3>2. /\ IsList(nodes) /\ DOMAIN nodes = 1 .. Len(nodes)
          /\ \A k \in DOMAIN nodes : \E i \in chosen : nodes[k] = p[i]
      BY <3>1, TakesContents
    <3>3. Len(nodes) \in Nat
      BY <3>2, ListProperties
    <3> QED BY <2>2, <3>2, <3>3
  <2> HIDE DEF nodes
  <2>5. t \in Idle(h) /\ t \in Tags
    <3>1. Idle(h) \in SUBSET Nat
      BY NilIsNoNode DEF Idle
    <3>2. t = Min(Idle(h))
      BY DEF FreshTag, Idle
    <3>3. Idle(h) # {}
      BY SparesFinite DEF RoomFor
    <3> QED BY <3>1, <3>2, <3>3, PlaceFound DEF Idle
  <2> HIDE DEF t
  <2>6. text[1] \in Names
    BY <1>4, ValidTagIsName
  <2>7. Sound(base, t, path) /\ base.list = h.list
    BY <2>5, <2>6, NewTagSound
  <2> HIDE DEF base
  <2>8. Shaped(done, base, t, path)
    BY <2>4, <2>5, <2>7, RetaggedSound
  <2> HIDE DEF done
  <2>9. Sound(g, Nil, path) /\ SameRefs(g, done)
    BY <2>5, <2>8, ReleaseSound DEF Shaped
  <2>10. MutateReplace(h, l, match, text, global) = g
    BY <1>2, <1>4, Zenon
  <2> HIDE DEF g
  <2>11. SameRefs(g, h)
    BY <2>7, <2>8, <2>9 DEF Shaped, SameRefs
  <2> QED BY <2>9, <2>10, <2>11 DEF Shaped
<1> QED BY <1>3, <1>4, Zenon

(* One pass of the sort.                                                   *)
LEMMA SortPassSound ==
  ASSUME NEW h, NEW path, Sound(h, Nil, path), NEW l \in Lists, Len(path[l]) >= 1
  PROVE  Shaped(SortPass(h, path[l]), h, Nil, path)
<1> DEFINE p == path[l]
           n == Len(p) - 1
           seq == [ i \in 1 .. n |-> i ]
           Gs == [ k \in 0 .. n |-> { g \in Heaps : Shaped(g, h, Nil, path) } ]
           step == [ k \in 1 .. n |-> [ g \in Gs[k - 1] |-> SwapIfAbove(g, p[seq[k]], p[seq[k] + 1]) ] ]
           Eq(f) == f = [ k \in 0 .. n |-> IF k = 0 THEN h ELSE SwapIfAbove(f[k - 1], p[seq[k]], p[seq[k] + 1]) ]
           run == CHOOSE f : Eq(f)
<1>0. n \in Nat /\ Len(p) \in Nat
  BY PathNodes
<1>01. Len(seq) = n /\ \A k \in 1 .. n : seq[k] = k
  <2>1. seq = [ k \in 1 .. n |-> seq[k] ]
    OBVIOUS
  <2>2. \A k \in 1 .. n : seq[k] = k
    OBVIOUS
  <2> HIDE DEF seq, n
  <2> QED BY <1>0, <2>1, <2>2, FunctionIsList
<1>1. SortPass(h, p) = run[n]
  <2> DEFINE Meets(f) == f = [ k \in 0 .. Len(seq) |-> IF k = 0 THEN h ELSE SwapIfAbove(f[k - 1], p[seq[k]], p[seq[k] + 1]) ]
             met == CHOOSE f : Meets(f)
  <2>1. SortPass(h, p) = met[Len(seq)]
    BY DEF SortPass, Loop
  <2> HIDE DEF seq
  <2>2. met = run
    BY <1>01
  <2> QED BY <1>01, <2>1, <2>2
<1> HIDE DEF seq
<1>2. h \in Gs[0]
  <2>1. h \in Heaps /\ Shaped(h, h, Nil, path)
    BY DEF Sound, Shaped, SameRefs
  <2>2. 0 \in 0 .. n
    BY <1>0
  <2> HIDE DEF n
  <2> QED BY <2>1, <2>2
<1>3. ASSUME NEW k \in 1 .. n, NEW g \in Gs[k - 1]
      PROVE  SwapIfAbove(g, p[seq[k]], p[seq[k] + 1]) \in Gs[k]
  <2> DEFINE a == p[seq[k]]
             b == p[seq[k] + 1]
             e == SwapIfAbove(g, a, b)
  <2>1. k - 1 \in 0 .. n /\ k \in 0 .. n /\ seq[k] \in 1 .. Len(p) /\ seq[k] + 1 \in 1 .. Len(p)
    BY <1>0, <1>01
  <2> HIDE DEF n
  <2>2. Sound(g, Nil, path) /\ SameRefs(g, h)
    BY <2>1 DEF Shaped
  <2>3. \A i \in 1 .. Len(p) : p[i] \in Nodes /\ g.node[p[i]].tag # Nil
    BY <2>2, PathNodes, NilIsNoNode
  <2>30. a \in Nodes /\ b \in Nodes /\ g.node[a].tag # Nil /\ g.node[b].tag # Nil
    BY <2>1, <2>3
  <2> HIDE DEF a, b
  <2>4. Sound(e, Nil, path) /\ SameRefs(e, g)
    BY <2>2, <2>30, SwapSound
  <2> HIDE DEF e
  <2>5. e \in Heaps /\ Shaped(e, h, Nil, path)
    BY <2>2, <2>4 DEF Sound, Shaped, SameRefs
  <2> QED BY <2>1, <2>5 DEF e, a, b
<1> HIDE DEF n, Gs
<1>4. \A k \in 1 .. n : \A g \in Gs[k - 1] : step[k][g] \in Gs[k]
  BY <1>3
<1>5. PICK f : LoopRun(f, h, step, n, Gs)
  <2> HIDE DEF step
  <2> QED BY <1>0, <1>2, <1>4, LoopExists
<1>6. Eq(f)
  <2>1. /\ f = [ k \in 0 .. n |-> IF k = 0 THEN h ELSE step[k][f[k - 1]] ]
        /\ \A k \in 0 .. n : f[k] \in Gs[k]
    BY <1>5 DEF LoopRun
  <2>2. \A k \in 1 .. n : k - 1 \in 0 .. n /\ k # 0
    BY <1>0
  <2>3. ASSUME NEW k \in 1 .. n
        PROVE  step[k][f[k - 1]] = SwapIfAbove(f[k - 1], p[seq[k]], p[seq[k] + 1])
    <3>1. f[k - 1] \in Gs[k - 1]
      <4> HIDE DEF step
      <4> QED BY <2>1, <2>2
    <3> QED BY <3>1
  <2>4. \A k \in 0 .. n : k = 0 \/ k \in 1 .. n
    BY <1>0
  <2> DEFINE e == [ k \in 0 .. n |-> IF k = 0 THEN h ELSE step[k][f[k - 1]] ]
             d == [ k \in 0 .. n |-> IF k = 0 THEN h ELSE SwapIfAbove(f[k - 1], p[seq[k]], p[seq[k] + 1]) ]
  <2>5. \A k \in 0 .. n : e[k] = d[k]
    <3> HIDE DEF step
    <3> QED BY <2>3, <2>4
  <2>6. e = d
    BY <2>5
  <2>7. f = e
    BY <2>1
  <2> HIDE DEF e, step
  <2> QED BY <2>6, <2>7
<1>7. Eq(run)
  <2> HIDE DEF Eq
  <2> QED BY <1>6
<1> HIDE DEF run
<1>8. \A k \in 0 .. n : run[k] \in Gs[k]
  <2>1. run[0] \in Gs[0]
    BY <1>0, <1>2, <1>7
  <2>2. ASSUME NEW k \in 1 .. n, run[k - 1] \in Gs[k - 1]
        PROVE  run[k] \in Gs[k]
    <3>1. k \in 0 .. n /\ k # 0
      BY <1>0
    <3>2. run[k] = SwapIfAbove(run[k - 1], p[seq[k]], p[seq[k] + 1])
      BY <1>7, <3>1
    <3> QED BY <1>3, <2>2, <3>2
  <2> QED BY <1>0, <2>1, <2>2, LoopStays
<1>9. n \in 0 .. n
  BY <1>0
<1>10. run[n] \in Gs[n]
  BY <1>8, <1>9
<1> QED BY <1>1, <1>9, <1>10 DEF Gs

(* lcfgtaglist_sort.                                                       *)
LEMMA SortTagsSound ==
  ASSUME NEW h, NEW path, Sound(h, Nil, path), NEW l \in Lists
  PROVE  Shaped(SortTags(h, l), h, Nil, path)
<1> DEFINE p == path[l]
           n == Len(p)
           Gs == [ k \in 0 .. n |-> { g \in Heaps : Shaped(g, h, Nil, path) } ]
           step == [ k \in 1 .. n |-> [ g \in Gs[k - 1] |-> SortPass(g, p) ] ]
           Eq(f) == f = [ k \in 0 .. n |-> IF k = 0 THEN h ELSE SortPass(f[k - 1], p) ]
           run == CHOOSE f : Eq(f)
<1>0. n \in Nat /\ Walk(h, l) = p /\ h.list[l].size = n
  BY PathNodes DEF Laid
<1>11. CASE n < 2
  BY <1>0, <1>11 DEF SortTags, Shaped, SameRefs
<1>12. SUFFICES ASSUME n >= 2
                PROVE  Shaped(SortTags(h, l), h, Nil, path)
  BY <1>0, <1>11
<1>1. SortTags(h, l) = run[n]
  BY <1>0, <1>12 DEF SortTags, Loop
<1>2. h \in Gs[0]
  <2>1. h \in Heaps /\ Shaped(h, h, Nil, path)
    BY DEF Sound, Shaped, SameRefs
  <2>2. 0 \in 0 .. n
    BY <1>0
  <2> HIDE DEF n
  <2> QED BY <2>1, <2>2
<1>3. ASSUME NEW k \in 1 .. n, NEW g \in Gs[k - 1]
      PROVE  SortPass(g, p) \in Gs[k]
  <2> DEFINE e == SortPass(g, p)
  <2>1. k - 1 \in 0 .. n /\ k \in 0 .. n /\ n >= 1
    BY <1>0, <1>12
  <2>2. Sound(g, Nil, path) /\ SameRefs(g, h)
    BY <2>1 DEF Shaped
  <2>3. Shaped(e, g, Nil, path)
    BY <2>1, <2>2, SortPassSound
  <2> HIDE DEF e, n
  <2>4. e \in Heaps /\ Shaped(e, h, Nil, path)
    BY <2>2, <2>3 DEF Sound, Shaped, SameRefs
  <2> QED BY <2>1, <2>4 DEF e
<1> HIDE DEF n, Gs
<1>4. \A k \in 1 .. n : \A g \in Gs[k - 1] : step[k][g] \in Gs[k]
  BY <1>3
<1>5. PICK f : LoopRun(f, h, step, n, Gs)
  <2> HIDE DEF step
  <2> QED BY <1>0, <1>2, <1>4, LoopExists
<1>6. Eq(f)
  <2>1. /\ f = [ k \in 0 .. n |-> IF k = 0 THEN h ELSE step[k][f[k - 1]] ]
        /\ \A k \in 0 .. n : f[k] \in Gs[k]
    BY <1>5 DEF LoopRun
  <2>2. \A k \in 1 .. n : k - 1 \in 0 .. n /\ k # 0
    BY <1>0
  <2>3. ASSUME NEW k \in 1 .. n
        PROVE  step[k][f[k - 1]] = SortPass(f[k - 1], p)
    <3>1. f[k - 1] \in Gs[k - 1]
      <4> HIDE DEF step
      <4> QED BY <2>1, <2>2
    <3> QED BY <3>1
  <2>4. \A k \in 0 .. n : k = 0 \/ k \in 1 .. n
    BY <1>0
  <2> DEFINE e == [ k \in 0 .. n |-> IF k = 0 THEN h ELSE step[k][f[k - 1]] ]
             d == [ k \in 0 .. n |-> IF k = 0 THEN h ELSE SortPass(f[k - 1], p) ]
  <2>5. \A k \in 0 .. n : e[k] = d[k]
    <3> HIDE DEF step
    <3> QED BY <2>3, <2>4
  <2>6. e = d
    BY <2>5
  <2>7. f = e
    BY <2>1
  <2> HIDE DEF e, step
  <2> QED BY <2>6, <2>7
<1>7. Eq(run)
  <2> HIDE DEF Eq
  <2> QED BY <1>6
<1> HIDE DEF run
<1>8. \A k \in 0 .. n : run[k] \in Gs[k]
  <2>1. run[0] \in Gs[0]
    BY <1>0, <1>2, <1>7
  <2>2. ASSUME NEW k \in 1 .. n, run[k - 1] \in Gs[k - 1]
        PROVE  run[k] \in Gs[k]
    <3>1. k \in 0 .. n /\ k # 0
      BY <1>0
    <3>2. run[k] = SortPass(run[k - 1], p)
      BY <1>7, <3>1
    <3> QED BY <1>3, <2>2, <3>2
  <2> QED BY <1>0, <2>1, <2>2, LoopStays
<1>9. n \in 0 .. n
  BY <1>0
<1>10. run[n] \in Gs[n]
  BY <1>8, <1>9
<1> QED BY <1>1, <1>9, <1>10 DEF Gs

(***************************************************************************)
(* Copies and sets.                                                        *)
(***************************************************************************)

(* A list has no more names than nodes.                                    *)
LEMMA CalledFinite ==
  ASSUME NEW h, NEW p, Len(p) \in Nat
  PROVE  IsFiniteSet(Called(h, p)) /\ Cardinality(Called(h, p)) <= Len(p)
         /\ Cardinality(Called(h, p)) \in Nat
<1> DEFINE n == Len(p)
           f == [ i \in 1 .. n |-> NameAt(h, p[i]) ]
<1>1. IsFiniteSet(1 .. n) /\ Cardinality(1 .. n) = n
  <2>1. 1 \in Int /\ n \in Int
    OBVIOUS
  <2> HIDE DEF n
  <2>2. IsFiniteSet(1 .. n) /\ Cardinality(1 .. n) = IF 1 > n THEN 0 ELSE n - 1 + 1
    BY <2>1, FS_Interval
  <2>3. n \in Nat
    BY DEF n
  <2> QED BY <2>2, <2>3
<1>2. f \in Surjection(1 .. n, Called(h, p))
  <2>1. \A i \in 1 .. n : f[i] \in Called(h, p)
    BY DEF Called
  <2>2. f \in [ 1 .. n -> Called(h, p) ]
    BY <2>1
  <2>3. \A x \in Called(h, p) : \E i \in 1 .. n : f[i] = x
    BY DEF Called
  <2> HIDE DEF f, n
  <2> QED BY <2>2, <2>3 DEF Surjection
<1> HIDE DEF f, n
<1>3. IsFiniteSet(Called(h, p)) /\ Cardinality(Called(h, p)) <= Cardinality(1 .. n)
  BY <1>1, <1>2, FS_Surjection
<1>4. Cardinality(Called(h, p)) \in Nat
  BY <1>3, FS_CardinalityType
<1> QED BY <1>1, <1>3, <1>4 DEF n

(* The names of a list are those along its path.                           *)
LEMMA NamesAreCalled ==
  ASSUME NEW h, NEW path, NEW held, Sound(h, held, path), NEW l \in Lists
  PROVE  ToSet(NamesOf(h, l)) = Called(h, path[l])
<1>1. Walk(h, l) = path[l] /\ DOMAIN path[l] = 1 .. Len(path[l])
  BY PathNodes DEF Path
<1>2. NamesOf(h, l) = [ i \in 1 .. Len(path[l]) |-> NameAt(h, path[l][i]) ]
  BY <1>1 DEF NamesOf, NamesAlong
<1> QED BY <1>2 DEF Called, ToSet

(* The nodes of lists hand their tags to a list that is new.               *)
Enough(h, U, once, k) ==
  IF once THEN Cardinality(U) <= Cardinality(Unused(h)) ELSE k <= Cardinality(Unused(h))

(* A new list takes the tags of some nodes.                                *)
LEMMA NewListFilled ==
  ASSUME NEW h, NEW path, Sound(h, Nil, path), NEW l \in Lists, Len(path[l]) = 0,
         NEW U, IsFiniteSet(U), NEW once \in BOOLEAN, NEW nodes, Len(nodes) \in Nat,
         \A i \in 1 .. Len(nodes) : /\ nodes[i] \in Nodes /\ h.node[nodes[i]].tag # Nil
                                    /\ NameAt(h, nodes[i]) \in U,
         Enough(h, U, once, Len(nodes))
  PROVE  Handing(HandTags(ListNew(h, l), l, nodes, once), ListNew(h, l), path, l, U, once, 0)
<1> DEFINE g == ListNew(h, l)
<1>1. /\ Sound(g, Nil, path) /\ Unused(g) = Unused(h) /\ g.node = h.node /\ g.tag = h.tag
  BY ListNewSound
<1> HIDE DEF g
<1>2. Called(g, path[l]) = {}
  BY DEF Called
<1>3. Cardinality(Called(g, path[l])) = 0
  BY <1>2, FS_EmptySet
<1>4. Cardinality(Unused(g)) \in Nat
  BY SparesFinite
<1>5. Roomy(g, path[l], U, once, Len(nodes))
  BY <1>1, <1>2, <1>3, <1>4 DEF Roomy, Enough
<1>6. \A i \in 1 .. Len(nodes) : g.node[nodes[i]].tag # Nil /\ NameAt(g, nodes[i]) \in U
  BY <1>1 DEF NameAt
<1>7. Handing(HandTags(g, l, nodes, once), g, path, l, U, once, 0)
  BY <1>1, <1>5, <1>6, HandTagsSound
<1> QED BY <1>7 DEF g

(* What was handed tags is a list that was made.                           *)
LEMMA FilledIsMade ==
  ASSUME NEW h, NEW path, Sound(h, Nil, path), NEW l \in Lists, Len(path[l]) = 0,
         NEW g, NEW U, NEW once, NEW k, Handing(g, ListNew(h, l), path, l, U, once, k)
  PROVE  Made(g, h, path, l)
<1>1. PICK made : /\ Sound(g, Nil, made) /\ \A m \in Lists : m # l => made[m] = path[m]
                  /\ SameRefs(g, ListNew(h, l))
  BY DEF Handing
<1>2. Referred(ListNew(h, l), h, l, 1)
  BY ListNewSound
<1>3. Referred(g, h, l, 1)
  BY <1>1, <1>2 DEF Referred, SameRefs
<1> QED BY <1>1, <1>3 DEF Made

(* The nodes of a path and what they are called.                           *)
LEMMA PathCalled ==
  ASSUME NEW h, NEW path, NEW held, Sound(h, held, path), NEW j \in Lists
  PROVE  /\ \A m \in 1 .. Len(path[j]) : /\ path[j][m] \in Nodes /\ h.node[path[j][m]].tag # Nil
                                         /\ NameAt(h, path[j][m]) \in Called(h, path[j])
         /\ Walk(h, j) = path[j] /\ Len(path[j]) \in Nat /\ h.list[j].size = Len(path[j])
BY PathNodes, NilIsNoNode DEF Called, Laid

(* lcfgtaglist_clone and lcfgtaglist_set_unique make a list.               *)
LEMMA CopySound ==
  ASSUME NEW h, NEW path, Sound(h, Nil, path), NEW l \in Lists, Len(path[l]) = 0,
         NEW k \in Lists, Cardinality(Unused(h)) >= h.list[k].size
  PROVE  Made(Clone(h, l, k), h, path, l) /\ Made(SetUnique(h, l, k), h, path, l)
<1> DEFINE U == Called(h, path[k])
<1>1. /\ \A m \in 1 .. Len(path[k]) : /\ path[k][m] \in Nodes /\ h.node[path[k][m]].tag # Nil
                                      /\ NameAt(h, path[k][m]) \in U
      /\ Walk(h, k) = path[k] /\ Len(path[k]) \in Nat /\ h.list[k].size = Len(path[k])
  BY PathCalled
<1>2. IsFiniteSet(U) /\ Cardinality(U) <= Len(path[k]) /\ Cardinality(U) \in Nat
  BY <1>1, CalledFinite
<1> HIDE DEF U
<1>3. Cardinality(Unused(h)) \in Nat
  BY SparesFinite
<1>4. Enough(h, U, TRUE, Len(path[k])) /\ Enough(h, U, FALSE, Len(path[k]))
  BY <1>1, <1>2, <1>3 DEF Enough
<1>5. Handing(HandTags(ListNew(h, l), l, path[k], FALSE), ListNew(h, l), path, l, U, FALSE, 0)
  BY <1>1, <1>2, <1>4, NewListFilled
<1>6. Handing(HandTags(ListNew(h, l), l, path[k], TRUE), ListNew(h, l), path, l, U, TRUE, 0)
  BY <1>1, <1>2, <1>4, NewListFilled
<1>7. /\ Clone(h, l, k) = HandTags(ListNew(h, l), l, path[k], FALSE)
      /\ SetUnique(h, l, k) = HandTags(ListNew(h, l), l, path[k], TRUE)
  BY <1>1, Zenon DEF Clone, SetUnique
<1> QED BY <1>5, <1>6, <1>7, FilledIsMade

(* lcfgtaglist_set_union makes a list.                                     *)
LEMMA UnionSound ==
  ASSUME NEW h, NEW path, Sound(h, Nil, path), NEW l \in Lists, Len(path[l]) = 0,
         NEW j \in Lists, NEW k \in Lists, k # l,
         Cardinality(Unused(h)) >= Cardinality(Called(h, path[j]) \cup Called(h, path[k]))
  PROVE  Made(SetUnion(h, l, j, k), h, path, l)
<1> DEFINE U == Called(h, path[j]) \cup Called(h, path[k])
           base == ListNew(h, l)
           g == SetUnique(h, l, j)
           e == HandTags(g, l, path[k], TRUE)
<1>1. /\ \A m \in 1 .. Len(path[k]) : /\ path[k][m] \in Nodes /\ h.node[path[k][m]].tag # Nil
                                      /\ NameAt(h, path[k][m]) \in U
      /\ Walk(h, k) = path[k] /\ Len(path[k]) \in Nat
  BY PathCalled
<1>2. /\ \A m \in 1 .. Len(path[j]) : /\ path[j][m] \in Nodes /\ h.node[path[j][m]].tag # Nil
                                      /\ NameAt(h, path[j][m]) \in U
      /\ Walk(h, j) = path[j] /\ Len(path[j]) \in Nat
  BY PathCalled
<1>3. IsFiniteSet(U) /\ Cardinality(U) \in Nat
  <2>1. IsFiniteSet(Called(h, path[j])) /\ IsFiniteSet(Called(h, path[k]))
    BY <1>1, <1>2, CalledFinite
  <2>2. IsFiniteSet(U)
    BY <2>1, FS_Union
  <2> QED BY <2>2, FS_CardinalityType
<1>4. Enough(h, U, TRUE, Len(path[j]))
  <2>1. Cardinality(Unused(h)) \in Nat
    BY SparesFinite
  <2> QED BY <1>3, <2>1 DEF Enough
<1> HIDE DEF U
<1>5. Handing(HandTags(base, l, path[j], TRUE), base, path, l, U, TRUE, 0)
  BY <1>2, <1>3, <1>4, NewListFilled
<1>6. g = HandTags(base, l, path[j], TRUE)
  BY <1>2, Zenon DEF SetUnique
<1>7. /\ base.node = h.node /\ base.tag = h.tag /\ Referred(base, h, l, 1)
  BY ListNewSound
<1> HIDE DEF g, base
<1>8. PICK made : /\ Sound(g, Nil, made) /\ \A m \in Lists : m # l => made[m] = path[m]
                  /\ SameRefs(g, base) /\ TagsStay(g, base)
                  /\ Roomy(g, made[l], U, TRUE, 0)
  BY <1>5, <1>6 DEF Handing
<1>9. Roomy(g, made[l], U, TRUE, Len(path[k]))
  BY <1>8 DEF Roomy
<1>10. \A m \in 1 .. Len(path[k]) : /\ path[k][m] \in Nodes /\ g.node[path[k][m]].tag # Nil
                                    /\ NameAt(g, path[k][m]) \in U
  <2> SUFFICES ASSUME NEW m \in 1 .. Len(path[k])
               PROVE  /\ path[k][m] \in Nodes /\ g.node[path[k][m]].tag # Nil
                      /\ NameAt(g, path[k][m]) \in U
    OBVIOUS
  <2> DEFINE n == path[k][m]
  <2>1. n \in Nodes /\ h.node[n].tag # Nil /\ NameAt(h, n) \in U
    BY <1>1
  <2>2. h.node[n].tag \in Tags
    BY <2>1 DEF Sound, Heaps
  <2> HIDE DEF n
  <2>3. g.node[n].tag = h.node[n].tag /\ \A u \in Tags : g.tag[u].name = h.tag[u].name
    BY <1>7, <1>8, <2>1 DEF TagsStay
  <2>4. NameAt(g, n) = NameAt(h, n)
    BY <2>2, <2>3 DEF NameAt
  <2>5. n \in Nodes /\ g.node[n].tag # Nil /\ NameAt(g, n) \in U
    BY <2>1, <2>3, <2>4
  <2> QED BY <2>5 DEF n
<1>11. Handing(e, g, made, l, U, TRUE, 0)
  BY <1>1, <1>3, <1>8, <1>9, <1>10, HandTagsSound
<1>12. SetUnion(h, l, j, k) = e
  BY <1>1, Zenon DEF SetUnion, g
<1> HIDE DEF e
<1>13. PICK next : /\ Sound(e, Nil, next) /\ \A m \in Lists : m # l => next[m] = made[m]
                   /\ SameRefs(e, g)
  BY <1>11 DEF Handing
<1>14. Referred(e, h, l, 1)
  BY <1>7, <1>8, <1>13 DEF Referred, SameRefs
<1> QED BY <1>8, <1>12, <1>13, <1>14 DEF Made

(* lcfgtaglist_set_intersection and lcfgtaglist_set_subtract make a list.  *)
LEMMA SharedSound ==
  ASSUME NEW h, NEW path, Sound(h, Nil, path), NEW l \in Lists, Len(path[l]) = 0,
         NEW j \in Lists, NEW k \in Lists,
         Cardinality(Unused(h)) >= Cardinality(Called(h, path[j]) \cup Called(h, path[k]))
  PROVE  /\ Made(SetIntersection(h, l, j, k), h, path, l)
         /\ Made(SetSubtract(h, l, j, k), h, path, l)
<1> DEFINE U == Called(h, path[j])
           V == Called(h, path[j]) \cup Called(h, path[k])
<1>1. /\ \A m \in 1 .. Len(path[j]) : /\ path[j][m] \in Nodes /\ h.node[path[j][m]].tag # Nil
                                      /\ NameAt(h, path[j][m]) \in U
      /\ Walk(h, j) = path[j] /\ Len(path[j]) \in Nat /\ Len(path[k]) \in Nat
  BY PathCalled
<1>2. IsFiniteSet(U) /\ Cardinality(U) \in Nat /\ Cardinality(U) <= Cardinality(Unused(h))
  <2>1. IsFiniteSet(Called(h, path[j])) /\ IsFiniteSet(Called(h, path[k]))
    BY <1>1, CalledFinite
  <2>2. IsFiniteSet(V) /\ U \subseteq V
    BY <2>1, FS_Union
  <2>3. Cardinality(V) >= Cardinality(U) /\ Cardinality(U) \in Nat /\ Cardinality(V) \in Nat
    <3> HIDE DEF U, V
    <3> QED BY <2>2, FS_Subset, FS_CardinalityType
  <2>4. Cardinality(Unused(h)) \in Nat /\ Cardinality(Unused(h)) >= Cardinality(V)
    BY SparesFinite
  <2> HIDE DEF V
  <2> QED BY <2>1, <2>3, <2>4
<1> HIDE DEF U
<1>3. ASSUME NEW is \in BOOLEAN
      PROVE  Made(HandTags(ListNew(h, l), l, Shared(h, j, k, is), TRUE), h, path, l)
  <2> DEFINE nodes == Shared(h, j, k, is)
             chosen == { i \in DOMAIN path[j] : HasTag(h, k, NameAt(h, path[j][i])) = is }
  <2>1. nodes = AtPlaces(path[j], chosen)
    BY <1>1 DEF Shared
  <2>2. chosen \subseteq 1 .. Len(path[j])
    BY PathNodes DEF Path
  <2>3. IsFiniteSet(chosen) /\ chosen \in SUBSET Nat
    <3> DEFINE a == Len(path[j])
    <3>1. 1 \in Int /\ a \in Int
      BY <1>1
    <3>2. IsFiniteSet(1 .. a)
      <4> HIDE DEF a
      <4> QED BY <3>1, FS_Interval
    <3>3. chosen \in SUBSET (1 .. a)
      BY <2>2
    <3>4. IsFiniteSet(chosen)
      <4> HIDE DEF chosen, a
      <4> QED BY <3>2, <3>3, FS_Subset
    <3>5. chosen \in SUBSET Nat
      <4> HIDE DEF chosen
      <4> QED BY <2>2
    <3> QED BY <3>4, <3>5
  <2> HIDE DEF chosen, nodes
  <2>4. Takes(nodes, path[j], chosen)
    BY <2>1, <2>3, AtPlacesSound
  <2>5. /\ IsList(nodes) /\ DOMAIN nodes = 1 .. Len(nodes)
        /\ \A i \in DOMAIN nodes : \E m \in chosen : nodes[i] = path[j][m]
    BY <2>4, TakesContents
  <2>6. Len(nodes) \in Nat
    BY <2>5, ListProperties
  <2>7. \A i \in 1 .. Len(nodes) : /\ nodes[i] \in Nodes /\ h.node[nodes[i]].tag # Nil
                                   /\ NameAt(h, nodes[i]) \in U
    BY <1>1, <2>2, <2>5
  <2>8. Enough(h, U, TRUE, Len(nodes))
    BY <1>2 DEF Enough
  <2>9. Handing(HandTags(ListNew(h, l), l, nodes, TRUE), ListNew(h, l), path, l, U, TRUE, 0)
    BY <1>2, <2>6, <2>7, <2>8, NewListFilled
  <2> QED BY <2>9, FilledIsMade DEF nodes
<1>4. Made(SetIntersection(h, l, j, k), h, path, l)
  BY <1>3, Zenon DEF SetIntersection
<1>5. Made(SetSubtract(h, l, j, k), h, path, l)
  BY <1>3, Zenon DEF SetSubtract
<1> QED BY <1>4, <1>5

(* A tag that a list has, put behind a node of one.                        *)
LEMMA InsertNodeSound ==
  ASSUME NEW h, NEW path, Sound(h, Nil, path), NEW l \in Lists, NEW i \in 1 .. Len(path[l]),
         NEW k \in Lists, NEW name, HasTag(h, k, name), Unused(h) # {}
  PROVE  LET g == InsertNext(h, l, path[l][i], h.node[FindNode(h, k, name)].tag)
         IN  (\E made : Sound(g, Nil, made) /\ Grown(made, path, l)) /\ SameRefs(g, h)
<1> DEFINE m == FindNode(h, k, name)
           t == h.node[m].tag
           n == path[l][i]
           new == FreshNode(h)
           g == InsertNext(h, l, n, t)
           made == [ path EXCEPT ![l] = PutIn(path[l], i, new) ]
<1>1. t \in Tags
  <2> DEFINE p == path[k]
             places == Matches(h, p, name)
  <2>1. Walk(h, k) = p /\ DOMAIN p = 1 .. Len(p)
    BY PathNodes DEF Path
  <2>2. m = FirstMatch(p, places) /\ m # Nil
    BY <2>1 DEF FindNode, HasTag
  <2>3. places \subseteq 1 .. Len(p) /\ places \in SUBSET Nat
    BY <2>1 DEF Matches
  <2> HIDE DEF m, places
  <2>4. places # {} /\ m = p[Min(places)]
    BY <2>2 DEF FirstMatch
  <2>5. Min(places) \in 1 .. Len(p)
    BY <2>3, <2>4, PlaceFound
  <2> QED BY <2>4, <2>5, PathNodes
<1> HIDE DEF t, m
<1>2. i \in 0 .. Len(path[l]) /\ i # 0 /\ Len(path[l]) \in Nat
  BY PathNodes
<1>3. n = IF i = 0 THEN Nil ELSE path[l][i]
  BY <1>2
<1> HIDE DEF n
<1>4. /\ Sound(g, Nil, made) /\ SameRefs(g, h) /\ new \in Unused(h)
  BY <1>1, <1>2, <1>3, InsertSound
<1>5. Grown(made, path, l)
  <2>1. Path(path[l]) /\ path = [ j \in Lists |-> path[j] ]
    BY DEF Sound
  <2>2. \A j \in 1 .. Len(path[l]) : path[l][j] # new
    BY <1>4, PathNodes
  <2>3. new \in Nodes
    BY <1>4 DEF Unused
  <2> HIDE DEF new
  <2> QED BY <1>2, <2>1, <2>2, <2>3, PutInGrown
<1> HIDE DEF g, made
<1> QED BY <1>4, <1>5 DEF g, n, t, m

(* Taking a node out of a path leaves the others on it.                    *)
LEMMA TakeOutKeeps ==
  ASSUME NEW p, Path(p), NEW i \in 1 .. Len(p), NEW k \in 1 .. Len(p), p[k] # p[i]
  PROVE  \E j \in 1 .. Len(TakeOut(p, i)) : TakeOut(p, i)[j] = p[k]
<1> DEFINE q == TakeOut(p, i)
           n == Len(p)
<1>1. n \in Nat /\ i \in 1 .. n /\ k \in 1 .. n /\ k # i
  BY DEF Path
<1>2. Len(q) = n - 1 /\ \A j \in 1 .. n - 1 : q[j] = IF j < i THEN p[j] ELSE p[j + 1]
  BY TakeOutPath
<1> HIDE DEF q, n
<1>3. CASE k < i
  <2>1. k \in 1 .. n - 1
    BY <1>1, <1>3
  <2> QED BY <1>2, <1>3, <2>1 DEF q
<1>4. CASE ~(k < i)
  <2>1. k - 1 \in 1 .. n - 1 /\ ~(k - 1 < i) /\ k - 1 + 1 = k
    BY <1>1, <1>4
  <2>2. q[k - 1] = p[k]
    BY <1>2, <2>1
  <2> QED BY <1>2, <2>1, <2>2 DEF q
<1> QED BY <1>3, <1>4

(* The words of a text are texts.                                          *)
LEMMA TokensAreTexts ==
  ASSUME NEW text \in Seq(Signs)
  PROVE  Tokens(text) \in Seq(Seq(Signs)) /\ Len(Tokens(text)) \in Nat
<1> DEFINE n == Len(text)
           dark(i) == i \in DOMAIN text /\ text[i] # Blank
           starts == { i \in DOMAIN text : dark(i) /\ ~dark(i - 1) }
           ends(i) == { j \in i .. Len(text) : ~dark(j + 1) }
           words == [ i \in DOMAIN text |-> SubSeq(text, i, Min(ends(i))) ]
           made == AtPlaces(words, starts)
<1>1. n \in Nat /\ DOMAIN text = 1 .. n
  BY LenProperties
<1>2. Tokens(text) = made
  BY DEF Tokens
<1>3. \A i \in 1 .. n : words[i] \in Seq(Signs)
  <2> TAKE i \in 1 .. n
  <2>1. ends(i) \in SUBSET Nat
    BY <1>1
  <2>2. n \in ends(i)
    BY <1>1
  <2>3. Min(ends(i)) \in ends(i)
    <3> HIDE DEF ends
    <3> QED BY <2>1, <2>2, PlaceFound
  <2>4. Min(ends(i)) \in Int /\ Min(ends(i)) <= Len(text)
    <3>1. \A j \in ends(i) : j \in Int /\ j <= Len(text)
      BY <1>1
    <3> HIDE DEF ends
    <3> QED BY <2>3, <3>1
  <2>5. words[i] = SubSeq(text, i, Min(ends(i)))
    BY <1>1
  <2> HIDE DEF words, ends, Signs
  <2> QED BY <2>4, <2>5, PartOfText DEF n
<1>4. starts \in SUBSET Nat /\ starts \subseteq 1 .. n
  BY <1>1
<1> HIDE DEF words, starts
<1>5. IsFiniteSet(starts)
  <2>1. IsFiniteSet(1 .. n)
    <3>1. 1 \in Int /\ n \in Int
      BY <1>1
    <3> HIDE DEF n
    <3> QED BY <3>1, FS_Interval
  <2> HIDE DEF n
  <2> QED BY <1>4, <2>1, FS_Subset
<1>6. Takes(made, words, starts)
  BY <1>4, <1>5, AtPlacesSound
<1> HIDE DEF made
<1>7. /\ IsList(made) /\ DOMAIN made = 1 .. Len(made)
      /\ \A k \in DOMAIN made : \E i \in starts : made[k] = words[i]
  BY <1>6, TakesContents
<1>8. \A k \in 1 .. Len(made) : made[k] \in Seq(Signs)
  BY <1>3, <1>4, <1>7
<1>9. made \in Seq(Seq(Signs))
  <2>1. made \in Seq(ToSet(made)) /\ Len(made) \in Nat
    BY <1>7, ListProperties DEF IsList
  <2>2. made = [ k \in 1 .. Len(made) |-> made[k] ]
    BY <2>1, <1>7, SeqDef
  <2>3. made \in [ 1 .. Len(made) -> Seq(Signs) ]
    BY <1>8, <2>2
  <2> DEFINE S == Seq(Signs)
             m == Len(made)
  <2>4. m \in Nat /\ made \in [ 1 .. m -> S ]
    BY <2>1, <2>3
  <2> HIDE DEF S, m
  <2>5. made \in Seq(S)
    BY <2>4, SeqDef
  <2> QED BY <2>5 DEF S
<1> QED BY <1>2, <1>7, <1>9, ListProperties

(***************************************************************************)
(* The invariant.  A list has a reference from its maker and one from the  *)
(* iterator if it is at that list, a list without references has no nodes, *)
(* and the iterator is at a node of its list or before a start.            *)
(***************************************************************************)
Referrers(own, it, l) == (IF l \in own THEN 1 ELSE 0) + (IF it.list = l THEN 1 ELSE 0)

(* The iterator, and where along the path of its list.                     *)
Placed(it, path) ==
  /\ it \in [ list : Lists \cup {NoList}, current : Nodes \cup {Nil} ]
  /\ it.list = NoList => it.current = Nil
  /\ it.current # Nil => \E i \in 1 .. Len(path[it.list]) : path[it.list][i] = it.current

Consistent(h, own, it, path) ==
  /\ Sound(h, Nil, path) /\ own \subseteq Lists /\ Placed(it, path)
  /\ \A l \in Lists : /\ h.list[l].refs = Referrers(own, it, l)
                      /\ h.list[l].refs = 0 => Len(path[l]) = 0

TagsKept == \E path : Consistent(heap, owned, iter, path)

(* A list has at most two references, and none when nobody refers to it.   *)
LEMMA ReferrersCount ==
  ASSUME NEW own, NEW it, NEW l
  PROVE  /\ Referrers(own, it, l) \in 0 .. 2
         /\ Referrers(own, it, l) = 0 <=> l \notin own /\ it.list # l
BY DEF Referrers

(* Calls that refer to the same lists and leave the nodes of every list    *)
(* but one, which somebody has, on their paths.                            *)
LEMMA ShapeKept ==
  ASSUME NEW h, NEW own, NEW it, NEW path, Consistent(h, own, it, path),
         NEW g, NEW made, Sound(g, Nil, made), SameRefs(g, h), NEW l \in own,
         \A k \in Lists : k # l => made[k] = path[k],
         it.list = l /\ it.current # Nil =>
           \E i \in 1 .. Len(made[l]) : made[l][i] = it.current
  PROVE  Consistent(g, own, it, made)
<1>1. Placed(it, made)
  <2>1. it.current # Nil => it.list \in Lists
    BY DEF Consistent, Placed
  <2>2. CASE it.list = l
    BY <2>2 DEF Consistent, Placed
  <2>3. CASE it.list # l
    BY <2>1, <2>3 DEF Consistent, Placed
  <2> QED BY <2>2, <2>3
<1>2. ASSUME NEW k \in Lists
      PROVE  g.list[k].refs = Referrers(own, it, k) /\ (g.list[k].refs = 0 => Len(made[k]) = 0)
  <2>1. g.list[k].refs = Referrers(own, it, k)
    BY DEF Consistent, SameRefs
  <2>2. g.list[k].refs = 0 => k # l
    <3>1. k = l => Referrers(own, it, k) # 0
      BY ReferrersCount
    <3> QED BY <2>1, <3>1
  <2>3. h.list[k].refs = 0 => Len(path[k]) = 0
    BY DEF Consistent
  <2>4. g.list[k].refs = h.list[k].refs
    BY DEF SameRefs
  <2> QED BY <2>1, <2>2, <2>3, <2>4
<1> QED BY <1>1, <1>2 DEF Consistent

(* A list that grows keeps the iterator at its node,                       *)
LEMMA GrownKept ==
  ASSUME NEW h, NEW own, NEW it, NEW path, Consistent(h, own, it, path),
         NEW g, NEW made, Sound(g, Nil, made), SameRefs(g, h), NEW l \in own, Grown(made, path, l)
  PROVE  Consistent(g, own, it, made)
<1>1. \A k \in Lists : k # l => made[k] = path[k]
  BY DEF Grown
<1>2. it.list = l /\ it.current # Nil => \E i \in 1 .. Len(made[l]) : made[l][i] = it.current
  BY DEF Grown, Consistent, Placed
<1> QED BY <1>1, <1>2, ShapeKept

(* so do the mutations,                                                    *)
LEMMA FilledKept ==
  ASSUME NEW h, NEW own, NEW it, NEW path, Consistent(h, own, it, path),
         NEW g, NEW l \in own, Filled(g, h, path, l)
  PROVE  \E made : Consistent(g, own, it, made)
<1>1. PICK made : Sound(g, Nil, made) /\ Grown(made, path, l)
  BY DEF Filled
<1>2. SameRefs(g, h)
  BY DEF Filled
<1> QED BY <1>1, <1>2, GrownKept

(* and calls that move no node.                                            *)
LEMMA ShapedKept ==
  ASSUME NEW h, NEW own, NEW it, NEW path, Consistent(h, own, it, path),
         NEW g, Shaped(g, h, Nil, path)
  PROVE  \E made : Consistent(g, own, it, made)
<1>1. Sound(g, Nil, path) /\ \A k \in Lists : g.list[k].refs = h.list[k].refs
  BY DEF Shaped, SameRefs
<1>2. Consistent(g, own, it, path)
  BY <1>1 DEF Consistent
<1> QED BY <1>2

(* A new list is its maker's, or given up again.                           *)
LEMMA MadeKept ==
  ASSUME NEW h, NEW own, NEW it, NEW path, Consistent(h, own, it, path), NEW l \in Lists,
         h.list[l].refs = 0, NEW g, Made(g, h, path, l)
  PROVE  \E made : Consistent(g, IF g.list[l].refs > 0 THEN own \cup {l} ELSE own, it, made)
<1> DEFINE mine == IF g.list[l].refs > 0 THEN own \cup {l} ELSE own
<1>1. PICK made : /\ Sound(g, Nil, made) /\ \A k \in Lists : k # l => made[k] = path[k]
                  /\ \/ Referred(g, h, l, 1)
                     \/ Referred(g, h, l, 0) /\ Len(made[l]) = 0
  BY DEF Made
<1>2. l \notin own /\ it.list # l
  BY ReferrersCount DEF Consistent
<1>3. /\ \A k \in Lists : k # l => g.list[k].refs = h.list[k].refs
      /\ \/ g.list[l].refs = 1
         \/ g.list[l].refs = 0 /\ Len(made[l]) = 0
  BY <1>1 DEF Referred
<1>4. \A k \in Lists : k # l => (k \in mine <=> k \in own)
  OBVIOUS
<1>5. (g.list[l].refs = 1 => l \in mine) /\ (g.list[l].refs = 0 => l \notin mine)
  BY <1>2
<1>6. mine \subseteq Lists
  BY DEF Consistent
<1> HIDE DEF mine
<1>7. Placed(it, made)
  <2>1. it.current # Nil => it.list \in Lists
    BY DEF Consistent, Placed
  <2> QED BY <1>1, <1>2, <2>1 DEF Consistent, Placed
<1>8. ASSUME NEW k \in Lists
      PROVE  g.list[k].refs = Referrers(mine, it, k) /\ (g.list[k].refs = 0 => Len(made[k]) = 0)
  <2>1. CASE k = l
    BY <1>2, <1>3, <1>5, <2>1 DEF Referrers
  <2>2. CASE k # l
    <3>1. Referrers(mine, it, k) = Referrers(own, it, k)
      BY <1>4, <2>2 DEF Referrers
    <3>2. h.list[k].refs = Referrers(own, it, k) /\ (h.list[k].refs = 0 => Len(path[k]) = 0)
      BY DEF Consistent
    <3> QED BY <1>1, <1>3, <2>2, <3>1, <3>2
  <2> QED BY <2>1, <2>2
<1>9. Consistent(g, mine, it, made)
  BY <1>1, <1>6, <1>7, <1>8 DEF Consistent
<1> QED BY <1>9 DEF mine

(* Giving up one of the references to a list.                              *)
LEMMA ReleasedKept ==
  ASSUME NEW h, NEW own, NEW it, NEW path, Consistent(h, own, it, path), NEW l \in Lists,
         NEW less, less \subseteq Lists, NEW at, Placed(at, path),
         \A k \in Lists : k # l => Referrers(less, at, k) = Referrers(own, it, k),
         Referrers(own, it, l) = Referrers(less, at, l) + 1
  PROVE  \E made : Consistent(ListRelinquish(h, l), less, at, made)
<1> DEFINE g == ListRelinquish(h, l)
           r == IF h.list[l].refs = 0 THEN 0 ELSE h.list[l].refs - 1
<1>1. Sound(h, Nil, path)
  BY DEF Consistent
<1>2. \E made : /\ Sound(g, Nil, made) /\ \A k \in Lists : k # l => made[k] = path[k]
                /\ Referred(g, h, l, r)
                /\ IF r = 0 THEN Len(made[l]) = 0 ELSE made[l] = path[l]
  BY <1>1, ListRelinquishSound
<1>3. r = Referrers(less, at, l)
  <2>1. h.list[l].refs = Referrers(own, it, l)
    BY DEF Consistent
  <2>2. Referrers(less, at, l) \in 0 .. 2
    BY ReferrersCount
  <2> DEFINE a == Referrers(less, at, l)
             b == Referrers(own, it, l)
  <2>3. b = a + 1 /\ a \in 0 .. 2 /\ h.list[l].refs = b
    BY <2>1, <2>2
  <2> HIDE DEF a, b
  <2>4. r = a
    BY <2>3
  <2> QED BY <2>4 DEF a
<1> HIDE DEF g, r
<1>4. PICK made : /\ Sound(g, Nil, made) /\ \A k \in Lists : k # l => made[k] = path[k]
                  /\ Referred(g, h, l, r)
                  /\ IF r = 0 THEN Len(made[l]) = 0 ELSE made[l] = path[l]
  BY <1>2
<1>5. Placed(at, made)
  <2>1. at.current # Nil => at.list \in Lists
    BY DEF Placed
  <2>2. CASE at.list = l
    <3>1. r # 0
      BY <1>3, <2>2, ReferrersCount
    <3> QED BY <1>4, <2>2, <3>1 DEF Placed
  <2>3. CASE at.list # l
    BY <1>4, <2>1, <2>3 DEF Placed
  <2> QED BY <2>2, <2>3
<1>6. ASSUME NEW k \in Lists
      PROVE  g.list[k].refs = Referrers(less, at, k) /\ (g.list[k].refs = 0 => Len(made[k]) = 0)
  <2>1. CASE k = l
    BY <1>3, <1>4, <2>1 DEF Referred
  <2>2. CASE k # l
    <3>1. h.list[k].refs = Referrers(own, it, k) /\ (h.list[k].refs = 0 => Len(path[k]) = 0)
      BY DEF Consistent
    <3>2. g.list[k].refs = h.list[k].refs /\ made[k] = path[k]
      BY <1>4, <2>2 DEF Referred
    <3> QED BY <2>2, <3>1, <3>2
  <2> QED BY <2>1, <2>2
<1>7. Consistent(g, less, at, made)
  BY <1>4, <1>5, <1>6 DEF Consistent
<1> QED BY <1>7 DEF g

(***************************************************************************)
(* Every action keeps the invariant.                                       *)
(***************************************************************************)

(* The room that a caller has made sure of.                                *)
LEMMA RoomIs ==
  /\ FreeNodes = Cardinality(Unused(heap)) /\ FreeNodes \in Nat /\ Spare \in Nat
  /\ \A k \in Nat : Room(k) => RoomFor(heap, k)
<1>1. FreeNodes = Cardinality(Unused(heap)) /\ FreeTags = Cardinality(Idle(heap))
  BY DEF FreeNodes, FreeTags, Unused, Idle
<1>2. Cardinality(Unused(heap)) \in Nat /\ Spare \in Nat
  BY SparesFinite, TagListAssumption
<1> QED BY <1>1, <1>2 DEF Room, RoomFor

(* What an action may rely on.                                             *)
LEMMA KeptFacts ==
  ASSUME NEW path, Consistent(heap, owned, iter, path)
  PROVE  /\ Sound(heap, Nil, path)
         /\ \A l \in owned : l \in Lists /\ heap.list[l].refs # 0
         /\ \A l \in FreshList : /\ l \in Lists /\ l \notin owned
                                 /\ heap.list[l].refs = 0 /\ Len(path[l]) = 0
         /\ \A l \in Lists : l \in Live <=> heap.list[l].refs # 0
<1>1. Sound(heap, Nil, path) /\ owned \subseteq Lists
  BY DEF Consistent
<1>2. \A l \in Lists : heap.list[l].refs \in Nat
  BY <1>1 DEF Sound, Heaps
<1>3. \A l \in Lists : /\ heap.list[l].refs = Referrers(owned, iter, l)
                       /\ heap.list[l].refs = 0 => Len(path[l]) = 0
  BY DEF Consistent
<1>4. \A l \in Lists : l \in Live <=> heap.list[l].refs # 0
  BY <1>2 DEF Live
<1>5. \A l \in owned : Referrers(owned, iter, l) # 0
  BY ReferrersCount
<1>6. \A l \in FreshList : l \in Lists /\ l \notin Live
  BY DEF FreshList
<1> QED BY <1>1, <1>3, <1>4, <1>5, <1>6

(* What a caller passes in are texts.                                      *)
LEMMA InputsAreTexts ==
  /\ \A text \in TagInputs \cup ListInputs : text \in Seq(Signs)
  /\ \A words \in { << >> } \cup { << a >> : a \in TagInputs } :
       words \in Seq(Seq(Signs)) /\ Len(words) \in Nat
<1>1. \A text \in TagInputs \cup ListInputs : text \in Seq(Signs)
  BY TagListAssumption DEF Signs
<1> DEFINE S == Seq(Signs)
<1>2. \A a \in TagInputs : a \in S
  BY <1>1
<1> HIDE DEF S
<1>3. \A a \in TagInputs : << a >> \in Seq(S) /\ Len(<< a >>) \in Nat
  BY <1>2
<1>4. << >> \in Seq(S) /\ Len(<< >>) \in Nat
  OBVIOUS
<1>5. \A words \in { << >> } \cup { << a >> : a \in TagInputs } : words \in Seq(S) /\ Len(words) \in Nat
  BY <1>3, <1>4
<1> QED BY <1>1, <1>5 DEF S

(* A function that makes a list keeps the invariant,                       *)
LEMMA MakesKept ==
  ASSUME NEW path, Consistent(heap, owned, iter, path), NEW l \in FreshList,
         NEW g, Made(g, heap, path, l), Makes(l, g)
  PROVE  TagsKept'
<1>1. /\ heap' = g /\ iter' = iter
      /\ owned' = IF g.list[l].refs > 0 THEN owned \cup {l} ELSE owned
  BY DEF Makes
<1>2. l \in Lists /\ heap.list[l].refs = 0
  BY KeptFacts
<1>3. \E made : Consistent(g, IF g.list[l].refs > 0 THEN owned \cup {l} ELSE owned, iter, made)
  BY <1>2, MadeKept
<1> QED BY <1>1, <1>3 DEF TagsKept

(* and one that changes the lists that are there.                          *)
LEMMA BecomesKept ==
  ASSUME NEW g, Becomes(g), \E made : Consistent(g, owned, iter, made)
  PROVE  TagsKept'
<1>1. heap' = g /\ owned' = owned /\ iter' = iter
  BY DEF Becomes
<1> QED BY <1>1 DEF TagsKept

(* lcfgtaglist_from_string                                                 *)
LEMMA FromStringKept ==
  ASSUME TagsKept, NEW l \in FreshList, FromString(l)
  PROVE  TagsKept'
<1>1. PICK path : Consistent(heap, owned, iter, path)
  BY DEF TagsKept
<1>2. PICK text \in ListInputs :
        Room(Len(Tokens(text))) /\ Makes(l, FromWords(heap, l, Tokens(text)))
  BY DEF FromString
<1>3. Tokens(text) \in Seq(Seq(Signs)) /\ Len(Tokens(text)) \in Nat
  BY InputsAreTexts, TokensAreTexts, LenProperties
<1>4. Made(FromWords(heap, l, Tokens(text)), heap, path, l)
  BY <1>1, <1>2, <1>3, KeptFacts, RoomIs, FromWordsSound
<1> QED BY <1>1, <1>2, <1>4, MakesKept

(* lcfgtaglist_from_array                                                  *)
LEMMA FromArrayKept ==
  ASSUME TagsKept, NEW l \in FreshList, FromArray(l)
  PROVE  TagsKept'
<1>1. PICK path : Consistent(heap, owned, iter, path)
  BY DEF TagsKept
<1>2. PICK words \in { << >> } \cup { << a >> : a \in TagInputs } :
        Room(Len(words)) /\ Makes(l, FromWords(heap, l, words))
  BY Zenon DEF FromArray
<1>3. words \in Seq(Seq(Signs)) /\ Len(words) \in Nat
  BY InputsAreTexts
<1>4. Made(FromWords(heap, l, words), heap, path, l)
  BY <1>1, <1>2, <1>3, KeptFacts, RoomIs, FromWordsSound
<1> QED BY <1>1, <1>2, <1>4, MakesKept

(* lcfgtaglist_clone and the set functions                                 *)
LEMMA CombineKept ==
  ASSUME TagsKept, NEW l \in FreshList, Combine(l)
  PROVE  TagsKept'
<1>1. PICK path : Consistent(heap, owned, iter, path)
  BY DEF TagsKept
<1>2. /\ Sound(heap, Nil, path) /\ l \in Lists /\ Len(path[l]) = 0
      /\ \A k \in owned : k \in Lists /\ k # l
  BY <1>1, KeptFacts
<1>3. PICK j \in owned, k \in owned :
        \/ Room(heap.list[k].size) /\ Makes(l, Clone(heap, l, k))
        \/ Room(heap.list[k].size) /\ Makes(l, SetUnique(heap, l, k))
        \/ /\ FreeNodes >= Spare + Cardinality(ToSet(NamesOf(heap, j)) \cup ToSet(NamesOf(heap, k)))
           /\ \/ Makes(l, SetUnion(heap, l, j, k))
              \/ Makes(l, SetIntersection(heap, l, j, k))
              \/ Makes(l, SetSubtract(heap, l, j, k))
  <2>1. PICK j \in owned, k \in owned : OfOne(l, k) \/ OfTwo(l, j, k)
    BY Zenon DEF Combine
  <2>2. CASE OfOne(l, k)
    BY <2>2, Zenon DEF OfOne
  <2>3. CASE OfTwo(l, j, k)
    BY <2>3, Zenon DEF OfTwo
  <2> QED BY <2>1, <2>2, <2>3
<1>4. j \in Lists /\ k \in Lists /\ k # l
  BY <1>2
<1>5. CASE Room(heap.list[k].size) /\ (Makes(l, Clone(heap, l, k)) \/ Makes(l, SetUnique(heap, l, k)))
  <2>1. Cardinality(Unused(heap)) >= heap.list[k].size
    <3>1. heap.list[k].size \in Nat
      BY <1>2, <1>4 DEF Sound, Heaps
    <3> QED BY <1>5, <3>1, RoomIs DEF RoomFor
  <2>2. Made(Clone(heap, l, k), heap, path, l) /\ Made(SetUnique(heap, l, k), heap, path, l)
    BY <1>2, <1>4, <2>1, CopySound
  <2> QED BY <1>1, <1>5, <2>2, MakesKept
<1>6. CASE /\ FreeNodes >= Spare + Cardinality(ToSet(NamesOf(heap, j)) \cup ToSet(NamesOf(heap, k)))
           /\ \/ Makes(l, SetUnion(heap, l, j, k))
              \/ Makes(l, SetIntersection(heap, l, j, k))
              \/ Makes(l, SetSubtract(heap, l, j, k))
  <2>1. Cardinality(Unused(heap)) >= Cardinality(Called(heap, path[j]) \cup Called(heap, path[k]))
    <3>1. ToSet(NamesOf(heap, j)) = Called(heap, path[j]) /\ ToSet(NamesOf(heap, k)) = Called(heap, path[k])
      BY <1>2, <1>4, NamesAreCalled
    <3>2. IsFiniteSet(Called(heap, path[j])) /\ IsFiniteSet(Called(heap, path[k]))
      BY <1>2, <1>4, CalledFinite DEF Sound
    <3>3. Cardinality(Called(heap, path[j]) \cup Called(heap, path[k])) \in Nat
      BY <3>2, FS_Union, FS_CardinalityType
    <3> QED BY <1>6, <3>1, <3>3, RoomIs
  <2>2. /\ Made(SetUnion(heap, l, j, k), heap, path, l)
        /\ Made(SetIntersection(heap, l, j, k), heap, path, l)
        /\ Made(SetSubtract(heap, l, j, k), heap, path, l)
    BY <1>2, <1>4, <2>1, UnionSound, SharedSound
  <2> QED BY <1>1, <1>6, <2>2, MakesKept
<1> QED BY <1>3, <1>5, <1>6

(* lcfgtaglist_mutate_append, _prepend and _add                            *)
LEMMA EditKept ==
  ASSUME TagsKept, NEW l \in owned, Edit(l)
  PROVE  TagsKept'
<1>1. PICK path : Consistent(heap, owned, iter, path)
  BY DEF TagsKept
<1>2. PICK text \in TagInputs :
        /\ Room(1)
        /\ \/ Becomes(MutateAppend(heap, l, text))
           \/ Becomes(MutatePrepend(heap, l, text))
           \/ Becomes(MutateAdd(heap, l, text))
  BY DEF Edit
<1>3. /\ Filled(MutateAppend(heap, l, text), heap, path, l)
      /\ Filled(MutatePrepend(heap, l, text), heap, path, l)
      /\ Filled(MutateAdd(heap, l, text), heap, path, l)
  BY <1>1, <1>2, KeptFacts, RoomIs, InputsAreTexts, MutateSound
<1>4. \A g : Filled(g, heap, path, l) => \E made : Consistent(g, owned, iter, made)
  BY <1>1, FilledKept
<1> QED BY <1>2, <1>3, <1>4, BecomesKept

(* lcfgtaglist_insert_next                                                 *)
LEMMA InsertKept ==
  ASSUME TagsKept, NEW l \in owned, Insert(l)
  PROVE  TagsKept'
<1>1. PICK path : Consistent(heap, owned, iter, path)
  BY DEF TagsKept
<1>2. Sound(heap, Nil, path) /\ l \in Lists /\ owned \subseteq Lists
  BY <1>1, KeptFacts
<1>3. PICK n \in ToSet(Walk(heap, l)), k \in owned, name \in Names :
        /\ FreeNodes > Spare /\ HasTag(heap, k, name)
        /\ Becomes(InsertNext(heap, l, n, heap.node[FindNode(heap, k, name)].tag))
  BY Zenon DEF Insert
<1>4. PICK i \in 1 .. Len(path[l]) : path[l][i] = n
  <2>1. Walk(heap, l) = path[l] /\ Path(path[l])
    BY <1>2, PathNodes
  <2> QED BY <2>1, PathFits
<1>5. Unused(heap) # {}
  <2>1. Cardinality(Unused(heap)) > 0
    BY <1>3, RoomIs
  <2> QED BY <2>1, SparesFinite
<1> DEFINE g == InsertNext(heap, l, path[l][i], heap.node[FindNode(heap, k, name)].tag)
<1>6. (\E made : Sound(g, Nil, made) /\ Grown(made, path, l)) /\ SameRefs(g, heap)
  BY <1>2, <1>3, <1>5, InsertNodeSound
<1>7. Becomes(g)
  BY <1>3, <1>4
<1> HIDE DEF g
<1>8. \E made : Consistent(g, owned, iter, made)
  BY <1>1, <1>6, GrownKept
<1> QED BY <1>7, <1>8, BecomesKept

(* lcfgtaglist_remove_tag: the iterator is at another node, which stays on *)
(* its path.                                                               *)
LEMMA RemoveNodeKept ==
  ASSUME TagsKept, NEW l \in owned, RemoveNode(l)
  PROVE  TagsKept'
<1>1. PICK path : Consistent(heap, owned, iter, path)
  BY DEF TagsKept
<1>2. Sound(heap, Nil, path) /\ l \in Lists
  BY <1>1, KeptFacts
<1>3. PICK n \in ToSet(Walk(heap, l)) : iter.current # n /\ Becomes(RemoveTag(heap, l, n))
  BY DEF RemoveNode
<1>4. Path(path[l]) /\ Walk(heap, l) = path[l]
  BY <1>2, PathNodes
<1>5. PICK i \in 1 .. Len(path[l]) : path[l][i] = n
  BY <1>3, <1>4, PathFits
<1> DEFINE g == RemoveTag(heap, l, path[l][i])
           made == [ path EXCEPT ![l] = TakeOut(path[l], i) ]
<1>6. Sound(g, Nil, made) /\ SameRefs(g, heap)
  BY <1>2, RemoveSound
<1>7. Becomes(g)
  BY <1>3, <1>5
<1>8. made[l] = TakeOut(path[l], i) /\ \A k \in Lists : k # l => made[k] = path[k]
  <2>1. path = [ k \in Lists |-> path[k] ]
    BY <1>2 DEF Sound
  <2> QED BY <1>2, <2>1
<1> HIDE DEF g, made
<1>9. iter.list = l /\ iter.current # Nil => \E j \in 1 .. Len(made[l]) : made[l][j] = iter.current
  <2>1. SUFFICES ASSUME iter.list = l, iter.current # Nil
                 PROVE  \E j \in 1 .. Len(made[l]) : made[l][j] = iter.current
    OBVIOUS
  <2>2. PICK k \in 1 .. Len(path[l]) : path[l][k] = iter.current
    BY <1>1, <2>1 DEF Consistent, Placed
  <2>3. path[l][k] # path[l][i]
    BY <1>3, <1>5, <2>2
  <2>4. \E j \in 1 .. Len(TakeOut(path[l], i)) : TakeOut(path[l], i)[j] = path[l][k]
    BY <1>4, <2>3, TakeOutKeeps
  <2> QED BY <1>8, <2>2, <2>4
<1>10. Consistent(g, owned, iter, made)
  BY <1>1, <1>6, <1>8, <1>9, ShapeKept
<1> QED BY <1>7, <1>10, BecomesKept

(* lcfgtaglist_mutate_replace and lcfgtaglist_sort                         *)
LEMMA RearrangeKept ==
  ASSUME TagsKept, NEW l \in owned, ReplaceTag(l) \/ SortList(l)
  PROVE  TagsKept'
<1>1. PICK path : Consistent(heap, owned, iter, path)
  BY DEF TagsKept
<1>2. Sound(heap, Nil, path) /\ l \in Lists
  BY <1>1, KeptFacts
<1>3. \A g : Shaped(g, heap, Nil, path) => \E made : Consistent(g, owned, iter, made)
  BY <1>1, ShapedKept
<1>4. CASE ReplaceTag(l)
  <2>1. PICK match \in Names, text \in TagInputs, global \in BOOLEAN :
          Room(1) /\ Becomes(MutateReplace(heap, l, match, text, global))
    BY <1>4 DEF ReplaceTag
  <2>2. Shaped(MutateReplace(heap, l, match, text, global), heap, Nil, path)
    BY <1>2, <2>1, RoomIs, InputsAreTexts, ReplaceSound
  <2> QED BY <1>3, <2>1, <2>2, BecomesKept
<1>5. CASE SortList(l)
  <2>1. Shaped(SortTags(heap, l), heap, Nil, path)
    BY <1>2, SortTagsSound
  <2>2. Becomes(SortTags(heap, l))
    BY <1>5 DEF SortList
  <2> QED BY <1>3, <2>1, <2>2, BecomesKept
<1> QED BY <1>4, <1>5

(* A count that is written is the count of the list.                       *)
LEMMA RefsAre ==
  ASSUME NEW h \in Heaps, NEW l \in Lists, NEW r \in Nat
  PROVE  [ h EXCEPT !.list[l].refs = r ] = WithRefs(h, l, r)
<1> DEFINE ListType == [ head : Nodes \cup {Nil}, tail : Nodes \cup {Nil}, size : Nat, refs : Nat ]
           entry == [ head |-> h.list[l].head, tail |-> h.list[l].tail,
                      size |-> h.list[l].size, refs |-> r ]
<1>1. h = [ tag |-> h.tag, node |-> h.node, list |-> h.list ] /\ h.list \in [ Lists -> ListType ]
  BY DEF Heaps
<1>2. WithRefs(h, l, r) = [ tag |-> h.tag, node |-> h.node, list |-> [ h.list EXCEPT ![l] = entry ] ]
  BY <1>1 DEF WithRefs
<1>3. [ h.list[l] EXCEPT !.refs = r ] = entry
  <2>1. h.list[l] \in ListType
    BY <1>1
  <2> QED BY <2>1
<1>4. [ h.list EXCEPT ![l] = [ h.list[l] EXCEPT !.refs = r ] ] = [ h.list EXCEPT ![l] = entry ]
  BY <1>3
<1>5. [ h EXCEPT !.list[l].refs = r ]
        = [ tag |-> h.tag, node |-> h.node, list |-> [ h.list EXCEPT ![l] = [ h.list[l] EXCEPT !.refs = r ] ] ]
  BY <1>1
<1> QED BY <1>2, <1>4, <1>5

(* lcfgtaglist_relinquish, by who made the list                            *)
LEMMA RelinquishKept ==
  ASSUME TagsKept, NEW l \in owned, Relinquish(l)
  PROVE  TagsKept'
<1>1. PICK path : Consistent(heap, owned, iter, path)
  BY DEF TagsKept
<1>2. owned \subseteq Lists /\ Placed(iter, path)
  BY <1>1 DEF Consistent
<1> DEFINE less == owned \ {l}
<1>3. Referrers(owned, iter, l) = Referrers(less, iter, l) + 1
  BY DEF Referrers
<1>4. \A k \in Lists : k # l => Referrers(less, iter, k) = Referrers(owned, iter, k)
  BY DEF Referrers
<1>5. \E made : Consistent(ListRelinquish(heap, l), less, iter, made)
  BY <1>1, <1>2, <1>3, <1>4, ReleasedKept
<1>6. heap' = ListRelinquish(heap, l) /\ owned' = less /\ iter' = iter
  BY DEF Relinquish
<1> HIDE DEF less
<1> QED BY <1>5, <1>6 DEF TagsKept

(* An iterator that is at something is at a list.                          *)
LEMMA IteratorAtList ==
  ASSUME NEW path, Consistent(heap, owned, iter, path)
  PROVE  /\ iter = [ list |-> iter.list, current |-> iter.current ]
         /\ iter.list \in Lists \cup {NoList} /\ iter.current \in Nodes \cup {Nil}
         /\ NoList \notin Lists
         /\ iter # NoIterator => iter.list \in Lists
         /\ iter.current # Nil => iter.list \in Lists
<1>1. iter \in [ list : Lists \cup {NoList}, current : Nodes \cup {Nil} ]
      /\ (iter.list = NoList => iter.current = Nil)
  BY DEF Consistent, Placed
<1> QED BY <1>1, TagListAssumption DEF NoIterator

(* lcfgtagiter_new: the iterator refers to its list.                       *)
LEMMA IterNewKept ==
  ASSUME TagsKept, NEW l \in owned, IterNew(l)
  PROVE  TagsKept'
<1>1. PICK path : Consistent(heap, owned, iter, path)
  BY DEF TagsKept
<1> DEFINE r == heap.list[l].refs + 1
           g == WithRefs(heap, l, r)
           at == [ list |-> l, current |-> Nil ]
<1>2. Sound(heap, Nil, path) /\ l \in Lists /\ owned \subseteq Lists /\ heap \in Heaps /\ r \in Nat
  <2>1. Sound(heap, Nil, path) /\ l \in Lists /\ heap \in Heaps
    BY <1>1, KeptFacts DEF Sound
  <2> QED BY <1>1, <2>1 DEF Heaps, Consistent
<1>3. heap' = g /\ iter' = at /\ owned' = owned /\ iter = NoIterator
  <2>1. [ heap EXCEPT !.list[l].refs = heap.list[l].refs + 1 ] = WithRefs(heap, l, r)
    BY <1>2, RefsAre
  <2> QED BY <2>1 DEF IterNew
<1>4. Sound(g, Nil, path) /\ \A k \in Lists : g.list[k].refs = IF k = l THEN r ELSE heap.list[k].refs
  <2>1. \A s \in Nat : /\ Sound(WithRefs(heap, l, s), Nil, path)
                       /\ \A k \in Lists : WithRefs(heap, l, s).list[k].refs = IF k = l THEN s ELSE heap.list[k].refs
    BY <1>2, ListRefsSound
  <2> QED BY <1>2, <2>1
<1>5. Placed(at, path)
  <2>1. l # NoList
    BY <1>2, TagListAssumption
  <2> QED BY <1>2, <2>1 DEF Placed
<1>6. ASSUME NEW k \in Lists
      PROVE  g.list[k].refs = Referrers(owned, at, k) /\ (g.list[k].refs = 0 => Len(path[k]) = 0)
  <2>1. heap.list[k].refs = Referrers(owned, iter, k) /\ (heap.list[k].refs = 0 => Len(path[k]) = 0)
    BY <1>1 DEF Consistent
  <2>2. iter.list # k
    BY <1>3, TagListAssumption DEF NoIterator
  <2>3. CASE k = l
    <3>1. g.list[k].refs = 2
      BY <1>4, <2>1, <2>2, <2>3 DEF Referrers
    <3> QED BY <2>3, <3>1 DEF Referrers
  <2>4. CASE k # l
    <3>1. g.list[k].refs = heap.list[k].refs
      BY <1>4, <2>4
    <3>2. Referrers(owned, at, k) = Referrers(owned, iter, k)
      BY <2>2, <2>4 DEF Referrers
    <3> QED BY <2>1, <3>1, <3>2
  <2> QED BY <2>3, <2>4
<1> HIDE DEF g, at
<1>7. Consistent(g, owned, at, path)
  BY <1>2, <1>4, <1>5, <1>6 DEF Consistent
<1> QED BY <1>3, <1>7 DEF TagsKept

(* lcfgtagiter_destroy: it does no longer.                                 *)
LEMMA IterDestroyKept ==
  ASSUME TagsKept, IterDestroy
  PROVE  TagsKept'
<1>1. PICK path : Consistent(heap, owned, iter, path)
  BY DEF TagsKept
<1>2. /\ iter # NoIterator /\ heap' = ListRelinquish(heap, iter.list)
      /\ iter' = NoIterator /\ owned' = owned
  BY DEF IterDestroy
<1> DEFINE l == iter.list
<1>3. l \in Lists /\ NoList \notin Lists /\ owned \subseteq Lists
  BY <1>1, <1>2, IteratorAtList DEF Consistent
<1>4. Placed(NoIterator, path)
  BY DEF Placed, NoIterator
<1>5. Referrers(owned, iter, l) = Referrers(owned, NoIterator, l) + 1
  BY <1>3 DEF Referrers, NoIterator
<1>6. \A k \in Lists : k # l => Referrers(owned, NoIterator, k) = Referrers(owned, iter, k)
  BY <1>3 DEF Referrers, NoIterator
<1> HIDE DEF l
<1>7. \E made : Consistent(ListRelinquish(heap, l), owned, NoIterator, made)
  BY <1>1, <1>3, <1>4, <1>5, <1>6, ReleasedKept
<1> QED BY <1>2, <1>7 DEF TagsKept, l

(* The iterator comes to a node of its list, or before a start.            *)
LEMMA MovedKept ==
  ASSUME NEW path, Consistent(heap, owned, iter, path), iter.list \in Lists, NEW m,
         m = Nil \/ \E i \in 1 .. Len(path[iter.list]) : path[iter.list][i] = m,
         heap' = heap, owned' = owned, iter' = [ iter EXCEPT !.current = m ]
  PROVE  TagsKept'
<1> DEFINE at == [ iter EXCEPT !.current = m ]
<1>1. at = [ list |-> iter.list, current |-> m ]
  BY IteratorAtList
<1>2. m \in Nodes \cup {Nil}
  <2>1. Path(path[iter.list])
    BY DEF Consistent, Sound
  <2> QED BY <2>1 DEF Path
<1>3. Placed(at, path)
  <2>1. iter.list # NoList
    BY IteratorAtList
  <2> HIDE DEF at
  <2> QED BY <1>1, <1>2, <2>1 DEF Placed
<1>4. \A k : Referrers(owned, at, k) = Referrers(owned, iter, k)
  BY <1>1 DEF Referrers
<1> HIDE DEF at
<1>5. Consistent(heap, owned, at, path)
  BY <1>3, <1>4 DEF Consistent
<1> QED BY <1>5 DEF TagsKept, at

(* lcfgtagiter_next, lcfgtagiter_prev and lcfgtagiter_reset: the neighbour *)
(* of a node along its list is on the path of it.                          *)
LEMMA IterMoveKept ==
  ASSUME TagsKept, IterNext \/ IterPrev \/ IterReset
  PROVE  TagsKept'
<1>1. PICK path : Consistent(heap, owned, iter, path)
  BY DEF TagsKept
<1> DEFINE l == iter.list
           p == path[l]
           n == Len(p)
<1>2. l \in Lists
  BY <1>1, IteratorAtList DEF IterNext, IterPrev, IterReset
<1>3. /\ n \in Nat
      /\ heap.list[l].size = n
      /\ n # 0 => heap.list[l].head = p[1] /\ heap.list[l].tail = p[n]
      /\ \A i \in 1 .. n : /\ heap.node[p[i]].prev = IF i = 1 THEN Nil ELSE p[i - 1]
                           /\ heap.node[p[i]].next = IF i = n THEN Nil ELSE p[i + 1]
  <2>1. Path(path[l]) /\ Laid(heap, l, path[l])
    BY <1>1, <1>2 DEF Consistent, Sound
  <2> QED BY <2>1 DEF Path, Laid
<1>4. iter.current # Nil => \E i \in 1 .. n : p[i] = iter.current
  BY <1>1 DEF Consistent, Placed
<1>5. \A m : /\ m = Nil \/ \E i \in 1 .. n : p[i] = m
             /\ heap' = heap /\ owned' = owned /\ iter' = [ iter EXCEPT !.current = m ]
             => TagsKept'
  BY <1>1, <1>2, MovedKept
<1> HIDE DEF n, p, l
<1>6. ASSUME NEW i \in 1 .. n
      PROVE  (i # 1 => i - 1 \in 1 .. n) /\ (i # n => i + 1 \in 1 .. n)
  BY <1>3
<1>7. n # 0 => 1 \in 1 .. n /\ n \in 1 .. n
  BY <1>3
<1>8. CASE IterNext
  <2> DEFINE m == IF iter.current = Nil THEN heap.list[l].head ELSE heap.node[iter.current].next
  <2>1. /\ heap' = heap /\ owned' = owned /\ iter' = [ iter EXCEPT !.current = m ]
        /\ IF iter.current = Nil THEN n # 0 ELSE heap.node[iter.current].next # Nil
    BY <1>3, <1>8, Zenon DEF IterNext, IsEmpty, l
  <2>2. \E i \in 1 .. n : p[i] = m
    <3>1. CASE iter.current = Nil
      BY <1>3, <1>7, <2>1, <3>1
    <3>2. CASE iter.current # Nil
      <4>1. PICK i \in 1 .. n : p[i] = iter.current
        BY <1>4, <3>2
      <4>2. i # n /\ m = p[i + 1]
        BY <1>3, <2>1, <3>2, <4>1
      <4> QED BY <1>6, <4>2
    <3> QED BY <3>1, <3>2
  <2> HIDE DEF m
  <2> QED BY <1>5, <2>1, <2>2
<1>9. CASE IterPrev
  <2> DEFINE m == IF iter.current = Nil THEN heap.list[l].tail ELSE heap.node[iter.current].prev
  <2>1. /\ heap' = heap /\ owned' = owned /\ iter' = [ iter EXCEPT !.current = m ]
        /\ IF iter.current = Nil THEN n # 0 ELSE heap.node[iter.current].prev # Nil
    BY <1>3, <1>9, Zenon DEF IterPrev, IsEmpty, l
  <2>2. \E i \in 1 .. n : p[i] = m
    <3>1. CASE iter.current = Nil
      BY <1>3, <1>7, <2>1, <3>1
    <3>2. CASE iter.current # Nil
      <4>1. PICK i \in 1 .. n : p[i] = iter.current
        BY <1>4, <3>2
      <4>2. i # 1 /\ m = p[i - 1]
        BY <1>3, <2>1, <3>2, <4>1
      <4> QED BY <1>6, <4>2
    <3> QED BY <3>1, <3>2
  <2> HIDE DEF m
  <2> QED BY <1>5, <2>1, <2>2
<1>10. CASE IterReset
  BY <1>5, <1>10 DEF IterReset
<1> QED BY <1>8, <1>9, <1>10

(***************************************************************************)
(* What holds of tag lists, whoever uses them.                             *)
(***************************************************************************)

(* Before the first call there is nothing.                                 *)
LEMMA NoTags ==
  TagInit => TagsKept
<1> SUFFICES ASSUME TagInit PROVE TagsKept
  OBVIOUS
<1> DEFINE path == [ l \in Lists |-> << >> ]
<1>1. /\ heap = [ tag |-> heap.tag, node |-> heap.node, list |-> heap.list ]
      /\ heap.tag = [ t \in Tags |-> FreeTag ]
      /\ heap.node = [ n \in Nodes |-> FreeNode ]
      /\ heap.list = [ l \in Lists |-> FreeList ]
      /\ owned = {} /\ iter = NoIterator
  BY DEF TagInit
<1>2. heap \in Heaps
  <2>1. heap.tag \in [ Tags -> [ name : Names \cup {Nil}, refs : Nat ] ]
    BY <1>1 DEF FreeTag
  <2>2. heap.node \in [ Nodes -> [ tag : Tags \cup {Nil}, prev : Nodes \cup {Nil}, next : Nodes \cup {Nil} ] ]
    BY <1>1 DEF FreeNode
  <2>3. heap.list \in [ Lists -> [ head : Nodes \cup {Nil}, tail : Nodes \cup {Nil}, size : Nat, refs : Nat ] ]
    BY <1>1 DEF FreeList
  <2> QED BY <1>1, <2>1, <2>2, <2>3 DEF Heaps
<1>3. \A l \in Lists : path[l] = << >> /\ Len(path[l]) = 0
  OBVIOUS
<1>4. \A l \in Lists : Path(path[l]) /\ Laid(heap, l, path[l])
  <2> TAKE l \in Lists
  <2>1. << >> \in Seq(Nodes) /\ Len(<< >>) = 0 /\ DOMAIN << >> = 1 .. 0
    OBVIOUS
  <2>2. heap.list[l] = FreeList
    BY <1>1
  <2> QED BY <1>3, <2>1, <2>2 DEF Path, Laid, FreeList
<1> HIDE DEF path
<1>5. Apart(path)
  BY <1>3 DEF Apart
<1>6. \A n \in Nodes : heap.node[n].tag = Nil /\ ~On(path, n)
  BY <1>1, <1>3 DEF On, FreeNode
<1>7. Counted(heap, Nil)
  <2> SUFFICES ASSUME NEW t \in Tags
               PROVE  heap.tag[t].refs = Cardinality(Holders(heap, t)) + (IF t = Nil THEN 1 ELSE 0)
    BY DEF Counted
  <2>1. t # Nil
    BY NilIsNoNode
  <2>2. Holders(heap, t) = {}
    BY <1>6, <2>1 DEF Holders
  <2>3. heap.tag[t].refs = 0
    BY <1>1 DEF FreeTag
  <2> QED BY <2>1, <2>2, <2>3, FS_EmptySet
<1>8. Sound(heap, Nil, path)
  BY <1>2, <1>4, <1>5, <1>6, <1>7 DEF Sound, path
<1>9. Placed(iter, path)
  BY <1>1 DEF Placed, NoIterator
<1>10. \A l \in Lists : heap.list[l].refs = Referrers(owned, iter, l)
  BY <1>1, TagListAssumption DEF FreeList, Referrers, NoIterator
<1> QED BY <1>1, <1>3, <1>8, <1>9, <1>10 DEF TagsKept, Consistent

(* Every step keeps the invariant.                                         *)
LEMMA TagStepKept ==
  TagsKept /\ [TagNext]_tagVars => TagsKept'
<1> SUFFICES ASSUME TagsKept, [TagNext]_tagVars PROVE TagsKept'
  OBVIOUS
<1>1. CASE UNCHANGED tagVars
  BY <1>1 DEF TagsKept, tagVars
<1>2. ASSUME NEW l \in FreshList, FromString(l) \/ FromArray(l) \/ Combine(l)
      PROVE  TagsKept'
  BY <1>2, FromStringKept, FromArrayKept, CombineKept
<1>3. ASSUME NEW l \in owned,
             \/ Edit(l) \/ Insert(l) \/ RemoveNode(l) \/ ReplaceTag(l) \/ SortList(l)
             \/ Relinquish(l) \/ IterNew(l)
      PROVE  TagsKept'
  BY <1>3, EditKept, InsertKept, RemoveNodeKept, RearrangeKept, RelinquishKept, IterNewKept
<1>4. CASE IterNext \/ IterPrev \/ IterReset \/ IterDestroy
  BY <1>4, IterMoveKept, IterDestroyKept
<1> QED BY <1>1, <1>2, <1>3, <1>4 DEF TagNext

(* The invariant says that the structures have their types,                *)
LEMMA KeptIsTyped ==
  ASSUME NEW path, Consistent(heap, owned, iter, path)
  PROVE  TagsTyped
<1>1. Sound(heap, Nil, path) /\ heap \in Heaps
  BY KeptFacts DEF Sound
<1>2. heap.tag \in [ Tags -> [ name : Names \cup {Nil}, refs : 0 .. NodeCount + 1 ] ]
  <2>1. heap.tag \in [ Tags -> [ name : Names \cup {Nil}, refs : Nat ] ]
    BY <1>1 DEF Heaps
  <2>2. \A t \in Tags : heap.tag[t].refs \in 0 .. NodeCount + 1
    <3> TAKE t \in Tags
    <3>1. heap.tag[t].refs = Cardinality(Holders(heap, t)) + (IF t = Nil THEN 1 ELSE 0) /\ t # Nil
      BY <1>1, NilIsNoNode DEF Sound, Counted
    <3>2. Cardinality(Holders(heap, t)) \in Nat /\ Holders(heap, t) \subseteq Nodes
      BY HoldersFinite
    <3>3. Cardinality(Holders(heap, t)) <= NodeCount /\ NodeCount \in Nat
      BY <3>2, NodesFinite, FS_Subset
    <3> QED BY <3>1, <3>2, <3>3
  <2>3. \A t \in Tags : heap.tag[t] \in [ name : Names \cup {Nil}, refs : 0 .. NodeCount + 1 ]
    BY <2>1, <2>2
  <2> QED BY <2>1, <2>3
<1>3. heap.list \in [ Lists -> [ head : Nodes \cup {Nil}, tail : Nodes \cup {Nil},
                                 size : 0 .. NodeCount, refs : 0 .. 2 ] ]
  <2>1. heap.list \in [ Lists -> [ head : Nodes \cup {Nil}, tail : Nodes \cup {Nil}, size : Nat, refs : Nat ] ]
    BY <1>1 DEF Heaps
  <2>2. \A l \in Lists : heap.list[l].size \in 0 .. NodeCount /\ heap.list[l].refs \in 0 .. 2
    <3> TAKE l \in Lists
    <3>1. Path(path[l]) /\ Laid(heap, l, path[l])
      BY <1>1 DEF Sound
    <3>2. heap.list[l].size \in 0 .. NodeCount
      BY <3>1, PathFits DEF Laid
    <3>3. heap.list[l].refs \in 0 .. 2
      BY ReferrersCount DEF Consistent
    <3> QED BY <3>2, <3>3
  <2>3. \A l \in Lists : heap.list[l] \in [ head : Nodes \cup {Nil}, tail : Nodes \cup {Nil},
                                            size : 0 .. NodeCount, refs : 0 .. 2 ]
    BY <2>1, <2>2
  <2> QED BY <2>1, <2>3
<1>4. heap.node \in [ Nodes -> [ tag : Tags \cup {Nil}, prev : Nodes \cup {Nil},
                                 next : Nodes \cup {Nil} ] ]
  BY <1>1 DEF Heaps
<1>5. owned \subseteq Lists /\ iter \in [ list : Lists \cup {NoList}, current : Nodes \cup {Nil} ]
  BY DEF Consistent, Placed
<1> QED BY <1>2, <1>3, <1>4, <1>5 DEF TagsTyped

(* that the links lead both ways along the same nodes,                     *)
LEMMA KeptIsMirrored ==
  ASSUME NEW path, Consistent(heap, owned, iter, path)
  PROVE  LinksMirror
<1>1. Sound(heap, Nil, path)
  BY KeptFacts
<1> SUFFICES ASSUME NEW l \in Live
             PROVE  LET walk == Walk(heap, l)
                        last == Len(walk)
                    IN  /\ last = heap.list[l].size
                        /\ Cardinality(ToSet(walk)) = last
                        /\ heap.list[l].tail = IF last = 0 THEN Nil ELSE walk[last]
                        /\ \A i \in 1 .. last :
                             heap.node[walk[i]].prev = IF i = 1 THEN Nil ELSE walk[i - 1]
  BY Zenon DEF LinksMirror
<1>2. l \in Lists
  BY DEF Live
<1>3. Path(path[l]) /\ Laid(heap, l, path[l]) /\ Walk(heap, l) = path[l]
  BY <1>1, <1>2, PathNodes
<1>4. Cardinality(ToSet(path[l])) = Len(path[l])
  BY <1>3, PathFits
<1> QED BY <1>3, <1>4 DEF Laid

(* that every tag and node in use is held by a list that lives,            *)
LEMMA KeptIsExact ==
  ASSUME NEW path, Consistent(heap, owned, iter, path)
  PROVE  RefsExact
<1>1. Sound(heap, Nil, path) /\ \A l \in Lists : l \in Live <=> heap.list[l].refs # 0
  BY KeptFacts
<1>2. \A t \in Tags : heap.tag[t].refs = Cardinality({ n \in Nodes : heap.node[n].tag = t })
  <2> TAKE t \in Tags
  <2>1. heap.tag[t].refs = Cardinality(Holders(heap, t)) + (IF t = Nil THEN 1 ELSE 0) /\ t # Nil
    BY <1>1, NilIsNoNode DEF Sound, Counted
  <2>2. Cardinality(Holders(heap, t)) \in Nat
    BY HoldersFinite
  <2> QED BY <2>1, <2>2 DEF Holders
<1>3. ASSUME NEW n
      PROVE  n \in { m \in Nodes : heap.node[m].tag # Nil }
               <=> \E l \in Live : n \in ToSet(Walk(heap, l))
  <2>1. \A l \in Lists : /\ Walk(heap, l) = path[l]
                         /\ \A i \in 1 .. Len(path[l]) : path[l][i] \in Nodes
                         /\ n \in ToSet(path[l]) <=> \E i \in 1 .. Len(path[l]) : path[l][i] = n
    BY <1>1, PathNodes, PathFits
  <2>2. n \in { m \in Nodes : heap.node[m].tag # Nil } <=> On(path, n)
    <3>1. On(path, n) => n \in Nodes
      BY <2>1 DEF On
    <3> QED BY <1>1, <3>1 DEF Sound
  <2>3. \A l \in Lists : \A i \in 1 .. Len(path[l]) : l \in Live
    <3> TAKE l \in Lists
    <3> TAKE i \in 1 .. Len(path[l])
    <3>1. Len(path[l]) # 0
      BY <1>1, PathNodes
    <3> QED BY <1>1, <3>1 DEF Consistent
  <2>4. Live \subseteq Lists
    BY DEF Live
  <2> QED BY <2>1, <2>2, <2>3, <2>4 DEF On
<1>4. { m \in Nodes : heap.node[m].tag # Nil } = UNION { ToSet(Walk(heap, l)) : l \in Live }
  <2> DEFINE used == { m \in Nodes : heap.node[m].tag # Nil }
             met == UNION { ToSet(Walk(heap, l)) : l \in Live }
  <2>1. \A n : n \in met <=> \E l \in Live : n \in ToSet(Walk(heap, l))
    OBVIOUS
  <2>2. \A n : n \in used <=> n \in met
    BY <1>3, <2>1
  <2> HIDE DEF used, met
  <2>3. used = met
    BY <2>2
  <2> QED BY <2>3 DEF used, met
<1> QED BY <1>2, <1>4, Zenon DEF RefsExact

(* and that the iterator is at a node of its list.                         *)
LEMMA KeptIsAtNode ==
  ASSUME NEW path, Consistent(heap, owned, iter, path)
  PROVE  IteratorSound
<1> SUFFICES ASSUME iter # NoIterator
             PROVE  iter.list \in Live /\ iter.current \in {Nil} \cup ToSet(Walk(heap, iter.list))
  BY DEF IteratorSound
<1>1. iter.list \in Lists
  BY IteratorAtList
<1>2. iter.list \in Live
  <2>1. heap.list[iter.list].refs # 0
    BY <1>1, ReferrersCount DEF Consistent
  <2> QED BY <1>1, <2>1, KeptFacts
<1>3. iter.current # Nil => iter.current \in ToSet(Walk(heap, iter.list))
  <2>1. Path(path[iter.list]) /\ Walk(heap, iter.list) = path[iter.list]
    BY <1>1, KeptFacts, PathNodes
  <2>2. \A n : n \in ToSet(path[iter.list]) <=> \E i \in 1 .. Len(path[iter.list]) : path[iter.list][i] = n
    BY <2>1, PathFits
  <2> QED BY <2>1, <2>2 DEF Consistent, Placed
<1> QED BY <1>2, <1>3

(* Whatever a caller does with tag lists, their links lead both ways along *)
(* the same nodes, a tag has a reference for every node that has it, and   *)
(* an iterator is at a node of a list that lives                           *)
(* (lcfgtaglist_insert_next, lcfgtaglist_remove_tag).                      *)
THEOREM TagListsAlwaysSound == TagSpec => []ListsSound
<1>1. TagInit => TagsKept
  BY NoTags
<1>2. TagsKept /\ [TagNext]_tagVars => TagsKept'
  BY TagStepKept
<1>3. TagsKept => ListsSound
  BY KeptIsTyped, KeptIsMirrored, KeptIsExact, KeptIsAtNode DEF TagsKept, ListsSound
<1> QED BY <1>1, <1>2, <1>3, PTL DEF TagSpec
=============================================================================
