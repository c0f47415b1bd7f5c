------------------------- MODULE PackageMerge_proofs -------------------------
(***************************************************************************)
(* What merging a package into a list does to the list, and what sorting   *)
(* it does, for all packages, rules and primary keys and lists of any      *)
(* length: facts about the operators of PackageMerge, which the proofs     *)
(* about package lists and package sets share.                             *)
(***************************************************************************)
EXTENDS PackageMerge, ListLemmas

(***************************************************************************)
(* Finding the entry a package conflicts with.                             *)
(***************************************************************************)
LEMMA PositionSound ==
  ASSUME NEW s \in Seq(Packages), NEW p
  PROVE  LET k == Position(s, p)
         IN \/ k = 0 /\ \A i \in DOMAIN s : ~SameKey(s[i], p)
            \/ k \in 1 .. Len(s) /\ k \in DOMAIN s /\ SameKey(s[k], p)
<1> DEFINE hits == { i \in DOMAIN s : SameKey(s[i], p) }
<1>1. hits \in SUBSET Nat /\ DOMAIN s = 1 .. Len(s)
  BY LenProperties
<1>2. CASE hits = {}
  BY <1>2 DEF Position
<1>3. CASE hits # {}
  <2>1. \E i \in hits : \A j \in hits : i <= j
    BY <1>1, <1>3, LeastExists
  <2>2. Position(s, p) \in hits
    BY <1>3, <2>1 DEF Position
  <2> QED BY <1>1, <2>2
<1> QED BY <1>2, <1>3

LEMMA CurrentSound ==
  ASSUME NEW s \in Seq(Packages), NEW p
  PROVE  \/ Position(s, p) = 0 /\ Current(s, p) = {}
         \/ /\ Position(s, p) \in DOMAIN s /\ Position(s, p) # 0
            /\ Current(s, p) = {s[Position(s, p)]}
            /\ s[Position(s, p)] \in Packages
            /\ SameKey(s[Position(s, p)], p)
<1> DEFINE k == Position(s, p)
<1>1. \/ k = 0
      \/ k \in 1 .. Len(s) /\ k \in DOMAIN s /\ SameKey(s[k], p)
  BY PositionSound
<1>2. Current(s, p) = IF k = 0 THEN {} ELSE {s[k]}
  BY DEF Current
<1>3. Len(s) \in Nat /\ \A i \in 1 .. Len(s) : s[i] \in Packages
  BY LenProperties
<1> HIDE DEF k
<1> QED BY <1>1, <1>2, <1>3 DEF k

LEMMA SameKeyEquivalence ==
  /\ \A p, q : SameKey(p, q) => SameKey(q, p)
  /\ \A p, q, r : SameKey(p, q) /\ SameKey(q, r) => SameKey(p, r)
  /\ \A p : SameKey(p, p)
BY DEF SameKey

LEMMA IdenticalToItself == \A p : Identical(p, p)
BY DEF Identical

(***************************************************************************)
(* What the rules decide.                                                  *)
(***************************************************************************)
LEMMA PackageFields ==
  ASSUME NEW p \in Packages
  PROVE  /\ p.name \in Nat /\ p.arch \in Nat /\ p.version \in Nat
         /\ p.context \in Nat /\ p.prefix \in PackagePrefixes
         /\ p.priority \in Int /\ p.file \in Nat
BY PackagesAssumption DEF Package

LEMMA Plans ==
  /\ "append" \notin Reject /\ "remove" \notin Reject
  /\ "append" \notin Keep /\ "remove" \notin Keep
  /\ "append" \in Add /\ "remove" \notin Add
  /\ "append" \notin Discard /\ "remove" \in Discard
  /\ "append" \in Swap /\ "remove" \in Swap
  /\ Reject # Keep /\ Reject # Add /\ Reject # Discard /\ Reject # Swap
  /\ Swap # Keep /\ Swap # Add /\ Swap # Discard
BY DEF Reject, Keep, Add, Discard, Swap

(* Without KEEP_ALL a package that is appended takes the place of the      *)
(* current entry, if there is one.                                         *)
LEMMA AppendReplaces ==
  ASSUME NEW rls, "KEEP_ALL" \notin rls, NEW p \in Packages,
         NEW cur, cur # {}, "append" \in MergePlan(rls, cur, p)
  PROVE  /\ "remove" \in MergePlan(rls, cur, p)
         /\ UsesPrefix(rls, p) => MergePlan(rls, cur, p) = Swap
<1>1. CASE cur = {p}
  BY <1>1, Plans DEF MergePlan
<1>2. CASE cur # {p} /\ UsesPrefix(rls, p)
  <2>1. MergePlan(rls, cur, p) = PrefixPlan(cur, p)
    BY <1>2 DEF MergePlan
  <2>2. PrefixPlan(cur, p) \in {Reject, Keep, Discard, Swap}
    BY <1>2, PackageFields DEF PrefixPlan, UsesPrefix, PackagePrefixes
  <2> QED BY <2>1, <2>2, Plans
<1>3. CASE cur # {p} /\ ~UsesPrefix(rls, p)
  <2>1. MergePlan(rls, cur, p) \in {Swap, Keep, Reject}
    BY <1>3 DEF MergePlan, PriorityPlan
  <2> QED BY <1>3, <2>1, Plans
<1> QED BY <1>1, <1>2, <1>3

(* A pinned entry goes only for an identical package, and only where       *)
(* identical specs are squashed and no prefix of the new one is looked at. *)
LEMMA PinnedGoesForIdentical ==
  ASSUME NEW rls, rls \subseteq {"USE_PREFIX", "SQUASH_IDENTICAL"},
         NEW p \in Packages, NEW c, c.prefix = "pin",
         "remove" \in MergePlan(rls, {c}, p)
  PROVE  /\ "append" \in MergePlan(rls, {c}, p) /\ Identical(c, p)
         /\ "SQUASH_IDENTICAL" \in rls
         /\ "USE_PREFIX" \in rls => p.prefix = "none"
<1>1. CASE {c} = {p}
  BY <1>1, Plans DEF MergePlan
<1>2. CASE {c} # {p} /\ UsesPrefix(rls, p)
  <2>1. MergePlan(rls, {c}, p) = PrefixPlan({c}, p) /\ Pinned({c})
    BY <1>2 DEF MergePlan, Pinned
  <2>2. "remove" \notin PrefixPlan({c}, p)
    BY <2>1, Plans DEF PrefixPlan
  <2> QED BY <2>1, <2>2
<1>3. CASE {c} # {p} /\ ~UsesPrefix(rls, p)
  <2>1. MergePlan(rls, {c}, p) =
          IF "SQUASH_IDENTICAL" \in rls /\ Identical(c, p) THEN Swap ELSE Reject
    BY <1>3 DEF MergePlan
  <2>2. "USE_PREFIX" \in rls => p.prefix = "none"
    BY <1>3 DEF UsesPrefix
  <2> QED BY <2>1, <2>2, Plans
<1> QED BY <1>1, <1>2, <1>3

(* Equal contexts have equal priorities, as when both were evaluated from  *)
(* the same set of contexts.                                               *)
ContextsDecide ==
  \A p, q \in Packages : p.context = q.context => p.priority = q.priority

ActiveRules == {"SQUASH_IDENTICAL", "USE_PRIORITY"}

LEMMA PriorityDecides ==
  ASSUME ContextsDecide, NEW p \in Packages
  PROVE  /\ "append" \in MergePlan(ActiveRules, {}, p)
         /\ \A c \in Packages :
              LET plan == MergePlan(ActiveRules, {c}, p)
              IN /\ "remove" \in plan => /\ "append" \in plan
                                         /\ p.priority >= c.priority
                 /\ "append" \notin plan => c.priority >= p.priority
<1>1. ~UsesPrefix(ActiveRules, p)
  BY DEF UsesPrefix, ActiveRules
<1>2. MergePlan(ActiveRules, {}, p) = Add
  BY <1>1 DEF MergePlan
<1>3. ASSUME NEW c \in Packages
      PROVE  LET plan == MergePlan(ActiveRules, {c}, p)
             IN /\ "remove" \in plan => /\ "append" \in plan
                                        /\ p.priority >= c.priority
                /\ "append" \notin plan => c.priority >= p.priority
  <2>1. p.priority \in Int /\ c.priority \in Int
    BY PackageFields
  <2>2. CASE c = p
    <3>1. MergePlan(ActiveRules, {c}, p) = Keep
      BY <2>2 DEF MergePlan
    <3> QED BY <2>1, <2>2, <3>1, Plans
  <2>3. CASE c # p /\ Identical(c, p)
    <3>1. MergePlan(ActiveRules, {c}, p) = Swap
      BY <1>1, <2>3 DEF MergePlan, ActiveRules
    <3>2. p.priority = c.priority
      BY <2>3 DEF ContextsDecide, Identical
    <3> QED BY <2>1, <3>1, <3>2, Plans
  <2>4. CASE c # p /\ ~Identical(c, p)
    <3>1. MergePlan(ActiveRules, {c}, p) =
            IF p.priority > c.priority THEN Swap
            ELSE IF p.priority < c.priority THEN Keep ELSE Reject
      BY <1>1, <2>4 DEF MergePlan, ActiveRules, PriorityPlan
    <3>2. CASE p.priority > c.priority
      BY <2>1, <3>1, <3>2, Plans
    <3>3. CASE p.priority < c.priority
      BY <2>1, <3>1, <3>3, Plans
    <3>4. CASE p.priority = c.priority
      BY <2>1, <3>1, <3>4, Plans
    <3> QED BY <2>1, <3>2, <3>3, <3>4
  <2> QED BY <2>2, <2>3, <2>4
<1> QED BY <1>2, <1>3, Plans

(***************************************************************************)
(* What a merge makes of a list.                                           *)
(***************************************************************************)
Removes(s, rls, p) == "remove" \in PlanFor(s, rls, p) /\ Position(s, p) # 0
Appends(s, rls, p) == "append" \in PlanFor(s, rls, p)

(* The list after the removal, and where its entries were before.          *)
Kept(s, rls, p) ==
  IF Removes(s, rls, p) THEN RemoveAt(s, Position(s, p)) ELSE s
Was(s, rls, p, i) ==
  IF Removes(s, rls, p) /\ i >= Position(s, p) THEN i + 1 ELSE i

LEMMA KeptSound ==
  ASSUME NEW s \in Seq(Packages), NEW rls, NEW p \in Packages
  PROVE  LET kept == Kept(s, rls, p)
             k    == Position(s, p)
         IN /\ kept \in Seq(Packages)
            /\ DOMAIN kept = 1 .. Len(kept) /\ Len(kept) \in Nat
            /\ \A i \in DOMAIN kept :
                 /\ Was(s, rls, p, i) \in DOMAIN s
                 /\ kept[i] = s[Was(s, rls, p, i)]
                 /\ Removes(s, rls, p) => Was(s, rls, p, i) # k
            /\ \A i, j \in DOMAIN kept :
                 Was(s, rls, p, i) = Was(s, rls, p, j) => i = j
            /\ \A j \in DOMAIN s :
                 ~(Removes(s, rls, p) /\ j = k) =>
                   \E i \in DOMAIN kept : kept[i] = s[j]
<1> DEFINE kept == Kept(s, rls, p)
           k == Position(s, p)
           was(i) == Was(s, rls, p, i)
<1>1. DOMAIN s = 1 .. Len(s) /\ Len(s) \in Nat
  BY LenProperties
<1>2. CASE ~Removes(s, rls, p)
  BY <1>1, <1>2 DEF Kept, Was
<1>3. CASE Removes(s, rls, p)
  <2>1. k \in 1 .. Len(s)
    BY <1>3, PositionSound DEF Removes
  <2>2. kept = RemoveAt(s, k)
    BY <1>3 DEF Kept
  <2> HIDE DEF k
  <2>3. /\ RemoveAt(s, k) \in Seq(Packages)
        /\ Len(RemoveAt(s, k)) = Len(s) - 1
        /\ DOMAIN RemoveAt(s, k) = 1 .. Len(s) - 1
        /\ \A i \in 1 .. Len(s) - 1 :
             RemoveAt(s, k)[i] = s[IF i < k THEN i ELSE i + 1]
    BY <2>1, RemoveAtSound
  <2> HIDE DEF kept
  <2>4. /\ kept \in Seq(Packages) /\ Len(kept) = Len(s) - 1
        /\ DOMAIN kept = 1 .. Len(s) - 1
        /\ \A i \in 1 .. Len(s) - 1 :
             kept[i] = s[IF i < k THEN i ELSE i + 1]
    BY <2>2, <2>3
  <2>5. \A i : was(i) = IF i >= k THEN i + 1 ELSE i
    BY <1>3 DEF Was, k
  <2> HIDE DEF was
  <2>6. \A n \in Nat : k \in 1 .. n =>
          /\ n - 1 \in Nat
          /\ \A i \in 1 .. n - 1 : /\ was(i) \in 1 .. n /\ was(i) # k
                                   /\ was(i) = IF i < k THEN i ELSE i + 1
          /\ \A i, j \in 1 .. n - 1 : was(i) = was(j) => i = j
          /\ \A j \in 1 .. n : j # k => \E i \in 1 .. n - 1 :
               j = IF i < k THEN i ELSE i + 1
    <3> SUFFICES ASSUME NEW n \in Nat, k \in 1 .. n
                 PROVE  /\ n - 1 \in Nat
                        /\ \A i \in 1 .. n - 1 :
                             /\ was(i) \in 1 .. n /\ was(i) # k
                             /\ was(i) = IF i < k THEN i ELSE i + 1
                        /\ \A i, j \in 1 .. n - 1 : was(i) = was(j) => i = j
                        /\ \A j \in 1 .. n : j # k => \E i \in 1 .. n - 1 :
                             j = IF i < k THEN i ELSE i + 1
      OBVIOUS
    <3>1. ASSUME NEW j \in 1 .. n, j # k
          PROVE  \E i \in 1 .. n - 1 : j = IF i < k THEN i ELSE i + 1
      <4>1. CASE j < k
        <5> WITNESS j \in 1 .. n - 1
        <5> QED BY <4>1
      <4>2. CASE ~(j < k)
        <5>1. j - 1 \in 1 .. n - 1
          BY <3>1, <4>2
        <5> WITNESS j - 1 \in 1 .. n - 1
        <5> QED BY <3>1, <4>2
      <4> QED BY <4>1, <4>2
    <3> QED BY <2>5, <3>1
  <2>7. /\ \A i \in DOMAIN kept : /\ was(i) \in DOMAIN s
                                  /\ kept[i] = s[was(i)] /\ was(i) # k
        /\ \A i, j \in DOMAIN kept : was(i) = was(j) => i = j
        /\ DOMAIN kept = 1 .. Len(kept) /\ Len(kept) \in Nat
    BY <1>1, <2>1, <2>4, <2>6
  <2>8. ASSUME NEW j \in DOMAIN s, j # k
        PROVE  \E i \in DOMAIN kept : kept[i] = s[j]
    <3>1. \E i \in 1 .. Len(s) - 1 : j = IF i < k THEN i ELSE i + 1
      BY <1>1, <2>1, <2>6, <2>8
    <3>2. PICK i \in 1 .. Len(s) - 1 : j = IF i < k THEN i ELSE i + 1
      BY <3>1
    <3>3. kept[i] = s[j] /\ i \in DOMAIN kept
      BY <2>4, <3>2
    <3> QED BY <3>3
  <2> USE DEF kept, k, was
  <2> QED BY <1>3, <2>4, <2>7, <2>8
<1> QED BY <1>2, <1>3

LEMMA MergedShape ==
  ASSUME NEW s \in Seq(Packages), NEW rls, NEW p \in Packages
  PROVE  LET kept == Kept(s, rls, p)
             new  == Merged(s, rls, p)
         IN /\ new \in Seq(Packages)
            /\ Appends(s, rls, p) =>
                 /\ DOMAIN new = 1 .. Len(kept) + 1
                 /\ \A i \in DOMAIN kept : new[i] = kept[i]
                 /\ new[Len(kept) + 1] = p
            /\ ~Appends(s, rls, p) => new = kept
<1> DEFINE kept == Kept(s, rls, p)
<1>1. kept \in Seq(Packages) /\ DOMAIN kept = 1 .. Len(kept)
  BY KeptSound
<1>2. Merged(s, rls, p) = IF Appends(s, rls, p) THEN Append(kept, p) ELSE kept
  BY DEF Merged, Kept, Removes, Appends
<1> HIDE DEF kept
<1>3. /\ Append(kept, p) \in Seq(Packages)
      /\ DOMAIN Append(kept, p) = 1 .. Len(kept) + 1
      /\ \A i \in 1 .. Len(kept) : Append(kept, p)[i] = kept[i]
      /\ Append(kept, p)[Len(kept) + 1] = p
  <2>1. /\ Append(kept, p) \in Seq(Packages)
        /\ Len(Append(kept, p)) = Len(kept) + 1
    BY <1>1, AppendProperties
  <2>2. DOMAIN Append(kept, p) = 1 .. Len(Append(kept, p))
    BY <2>1, LenProperties
  <2> QED BY <1>1, <2>1, <2>2, AppendProperties
<1> QED BY <1>1, <1>2, <1>3 DEF kept

(* What is in the list afterwards, and what is still in it.                *)
LEMMA MergedContents ==
  ASSUME NEW s \in Seq(Packages), NEW rls, NEW p \in Packages
  PROVE  LET new == Merged(s, rls, p)
             k   == Position(s, p)
         IN /\ \A q \in ToSet(new) :
                 q \in ToSet(s) \/ (q = p /\ Appends(s, rls, p))
            /\ \A q \in ToSet(s) :
                 q \in ToSet(new) \/ (q = s[k] /\ Removes(s, rls, p))
            /\ Appends(s, rls, p) => p \in ToSet(new)
<1> DEFINE kept == Kept(s, rls, p)
           new == Merged(s, rls, p)
<1>1. /\ DOMAIN kept = 1 .. Len(kept) /\ Len(kept) \in Nat
      /\ \A i \in DOMAIN kept : \E j \in DOMAIN s : kept[i] = s[j]
      /\ \A j \in DOMAIN s : ~(Removes(s, rls, p) /\ j = Position(s, p)) =>
           \E i \in DOMAIN kept : kept[i] = s[j]
  BY KeptSound
<1>2. /\ Appends(s, rls, p) => /\ DOMAIN new = 1 .. Len(kept) + 1
                               /\ \A i \in DOMAIN kept : new[i] = kept[i]
                               /\ new[Len(kept) + 1] = p
      /\ ~Appends(s, rls, p) => new = kept
  BY MergedShape
<1> HIDE DEF kept, new
<1>3. \A i \in DOMAIN kept : i \in DOMAIN new /\ new[i] = kept[i]
  BY <1>1, <1>2
<1>4. ASSUME NEW i \in DOMAIN new
      PROVE  \/ \E j \in DOMAIN s : new[i] = s[j]
             \/ new[i] = p /\ Appends(s, rls, p)
  BY <1>1, <1>2
<1>5. Appends(s, rls, p) => p \in ToSet(new)
  BY <1>1, <1>2 DEF ToSet
<1>6. \A q \in ToSet(new) : q \in ToSet(s) \/ (q = p /\ Appends(s, rls, p))
  BY <1>4 DEF ToSet
<1>7. \A q \in ToSet(s) :
        q \in ToSet(new) \/ (q = s[Position(s, p)] /\ Removes(s, rls, p))
  BY <1>1, <1>3 DEF ToSet
<1> QED BY <1>5, <1>6, <1>7 DEF new

LEMMA ContentsTyped ==
  ASSUME NEW s \in Seq(Packages)
  PROVE  ToSet(s) \subseteq Packages
<1>1. DOMAIN s = 1 .. Len(s) /\ \A i \in 1 .. Len(s) : s[i] \in Packages
  BY LenProperties
<1> QED BY <1>1 DEF ToSet

LEMMA DerivationSound ==
  ASSUME NEW s \in Seq(Packages), NEW rls, NEW p \in Packages,
         NEW d \in [Packages -> SUBSET Nat]
  PROVE  LET after == DerivationAfter(s, rls, p, d)
         IN /\ after \in [Packages -> SUBSET Nat]
            /\ \A q \in Packages : d[q] \subseteq after[q]
            /\ UsesPrefix(rls, p) /\ PlanFor(s, rls, p) = Swap =>
                 \A c \in Current(s, p) : d[c] \subseteq after[p]
<1> DEFINE old == UNION { d[c] : c \in Current(s, p) }
<1>1. Current(s, p) \subseteq Packages
  BY CurrentSound
<1>2. old \in SUBSET Nat /\ \A c \in Current(s, p) : d[c] \subseteq old
  BY <1>1
<1>3. DerivationAfter(s, rls, p, d) =
        IF UsesPrefix(rls, p) /\ PlanFor(s, rls, p) = Swap
        THEN [ d EXCEPT ![p] = @ \cup old ] ELSE d
  BY DEF DerivationAfter
<1> HIDE DEF old
<1> QED BY <1>2, <1>3

LEMMA ChangesSound ==
  \A s, rls, p : ChangeOf(s, rls, p) \in Changes
BY DEF ChangeOf, Changes

(***************************************************************************)
(* One package is kept for each key.                                       *)
(***************************************************************************)
Unique(s) == \A i, j \in DOMAIN s : SameKey(s[i], s[j]) => i = j

LEMMA MergedUnique ==
  ASSUME NEW s \in Seq(Packages), NEW rls, "KEEP_ALL" \notin rls,
         NEW p \in Packages, Unique(s)
  PROVE  Unique(Merged(s, rls, p))
<1> DEFINE kept == Kept(s, rls, p)
           new == Merged(s, rls, p)
           k == Position(s, p)
           was(i) == Was(s, rls, p, i)
<1>0. DOMAIN kept = 1 .. Len(kept) /\ Len(kept) \in Nat
  BY KeptSound
<1>1. /\ \A i \in DOMAIN kept : /\ was(i) \in DOMAIN s /\ kept[i] = s[was(i)]
                                /\ Removes(s, rls, p) => was(i) # k
      /\ \A i, j \in DOMAIN kept : was(i) = was(j) => i = j
  BY KeptSound
<1>2. /\ Appends(s, rls, p) => /\ DOMAIN new = 1 .. Len(kept) + 1
                               /\ \A i \in DOMAIN kept : new[i] = kept[i]
                               /\ new[Len(kept) + 1] = p
      /\ ~Appends(s, rls, p) => new = kept
  BY MergedShape
<1> HIDE DEF kept, new, k, was
<1>3. ASSUME NEW i \in DOMAIN kept, SameKey(kept[i], p)
      PROVE  ~Appends(s, rls, p)
  <2>1. SameKey(s[was(i)], p) /\ was(i) \in DOMAIN s
    BY <1>1, <1>3
  <2>2. k \in DOMAIN s /\ SameKey(s[k], p) /\ k # 0
    BY <2>1, PositionSound DEF k
  <2>3. was(i) = k
    BY <2>1, <2>2, SameKeyEquivalence DEF Unique
  <2>4. ~Removes(s, rls, p)
    BY <1>1, <2>3
  <2>5. Current(s, p) # {}
    BY <2>2 DEF Current, k
  <2>6. Appends(s, rls, p) => Removes(s, rls, p)
    BY <2>2, <2>5, AppendReplaces DEF Appends, Removes, PlanFor, k
  <2> QED BY <2>4, <2>6
<1>4. ASSUME NEW i \in DOMAIN kept, NEW j \in DOMAIN kept,
             SameKey(kept[i], kept[j])
      PROVE  i = j
  <2>1. /\ SameKey(s[was(i)], s[was(j)])
        /\ was(i) \in DOMAIN s /\ was(j) \in DOMAIN s
    BY <1>1, <1>4
  <2>2. was(i) = was(j)
    BY <2>1 DEF Unique
  <2> QED BY <1>1, <2>2
<1>5. CASE ~Appends(s, rls, p)
  BY <1>2, <1>4, <1>5 DEF Unique, new
<1>6. CASE Appends(s, rls, p)
  <2>1. \A i \in DOMAIN new :
          \/ i \in DOMAIN kept /\ new[i] = kept[i]
          \/ i = Len(kept) + 1 /\ new[i] = p
    BY <1>0, <1>2, <1>6
  <2>2. \A i \in DOMAIN kept : ~SameKey(kept[i], p) /\ ~SameKey(p, kept[i])
    BY <1>3, <1>6, SameKeyEquivalence
  <2> QED BY <1>4, <2>1, <2>2 DEF Unique, new
<1> QED BY <1>5, <1>6

(***************************************************************************)
(* Sorting is a permutation in the order of the packages, and stable.      *)
(***************************************************************************)
LEMMA BeforeOrders ==
  ASSUME NEW p \in Packages, NEW q \in Packages, NEW r \in Packages
  PROVE  /\ ~Before(p, p)
         /\ ~(Before(p, q) /\ Before(q, p))
         /\ Before(p, q) /\ Before(q, r) => Before(p, r)
         /\ ~Before(p, q) /\ ~Before(q, r) => ~Before(p, r)
<1>1. /\ p.name \in Nat /\ p.arch \in Nat /\ p.version \in Nat
      /\ q.name \in Nat /\ q.arch \in Nat /\ q.version \in Nat
      /\ r.name \in Nat /\ r.arch \in Nat /\ r.version \in Nat
  BY PackageFields
<1> QED BY <1>1 DEF Before

(* Entry j comes no later than entry i.                                    *)
NotAfter(s, j, i) ==
  Before(s[j], s[i]) \/ (~Before(s[i], s[j]) /\ j <= i)

Downs(s) ==
  [i \in 1 .. Len(s) |-> {j \in 1 .. Len(s) : NotAfter(s, j, i)}]

LEMMA DownsOrder ==
  ASSUME NEW s \in Seq(Packages)
  PROVE  TotalOrder(1 .. Len(s), Downs(s))
<1> DEFINE n == Len(s)
           down == Downs(s)
<1>1. n \in Nat /\ \A i \in 1 .. n : s[i] \in Packages
  BY LenProperties
<1>2. /\ down \in [1 .. n -> SUBSET (1 .. n)]
      /\ \A i, j \in 1 .. n : j \in down[i] <=> NotAfter(s, j, i)
  BY DEF Downs
<1> HIDE DEF n, down
<1>3. ASSUME NEW i \in 1 .. n, NEW j \in 1 .. n
      PROVE  /\ NotAfter(s, i, i)
             /\ NotAfter(s, i, j) \/ NotAfter(s, j, i)
             /\ NotAfter(s, i, j) /\ NotAfter(s, j, i) => i = j
  <2>1. /\ ~Before(s[i], s[i])
        /\ ~(Before(s[i], s[j]) /\ Before(s[j], s[i]))
    BY <1>1, BeforeOrders
  <2>2. i \in Nat /\ j \in Nat
    BY <1>1
  <2> QED BY <2>1, <2>2 DEF NotAfter
<1>4. ASSUME NEW h \in 1 .. n, NEW i \in 1 .. n, NEW j \in 1 .. n,
             NotAfter(s, h, i), NotAfter(s, i, j)
      PROVE  NotAfter(s, h, j)
  <2>1. h <= i /\ i <= j => h <= j
    BY <1>1
  <2>2. s[h] \in Packages /\ s[i] \in Packages /\ s[j] \in Packages
    BY <1>1
  <2>3. /\ ~Before(s[i], s[h])
        /\ ~Before(s[j], s[i])
    BY <1>4, <2>2, BeforeOrders DEF NotAfter
  <2>4. ~Before(s[j], s[h])
    BY <2>2, <2>3, BeforeOrders
  <2>5. CASE Before(s[h], s[j])
    BY <2>5 DEF NotAfter
  <2>6. CASE ~Before(s[h], s[j])
    <3>1. ~Before(s[h], s[i])
      <4>1. Before(s[h], s[i]) /\ ~Before(s[j], s[i]) => Before(s[h], s[j])
        BY <2>2, BeforeOrders
      <4> QED BY <2>3, <2>6, <4>1
    <3>2. ~Before(s[i], s[j])
      <4>1. ~Before(s[i], s[h]) /\ ~Before(s[h], s[j]) => ~Before(s[i], s[j])
        BY <2>2, BeforeOrders
      <4> QED BY <2>3, <2>6, <4>1
    <3> QED BY <1>4, <2>1, <2>4, <3>1, <3>2 DEF NotAfter
  <2> QED BY <2>5, <2>6
<1>5. \A i, j \in 1 .. n : i \in down[j] => down[i] \subseteq down[j]
  <2> SUFFICES ASSUME NEW i \in 1 .. n, NEW j \in 1 .. n, i \in down[j],
                      NEW h \in down[i]
               PROVE  h \in down[j]
    OBVIOUS
  <2>1. h \in 1 .. n
    BY <1>2
  <2> QED BY <1>2, <1>4, <2>1
<1>6. /\ \A i \in 1 .. n : i \in down[i]
      /\ \A i, j \in 1 .. n : i \in down[j] \/ j \in down[i]
      /\ \A i, j \in 1 .. n : i \in down[j] /\ j \in down[i] => i = j
  BY <1>2, <1>3
<1> QED BY <1>2, <1>5, <1>6 DEF TotalOrder, n, down

LEMMA SortedSound ==
  ASSUME NEW s \in Seq(Packages)
  PROVE  /\ Sorted(s) \in Seq(Packages) /\ DOMAIN Sorted(s) = 1 .. Len(s)
         /\ \E perm : /\ Enumerates(Len(s), 1 .. Len(s), perm)
                      /\ \A k \in 1 .. Len(s) : Sorted(s)[k] = s[perm[k]]
                      /\ \A k, m \in 1 .. Len(s) :
                           k <= m => NotAfter(s, perm[k], perm[m])
<1> DEFINE n == Len(s)
           down == Downs(s)
           perm == ByRank(1 .. n, down)
<1>1. n \in Nat /\ DOMAIN s = 1 .. n /\ \A i \in 1 .. n : s[i] \in Packages
  BY LenProperties
<1>0. IsFiniteSet(1 .. n) /\ Cardinality(1 .. n) = n
  <2> HIDE DEF n
  <2>1. n \in Int /\ 1 \in Int
    BY <1>1
  <2>2. /\ IsFiniteSet(1 .. n)
        /\ Cardinality(1 .. n) = IF 1 > n THEN 0 ELSE n - 1 + 1
    BY <2>1, FS_Interval
  <2> QED BY <1>1, <2>2
<1>2. \A i \in 1 .. n : down[i] = {j \in 1 .. n : NotAfter(s, j, i)}
  BY DEF Downs
<1>3. Sorted(s) = [k \in 1 .. n |-> s[perm[k]]]
  <2>1. \A k \in 1 .. n : perm[k] = CHOOSE i \in 1 .. n :
          Cardinality({j \in 1 .. n : NotAfter(s, j, i)}) = k
    <3> HIDE DEF down
    <3> QED BY <1>0, <1>2 DEF ByRank
  <2>2. Sorted(s) = [k \in 1 .. n |-> s[CHOOSE i \in 1 .. n :
          Cardinality({j \in 1 .. n : NotAfter(s, j, i)}) = k]]
    BY <1>1 DEF Sorted, NotAfter
  <2> HIDE DEF perm
  <2> QED BY <2>1, <2>2
<1>4. Enumerates(n, 1 .. n, perm)
      /\ \A k, m \in 1 .. n : k <= m => perm[k] \in down[perm[m]]
  BY <1>0, DownsOrder, RanksEnumerate
<1> HIDE DEF n, down, perm
<1>5. perm \in [1 .. n -> 1 .. n]
  BY <1>4 DEF Enumerates
<1>6. /\ DOMAIN Sorted(s) = 1 .. n
      /\ \A k \in 1 .. n : Sorted(s)[k] = s[perm[k]]
      /\ Sorted(s) \in [1 .. n -> Packages]
  BY <1>1, <1>3, <1>5
<1>7. Sorted(s) \in Seq(Packages)
  BY <1>1, <1>6, SeqDef
<1>8. \A k, m \in 1 .. n : k <= m => NotAfter(s, perm[k], perm[m])
  BY <1>2, <1>4, <1>5
<1> QED BY <1>4, <1>6, <1>7, <1>8 DEF n

LEMMA SortedContents ==
  ASSUME NEW s \in Seq(Packages)
  PROVE  /\ Sorted(s) \in Seq(Packages)
         /\ ToSet(Sorted(s)) = ToSet(s)
         /\ Unique(s) => Unique(Sorted(s))
<1>1. Sorted(s) \in Seq(Packages)
  BY SortedSound
<1>2. PICK perm : /\ Enumerates(Len(s), 1 .. Len(s), perm)
                  /\ \A k \in 1 .. Len(s) : Sorted(s)[k] = s[perm[k]]
  BY SortedSound
<1>3. DOMAIN s = 1 .. Len(s) /\ DOMAIN Sorted(s) = 1 .. Len(s)
  BY SortedSound, LenProperties
<1> DEFINE n == Len(s)
           new == Sorted(s)
<1>4. /\ \A k \in 1 .. n : perm[k] \in 1 .. n /\ new[k] = s[perm[k]]
      /\ \A k, m \in 1 .. n : perm[k] = perm[m] => k = m
      /\ \A i \in 1 .. n : \E k \in 1 .. n : perm[k] = i
  BY <1>2 DEF Enumerates
<1> HIDE DEF n, new
<1>5. ToSet(new) = ToSet(s)
  <2>1. ASSUME NEW k \in 1 .. n
        PROVE  \E i \in 1 .. n : new[k] = s[i]
    BY <1>4
  <2>2. ASSUME NEW i \in 1 .. n
        PROVE  \E k \in 1 .. n : s[i] = new[k]
    BY <1>4
  <2>3. ToSet(new) = {new[k] : k \in 1 .. n} /\ ToSet(s) = {s[k] : k \in 1 .. n}
    BY <1>3 DEF ToSet, n, new
  <2> QED BY <2>1, <2>2, <2>3
<1>6. ASSUME Unique(s), NEW k \in 1 .. n, NEW m \in 1 .. n,
             SameKey(new[k], new[m])
      PROVE  k = m
  <2>1. SameKey(s[perm[k]], s[perm[m]])
    BY <1>4, <1>6
  <2>2. perm[k] = perm[m]
    BY <1>3, <1>4, <1>6, <2>1 DEF Unique, n
  <2> QED BY <1>4, <2>2
<1>7. Unique(s) => Unique(new)
  BY <1>3, <1>6 DEF Unique, n, new
<1> QED BY <1>1, <1>5, <1>7 DEF new
=============================================================================
