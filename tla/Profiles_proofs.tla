--------------------------- MODULE Profiles_proofs ---------------------------
(***************************************************************************)
(* What a client may rely on when it takes a new profile: the differences  *)
(* from the old one are exact, for all profiles, names and orders of the   *)
(* buckets (Differences), and the files that are then written are whole,   *)
(* for any number of processes, files, contents, calls, failures and       *)
(* crashes (FileUpdate).                                                   *)
(***************************************************************************)
EXTENDS Differences, FileUpdate, ListLemmas

(***************************************************************************)
(* Lists of names.                                                         *)
(***************************************************************************)

(* The names among the given ones, in their order.                         *)
LEMMA InOrderSound ==
  ASSUME NEW order, IsOrder(order), NEW names
  PROVE  /\ IsOrder(InOrder(order, names))
         /\ ToSet(InOrder(order, names)) = ToSet(order) \cap names
<1> DEFINE places == {i \in DOMAIN order : order[i] \in names}
           made == InOrder(order, names)
<1>1. /\ IsList(order) /\ DOMAIN order \in SUBSET Nat
      /\ IsFiniteSet(DOMAIN order) /\ IsInjective(order)
  BY ListProperties DEF IsOrder, IsList
<1>2. places \in SUBSET Nat /\ IsFiniteSet(places)
  BY <1>1, FS_Subset
<1>3. Takes(made, order, places)
  BY <1>2, AtPlacesSound DEF InOrder
<1>4. \A i, j \in places : order[i] = order[j] => i = j
  BY <1>1 DEF IsInjective
<1>5. \A i : i \in places <=> i \in DOMAIN order /\ order[i] \in names
  OBVIOUS
<1> HIDE DEF places, made
<1>6. /\ IsList(made) /\ IsInjective(made)
      /\ \A k \in DOMAIN made : \E i \in places : made[k] = order[i]
      /\ \A i \in places : \E k \in DOMAIN made : made[k] = order[i]
  BY <1>3, <1>4, TakesContents
<1>7. ToSet(made) = ToSet(order) \cap names
  BY <1>5, <1>6 DEF ToSet
<1> QED BY <1>6, <1>7 DEF IsOrder, IsList, made

(* One list behind another that has nothing in common with it.             *)
LEMMA JoinSound ==
  ASSUME NEW a, NEW b, IsOrder(a), IsOrder(b), ToSet(a) \cap ToSet(b) = {}
  PROVE  IsOrder(a \o b) /\ ToSet(a \o b) = ToSet(a) \cup ToSet(b)
<1> DEFINE S == ToSet(a) \cup ToSet(b)
           c == a \o b
<1>1. /\ IsList(a) /\ DOMAIN a = 1 .. Len(a) /\ Len(a) \in Nat
      /\ IsList(b) /\ DOMAIN b = 1 .. Len(b) /\ Len(b) \in Nat
  BY ListProperties DEF IsOrder, IsList
<1>2. a \in Seq(S) /\ b \in Seq(S)
  <2>1. /\ a \in [1 .. Len(a) -> S]
        /\ b \in [1 .. Len(b) -> S]
    BY <1>1 DEF IsList, ToSet
  <2> QED BY <1>1, <2>1, SeqDef
<1>3. /\ c \in Seq(S) /\ Len(c) = Len(a) + Len(b)
      /\ \A i \in 1 .. Len(a) + Len(b) :
           c[i] = IF i <= Len(a) THEN a[i] ELSE b[i - Len(a)]
  BY <1>2, ConcatProperties
<1>4. DOMAIN c = 1 .. Len(c)
  BY <1>3, LenProperties
<1> DEFINE m == Len(a)
           n == Len(b)
<1>5. /\ m \in Nat /\ n \in Nat /\ DOMAIN a = 1 .. m /\ DOMAIN b = 1 .. n
      /\ DOMAIN c = 1 .. m + n
      /\ \A i \in 1 .. m + n : c[i] = IF i <= m THEN a[i] ELSE b[i - m]
  BY <1>1, <1>3, <1>4
<1> HIDE DEF c, m, n
<1>6. \A i \in 1 .. m : i \in 1 .. m + n /\ c[i] = a[i]
  BY <1>5
<1>7. \A i \in 1 .. n : m + i \in 1 .. m + n /\ c[m + i] = b[i]
  <2> SUFFICES ASSUME NEW i \in 1 .. n
               PROVE  m + i \in 1 .. m + n /\ c[m + i] = b[i]
    OBVIOUS
  <2>1. m + i \in 1 .. m + n /\ ~(m + i <= m) /\ m + i - m = i
    BY <1>5
  <2> QED BY <1>5, <2>1
<1>8. \A i \in 1 .. m + n : i \in 1 .. m \/ \E j \in 1 .. n : i = m + j
  <2> SUFFICES ASSUME NEW i \in 1 .. m + n, i \notin 1 .. m
               PROVE  \E j \in 1 .. n : i = m + j
    OBVIOUS
  <2>1. i - m \in 1 .. n /\ i = m + (i - m)
    BY <1>5
  <2> QED BY <2>1
<1>9. ToSet(c) = S
  <2>1. \A i \in 1 .. m : a[i] \in ToSet(a) /\ c[i] = a[i]
    BY <1>5, <1>6 DEF ToSet
  <2>2. \A i \in 1 .. n : b[i] \in ToSet(b)
    BY <1>5 DEF ToSet
  <2>3. \A i \in DOMAIN c : c[i] \in S
    BY <1>5, <1>7, <1>8, <2>1, <2>2
  <2>4. \A x \in ToSet(a) : \E i \in DOMAIN c : c[i] = x
    BY <1>5, <1>6 DEF ToSet
  <2>5. \A x \in ToSet(b) : \E i \in DOMAIN c : c[i] = x
    BY <1>5, <1>7 DEF ToSet
  <2> QED BY <2>3, <2>4, <2>5 DEF ToSet
<1>10. ASSUME NEW i \in DOMAIN c, NEW j \in DOMAIN c, c[i] = c[j]
       PROVE  i = j
  <2>0. /\ \A k, l \in 1 .. m : a[k] = a[l] => k = l
        /\ \A k, l \in 1 .. n : b[k] = b[l] => k = l
        /\ \A k \in 1 .. m, l \in 1 .. n : a[k] # b[l]
    <3>1. /\ \A k, l \in DOMAIN a : a[k] = a[l] => k = l
          /\ \A k, l \in DOMAIN b : b[k] = b[l] => k = l
      BY DEF IsOrder, IsInjective
    <3>2. /\ \A k \in DOMAIN a : a[k] \in ToSet(a)
          /\ \A l \in DOMAIN b : b[l] \in ToSet(b)
      BY DEF ToSet
    <3>3. \A k \in DOMAIN a, l \in DOMAIN b : a[k] # b[l]
      BY <3>2
    <3> QED BY <1>5, <3>1, <3>3
  <2>1. CASE i \in 1 .. m /\ j \in 1 .. m
    BY <1>6, <1>10, <2>0, <2>1
  <2>2. CASE i \in 1 .. m /\ j \notin 1 .. m
    BY <1>5, <1>6, <1>7, <1>8, <1>10, <2>0, <2>2
  <2>3. CASE i \notin 1 .. m /\ j \in 1 .. m
    BY <1>5, <1>6, <1>7, <1>8, <1>10, <2>0, <2>3
  <2>4. CASE i \notin 1 .. m /\ j \notin 1 .. m
    <3>1. PICK k \in 1 .. n : i = m + k
      BY <1>5, <1>8, <2>4
    <3>2. PICK l \in 1 .. n : j = m + l
      BY <1>5, <1>8, <2>4
    <3>3. b[k] = b[l]
      BY <1>7, <1>10, <3>1, <3>2
    <3> QED BY <2>0, <3>1, <3>2, <3>3
  <2> QED BY <2>1, <2>2, <2>3, <2>4
<1> QED BY <1>3, <1>9, <1>10 DEF IsOrder, IsInjective, c

(* Sorting by the place of the name in an order only moves entries.        *)
LEMMA SortedBySound ==
  ASSUME NEW order, IsOrder(order), NEW seq, IsList(seq),
         \A i \in DOMAIN seq : seq[i].name \in ToSet(order)
  PROVE  Takes(SortedBy(order, seq), seq, DOMAIN seq)
<1> DEFINE place(i) == CHOOSE p \in DOMAIN order : order[p] = seq[i].name
           key == [i \in DOMAIN seq |-> place(i)]
<1>1. DOMAIN order \in SUBSET Nat
  BY ListProperties DEF IsOrder, IsList
<1>2. \A i \in DOMAIN seq : \E p \in DOMAIN order : order[p] = seq[i].name
  BY DEF ToSet
<1>3. \A i \in DOMAIN seq : place(i) \in Nat
  <2>1. \A i \in DOMAIN seq : place(i) \in DOMAIN order
    BY <1>2
  <2> HIDE DEF place
  <2> QED BY <1>1, <2>1
<1>4. SortedBy(order, seq) = SortedByKey(key, seq)
  BY DEF SortedBy
<1> HIDE DEF place
<1>5. \A i \in DOMAIN seq : key[i] \in Int
  BY <1>3
<1> HIDE DEF key
<1> QED BY <1>4, <1>5, SortSound

(***************************************************************************)
(* The resources of a component that changed.                              *)
(***************************************************************************)
IsComponent(comp) ==
  /\ DOMAIN comp \subseteq ToSet(ResNames)
  /\ \A n \in DOMAIN comp : Head(comp[n]) # NoResource
  /\ (comp = << >>) <=> (DOMAIN comp = {})

LEMMA NoComponent == IsComponent(<< >>)
BY DEF IsComponent

LEMMA ComponentsTyped ==
  ASSUME NEW profile \in Profiles, NEW c
  PROVE  IsComponent(ComponentOf(profile, c))
<1>1. CASE c \notin DOMAIN profile
  BY <1>1, NoComponent DEF ComponentOf
<1>2. CASE c \in DOMAIN profile
  <2> DEFINE Resource == [type : Types, value : {NULL} \cup Seq(STRING)]
             comp == profile[c]
  <2>1. PICK names \in SUBSET ToSet(ResNames) :
          comp \in [names -> Seq(Resource) \ {<< >>}]
    BY <1>2, ProfilesAssumption
  <2>2. \A n \in names : Head(comp[n]).type \in Types
    <3> SUFFICES ASSUME NEW n \in names
                 PROVE  Head(comp[n]).type \in Types
      OBVIOUS
    <3> HIDE DEF Resource
    <3>1. Head(comp[n]) \in Resource
      BY <2>1, HeadTailProperties
    <3> QED BY <3>1 DEF Resource
  <2> HIDE DEF Resource, comp
  <2>3. \A n \in DOMAIN comp : Head(comp[n]) # NoResource
    BY <2>1, <2>2 DEF NoResource, Types
  <2>4. (comp = << >>) <=> (DOMAIN comp = {})
    <3>1. ASSUME DOMAIN comp = {}
          PROVE  comp = << >>
      <4>1. names = {}
        BY <2>1, <3>1
      <4>2. comp \in [1 .. 0 -> Seq(Resource) \ {<< >>}]
        BY <2>1, <4>1
      <4>3. comp \in Seq(Seq(Resource) \ {<< >>})
        BY <4>2, SeqDef
      <4>4. DOMAIN comp = 1 .. Len(comp) /\ Len(comp) \in Nat
        BY <4>3, LenProperties
      <4>5. Len(comp) = 0
        BY <3>1, <4>4
      <4> QED BY <4>3, <4>5, EmptySeq
    <3>2. comp = << >> => DOMAIN comp = {}
      <4>1. DOMAIN << >> = {}
        OBVIOUS
      <4> QED BY <4>1
    <3> QED BY <3>1, <3>2
  <2>5. DOMAIN comp \subseteq ToSet(ResNames)
    BY <2>1
  <2>6. ComponentOf(profile, c) = comp
    BY <1>2 DEF ComponentOf, comp
  <2> QED BY <2>3, <2>4, <2>5, <2>6 DEF IsComponent
<1> QED BY <1>1, <1>2

ChangedIn(comp1, comp2) ==
  {n \in ToSet(ResNames) : Changed(ResourceOf(comp1, n), ResourceOf(comp2, n))}

LEMMA ChangedCases ==
  ASSUME NEW comp1, NEW comp2, IsComponent(comp1), IsComponent(comp2)
  PROVE  ChangedIn(comp1, comp2) =
           { n \in DOMAIN comp1 : \/ n \notin DOMAIN comp2
                                  \/ ~SameValue(Head(comp1[n]), Head(comp2[n])) }
             \cup (DOMAIN comp2 \ DOMAIN comp1)
<1>1. ASSUME NEW n
      PROVE  /\ n \in DOMAIN comp1 => ResourceOf(comp1, n) = Head(comp1[n])
                                      /\ Head(comp1[n]) # NoResource
             /\ n \notin DOMAIN comp1 => ResourceOf(comp1, n) = NoResource
             /\ n \in DOMAIN comp2 => ResourceOf(comp2, n) = Head(comp2[n])
                                      /\ Head(comp2[n]) # NoResource
             /\ n \notin DOMAIN comp2 => ResourceOf(comp2, n) = NoResource
  BY DEF ResourceOf, IsComponent
<1>2. ASSUME NEW n
      PROVE  Changed(ResourceOf(comp1, n), ResourceOf(comp2, n)) <=>
               \/ n \in DOMAIN comp1 /\ n \notin DOMAIN comp2
               \/ n \in DOMAIN comp2 /\ n \notin DOMAIN comp1
               \/ /\ n \in DOMAIN comp1 /\ n \in DOMAIN comp2
                  /\ ~SameValue(Head(comp1[n]), Head(comp2[n]))
  BY <1>1 DEF Changed
<1>3. DOMAIN comp1 \subseteq ToSet(ResNames) /\ DOMAIN comp2 \subseteq ToSet(ResNames)
  BY DEF IsComponent
<1> QED BY <1>2, <1>3 DEF ChangedIn

(* The list of what changed has each resource that changed, once.          *)
ItemsExact(items, comp1, comp2) ==
  /\ IsList(items) /\ NamedOnce(items)
  /\ \A i \in DOMAIN items : items[i] = Item(items[i].name, comp1, comp2)
  /\ {items[i].name : i \in DOMAIN items} = ChangedIn(comp1, comp2)

LEMMA ItemsOfExact ==
  ASSUME NEW comp1, NEW comp2, IsComponent(comp1), IsComponent(comp2),
         NEW order1 \in BucketOrders, NEW order2 \in BucketOrders
  PROVE  ItemsExact(ItemsOf(comp1, comp2, order1, order2), comp1, comp2)
<1> DEFINE changed == { n \in DOMAIN comp1 : \/ n \notin DOMAIN comp2
                                             \/ ~SameValue(Head(comp1[n]), Head(comp2[n])) }
           added == DOMAIN comp2 \ DOMAIN comp1
           first == InOrder(order1, changed)
           second == InOrder(order2, added)
           names == first \o second
           items == ItemsOf(comp1, comp2, order1, order2)
<1>1. items = [i \in DOMAIN names |-> Item(names[i], comp1, comp2)]
  BY DEF ItemsOf
<1>2. changed \cap added = {} /\ ChangedIn(comp1, comp2) = changed \cup added
  BY ChangedCases
<1>3. changed \subseteq ToSet(ResNames) /\ added \subseteq ToSet(ResNames)
  BY DEF IsComponent
<1>4. /\ IsOrder(order1) /\ ToSet(order1) = ToSet(ResNames)
      /\ IsOrder(order2) /\ ToSet(order2) = ToSet(ResNames)
  BY DifferencesAssumption
<1> HIDE DEF changed, added, items
<1>5. /\ IsOrder(first) /\ ToSet(first) = changed
      /\ IsOrder(second) /\ ToSet(second) = added
  <2>1. IsOrder(first) /\ ToSet(first) = ToSet(order1) \cap changed
    BY <1>4, InOrderSound
  <2>2. IsOrder(second) /\ ToSet(second) = ToSet(order2) \cap added
    BY <1>4, InOrderSound
  <2> HIDE DEF first, second
  <2> QED BY <1>3, <1>4, <2>1, <2>2
<1> HIDE DEF first, second
<1>6. IsOrder(names) /\ ToSet(names) = ChangedIn(comp1, comp2)
  BY <1>2, <1>5, JoinSound
<1> HIDE DEF names
<1>7. IsList(names) /\ DOMAIN names = 1 .. Len(names) /\ Len(names) \in Nat
      /\ IsInjective(names)
  BY <1>6, ListProperties DEF IsOrder, IsList
<1>8. IsList(items) /\ DOMAIN items = DOMAIN names
  <2>1. items = [i \in 1 .. Len(names) |-> items[i]]
    BY <1>1, <1>7
  <2> QED BY <1>7, <2>1, FunctionIsList
<1>9. \A i \in DOMAIN items : /\ items[i].name = names[i]
                              /\ items[i] = Item(names[i], comp1, comp2)
  BY <1>1, <1>8 DEF Item
<1>10. NamedOnce(items)
  BY <1>7, <1>8, <1>9 DEF NamedOnce, IsInjective
<1>11. {items[i].name : i \in DOMAIN items} = ChangedIn(comp1, comp2)
  BY <1>6, <1>8, <1>9 DEF ToSet
<1> QED BY <1>8, <1>9, <1>10, <1>11 DEF ItemsExact, items

(* A component is among the differences exactly when a resource changed.   *)
LEMMA TypeTells ==
  ASSUME NEW comp1, NEW comp2, IsComponent(comp1), IsComponent(comp2),
         NEW items, ItemsExact(items, comp1, comp2)
  PROVE  /\ ComponentType(comp1, comp2, items) \in {"none", "added", "removed", "modified"}
         /\ (ComponentType(comp1, comp2, items) # "none") <=> (ChangedIn(comp1, comp2) # {})
         /\ (items = << >>) <=> (ChangedIn(comp1, comp2) = {})
<1>1. (items = << >>) <=> (ChangedIn(comp1, comp2) = {})
  <2>1. (items = << >>) <=> (DOMAIN items = {})
    BY ListProperties DEF ItemsExact
  <2>2. (DOMAIN items = {}) <=> (ChangedIn(comp1, comp2) = {})
    BY DEF ItemsExact
  <2> QED BY <2>1, <2>2
<1>2. /\ (comp1 = << >>) <=> (DOMAIN comp1 = {})
      /\ (comp2 = << >>) <=> (DOMAIN comp2 = {})
  BY DEF IsComponent
<1>3. /\ DOMAIN comp1 = {} => ChangedIn(comp1, comp2) = DOMAIN comp2
      /\ DOMAIN comp2 = {} => ChangedIn(comp1, comp2) = DOMAIN comp1
  <2> DEFINE changed == { n \in DOMAIN comp1 : \/ n \notin DOMAIN comp2
                                    \/ ~SameValue(Head(comp1[n]), Head(comp2[n])) }
             added == DOMAIN comp2 \ DOMAIN comp1
  <2>1. ChangedIn(comp1, comp2) = changed \cup added
    BY ChangedCases
  <2>2. DOMAIN comp1 = {} => changed = {} /\ added = DOMAIN comp2
    OBVIOUS
  <2>3. DOMAIN comp2 = {} => changed = DOMAIN comp1 /\ added = {}
    OBVIOUS
  <2> HIDE DEF changed, added
  <2> QED BY <2>1, <2>2, <2>3
<1>4. CASE comp1 = << >> /\ comp2 # << >>
  BY <1>1, <1>2, <1>3, <1>4 DEF ComponentType
<1>5. CASE comp1 # << >> /\ comp2 = << >>
  BY <1>1, <1>2, <1>3, <1>5 DEF ComponentType
<1>6. CASE comp1 # << >> /\ comp2 # << >>
  BY <1>1, <1>6 DEF ComponentType
<1>7. CASE comp1 = << >> /\ comp2 = << >>
  BY <1>1, <1>2, <1>3, <1>7 DEF ComponentType
<1> QED BY <1>4, <1>5, <1>6, <1>7

(***************************************************************************)
(* The components that the quick look names.                               *)
(***************************************************************************)
ChangedHere(profile1, profile2, c) ==
  ChangedIn(ComponentOf(profile1, c), ComponentOf(profile2, c))

Named(names) == ToSet(names.modified) \cup ToSet(names.added) \cup ToSet(names.removed)

LEMMA QuickMisses ==
  ASSUME NEW comp1, NEW comp2, IsComponent(comp1), IsComponent(comp2),
         ChangedIn(comp1, comp2) # {}
  PROVE  QuickComponent(comp1, comp2) = "modified"
<1>1. PICK n : n \in ChangedIn(comp1, comp2)
  OBVIOUS
<1>2. \/ n \in DOMAIN comp1 /\ (\/ n \notin DOMAIN comp2
                                \/ ~SameValue(Head(comp1[n]), Head(comp2[n])))
      \/ n \in DOMAIN comp2 /\ n \notin DOMAIN comp1
  BY <1>1, ChangedCases
<1> QED BY <1>2 DEF QuickComponent

LEMMA QuickNamesSound ==
  ASSUME NEW profile1 \in Profiles, NEW profile2 \in Profiles
  PROVE  LET names == QuickNames(profile1, profile2)
         IN /\ IsOrder(names.modified) /\ IsOrder(names.added) /\ IsOrder(names.removed)
            /\ ToSet(names.modified) \cap ToSet(names.added) = {}
            /\ (ToSet(names.modified) \cup ToSet(names.added)) \cap ToSet(names.removed) = {}
            /\ Named(names) \subseteq ToSet(CompNames)
            /\ \A c \in ToSet(names.modified) :
                 /\ c \in DOMAIN profile1 /\ c \in DOMAIN profile2
                 /\ QuickComponent(profile1[c], profile2[c]) = "modified"
            /\ \A c \in ToSet(CompNames) :
                 ChangedHere(profile1, profile2, c) # {} => c \in Named(names)
<1> DEFINE common == DOMAIN profile1 \intersect DOMAIN profile2
           M == { c \in common : QuickComponent(profile1[c], profile2[c]) = "modified" }
           A == DOMAIN profile2 \ DOMAIN profile1
           R == DOMAIN profile1 \ DOMAIN profile2
           names == QuickNames(profile1, profile2)
<1>1. /\ M \cap A = {} /\ (M \cup A) \cap R = {}
  OBVIOUS
<1>2. DOMAIN profile1 \subseteq ToSet(CompNames) /\ DOMAIN profile2 \subseteq ToSet(CompNames)
  BY ProfilesAssumption
<1>3. M \subseteq ToSet(CompNames) /\ A \subseteq ToSet(CompNames) /\ R \subseteq ToSet(CompNames)
  BY <1>2
<1>4. \A c \in M : /\ c \in DOMAIN profile1 /\ c \in DOMAIN profile2
                   /\ QuickComponent(profile1[c], profile2[c]) = "modified"
  OBVIOUS
<1>5. ASSUME NEW c, ChangedHere(profile1, profile2, c) # {}
      PROVE  c \in M \cup A \cup R
  <2>1. CASE c \in DOMAIN profile1 /\ c \in DOMAIN profile2
    <3>1. QuickComponent(profile1[c], profile2[c]) = "modified"
      <4>1. ComponentOf(profile1, c) = profile1[c] /\ ComponentOf(profile2, c) = profile2[c]
        BY <2>1 DEF ComponentOf
      <4> QED BY <1>5, <4>1, ComponentsTyped, QuickMisses DEF ChangedHere
    <3> QED BY <2>1, <3>1
  <2>2. CASE c \notin DOMAIN profile1 /\ c \notin DOMAIN profile2
    <3>1. ComponentOf(profile1, c) = << >> /\ ComponentOf(profile2, c) = << >>
      BY <2>2 DEF ComponentOf
    <3>2. DOMAIN << >> = {}
      OBVIOUS
    <3>3. ChangedIn(<< >>, << >>) = {}
      BY <3>2, ChangedCases, NoComponent
    <3> QED BY <1>5, <3>1, <3>3 DEF ChangedHere
  <2> QED BY <2>1, <2>2
<1>6. /\ names.modified = InOrder(CompNames, M)
      /\ names.added = InOrder(CompNames, A)
      /\ names.removed = InOrder(CompNames, R)
  BY DEF QuickNames
<1> HIDE DEF M, A, R, names
<1>7. IsOrder(CompNames)
  BY DifferencesAssumption
<1>8. /\ IsOrder(names.modified) /\ ToSet(names.modified) = M
      /\ IsOrder(names.added) /\ ToSet(names.added) = A
      /\ IsOrder(names.removed) /\ ToSet(names.removed) = R
  <2>1. ASSUME NEW S \in SUBSET ToSet(CompNames)
        PROVE  IsOrder(InOrder(CompNames, S)) /\ ToSet(InOrder(CompNames, S)) = S
    <3>1. /\ IsOrder(InOrder(CompNames, S))
          /\ ToSet(InOrder(CompNames, S)) = ToSet(CompNames) \cap S
      BY <1>7, InOrderSound
    <3> QED BY <3>1
  <2> QED BY <1>3, <1>6, <2>1
<1> QED BY <1>1, <1>3, <1>4, <1>5, <1>8 DEF Named, names

(***************************************************************************)
(* The differences of two profiles.                                        *)
(***************************************************************************)
EntryExact(entry, profile1, profile2) ==
  LET comp1 == ComponentOf(profile1, entry.name)
      comp2 == ComponentOf(profile2, entry.name)
  IN  /\ entry = [ name |-> entry.name, type |-> entry.type, items |-> entry.items ]
      /\ ItemsExact(entry.items, comp1, comp2)
      /\ entry.type = ComponentType(comp1, comp2, entry.items)

(* Each component of which a resource changed has an entry, and only one.  *)
Exact(compdiffs, profile1, profile2) ==
  /\ IsList(compdiffs) /\ NamedOnce(compdiffs)
  /\ \A i \in DOMAIN compdiffs : EntryExact(compdiffs[i], profile1, profile2)
  /\ {compdiffs[i].name : i \in DOMAIN compdiffs} =
       {c \in ToSet(CompNames) : ChangedHere(profile1, profile2, c) # {}}

LEMMA ProfileDiffExact ==
  ASSUME NEW profile1 \in Profiles, NEW profile2 \in Profiles,
         NEW order1 \in BucketOrders, NEW order2 \in BucketOrders
  PROVE  Exact(ProfileDiff(profile1, profile2, QuickNames(profile1, profile2),
                           order1, order2), profile1, profile2)
<1> DEFINE names == QuickNames(profile1, profile2)
           listed == names.modified \o names.added \o names.removed
           all == Compared(profile1, profile2, listed, order1, order2)
           places == { i \in DOMAIN all : all[i].type # "none" }
           made == AtPlaces(all, places)
           Here(c) == ChangedHere(profile1, profile2, c)
<1>1. ProfileDiff(profile1, profile2, names, order1, order2) = made
  BY DEF ProfileDiff
<1>2. IsOrder(listed) /\ ToSet(listed) = Named(names)
  <2> HIDE DEF names
  <2>1. /\ IsOrder(names.modified \o names.added)
        /\ ToSet(names.modified \o names.added) =
             ToSet(names.modified) \cup ToSet(names.added)
    BY QuickNamesSound, JoinSound DEF names
  <2>2. /\ IsOrder(names.removed)
        /\ (ToSet(names.modified) \cup ToSet(names.added)) \cap ToSet(names.removed) = {}
    BY QuickNamesSound DEF names
  <2> QED BY <2>1, <2>2, JoinSound DEF Named
<1>3. /\ Named(names) \subseteq ToSet(CompNames)
      /\ \A c \in ToSet(CompNames) : Here(c) # {} => c \in Named(names)
  BY QuickNamesSound
<1> HIDE DEF names, listed
<1>4. all = [i \in DOMAIN listed |->
               ComponentDiff(listed[i], ComponentOf(profile1, listed[i]),
                             ComponentOf(profile2, listed[i]), order1, order2)]
  BY DEF Compared
<1> HIDE DEF all, Here
<1>5. ASSUME NEW i \in DOMAIN listed
      PROVE  /\ all[i].name = listed[i]
             /\ EntryExact(all[i], profile1, profile2)
             /\ (all[i].type # "none") <=> (Here(listed[i]) # {})
  <2> DEFINE comp1 == ComponentOf(profile1, listed[i])
             comp2 == ComponentOf(profile2, listed[i])
             items == ItemsOf(comp1, comp2, order1, order2)
  <2>1. all[i] = [name |-> listed[i], type |-> ComponentType(comp1, comp2, items),
                  items |-> items]
    BY <1>4 DEF ComponentDiff
  <2>2. IsComponent(comp1) /\ IsComponent(comp2)
    BY ComponentsTyped
  <2> HIDE DEF comp1, comp2
  <2>3. ItemsExact(items, comp1, comp2)
    BY <2>2, ItemsOfExact
  <2> HIDE DEF items
  <2>4. (ComponentType(comp1, comp2, items) # "none") <=> (ChangedIn(comp1, comp2) # {})
    BY <2>2, <2>3, TypeTells
  <2>5. Here(listed[i]) = ChangedIn(comp1, comp2)
    BY DEF Here, ChangedHere, comp1, comp2
  <2>6. all[i].name = listed[i] /\ all[i].items = items
        /\ all[i].type = ComponentType(comp1, comp2, items)
        /\ all[i] = [ name |-> all[i].name, type |-> all[i].type, items |-> all[i].items ]
    BY <2>1
  <2> QED BY <2>3, <2>4, <2>5, <2>6 DEF EntryExact, comp1, comp2
<1>6. /\ IsList(listed) /\ IsInjective(listed) /\ DOMAIN all = DOMAIN listed
      /\ DOMAIN listed \in SUBSET Nat /\ IsFiniteSet(DOMAIN listed)
  BY <1>2, <1>4, ListProperties DEF IsOrder, IsList
<1>7. /\ places \in SUBSET Nat /\ IsFiniteSet(places)
      /\ \A i : i \in places <=> i \in DOMAIN listed /\ all[i].type # "none"
  BY <1>6, FS_Subset
<1> HIDE DEF places
<1>8. Takes(made, all, places)
  BY <1>7, AtPlacesSound
<1> HIDE DEF made
<1>9. \A i, j \in places : all[i].name = all[j].name => i = j
  BY <1>5, <1>6, <1>7 DEF IsInjective
<1>10. /\ IsList(made) /\ NamedOnce(made)
       /\ \A k \in DOMAIN made : \E i \in places : made[k] = all[i]
       /\ \A i \in places : \E k \in DOMAIN made : made[k] = all[i]
  BY <1>8, <1>9, TakesContents
<1>11. \A k \in DOMAIN made : EntryExact(made[k], profile1, profile2)
  BY <1>5, <1>7, <1>10
<1>12. {made[k].name : k \in DOMAIN made} = {c \in ToSet(CompNames) : Here(c) # {}}
  <2>1. \A k \in DOMAIN made : made[k].name \in ToSet(CompNames) /\ Here(made[k].name) # {}
    <3> SUFFICES ASSUME NEW k \in DOMAIN made
                 PROVE  made[k].name \in ToSet(CompNames) /\ Here(made[k].name) # {}
      OBVIOUS
    <3>1. PICK i \in places : made[k] = all[i]
      BY <1>10
    <3>2. made[k].name = listed[i] /\ Here(listed[i]) # {} /\ i \in DOMAIN listed
      BY <1>5, <1>7, <3>1
    <3>3. listed[i] \in ToSet(listed)
      BY <3>2 DEF ToSet
    <3> QED BY <1>2, <1>3, <3>2, <3>3
  <2>2. \A c \in ToSet(CompNames) : Here(c) # {} => \E k \in DOMAIN made : made[k].name = c
    <3> SUFFICES ASSUME NEW c \in ToSet(CompNames), Here(c) # {}
                 PROVE  \E k \in DOMAIN made : made[k].name = c
      OBVIOUS
    <3>1. c \in ToSet(listed)
      BY <1>2, <1>3
    <3>2. PICK i \in DOMAIN listed : listed[i] = c
      BY <3>1 DEF ToSet
    <3>3. i \in places /\ all[i].name = c
      BY <1>5, <1>7, <3>2
    <3> QED BY <1>10, <3>3
  <2> QED BY <2>1, <2>2
<1> QED BY <1>1, <1>10, <1>11, <1>12 DEF Exact, Here, names

(* Sorting the entries, and the resources in each, keeps all of this.      *)
LEMMA SortKeepsItems ==
  ASSUME NEW comp1, NEW comp2, NEW items, ItemsExact(items, comp1, comp2)
  PROVE  ItemsExact(SortedBy(ResNames, items), comp1, comp2)
<1> DEFINE made == SortedBy(ResNames, items)
<1>1. IsList(items) /\ NamedOnce(items)
      /\ {items[i].name : i \in DOMAIN items} = ChangedIn(comp1, comp2)
  BY DEF ItemsExact
<1>2. \A i \in DOMAIN items : items[i].name \in ToSet(ResNames)
  <2>1. ChangedIn(comp1, comp2) \subseteq ToSet(ResNames)
    BY DEF ChangedIn
  <2> QED BY <1>1, <2>1
<1>3. Takes(made, items, DOMAIN items)
  BY <1>1, <1>2, DifferencesAssumption, SortedBySound
<1> HIDE DEF made
<1>4. /\ IsList(made) /\ NamedOnce(made)
      /\ \A k \in DOMAIN made : \E i \in DOMAIN items : made[k] = items[i]
      /\ \A i \in DOMAIN items : \E k \in DOMAIN made : made[k] = items[i]
  BY <1>1, <1>3, TakesContents DEF NamedOnce
<1>5. \A k \in DOMAIN made : made[k] = Item(made[k].name, comp1, comp2)
  BY <1>4 DEF ItemsExact
<1>6. {made[k].name : k \in DOMAIN made} = {items[i].name : i \in DOMAIN items}
  BY <1>4
<1> QED BY <1>1, <1>4, <1>5, <1>6 DEF ItemsExact, made

LEMMA SortKeepsExact ==
  ASSUME NEW profile1 \in Profiles, NEW profile2 \in Profiles,
         NEW compdiffs, Exact(compdiffs, profile1, profile2)
  PROVE  Exact(SortForHold(compdiffs), profile1, profile2)
<1> DEFINE sorted == SortedBy(CompNames, compdiffs)
           made == SortForHold(compdiffs)
           names == {compdiffs[i].name : i \in DOMAIN compdiffs}
<1>1. /\ IsList(compdiffs) /\ NamedOnce(compdiffs)
      /\ \A i \in DOMAIN compdiffs : EntryExact(compdiffs[i], profile1, profile2)
      /\ names = {c \in ToSet(CompNames) : ChangedHere(profile1, profile2, c) # {}}
  BY DEF Exact
<1>2. \A i \in DOMAIN compdiffs : compdiffs[i].name \in ToSet(CompNames)
  BY <1>1
<1>3. Takes(sorted, compdiffs, DOMAIN compdiffs)
  BY <1>1, <1>2, DifferencesAssumption, SortedBySound
<1>4. made = [i \in DOMAIN sorted |->
                [sorted[i] EXCEPT !.items = SortedBy(ResNames, @)]]
  BY DEF SortForHold
<1> HIDE DEF sorted, made
<1>5. /\ IsList(sorted) /\ NamedOnce(sorted) /\ DOMAIN sorted = 1 .. Len(sorted)
      /\ \A k \in DOMAIN sorted : \E i \in DOMAIN compdiffs : sorted[k] = compdiffs[i]
      /\ \A i \in DOMAIN compdiffs : \E k \in DOMAIN sorted : sorted[k] = compdiffs[i]
  BY <1>1, <1>3, TakesContents DEF NamedOnce
<1>6. IsList(made) /\ DOMAIN made = DOMAIN sorted
  <2>1. Len(sorted) \in Nat
    BY <1>5, ListProperties
  <2>2. made = [i \in 1 .. Len(sorted) |-> made[i]]
    BY <1>4, <1>5
  <2> QED BY <1>5, <2>1, <2>2, FunctionIsList
<1>7. ASSUME NEW k \in DOMAIN made
      PROVE  /\ made[k].name = sorted[k].name
             /\ EntryExact(made[k], profile1, profile2)
  <2> DEFINE entry == sorted[k]
             comp1 == ComponentOf(profile1, entry.name)
             comp2 == ComponentOf(profile2, entry.name)
             items == SortedBy(ResNames, entry.items)
  <2>1. EntryExact(entry, profile1, profile2)
    BY <1>1, <1>5, <1>6
  <2>2. /\ entry = [ name |-> entry.name, type |-> entry.type, items |-> entry.items ]
        /\ ItemsExact(entry.items, comp1, comp2)
        /\ entry.type = ComponentType(comp1, comp2, entry.items)
    BY <2>1 DEF EntryExact
  <2>3. made[k] = [ entry EXCEPT !.items = items ]
    BY <1>4, <1>6
  <2>4. IsComponent(comp1) /\ IsComponent(comp2)
    BY ComponentsTyped
  <2>5. ItemsExact(items, comp1, comp2)
    BY <2>2, SortKeepsItems
  <2> HIDE DEF items, entry
  <2>6. (items = << >>) <=> (entry.items = << >>)
    BY <2>2, <2>4, <2>5, TypeTells
  <2>7. ComponentType(comp1, comp2, items) = ComponentType(comp1, comp2, entry.items)
    BY <2>6 DEF ComponentType
  <2>8. made[k] = [ name |-> entry.name, type |-> entry.type, items |-> items ]
    BY <2>2, <2>3
  <2>9. /\ made[k].name = entry.name /\ made[k].type = entry.type
        /\ made[k].items = items
    BY <2>8
  <2> QED BY <2>2, <2>5, <2>7, <2>8, <2>9 DEF EntryExact, entry
<1>8. NamedOnce(made)
  BY <1>5, <1>6, <1>7 DEF NamedOnce
<1>9. {made[k].name : k \in DOMAIN made} = names
  BY <1>5, <1>6, <1>7
<1> QED BY <1>1, <1>6, <1>7, <1>8, <1>9 DEF Exact, made

(* Looking an entry up by its name.                                        *)
LEMMA LookedUp ==
  ASSUME NEW seq, IsList(seq), NEW n
  PROVE  LET i == SelectInSeq(seq, LAMBDA e : e.name = n)
         IN \/ i = 0 /\ \A j \in DOMAIN seq : seq[j].name # n
            \/ i \in DOMAIN seq /\ i # 0 /\ seq[i].name = n
<1> DEFINE I == {j \in 1 .. Len(seq) : seq[j].name = n}
           i == SelectInSeq(seq, LAMBDA e : e.name = n)
<1>1. DOMAIN seq = 1 .. Len(seq) /\ Len(seq) \in Nat
  BY ListProperties
<1>2. i = IF I # {} THEN Min(I) ELSE 0
  BY DEF SelectInSeq
<1>3. I # {} => Min(I) \in I
  <2>1. I \in SUBSET Nat
    BY <1>1
  <2>2. I # {} => \E x \in I : \A y \in I : x <= y
    BY <2>1, LeastExists
  <2> QED BY <2>2 DEF Min
<1> QED BY <1>1, <1>2, <1>3

(***************************************************************************)
(* What exact differences say.                                             *)
(***************************************************************************)
LEMMA SameIsUnchanged == \A r : ~Changed(r, r)
BY DEF Changed, SameValue

LEMMA ExactMeans ==
  ASSUME old \in Profiles, new \in Profiles, Exact(diff, old, new)
  PROVE  /\ \A i \in DOMAIN diff :
              /\ diff[i].name \in ToSet(CompNames)
              /\ diff[i].type \in {"added", "removed", "modified"}
              /\ diff[i].type = "modified" => ComponentOf(old, diff[i].name) # << >>
              /\ IsList(diff[i].items) /\ NamedOnce(diff[i].items)
              /\ \A k \in DOMAIN diff[i].items :
                   LET item == diff[i].items[k]
                   IN /\ item.old = Was(diff[i].name, item.name)
                      /\ item.new = Is(diff[i].name, item.name)
                      /\ Changed(item.old, item.new)
         /\ \A comp \in ToSet(CompNames) :
              Differs(comp) <=> \E i \in DOMAIN diff : diff[i].name = comp
         /\ \A i \in DOMAIN diff, name \in ToSet(ResNames) :
              Changed(Was(diff[i].name, name), Is(diff[i].name, name)) =>
                \E k \in DOMAIN diff[i].items : diff[i].items[k].name = name
<1>1. /\ \A i \in DOMAIN diff : EntryExact(diff[i], old, new)
      /\ {diff[i].name : i \in DOMAIN diff} =
           {c \in ToSet(CompNames) : ChangedHere(old, new, c) # {}}
  BY DEF Exact
<1>2. \A c : ChangedHere(old, new, c) =
               {n \in ToSet(ResNames) : Changed(Was(c, n), Is(c, n))}
  BY DEF ChangedHere, ChangedIn, Was, Is
<1>3. \A comp \in ToSet(CompNames) :
        Differs(comp) <=> \E i \in DOMAIN diff : diff[i].name = comp
  <2>1. \A c : Differs(c) <=> ChangedHere(old, new, c) # {}
    BY <1>2 DEF Differs
  <2>2. \A comp \in ToSet(CompNames) :
          ChangedHere(old, new, comp) # {} <=> \E i \in DOMAIN diff : diff[i].name = comp
    BY <1>1
  <2> QED BY <2>1, <2>2
<1>4. ASSUME NEW i \in DOMAIN diff
      PROVE  /\ diff[i].name \in ToSet(CompNames)
             /\ diff[i].type \in {"added", "removed", "modified"}
             /\ diff[i].type = "modified" => ComponentOf(old, diff[i].name) # << >>
             /\ IsList(diff[i].items) /\ NamedOnce(diff[i].items)
             /\ \A k \in DOMAIN diff[i].items :
                  LET item == diff[i].items[k]
                  IN /\ item.old = Was(diff[i].name, item.name)
                     /\ item.new = Is(diff[i].name, item.name)
                     /\ Changed(item.old, item.new)
             /\ \A name \in ToSet(ResNames) :
                  Changed(Was(diff[i].name, name), Is(diff[i].name, name)) =>
                    \E k \in DOMAIN diff[i].items : diff[i].items[k].name = name
  <2> DEFINE c == diff[i].name
             comp1 == ComponentOf(old, c)
             comp2 == ComponentOf(new, c)
             items == diff[i].items
  <2>1. /\ ItemsExact(items, comp1, comp2)
        /\ diff[i].type = ComponentType(comp1, comp2, items)
    BY <1>1 DEF EntryExact
  <2>2. c \in ToSet(CompNames) /\ ChangedIn(comp1, comp2) # {}
    <3>1. c \in {diff[j].name : j \in DOMAIN diff}
      OBVIOUS
    <3> QED BY <1>1, <3>1 DEF ChangedHere
  <2>3. IsComponent(comp1) /\ IsComponent(comp2)
    BY ComponentsTyped
  <2>4. diff[i].type \in {"added", "removed", "modified"}
    BY <2>1, <2>2, <2>3, TypeTells
  <2>5. diff[i].type = "modified" => comp1 # << >>
    BY <2>1 DEF ComponentType
  <2>6. ChangedIn(comp1, comp2) = {n \in ToSet(ResNames) : Changed(Was(c, n), Is(c, n))}
    BY DEF ChangedIn, Was, Is
  <2>7. \A n : ResourceOf(comp1, n) = Was(c, n) /\ ResourceOf(comp2, n) = Is(c, n)
    BY DEF Was, Is
  <2> HIDE DEF c, comp1, comp2, items
  <2>8. /\ IsList(items) /\ NamedOnce(items)
        /\ \A k \in DOMAIN items : items[k] = Item(items[k].name, comp1, comp2)
        /\ {items[k].name : k \in DOMAIN items} = ChangedIn(comp1, comp2)
    BY <2>1 DEF ItemsExact
  <2>9. ASSUME NEW k \in DOMAIN items
        PROVE  /\ items[k].old = Was(c, items[k].name)
               /\ items[k].new = Is(c, items[k].name)
               /\ Changed(items[k].old, items[k].new)
    <3>1. items[k].name \in ChangedIn(comp1, comp2)
      BY <2>8
    <3>2. Changed(Was(c, items[k].name), Is(c, items[k].name))
      BY <2>6, <3>1
    <3>3. /\ items[k].old = ResourceOf(comp1, items[k].name)
          /\ items[k].new = ResourceOf(comp2, items[k].name)
      BY <2>8 DEF Item
    <3> QED BY <2>7, <3>2, <3>3
  <2>10. \A name \in ToSet(ResNames) : Changed(Was(c, name), Is(c, name)) =>
           \E k \in DOMAIN items : items[k].name = name
    BY <2>6, <2>8
  <2> QED BY <2>2, <2>4, <2>5, <2>8, <2>9, <2>10 DEF c, comp1, items
<1> QED BY <1>3, <1>4

LEMMA ExactIsSound ==
  ASSUME old \in Profiles, new \in Profiles, Exact(diff, old, new)
  PROVE  DiffSound
<1>1. IsList(diff) /\ NamedOnce(diff)
  BY DEF Exact
<1>2. ASSUME NEW comp \in ToSet(CompNames), NEW name \in ToSet(ResNames)
      PROVE  ~Changed(Applied(comp, name), Is(comp, name))
  <2> DEFINE i == SelectInSeq(diff, LAMBDA d : d.name = comp)
             k == SelectInSeq(diff[i].items, LAMBDA item : item.name = name)
  <2>1. \/ i = 0 /\ \A j \in DOMAIN diff : diff[j].name # comp
        \/ i \in DOMAIN diff /\ i # 0 /\ diff[i].name = comp
    BY <1>1, LookedUp
  <2>2. Applied(comp, name) = IF i = 0 \/ k = 0 THEN Was(comp, name)
                              ELSE diff[i].items[k].new
    BY DEF Applied
  <2>3. CASE i = 0
    <3>1. ~Differs(comp)
      BY <2>1, <2>3, ExactMeans
    <3>2. ~Changed(Was(comp, name), Is(comp, name))
      BY <3>1 DEF Differs
    <3> QED BY <2>2, <2>3, <3>2
  <2>4. CASE i # 0
    <3>1. i \in DOMAIN diff /\ diff[i].name = comp
      BY <2>1, <2>4
    <3>2. IsList(diff[i].items)
      BY <3>1, ExactMeans
    <3>3. \/ k = 0 /\ \A j \in DOMAIN diff[i].items : diff[i].items[j].name # name
          \/ k \in DOMAIN diff[i].items /\ k # 0 /\ diff[i].items[k].name = name
      BY <3>2, LookedUp
    <3> HIDE DEF i, k
    <3>4. CASE k = 0
      <4>1. ~Changed(Was(comp, name), Is(comp, name))
        BY <3>1, <3>3, <3>4, ExactMeans
      <4> QED BY <2>2, <3>4, <4>1
    <3>5. CASE k # 0
      <4>1. diff[i].items[k].new = Is(comp, name)
        BY <3>1, <3>3, <3>5, ExactMeans
      <4> QED BY <2>2, <2>4, <3>5, <4>1, SameIsUnchanged
    <3> QED BY <3>4, <3>5
  <2> QED BY <2>3, <2>4
<1>3. ASSUME NEW i \in DOMAIN diff, NEW k \in DOMAIN diff[i].items
      PROVE  /\ ResourceType(diff[i].items[k]) # "none"
             /\ \A j \in 1 .. k - 1 : diff[i].items[j].name # diff[i].items[k].name
  <2>1. /\ Changed(diff[i].items[k].old, diff[i].items[k].new)
        /\ IsList(diff[i].items) /\ NamedOnce(diff[i].items)
    BY ExactMeans
  <2>2. ResourceType(diff[i].items[k]) # "none"
    BY <2>1 DEF ResourceType, Changed
  <2> DEFINE items == diff[i].items
  <2>3. DOMAIN items = 1 .. Len(items) /\ Len(items) \in Nat
    BY <2>1, ListProperties
  <2> HIDE DEF items
  <2>4. k \in DOMAIN items /\ NamedOnce(items)
    BY <2>1 DEF items
  <2>5. \A j \in 1 .. k - 1 : j \in DOMAIN items /\ j # k
    BY <2>3, <2>4
  <2>6. \A j \in 1 .. k - 1 : items[j].name # items[k].name
    BY <2>4, <2>5 DEF NamedOnce
  <2> QED BY <2>2, <2>6 DEF items
<1> QED BY <1>2, <1>3 DEF DiffSound

LEMMA ExactNames ==
  ASSUME old \in Profiles, new \in Profiles, Exact(diff, old, new)
  PROVE  NamesExact
<1> DEFINE S(types) == { diff[i].name : i \in { k \in DOMAIN diff : diff[k].type \in types } }
           all == {"added", "removed", "modified"}
<1>1. \A types : NamesForType(diff, types) = InOrder(CompNames, S(types))
  BY DEF NamesForType
<1>2. S(all) = { c \in ToSet(CompNames) : Differs(c) }
  <2>1. /\ \A i \in DOMAIN diff : diff[i].type \in all /\ diff[i].name \in ToSet(CompNames)
        /\ \A c \in ToSet(CompNames) :
             Differs(c) <=> \E i \in DOMAIN diff : diff[i].name = c
    BY ExactMeans
  <2> HIDE DEF all
  <2> QED BY <2>1
<1>3. NamesForType(diff, all) = InOrder(CompNames, { c \in ToSet(CompNames) : Differs(c) })
  <2> HIDE DEF S, all
  <2> QED BY <1>1, <1>2
<1>4. ASSUME NEW t1, NEW t2, t1 # t2
      PROVE  ToSet(NamesForType(diff, {t1})) \intersect ToSet(NamesForType(diff, {t2})) = {}
  <2>1. S({t1}) \cap S({t2}) = {}
    <3>1. NamedOnce(diff)
      BY DEF Exact
    <3> QED BY <1>4, <3>1 DEF NamedOnce
  <2> HIDE DEF S
  <2>2. \A types : ToSet(NamesForType(diff, types)) = ToSet(CompNames) \cap S(types)
    BY <1>1, DifferencesAssumption, InOrderSound
  <2> QED BY <2>1, <2>2
<1> QED BY <1>3, <1>4 DEF NamesExact

(***************************************************************************)
(* The inductive invariant.  The properties speak of the differences as    *)
(* they are read back: how a resource is afterwards, under which name a    *)
(* component is reported.  None of them is inductive, because WriteHold    *)
(* sorts the differences in place; that they are Exact is, as neither the  *)
(* order of the entries nor that of the resources in one matters to it.    *)
(***************************************************************************)
QuickOK == quick = NotLooked \/ quick = QuickAnswer(QuickNames(old, new))

DiffOK ==
  /\ change \in {"unknown", "none", "modified"}
  /\ change = "unknown" => diff = << >>
  /\ change # "unknown" => Exact(diff, old, new)

Inv == old \in Profiles /\ new \in Profiles /\ QuickOK /\ DiffOK

(* No difference is exact when the quick look names no component.          *)
LEMMA NothingIsExact ==
  ASSUME NEW profile1 \in Profiles, NEW profile2 \in Profiles,
         QuickNames(profile1, profile2) = NoNames
  PROVE  Exact(<< >>, profile1, profile2)
<1> DEFINE names == QuickNames(profile1, profile2)
           nothing == << >>
<1>1. \A c \in ToSet(CompNames) :
        ChangedHere(profile1, profile2, c) # {} => c \in Named(names)
  BY QuickNamesSound
<1>2. DOMAIN nothing = {}
  OBVIOUS
<1>3. Named(names) = {}
  <2>1. /\ names.modified = << >> /\ names.added = << >> /\ names.removed = << >>
    BY DEF NoNames
  <2> HIDE DEF names
  <2> QED BY <1>2, <2>1 DEF Named, ToSet
<1>4. IsList(nothing)
  BY DEF IsList
<1> HIDE DEF names, nothing
<1>5. {nothing[i].name : i \in DOMAIN nothing} =
        {c \in ToSet(CompNames) : ChangedHere(profile1, profile2, c) # {}}
  BY <1>1, <1>2, <1>3
<1> QED BY <1>2, <1>4, <1>5 DEF Exact, NamedOnce, nothing

LEMMA InitInv == Init => Inv
BY DEF Init, Inv, QuickOK, DiffOK

LEMMA StepInv == Inv /\ [Next]_vars => Inv'
<1> SUFFICES ASSUME Inv, [Next]_vars PROVE Inv'
  OBVIOUS
<1>1. CASE QuickDiff
  BY <1>1 DEF QuickDiff, Inv, QuickOK, DiffOK
<1>2. ASSUME NEW order1 \in BucketOrders, NEW order2 \in BucketOrders,
             TakeDiff(order1, order2)
      PROVE  Inv'
  <2> DEFINE names == QuickNames(old, new)
             answer == QuickAnswer(names)
  <2>1. /\ quick' = answer /\ change' = answer.change
        /\ diff' = IF answer.change = "none" THEN << >>
                   ELSE ProfileDiff(old, new, answer.names, order1, order2)
        /\ old' = old /\ new' = new
    BY <1>2 DEF TakeDiff
  <2>2. /\ answer.names = names
        /\ answer.change = IF names = NoNames THEN "none" ELSE "modified"
    BY DEF QuickAnswer
  <2>3. Exact(diff', old, new)
    <3>1. CASE names = NoNames
      BY <2>1, <2>2, <3>1, NothingIsExact DEF Inv
    <3>2. CASE names # NoNames
      <4>1. diff' = ProfileDiff(old, new, QuickNames(old, new), order1, order2)
        BY <2>1, <2>2, <3>2
      <4> QED BY <4>1, ProfileDiffExact DEF Inv
    <3> QED BY <3>1, <3>2
  <2>4. change' \in {"none", "modified"}
    BY <2>1, <2>2
  <2> QED BY <2>1, <2>3, <2>4 DEF Inv, QuickOK, DiffOK
<1>3. CASE WriteHold
  <2>1. Exact(SortForHold(diff), old, new)
    BY <1>3, SortKeepsExact DEF WriteHold, Inv, DiffOK
  <2> QED BY <1>3, <2>1 DEF WriteHold, Inv, QuickOK, DiffOK
<1>4. CASE Adopt
  BY <1>4 DEF Adopt, Inv, QuickOK, DiffOK
<1>5. CASE UNCHANGED vars
  BY <1>5 DEF vars, Inv, QuickOK, DiffOK
<1> QED BY <1>1, <1>2, <1>3, <1>4, <1>5 DEF Next

LEMMA AlwaysInv == Spec => []Inv
BY InitInv, StepInv, PTL DEF Spec

(***************************************************************************)
(* The theorems.                                                           *)
(***************************************************************************)
LEMMA InvDiffExact == Inv => DiffExact
<1> SUFFICES ASSUME Inv PROVE DiffExact
  OBVIOUS
<1>1. quick.change \in {"unknown", "none", "modified"}
  BY DEF Inv, QuickOK, NotLooked, QuickAnswer
<1>2. CASE change = "unknown"
  <2>1. diff = << >>
    BY <1>2 DEF Inv, DiffOK
  <2>2. DOMAIN diff = {}
    BY <2>1
  <2> QED BY <1>1, <1>2, <2>2 DEF DiffExact, TypeOK, DiffSound, NamesExact, Inv, DiffOK
<1>3. CASE change # "unknown"
  <2>1. old \in Profiles /\ new \in Profiles /\ Exact(diff, old, new)
    BY <1>3 DEF Inv, DiffOK
  <2>2. \A i \in DOMAIN diff : /\ diff[i].name \in ToSet(CompNames)
                               /\ diff[i].type \in {"added", "removed", "modified"}
    BY <2>1, ExactMeans
  <2>3. IsList(diff) /\ NamedOnce(diff)
    BY <2>1 DEF Exact
  <2>4. DOMAIN diff = 1 .. Len(diff) /\ Len(diff) \in Nat
    BY <2>3, ListProperties
  <2>5. \A i \in DOMAIN diff : \A k \in 1 .. i - 1 : k \in DOMAIN diff /\ k # i
    BY <2>4
  <2>6. \A i \in DOMAIN diff : \A k \in 1 .. i - 1 : diff[k].name # diff[i].name
    BY <2>3, <2>5 DEF NamedOnce
  <2>7. TypeOK
    BY <1>1, <2>2, <2>6 DEF TypeOK, Inv, DiffOK
  <2> QED BY <2>1, <2>7, ExactIsSound, ExactNames DEF DiffExact
<1> QED BY <1>2, <1>3

(* At every moment the differences are well typed, applying them to the    *)
(* old profile gives the new one, each changed resource is named exactly   *)
(* once, and the lists of component names are those of the components      *)
(* that changed: for all profiles and bucket orders, before and after the  *)
(* hold file sorts the differences (lcfgprofile_diff, lcfgcomponent_diff,  *)
(* lcfgdiffprofile_to_holdfile).                                           *)
THEOREM DifferencesAreExact == Spec => []DiffExact
BY AlwaysInv, InvDiffExact, PTL

LEMMA InvQuickHonest == Inv => QuickHonest
<1> SUFFICES ASSUME Inv, quick.change # "unknown" PROVE QuickHonest
  BY DEF QuickHonest
<1> DEFINE names == QuickNames(old, new)
<1>1. old \in Profiles /\ new \in Profiles
  BY DEF Inv
<1>2. quick.names = names
  BY DEF Inv, QuickOK, NotLooked, QuickAnswer
<1>3. \A c : Differs(c) <=> ChangedHere(old, new, c) # {}
  BY DEF ChangedHere, ChangedIn, Was, Is, Differs
<1>4. /\ \A c \in ToSet(names.modified) :
           /\ c \in DOMAIN old /\ c \in DOMAIN new
           /\ QuickComponent(old[c], new[c]) = "modified"
      /\ \A c \in ToSet(CompNames) : ChangedHere(old, new, c) # {} => c \in Named(names)
  BY <1>1, QuickNamesSound
<1> HIDE DEF names
<1>5. ASSUME NEW comp \in ToSet(CompNames), Differs(comp)
      PROVE  \E list \in { quick.names.modified, quick.names.added, quick.names.removed } :
               comp \in ToSet(list)
  BY <1>2, <1>3, <1>4, <1>5 DEF Named
<1>6. ASSUME NEW comp \in ToSet(names.modified), SizeOf(old[comp]) = SizeOf(new[comp])
      PROVE  Differs(comp)
  <2>1. ComponentOf(old, comp) = old[comp] /\ ComponentOf(new, comp) = new[comp]
    BY <1>4 DEF ComponentOf
  <2>2. IsComponent(old[comp]) /\ IsComponent(new[comp])
    BY <1>1, <2>1, ComponentsTyped
  <2>3. PICK n : \/ n \in DOMAIN old[comp] /\ (\/ n \notin DOMAIN new[comp]
                                 \/ ~SameValue(Head(old[comp][n]), Head(new[comp][n])))
                 \/ n \in DOMAIN new[comp] /\ n \notin DOMAIN old[comp]
    BY <1>4, <1>6 DEF QuickComponent
  <2>4. n \in ChangedIn(old[comp], new[comp])
    BY <2>2, <2>3, ChangedCases
  <2> QED BY <1>3, <2>1, <2>4 DEF ChangedHere
<1> QED BY <1>2, <1>5, <1>6 DEF QuickHonest

(* The quick look never misses a component of which a resource changed,    *)
(* and names as modified only one whose resources or whose number of       *)
(* resources changed, for all profiles (lcfgcompset_quickdiff,             *)
(* lcfgcomponent_quickdiff).                                               *)
THEOREM QuickLookIsHonest == Spec => []QuickHonest
BY AlwaysInv, InvQuickHonest, PTL

LEMMA InvProds == Inv => ProdsARunningComponent
<1> SUFFICES ASSUME Inv, NEW i \in DOMAIN diff, WasProdded(diff[i])
             PROVE  /\ ComponentOf(old, diff[i].name) # << >>
                    /\ HasValue(Is(diff[i].name, Prod))
                    /\ Changed(Was(diff[i].name, Prod), Is(diff[i].name, Prod))
  BY DEF ProdsARunningComponent
<1>1. change # "unknown"
  <2>1. DOMAIN << >> = {}
    OBVIOUS
  <2> QED BY <2>1 DEF Inv, DiffOK
<1>2. old \in Profiles /\ new \in Profiles /\ Exact(diff, old, new)
  BY <1>1 DEF Inv, DiffOK
<1>3. diff[i].type = "modified"
  BY DEF WasProdded
<1>4. PICK k \in DOMAIN diff[i].items :
        diff[i].items[k].name = Prod /\ HasValue(diff[i].items[k].new)
  BY DEF WasProdded
<1>5. /\ diff[i].items[k].old = Was(diff[i].name, diff[i].items[k].name)
      /\ diff[i].items[k].new = Is(diff[i].name, diff[i].items[k].name)
      /\ Changed(diff[i].items[k].old, diff[i].items[k].new)
  BY <1>2, ExactMeans
<1>6. ComponentOf(old, diff[i].name) # << >>
  BY <1>2, <1>3, ExactMeans
<1> QED BY <1>4, <1>5, <1>6

(* A component counts as prodded only if it was there before and its prod  *)
(* really changed to a value it has now, at every moment of a client that  *)
(* takes one profile after another (lcfgdiffcomponent_was_prodded).        *)
THEOREM ProdsAreReal == Spec => []ProdsARunningComponent
BY AlwaysInv, InvProds, PTL

-----------------------------------------------------------------------------
(***************************************************************************)
(* The files.                                                              *)
(***************************************************************************)

(* What a temporary file may hold: a text or the part of one that was      *)
(* printed when something failed.                                          *)
Texts == Contents \cup {<< >>}
           \cup UNION { Parts(c) : c \in Contents }

FileTypes ==
  /\ disk \in [ Files -> Texts \cup {None} ]
  /\ mtime \in [ Files -> 0..1 ]
  /\ tmp \in [ Writers -> Texts \cup {None} ]
  /\ call \in [ Writers -> Calls \cup {None} ]
  /\ litter \in Nat /\ calls \in 0..MaxCalls /\ faults \in 0..MaxFaults
  /\ litter <= faults
  /\ \A f \in Files : disk[f] = None => mtime[f] = 0
  /\ \A f \in Files \ {StoreFile} : disk[f] \in Contents \cup {None}
  /\ torn \in BOOLEAN
  /\ torn \/ disk[StoreFile] \in Contents \cup {None}

(* What a call has done when it is at a step: the temporary file is there  *)
(* from Open to Cleanup, and is complete when it is compared or renamed,   *)
(* unless the failure to write the database was passed over.               *)
Shape(w) ==
  IF call[w] = None THEN tmp[w] = None
  ELSE
    /\ call[w].todo \subseteq Targets(call[w].kind)
    /\ call[w].step # "next" => call[w].file \in Targets(call[w].kind) \ call[w].todo
    /\ call[w].step \in {"next", "open"} => tmp[w] = None
    /\ call[w].step = "compare" => call[w].kind # "store"
    /\ call[w].step \in {"compare", "rename"} =>
         /\ tmp[w] # None
         /\ IF call[w].file \in call[w].passed
            THEN call[w].kind = "store" /\ tmp[w] \in Parts(call[w].want)
            ELSE tmp[w] = call[w].want
    /\ call[w].step \in {"open", "print"} => call[w].file \notin call[w].passed
    /\ call[w].step = "utime" => disk[call[w].file] # None

(* The file a call is at, as long as it need not have its contents.        *)
Pending(w) ==
  IF call[w].step \in {"open", "print", "compare", "rename"} THEN {call[w].file} ELSE {}

(* The files a call has done have had the contents it was given, unless a  *)
(* failure was passed over; then there is some file.                       *)
Written(w) ==
  call[w] # None =>
    /\ held[w] \subseteq Targets(call[w].kind)
    /\ call[w].passed \subseteq Targets(call[w].kind) \ call[w].todo
    /\ \A f \in call[w].passed \ {StoreFile} : disk[f] # None
    /\ call[w].ok =>
         ((Targets(call[w].kind) \ call[w].todo) \ Pending(w)) \ call[w].passed
            \subseteq held[w]

(* The file a call is at, as long as it need not have its time.            *)
Unstamped(w) ==
  IF call[w].step \in {"open", "print", "compare", "rename", "utime"} THEN {call[w].file} ELSE {}

(* The files a lone call has done have the time it was given, and a        *)
(* database that was torn is a part of the text.                           *)
Stamped(w) ==
  call[w] # None /\ call[w].alone =>
    /\ \A v \in Writers \ {w} : call[v] = None
    /\ call[w].ok /\ call[w].time # 0 =>
         \A f \in ((Targets(call[w].kind) \ call[w].todo) \ Unstamped(w)) \ call[w].unset :
            mtime[f] = call[w].time
    /\ call[w].ok /\ StoreFile \in call[w].passed \ Pending(w) =>
         disk[StoreFile] \in Parts(call[w].want)

Each(w) == Shape(w) /\ Written(w) /\ Stamped(w)

IInv == FileTypes /\ \A w \in Writers : Each(w)

-----------------------------------------------------------------------------
(* Facts about the constants.                                              *)

(* Every call writes to files of its own kind, and only a call of          *)
(* lcfgprofile_to_bdb writes to the database.                              *)
LEMMA TargetsFacts ==
  ASSUME NEW k \in Kinds
  PROVE  Targets(k) \subseteq Files /\ (k # "store" => StoreFile \notin Targets(k))
BY FilesAssumption DEF Targets, Kinds, Files

(* A text and its parts are texts, and not None.                           *)
LEMMA TextFacts ==
  ASSUME NEW c \in Contents
  PROVE  /\ c \in Texts /\ c # None /\ c \in Seq(STRING)
         /\ << >> \in Texts
         /\ \A part \in Parts(c) : part \in Texts /\ part # None
<1>1. c \in Seq(STRING) /\ Len(c) \in Nat
  BY ContentsAssumption
<1>2. SubSeq(c, 1, Len(c)) = c
  BY <1>1
<1>3. c # None
  BY <1>1, <1>2, NullAssumption
<1>4. \A part \in Parts(c) : part # None
  BY <1>1, NullAssumption DEF Parts
<1> QED BY <1>1, <1>3, <1>4 DEF Texts

(* lcfgutils_file_needs_update says no only of equal files.                *)
LEMMA NoUpdateOfEqual ==
  ASSUME NEW cur \in Contents \cup {None}, NEW made \in Contents, ~NeedsUpdate(cur, made)
  PROVE  cur = made
<1>1. cur \in Seq(STRING) /\ made \in Seq(STRING)
  BY ContentsAssumption DEF NeedsUpdate
<1>2. Len(cur) = Len(made) /\ \A i \in 1..Len(cur) : cur[i] = made[i]
  BY <1>1 DEF NeedsUpdate
<1> QED BY <1>1, <1>2, SeqEqual

-----------------------------------------------------------------------------
(* Facts about steps.                                                      *)

(* What a call has passed over so far.                                     *)
Same(w) == call'[w].passed = call[w].passed /\ call'[w].unset = call[w].unset

(* What a call keeps from step to step.                                    *)
Kept(w) ==
  /\ call'[w] \in Calls /\ call'[w] # None
  /\ call'[w].kind = call[w].kind /\ call'[w].want = call[w].want
  /\ call'[w].time = call[w].time /\ call'[w].alone = call[w].alone

Others(w) == \A v \in Writers \ {w} : call'[v] = call[v]

LEMMA GotoFacts ==
  ASSUME FileTypes, NEW w \in Writers, call[w] # None, NEW s \in Steps, Goto(w, s)
  PROVE  /\ call' \in [ Writers -> Calls \cup {None} ] /\ Kept(w) /\ Others(w)
         /\ call'[w].step = s /\ call'[w].ok = call[w].ok
         /\ Same(w)
         /\ call'[w].todo = call[w].todo /\ call'[w].file = call[w].file
<1>1. call[w] \in Calls /\ call \in [ Writers -> Calls \cup {None} ]
  BY DEF FileTypes
<1>2. call'[w] = [ call[w] EXCEPT !.step = s ] /\ Others(w)
  BY <1>1 DEF Goto, Others
<1>3. call'[w] \in Calls
  BY <1>1, <1>2 DEF Calls
<1>4. call' \in [ Writers -> Calls \cup {None} ]
  BY <1>1, <1>2, <1>3 DEF Goto
<1> QED BY <1>1, <1>2, <1>3, <1>4, NullAssumption DEF Kept, Same, Calls

LEMMA FailFacts ==
  ASSUME FileTypes, NEW w \in Writers, call[w] # None, NEW s \in Steps, Fail(w, s)
  PROVE  /\ call' \in [ Writers -> Calls \cup {None} ] /\ Kept(w) /\ Others(w)
         /\ call'[w].step = s /\ call'[w].ok = FALSE
         /\ Same(w)
         /\ call'[w].todo = call[w].todo /\ call'[w].file = call[w].file
<1>1. call[w] \in Calls /\ call \in [ Writers -> Calls \cup {None} ]
  BY DEF FileTypes
<1>2. call'[w] = [ call[w] EXCEPT !.step = s, !.ok = FALSE ] /\ Others(w)
  BY <1>1 DEF Fail, Others
<1>3. call'[w] \in Calls
  BY <1>1, <1>2 DEF Calls
<1>4. call' \in [ Writers -> Calls \cup {None} ]
  BY <1>1, <1>2, <1>3 DEF Fail
<1> QED BY <1>1, <1>2, <1>3, <1>4, NullAssumption DEF Kept, Same, Calls

(* A failure that is passed over.                                          *)
LEMMA PassOverFacts ==
  ASSUME FileTypes, NEW w \in Writers, call[w] # None, call[w].file \in Files,
         NEW s \in Steps, PassOver(w, s)
  PROVE  /\ call' \in [ Writers -> Calls \cup {None} ] /\ Kept(w) /\ Others(w)
         /\ call'[w].step = s /\ call'[w].ok = call[w].ok
         /\ call'[w].passed = call[w].passed \cup {call[w].file}
         /\ call'[w].unset = call[w].unset
         /\ call'[w].todo = call[w].todo /\ call'[w].file = call[w].file
<1>1. call[w] \in Calls /\ call \in [ Writers -> Calls \cup {None} ]
  BY DEF FileTypes
<1>2. call'[w] = [ call[w] EXCEPT !.step = s, !.passed = call[w].passed \cup {call[w].file} ] /\ Others(w)
  BY <1>1 DEF PassOver, Others
<1>3. call'[w] \in Calls
  <2>1. call[w] \in Calls /\ call[w].passed \cup {call[w].file} \in SUBSET Files
    BY <1>1 DEF Calls
  <2>2. [ call[w] EXCEPT !.step = s, !.passed = call[w].passed \cup {call[w].file} ] \in Calls
    BY <2>1 DEF Calls
  <2> QED BY <1>2, <2>2
<1>4. call' \in [ Writers -> Calls \cup {None} ]
  BY <1>1, <1>2, <1>3 DEF PassOver
<1> QED BY <1>1, <1>2, <1>3, <1>4, NullAssumption DEF Kept, Calls

(* A time that could not be set.                                           *)
LEMMA UnsetFacts ==
  ASSUME FileTypes, NEW w \in Writers, call[w] # None, call[w].file \in Files,
         call' = [ call EXCEPT ![w].step = "cleanup", ![w].unset = call[w].unset \cup {call[w].file} ]
  PROVE  /\ call' \in [ Writers -> Calls \cup {None} ] /\ Kept(w) /\ Others(w)
         /\ call'[w].step = "cleanup" /\ call'[w].ok = call[w].ok
         /\ call'[w].passed = call[w].passed
         /\ call'[w].unset = call[w].unset \cup {call[w].file}
         /\ call'[w].todo = call[w].todo /\ call'[w].file = call[w].file
<1>1. call[w] \in Calls /\ call \in [ Writers -> Calls \cup {None} ]
  BY DEF FileTypes
<1>2. call'[w] = [ call[w] EXCEPT !.step = "cleanup", !.unset = call[w].unset \cup {call[w].file} ] /\ Others(w)
  BY <1>1 DEF Others
<1>3. call'[w] \in Calls
  BY <1>1, <1>2 DEF Calls, Steps
<1>4. call' \in [ Writers -> Calls \cup {None} ]
  BY <1>1, <1>2, <1>3
<1> QED BY <1>1, <1>2, <1>3, <1>4, NullAssumption DEF Kept, Calls

(* What a running call has seen written, it has seen for good.             *)
LEMMA HeldGrows ==
  ASSUME NEW w \in Writers, Observe, call[w] # None, call'[w] # None
  PROVE  held'[w] = held[w] \cup { f \in Targets(call'[w].kind) : disk'[f] = call'[w].want }
BY DEF Observe

(* A step of one process does not disturb what is known of another.        *)
LEMMA OthersKeep ==
  ASSUME IInv, NEW w \in Writers, call[w] # None, NEW v \in Writers \ {w},
         call'[v] = call[v], tmp'[v] = tmp[v], Observe,
         \A f \in Files : disk[f] # None => disk'[f] # None
  PROVE  Each(v)'
<1>1. CASE call[v] = None
  BY <1>1 DEF IInv, Each, Shape, Written, Stamped
<1>2. CASE call[v] # None
  <2>1. call[v] \in Calls /\ Each(v)
    BY <1>2 DEF IInv, FileTypes
  <2>2. Targets(call[v].kind) \subseteq Files
    BY <2>1, TargetsFacts DEF Calls
  <2>3. Shape(v)'
    BY <1>2, <2>1, <2>2 DEF Each, Shape
  <2>4. held'[v] = held[v] \cup { f \in Targets(call[v].kind) : disk'[f] = call[v].want }
    BY <1>2, HeldGrows
  <2>5. Written(v)'
    BY <1>2, <2>1, <2>2, <2>4 DEF Each, Written, Pending
  <2>6. ~call[v].alone
    BY <1>2, <2>1 DEF Each, Stamped
  <2>7. Stamped(v)'
    BY <2>6 DEF Stamped
  <2> QED BY <2>3, <2>5, <2>7 DEF Each
<1> QED BY <1>1, <1>2
-----------------------------------------------------------------------------
(* Each step keeps the invariant.                                          *)

LEMMA InitIInv == FileInit => IInv
<1> SUFFICES ASSUME FileInit PROVE IInv
  OBVIOUS
<1>1. FileTypes
  <2>1. \A f \in Files : disk[f] = None /\ mtime[f] = 0
    BY DEF FileInit
  <2>2. StoreFile \in Files
    BY DEF Files
  <2>3. /\ disk \in [ Files -> Texts \cup {None} ]
        /\ mtime \in [ Files -> 0..1 ]
        /\ tmp \in [ Writers -> Texts \cup {None} ]
        /\ call \in [ Writers -> Calls \cup {None} ]
    BY DEF FileInit
  <2>4. litter \in Nat /\ calls \in 0..MaxCalls /\ faults \in 0..MaxFaults /\ litter <= faults
    BY BoundsAssumption DEF FileInit
  <2> QED BY <2>1, <2>2, <2>3, <2>4 DEF FileInit, FileTypes
<1>2. \A w \in Writers : Each(w)
  BY DEF FileInit, Each, Shape, Written, Stamped
<1> QED BY <1>1, <1>2 DEF IInv

LEMMA BeginKeeps ==
  ASSUME IInv, NEW w \in Writers, NEW kind \in Kinds, NEW want \in Contents, NEW time \in 0..1,
         Begin(w, kind, want, time), Observe
  PROVE  IInv'
<1> DEFINE begun == [ kind |-> kind, want |-> want, time |-> time,
                      todo |-> Targets(kind), file |-> None, step |-> "next",
                      ok |-> TRUE, passed |-> {}, unset |-> {}, alone |-> Alone(w) ]
<1>1. Targets(kind) \in SUBSET Files /\ Alone(w) \in BOOLEAN
  BY TargetsFacts DEF Alone
<1>2. begun \in Calls /\ begun # None
  <2>1. \A a \in BOOLEAN :
          [ kind |-> kind, want |-> want, time |-> time, todo |-> Targets(kind), file |-> None,
            step |-> "next", ok |-> TRUE, passed |-> {}, unset |-> {}, alone |-> a ] \in Calls
    BY <1>1 DEF Calls, Steps
  <2>2. begun \in Calls
    BY <1>1, <2>1, Zenon
  <2> HIDE DEF begun
  <2> QED BY <2>2, NullAssumption
<1>3. call'[w] = begun
  BY DEF Begin
<1>4. \A v \in Writers \ {w} : call[v] = None => call'[v] = None
  BY DEF Begin
<1>5. ASSUME NEW v \in Writers \ {w}, call[v] # None
      PROVE  call'[v] = [ call[v] EXCEPT !.alone = FALSE ] /\ call'[v] \in Calls /\ call'[v] # None
  <2>1. call'[v] = [ call[v] EXCEPT !.alone = FALSE ]
    BY <1>5 DEF Begin
  <2>2. call[v] \in Calls
    BY <1>5 DEF IInv, FileTypes
  <2>3. [ call[v] EXCEPT !.alone = FALSE ] \in Calls
    BY <2>2 DEF Calls
  <2> QED BY <2>1, <2>3, NullAssumption
<1>6. FileTypes'
  <2>1. call' \in [ Writers -> Calls \cup {None} ]
    <3>1. \A v \in Writers : call'[v] \in Calls \cup {None}
      BY <1>2, <1>3, <1>4, <1>5
    <3>2. call' = [ v \in Writers |-> call'[v] ]
      BY DEF Begin
    <3> HIDE DEF begun
    <3> QED BY <3>1, <3>2
  <2>2. /\ UNCHANGED << disk, torn, mtime, tmp, litter, faults >>
        /\ calls < MaxCalls /\ calls' = calls + 1
    BY DEF Begin, NoFault
  <2>3. calls' \in 0..MaxCalls
    BY <2>2, BoundsAssumption DEF IInv, FileTypes
  <2> QED BY <2>1, <2>2, <2>3 DEF IInv, FileTypes
<1>7. Each(w)'
  <2>1. tmp'[w] = None /\ call[w] = None
    BY DEF Begin, IInv, Each, Shape
  <2>2. held'[w] \subseteq Targets(kind)
    BY <1>2, <1>3, <2>1 DEF Observe
  <2>3. \A v \in Writers \ {w} : Alone(w) => call'[v] = None
    BY <1>4 DEF Alone
  <2> QED BY <1>2, <1>3, <2>1, <2>2, <2>3 DEF Each, Shape, Written, Stamped
<1>8. ASSUME NEW v \in Writers \ {w}
      PROVE  Each(v)'
  <2>1. CASE call[v] = None
    BY <1>4, <2>1 DEF Begin, IInv, Each, Shape, Written, Stamped
  <2>2. CASE call[v] # None
    <3>1. /\ call[v] \in Calls /\ Each(v) /\ call'[v] # None
          /\ call'[v].kind = call[v].kind /\ call'[v].todo = call[v].todo
          /\ call'[v].file = call[v].file /\ call'[v].step = call[v].step
          /\ call'[v].want = call[v].want /\ call'[v].ok = call[v].ok
          /\ call'[v].passed = call[v].passed /\ call'[v].alone = FALSE
      <4>1. /\ call[v] \in Calls /\ Each(v) /\ call'[v] # None
            /\ call'[v] = [ call[v] EXCEPT !.alone = FALSE ]
        BY <2>2, <1>5 DEF IInv, FileTypes
      <4> HIDE DEF begun
      <4> QED BY <4>1 DEF Calls
    <3>2. Shape(v)'
      BY <2>2, <3>1 DEF Begin, Each, Shape
    <3>3. held'[v] = held[v] \cup { f \in Targets(call[v].kind) : disk'[f] = call[v].want }
      BY <2>2, <3>1, HeldGrows
    <3>4. Written(v)'
      BY <2>2, <3>1, <3>3 DEF Begin, Each, Written, Pending
    <3>5. Stamped(v)'
      BY <3>1 DEF Stamped
    <3> QED BY <3>2, <3>4, <3>5 DEF Each
  <2> QED BY <2>1, <2>2
<1> QED BY <1>6, <1>7, <1>8 DEF IInv

LEMMA NextFileKeeps ==
  ASSUME IInv, NEW w \in Writers, NextFile(w), Observe
  PROVE  IInv'
<1>1. call[w] # None /\ call[w] \in Calls /\ Each(w) /\ FileTypes /\ call[w].step = "next"
  BY DEF IInv, FileTypes, NextFile, At
<1>2. PICK f \in call[w].todo :
        call' = [ call EXCEPT ![w].file = f, ![w].todo = call[w].todo \ {f}, ![w].step = "open" ]
  BY DEF NextFile
<1>3. Targets(call[w].kind) \subseteq Files /\ f \in Targets(call[w].kind)
  BY <1>1, TargetsFacts DEF Calls, Each, Shape
<1>4. call'[w] = [ call[w] EXCEPT !.file = f, !.todo = call[w].todo \ {f}, !.step = "open" ] /\ Others(w)
  BY <1>1, <1>2 DEF FileTypes, Others
<1>5. call'[w] \in Calls
  BY <1>1, <1>3, <1>4 DEF Calls, Steps
<1>6. call' \in [ Writers -> Calls \cup {None} ]
  BY <1>1, <1>2, <1>4, <1>5 DEF FileTypes
<1>7. /\ Kept(w) /\ call'[w].step = "open" /\ call'[w].todo = call[w].todo \ {f}
      /\ call'[w].file = f /\ call'[w].ok = call[w].ok /\ Same(w)
  BY <1>1, <1>4, <1>5, NullAssumption DEF Kept, Same, Calls
<1>8. UNCHANGED << disk, torn, mtime, tmp, litter, calls, faults >>
  BY DEF NextFile, NoFault
<1>9. FileTypes'
  BY <1>1, <1>6, <1>8 DEF FileTypes
<1>10. Shape(w)'
  BY <1>1, <1>3, <1>7, <1>8 DEF Each, Shape, Written, Kept, Same
<1>11. Written(w)'
  <2>1. held'[w] = held[w] \cup { g \in Targets(call[w].kind) : disk'[g] = call[w].want }
    BY <1>1, <1>7, HeldGrows DEF Kept
  <2> QED BY <1>1, <1>3, <1>7, <1>8, <2>1 DEF Each, Written, Pending, Kept, Same
<1>12. Stamped(w)'
  BY <1>1, <1>4, <1>7, <1>8 DEF Each, Stamped, Unstamped, Pending, Kept, Same, Others
<1>13. \A v \in Writers \ {w} : Each(v)'
  BY <1>1, <1>4, <1>8, OthersKeep DEF Others
<1> QED BY <1>9, <1>10, <1>11, <1>12, <1>13 DEF IInv, Each

LEMMA OpenKeeps ==
  ASSUME IInv, NEW w \in Writers, Open(w), Observe
  PROVE  IInv'
<1>1. call[w] # None /\ call[w] \in Calls /\ Each(w) /\ FileTypes /\ call[w].step = "open"
  BY DEF IInv, FileTypes, Open, At
<1>2. /\ call' \in [ Writers -> Calls \cup {None} ] /\ Kept(w) /\ Others(w)
      /\ Same(w)
      /\ call'[w].todo = call[w].todo /\ call'[w].file = call[w].file
      /\ \/ call'[w].step = "print" /\ call'[w].ok = call[w].ok
         \/ call'[w].step = "cleanup" /\ call'[w].ok = FALSE
  BY <1>1, GotoFacts, FailFacts DEF Open, Steps
<1>3. /\ UNCHANGED << disk, torn, mtime, calls >> /\ faults' \in 0..MaxFaults
      /\ litter' \in Nat /\ litter' <= faults'
  BY <1>1, BoundsAssumption DEF Open, Fault, NoFault, FileTypes
<1>4. tmp' \in [ Writers -> Texts \cup {None} ] /\ \A v \in Writers \ {w} : tmp'[v] = tmp[v]
  BY <1>1 DEF Open, FileTypes, Texts
<1>5. FileTypes'
  BY <1>1, <1>2, <1>3, <1>4 DEF FileTypes
<1>6. Shape(w)'
  BY <1>1, <1>2 DEF Each, Shape, Kept, Same
<1>7. Written(w)'
  <2>1. held'[w] = held[w] \cup { g \in Targets(call[w].kind) : disk'[g] = call[w].want }
    BY <1>1, <1>2, HeldGrows DEF Kept
  <2> QED BY <1>1, <1>2, <1>3, <2>1 DEF Each, Written, Pending, Kept, Same
<1>8. Stamped(w)'
  BY <1>1, <1>2, <1>3 DEF Each, Stamped, Unstamped, Pending, Kept, Same, Others
<1>9. \A v \in Writers \ {w} : Each(v)'
  BY <1>1, <1>2, <1>3, <1>4, OthersKeep DEF Others
<1> QED BY <1>5, <1>6, <1>7, <1>8, <1>9 DEF IInv, Each

LEMMA WriteOutKeeps ==
  ASSUME IInv, NEW w \in Writers, WriteOut(w), Observe
  PROVE  IInv'
<1>1. call[w] # None /\ call[w] \in Calls /\ Each(w) /\ FileTypes /\ call[w].step = "print"
  BY DEF IInv, FileTypes, WriteOut, At
<1>2. /\ UNCHANGED << disk, torn, mtime, litter, calls >>
      /\ call[w].want \in Contents /\ call[w].file \in Targets(call[w].kind)
      /\ call[w].file \in Files
      /\ call[w].kind = "store" => call[w].file = StoreFile
  BY <1>1, TargetsFacts DEF WriteOut, Calls, Each, Shape, Targets
<1>3. /\ call' \in [ Writers -> Calls \cup {None} ] /\ Kept(w) /\ Others(w)
      /\ call'[w].todo = call[w].todo /\ call'[w].file = call[w].file
      /\ faults' \in 0..MaxFaults /\ faults <= faults'
      /\ tmp' \in [ Writers -> Texts \cup {None} ] /\ \A v \in Writers \ {w} : tmp'[v] = tmp[v]
      /\ \/ /\ tmp'[w] = call[w].want /\ tmp'[w] # None
            /\ call'[w].step = IF call[w].kind = "store" THEN "rename" ELSE "compare"
            /\ call'[w].ok = call[w].ok /\ Same(w)
         \/ /\ call'[w].step = "cleanup" /\ call'[w].ok = FALSE
            /\ Same(w)
         \/ /\ call[w].kind = "store" /\ call'[w].step = "rename"
            /\ call'[w].passed = call[w].passed \cup {call[w].file}
            /\ call'[w].ok = call[w].ok /\ call'[w].unset = call[w].unset
            /\ tmp'[w] # None /\ tmp'[w] \in Parts(call[w].want)
  <2>1. CASE /\ tmp' = [ tmp EXCEPT ![w] = call[w].want ]
             /\ Goto(w, IF call[w].kind = "store" THEN "rename" ELSE "compare") /\ NoFault
    <3>1. (IF call[w].kind = "store" THEN "rename" ELSE "compare") \in Steps
      BY DEF Steps
    <3>2. tmp' \in [ Writers -> Texts \cup {None} ] /\ tmp'[w] = call[w].want /\ tmp'[w] # None
      BY <1>1, <1>2, <2>1, TextFacts DEF FileTypes
    <3> QED BY <1>1, <2>1, <3>1, <3>2, GotoFacts, BoundsAssumption DEF NoFault, FileTypes
  <2>2. CASE /\ Fault
             /\ \E part \in Parts(call[w].want) : tmp' = [ tmp EXCEPT ![w] = part ]
             /\ AfterBadPrint(w)
    <3>1. /\ tmp' \in [ Writers -> Texts \cup {None} ] /\ tmp'[w] # None
          /\ tmp'[w] \in Parts(call[w].want)
      BY <1>1, <1>2, <2>2, TextFacts DEF FileTypes
    <3>2. \A v \in Writers \ {w} : tmp'[v] = tmp[v]
      BY <1>1, <2>2 DEF FileTypes
    <3>3. faults' \in 0..MaxFaults /\ faults <= faults'
      BY <1>1, <2>2, BoundsAssumption DEF Fault, FileTypes
    <3>4. CASE Fail(w, "cleanup")
      BY <1>1, <3>1, <3>2, <3>3, <3>4, FailFacts DEF Steps
    <3>5. CASE call[w].kind = "store" /\ PassOver(w, "rename")
      BY <1>1, <1>2, <3>1, <3>2, <3>3, <3>5, PassOverFacts DEF Steps
    <3> QED BY <2>2, <3>4, <3>5 DEF AfterBadPrint
  <2> QED BY <2>1, <2>2 DEF WriteOut
<1>4. FileTypes'
  BY <1>1, <1>2, <1>3 DEF FileTypes
<1>5. Shape(w)'
  BY <1>1, <1>3 DEF Each, Shape, Kept, Same
<1>6. Written(w)'
  <2>1. held'[w] = held[w] \cup { g \in Targets(call[w].kind) : disk'[g] = call[w].want }
    BY <1>1, <1>3, HeldGrows DEF Kept
  <2> QED BY <1>1, <1>2, <1>3, <2>1 DEF Each, Shape, Written, Pending, Kept, Same
<1>7. Stamped(w)'
  BY <1>1, <1>2, <1>3 DEF Each, Stamped, Unstamped, Pending, Kept, Same, Others
<1>8. \A v \in Writers \ {w} : Each(v)'
  BY <1>1, <1>2, <1>3, OthersKeep DEF Others
<1> QED BY <1>4, <1>5, <1>6, <1>7, <1>8 DEF IInv, Each

(* A file is left alone only if it has the contents already, or if the     *)
(* failure to look is passed over.                                         *)
LEMMA CompareKeeps ==
  ASSUME IInv, NEW w \in Writers, Compare(w), Observe
  PROVE  IInv'
<1>1. call[w] # None /\ call[w] \in Calls /\ Each(w) /\ FileTypes /\ call[w].step = "compare"
  BY DEF IInv, FileTypes, Compare, At
<1>2. /\ UNCHANGED << disk, torn, mtime, tmp, litter, calls >>
      /\ faults' \in 0..MaxFaults /\ faults <= faults'
  BY <1>1, BoundsAssumption DEF Compare, Fault, NoFault, FileTypes
<1>3. /\ call[w].kind \in Kinds /\ call[w].kind # "store" /\ call[w].want \in Contents
      /\ tmp[w] = call[w].want /\ call[w].file \in Targets(call[w].kind)
  BY <1>1 DEF Each, Shape, Calls
<1>4. call[w].file \in Files \ {StoreFile} /\ disk[call[w].file] \in Contents \cup {None}
  BY <1>1, <1>3, TargetsFacts DEF FileTypes
<1>5. /\ call' \in [ Writers -> Calls \cup {None} ] /\ Kept(w) /\ Others(w)
      /\ call'[w].todo = call[w].todo /\ call'[w].file = call[w].file
      /\ call'[w].ok = call[w].ok
      /\ \/ call'[w].step = "rename" /\ Same(w)
         \/ /\ call'[w].step = "utime" /\ Same(w)
            /\ disk[call[w].file] = call[w].want /\ disk[call[w].file] # None
         \/ /\ call'[w].step = "utime" /\ disk[call[w].file] # None
            /\ call'[w].passed = call[w].passed \cup {call[w].file}
            /\ call'[w].unset = call[w].unset
  <2>1. CASE Goto(w, IF NeedsUpdate(disk[call[w].file], tmp[w]) THEN "rename" ELSE "utime")
    <3>1. CASE NeedsUpdate(disk[call[w].file], tmp[w])
      BY <1>1, <2>1, <3>1, GotoFacts DEF Steps
    <3>2. CASE ~NeedsUpdate(disk[call[w].file], tmp[w])
      <4>1. disk[call[w].file] = call[w].want
        BY <1>3, <1>4, <3>2, NoUpdateOfEqual
      <4>2. disk[call[w].file] # None
        BY <3>2 DEF NeedsUpdate
      <4>3. Goto(w, "utime")
        BY <2>1, <3>2
      <4> QED BY <1>1, <4>1, <4>2, <4>3, GotoFacts DEF Steps
    <3> QED BY <3>1, <3>2
  <2>2. CASE Goto(w, "rename")
    BY <1>1, <2>2, GotoFacts DEF Steps
  <2>3. CASE disk[call[w].file] # None /\ PassOver(w, "utime")
    BY <1>1, <1>4, <2>3, PassOverFacts DEF Steps
  <2> QED BY <2>1, <2>2, <2>3 DEF Compare
<1>6. FileTypes'
  BY <1>1, <1>2, <1>5 DEF FileTypes
<1>7. Shape(w)'
  <2>1. tmp[w] # None
    BY <1>1 DEF Each, Shape
  <2> QED BY <1>1, <1>2, <1>3, <1>5, <2>1 DEF Each, Shape, Kept, Same
<1>8. Written(w)'
  <2>1. held'[w] = held[w] \cup { g \in Targets(call[w].kind) : disk'[g] = call[w].want }
    BY <1>1, <1>5, HeldGrows DEF Kept
  <2> QED BY <1>1, <1>2, <1>3, <1>4, <1>5, <2>1 DEF Each, Shape, Written, Pending, Kept, Same
<1>9. Stamped(w)'
  BY <1>1, <1>2, <1>4, <1>5 DEF Each, Stamped, Unstamped, Pending, Kept, Same, Others
<1>10. \A v \in Writers \ {w} : Each(v)'
  BY <1>1, <1>2, <1>5, OthersKeep DEF Others
<1> QED BY <1>6, <1>7, <1>8, <1>9, <1>10 DEF IInv, Each

(* What replaces a file other than the database is complete.               *)
LEMMA RenameKeeps ==
  ASSUME IInv, NEW w \in Writers, Rename(w), Observe
  PROVE  IInv'
<1> DEFINE f == call[w].file
<1>1. call[w] # None /\ call[w] \in Calls /\ Each(w) /\ FileTypes /\ call[w].step = "rename"
  BY DEF IInv, FileTypes, Rename, At
<1>2. /\ call[w].kind \in Kinds /\ call[w].want \in Contents /\ f \in Targets(call[w].kind)
      /\ tmp[w] # None /\ tmp[w] \in Texts
      /\ IF f \in call[w].passed
         THEN call[w].kind = "store" /\ tmp[w] \in Parts(call[w].want)
         ELSE tmp[w] = call[w].want
  BY <1>1 DEF Each, Shape, Calls, FileTypes
<1>3. f \in Files /\ (f # StoreFile => tmp[w] \in Contents)
  BY <1>2, FilesAssumption DEF Targets, Kinds, Files
<1>4. UNCHANGED << litter, calls >>
  BY DEF Rename
<1>5. CASE /\ disk' = [ disk EXCEPT ![f] = tmp[w] ]
           /\ mtime' = [ mtime EXCEPT ![f] = 0 ]
           /\ tmp' = [ tmp EXCEPT ![w] = None ]
           /\ torn' = IF f = StoreFile THEN StoreFile \in call[w].passed ELSE torn
           /\ Goto(w, "utime") /\ NoFault
  <2>1. /\ call' \in [ Writers -> Calls \cup {None} ] /\ Kept(w) /\ Others(w)
        /\ call'[w].todo = call[w].todo /\ call'[w].file = f /\ call'[w].step = "utime"
        /\ call'[w].ok = call[w].ok /\ Same(w)
    BY <1>1, <1>5, GotoFacts DEF Steps
  <2>2. /\ disk' \in [ Files -> Texts \cup {None} ] /\ disk'[f] = tmp[w]
        /\ \A g \in Files \ {f} : disk'[g] = disk[g]
        /\ mtime' \in [ Files -> 0..1 ] /\ mtime'[f] = 0
        /\ \A g \in Files \ {f} : mtime'[g] = mtime[g]
        /\ tmp' \in [ Writers -> Texts \cup {None} ] /\ \A v \in Writers \ {w} : tmp'[v] = tmp[v]
        /\ torn' = (IF f = StoreFile THEN StoreFile \in call[w].passed ELSE torn)
        /\ UNCHANGED faults
    BY <1>1, <1>2, <1>3, <1>5 DEF FileTypes, NoFault
  <2> HIDE DEF f
  <2>3. FileTypes'
    <3>1. torn' \in BOOLEAN /\ (torn' \/ disk'[StoreFile] \in Contents \cup {None})
      <4>1. CASE f = StoreFile
        <5>1. torn' = (f \in call[w].passed) /\ disk'[StoreFile] = tmp[w]
          BY <2>2, <4>1
        <5>2. CASE f \in call[w].passed
          BY <5>1, <5>2
        <5>3. CASE f \notin call[w].passed
          BY <1>2, <5>1, <5>3
        <5> QED BY <5>2, <5>3
      <4>2. CASE f # StoreFile
        <5>1. torn' = torn /\ disk'[StoreFile] = disk[StoreFile]
          BY <2>2, <4>2 DEF Files
        <5> QED BY <1>1, <5>1 DEF FileTypes
      <4> QED BY <4>1, <4>2
    <3>2. \A g \in Files \ {StoreFile} : disk'[g] \in Contents \cup {None}
      BY <1>1, <1>3, <2>2 DEF FileTypes
    <3>3. \A g \in Files : disk'[g] = None => mtime'[g] = 0
      BY <1>1, <1>2, <2>2 DEF FileTypes
    <3> QED BY <1>1, <1>4, <2>1, <2>2, <3>1, <3>2, <3>3 DEF FileTypes
  <2>4. Shape(w)'
    BY <1>1, <1>2, <2>1, <2>2 DEF Each, Shape, Kept, Same, f
  <2>5. Written(w)'
    <3>1. held'[w] = held[w] \cup { g \in Targets(call[w].kind) : disk'[g] = call[w].want }
      BY <1>1, <2>1, HeldGrows DEF Kept
    <3>2. Targets(call[w].kind) \subseteq Files
      BY <1>2, TargetsFacts
    <3> QED BY <1>1, <1>2, <1>3, <2>1, <2>2, <3>1, <3>2 DEF Each, Shape, Written, Pending, Kept, Same, f
  <2>6. Stamped(w)'
    <3>1. Targets(call[w].kind) \subseteq Files
      BY <1>2, TargetsFacts
    <3>2. f = StoreFile /\ f \in call[w].passed => disk'[StoreFile] \in Parts(call[w].want)
      BY <1>2, <2>2
    <3>3. f # StoreFile => disk'[StoreFile] = disk[StoreFile]
      BY <2>2 DEF Files
    <3> QED BY <1>1, <2>1, <2>2, <3>1, <3>2, <3>3
            DEF Each, Stamped, Unstamped, Pending, Kept, Same, Others, f
  <2>7. \A v \in Writers \ {w} : Each(v)'
    <3>1. \A g \in Files : disk[g] # None => disk'[g] # None
      BY <1>2, <2>2
    <3> QED BY <1>1, <2>1, <2>2, <3>1, OthersKeep DEF Others
  <2> QED BY <2>3, <2>4, <2>5, <2>6, <2>7 DEF IInv, Each
<1>6. CASE Fault /\ Fail(w, "cleanup") /\ UNCHANGED << disk, torn, mtime, tmp >>
  <2>1. /\ call' \in [ Writers -> Calls \cup {None} ] /\ Kept(w) /\ Others(w)
        /\ call'[w].todo = call[w].todo /\ call'[w].file = f
        /\ call'[w].step = "cleanup" /\ call'[w].ok = FALSE /\ Same(w)
    BY <1>1, <1>6, FailFacts DEF Steps
  <2>2. faults' \in 0..MaxFaults /\ faults <= faults'
    BY <1>1, <1>6, BoundsAssumption DEF Fault, FileTypes
  <2>3. FileTypes'
    BY <1>1, <1>4, <1>6, <2>1, <2>2 DEF FileTypes
  <2>4. Shape(w)'
    BY <1>1, <2>1 DEF Each, Shape, Kept, Same
  <2>5. Written(w)'
    <3>1. held'[w] = held[w] \cup { g \in Targets(call[w].kind) : disk'[g] = call[w].want }
      BY <1>1, <2>1, HeldGrows DEF Kept
    <3> QED BY <1>1, <1>6, <2>1, <3>1 DEF Each, Written, Kept, Same
  <2>6. Stamped(w)'
    BY <1>1, <2>1 DEF Each, Stamped, Kept, Others
  <2>7. \A v \in Writers \ {w} : Each(v)'
    BY <1>1, <1>6, <2>1, OthersKeep DEF Others
  <2> QED BY <2>3, <2>4, <2>5, <2>6, <2>7 DEF IInv, Each
<1> QED BY <1>5, <1>6 DEF Rename

LEMMA UtimeKeeps ==
  ASSUME IInv, NEW w \in Writers, Utime(w), Observe
  PROVE  IInv'
<1>1. call[w] # None /\ call[w] \in Calls /\ Each(w) /\ FileTypes /\ call[w].step = "utime"
  BY DEF IInv, FileTypes, Utime, At
<1>2. /\ UNCHANGED << disk, torn, tmp, litter, calls >>
      /\ faults' \in 0..MaxFaults /\ faults <= faults'
  BY <1>1, BoundsAssumption DEF Utime, Fault, NoFault, FileTypes
<1>3. /\ call[w].file \in Files /\ disk[call[w].file] # None
      /\ call[w].time \in 0..1 /\ Targets(call[w].kind) \subseteq Files
  BY <1>1, TargetsFacts DEF Each, Shape, Calls
<1>4. /\ call' \in [ Writers -> Calls \cup {None} ] /\ Kept(w) /\ Others(w)
      /\ call'[w].todo = call[w].todo /\ call'[w].file = call[w].file
      /\ call'[w].step = "cleanup" /\ call'[w].ok = call[w].ok
      /\ call'[w].passed = call[w].passed
      /\ \/ /\ mtime' = IF call[w].time = 0 THEN mtime
                        ELSE [ mtime EXCEPT ![call[w].file] = call[w].time ]
            /\ call'[w].unset = call[w].unset
         \/ /\ mtime' = mtime
            /\ call'[w].unset = call[w].unset \cup {call[w].file}
  BY <1>1, <1>3, GotoFacts, UnsetFacts DEF Utime, Steps, Same
<1>5. /\ mtime' \in [ Files -> 0..1 ]
      /\ \/ call[w].time # 0 => mtime'[call[w].file] = call[w].time
         \/ call[w].file \in call'[w].unset
      /\ call[w].unset \subseteq call'[w].unset
      /\ \A g \in Files \ {call[w].file} : mtime'[g] = mtime[g]
  BY <1>1, <1>3, <1>4 DEF FileTypes
<1>6. FileTypes'
  BY <1>1, <1>2, <1>3, <1>4, <1>5 DEF FileTypes
<1>7. Shape(w)'
  BY <1>1, <1>4 DEF Each, Shape, Kept, Same
<1>8. Written(w)'
  <2>1. held'[w] = held[w] \cup { g \in Targets(call[w].kind) : disk'[g] = call[w].want }
    BY <1>1, <1>4, HeldGrows DEF Kept
  <2> QED BY <1>1, <1>2, <1>3, <1>4, <2>1 DEF Each, Written, Pending, Kept, Same
<1>9. Stamped(w)'
  BY <1>1, <1>2, <1>3, <1>4, <1>5 DEF Each, Stamped, Unstamped, Pending, Kept, Same, Others
<1>10. \A v \in Writers \ {w} : Each(v)'
  BY <1>1, <1>2, <1>4, OthersKeep DEF Others
<1> QED BY <1>6, <1>7, <1>8, <1>9, <1>10 DEF IInv, Each

LEMMA CleanupKeeps ==
  ASSUME IInv, NEW w \in Writers, Cleanup(w), Observe
  PROVE  IInv'
<1>1. call[w] # None /\ call[w] \in Calls /\ Each(w) /\ FileTypes /\ call[w].step = "cleanup"
  BY DEF IInv, FileTypes, Cleanup, At
<1>2. /\ UNCHANGED << disk, torn, mtime, calls >>
      /\ faults' \in 0..MaxFaults /\ litter' \in Nat /\ litter' <= faults'
  BY <1>1, BoundsAssumption DEF Cleanup, Fault, NoFault, FileTypes
<1>3. /\ call' \in [ Writers -> Calls \cup {None} ] /\ Kept(w) /\ Others(w)
      /\ call'[w].todo = call[w].todo /\ call'[w].file = call[w].file
      /\ call'[w].step = "next"
      /\ call'[w].ok = call[w].ok /\ Same(w)
  BY <1>1, GotoFacts DEF Cleanup, Steps
<1>4. /\ tmp' \in [ Writers -> Texts \cup {None} ] /\ tmp'[w] = None
      /\ \A v \in Writers \ {w} : tmp'[v] = tmp[v]
  BY <1>1 DEF Cleanup, FileTypes
<1>5. FileTypes'
  BY <1>1, <1>2, <1>3, <1>4 DEF FileTypes
<1>6. Shape(w)'
  BY <1>1, <1>3, <1>4 DEF Each, Shape, Kept, Same
<1>7. Written(w)'
  <2>1. held'[w] = held[w] \cup { g \in Targets(call[w].kind) : disk'[g] = call[w].want }
    BY <1>1, <1>3, HeldGrows DEF Kept
  <2> QED BY <1>1, <1>2, <1>3, <2>1 DEF Each, Written, Pending, Kept, Same
<1>8. Stamped(w)'
  BY <1>1, <1>2, <1>3 DEF Each, Stamped, Unstamped, Pending, Kept, Same, Others
<1>9. \A v \in Writers \ {w} : Each(v)'
  BY <1>1, <1>2, <1>3, <1>4, OthersKeep DEF Others
<1> QED BY <1>5, <1>6, <1>7, <1>8, <1>9 DEF IInv, Each

LEMMA ReturnKeeps ==
  ASSUME IInv, NEW w \in Writers, Return(w), Observe
  PROVE  IInv'
<1>1. call[w] # None /\ Each(w) /\ FileTypes /\ call[w].step = "next"
  BY DEF IInv, Return, At
<1>2. /\ UNCHANGED << disk, torn, mtime, tmp, litter, calls, faults >>
      /\ call' \in [ Writers -> Calls \cup {None} ] /\ call'[w] = None /\ Others(w)
  BY <1>1 DEF Return, NoFault, FileTypes, Others
<1>3. FileTypes'
  BY <1>1, <1>2 DEF FileTypes
<1>4. Each(w)'
  BY <1>1, <1>2 DEF Each, Shape, Written, Stamped
<1>5. \A v \in Writers \ {w} : Each(v)'
  BY <1>1, <1>2, OthersKeep DEF Others
<1> QED BY <1>3, <1>4, <1>5 DEF IInv

LEMMA CrashKeeps ==
  ASSUME IInv, NEW w \in Writers, Crash(w), Observe
  PROVE  IInv'
<1>1. call[w] # None /\ FileTypes
  BY DEF IInv, Crash
<1>2. /\ UNCHANGED << disk, torn, mtime, calls >>
      /\ call' \in [ Writers -> Calls \cup {None} ] /\ call'[w] = None /\ Others(w)
      /\ tmp' \in [ Writers -> Texts \cup {None} ] /\ tmp'[w] = None
      /\ \A v \in Writers \ {w} : tmp'[v] = tmp[v]
  BY <1>1 DEF Crash, FileTypes, Others
<1>3. /\ faults' \in 0..MaxFaults /\ litter' \in Nat /\ litter' <= faults'
  BY <1>1, BoundsAssumption DEF Crash, Fault, FileTypes
<1>4. FileTypes'
  BY <1>1, <1>2, <1>3 DEF FileTypes
<1>5. Each(w)'
  BY <1>1, <1>2 DEF Each, Shape, Written, Stamped
<1>6. \A v \in Writers \ {w} : Each(v)'
  BY <1>1, <1>2, OthersKeep DEF Others
<1> QED BY <1>4, <1>5, <1>6 DEF IInv

LEMMA StepKeeps == IInv /\ [FileNext]_fileVars => IInv'
<1> SUFFICES ASSUME IInv, [FileNext]_fileVars PROVE IInv'
  OBVIOUS
<1>1. CASE UNCHANGED fileVars
  BY <1>1 DEF fileVars, IInv, FileTypes, Each, Shape, Written, Pending, Stamped, Unstamped
<1>2. CASE FileNext
  <2>1. PICK w \in Writers :
          /\ \/ \E kind \in Kinds, want \in Contents, time \in 0..1 : Begin(w, kind, want, time)
             \/ Step(w) \/ Crash(w)
          /\ Observe
    BY <1>2 DEF FileNext, Kinds, ToStatusDir, DiffprofileToHoldfile, CtxlistToFile, PkglistToRpmlist,
                PkgsetToRpmlist, PkglistToRpmcfg, PkgsetToRpmcfg, ProfileToBdb
  <2>2. CASE \E kind \in Kinds, want \in Contents, time \in 0..1 : Begin(w, kind, want, time)
    BY <2>1, <2>2, BeginKeeps
  <2>3. CASE Step(w)
    BY <2>1, <2>3, NextFileKeeps, OpenKeeps, WriteOutKeeps, CompareKeeps, RenameKeeps, UtimeKeeps,
       CleanupKeeps, ReturnKeeps DEF Step
  <2>4. CASE Crash(w)
    BY <2>1, <2>4, CrashKeeps
  <2> QED BY <2>1, <2>2, <2>3, <2>4
<1> QED BY <1>1, <1>2

LEMMA InvHolds == FileSpec => []IInv
BY InitIInv, StepKeeps, PTL DEF FileSpec
-----------------------------------------------------------------------------
(* Whatever fails, stops or runs at the same time, a reader finds a file   *)
(* absent or whole, unless it is a database whose close failed unseen, and *)
(* every temporary file left stands for a process that stopped, an unlink  *)
(* that failed or a stream that could not be opened                        *)
(* (lcfgutils_safe_tmpfile, lcfgutils_file_update and their callers).      *)
THEOREM FilesStaySound == FileSpec => []FilesSound
<1>1. IInv => FilesSound
  <2> SUFFICES ASSUME IInv PROVE FilesSound
    OBVIOUS
  <2>1. FilesTyped
    BY BoundsAssumption DEF IInv, FileTypes, Each, Shape, FilesTyped
  <2>2. FilesWhole
    BY DEF IInv, FileTypes, FilesWhole
  <2>3. NoLitter
    BY DEF IInv, FileTypes, Each, Shape, NoLitter, At
  <2> QED BY <2>1, <2>2, <2>3 DEF FilesSound
<1> QED BY <1>1, InvHolds, PTL

(* A call that answers without an error has left all its files with the    *)
(* contents and, if it was alone, with the time it was given, but for the  *)
(* files for which it passed over a failure: of these a status file or a   *)
(* list is some whole text, and a database a part of the new one           *)
(* (lcfgcompset_to_status_dir, lcfgutils_file_update, lcfgprofile_to_bdb). *)
THEOREM AnswersStayTrue == FileSpec => []AnswersTrue
<1>1. IInv => AnswersTrue
  <2> SUFFICES ASSUME IInv PROVE AnswersTrue
    OBVIOUS
  <2>1. AnswerHonest
    <3> SUFFICES ASSUME NEW w \in Writers, At(w, "next"), call[w].ok, call[w].todo = {}
                 PROVE  /\ Targets(call[w].kind) \ call[w].passed \subseteq held[w]
                        /\ \A f \in call[w].passed \ {StoreFile} : disk[f] \in Contents
                        /\ call[w].alone /\ StoreFile \in call[w].passed =>
                             disk[StoreFile] \in Parts(call[w].want)
      BY DEF AnswerHonest
    <3>1. /\ call[w] # None /\ call[w] \in Calls /\ FileTypes
          /\ Written(w) /\ Stamped(w) /\ Pending(w) = {}
      BY DEF IInv, FileTypes, Each, Pending, At
    <3>2. \A f \in call[w].passed \ {StoreFile} : disk[f] \in Contents
      BY <3>1 DEF Written, FileTypes, Calls
    <3> QED BY <3>1, <3>2 DEF Written, Stamped
  <2>2. TimeSet
    BY DEF IInv, Each, Stamped, Unstamped, TimeSet, At
  <2> QED BY <2>1, <2>2 DEF AnswersTrue
<1> QED BY <1>1, InvHolds, PTL
=============================================================================
