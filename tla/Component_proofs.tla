-------------------------- MODULE Component_proofs --------------------------
(***************************************************************************)
(* Copy on write is exact and safe, for every number of components, names  *)
(* and lists: the references are those of the buckets, a merge writes to   *)
(* no list that anything else can reach, and so no step acts at a distance.*)
(* And the resources that components hold are sound: no call, load or copy *)
(* leaves a value that its type does not allow.                            *)
(***************************************************************************)
EXTENDS Component, Resource, ListLemmas

(***************************************************************************)
(* The inductive invariant.  None of the three invariants is inductive     *)
(* alone: a list is written in place where its count is one, which means   *)
(* that no other bucket has it only if the counts are exact.               *)
(***************************************************************************)

(* A component that does not exist holds no list.                          *)
DeadEmpty == \A c \in Components \ live : table[c] = EmptyTable

(* The list a merge writes to has one reference.                           *)
WorkAlone == InList => listRefs[call.work] = 1

(* It has resources of its name only, and has one if it will be stored.    *)
WorkFiled ==
  InList =>
    /\ \A i \in DOMAIN items[call.work] : items[call.work][i].name = call.name
    /\ call.one = "MODIFIED" => items[call.work] # << >>

(* A name is merged once, and what is still to be merged fits.             *)
WorkFits ==
  /\ InList => /\ call.name \notin call.todo
               /\ call.at <= Len(Source) + 1
               /\ Len(items[call.work]) + Len(Source) - call.at < MaxLength
  /\ Merging => \A n \in call.todo :
       Len(StartItems(table[call.into][n])) + Len(items[table[call.from][n]])
         <= MaxLength

Inv ==
  /\ TypeOK /\ RefsExact /\ FiledByName
  /\ DeadEmpty /\ WorkAlone /\ WorkFiled /\ WorkFits

(***************************************************************************)
(* Counting buckets.                                                       *)
(***************************************************************************)
Buckets(tb, l) == { p \in Components \X Names : tb[p[1]][p[2]] = l }
Row(tb, c, l) == { n \in Names : tb[c][n] = l }

(* The second table is the first but for f in the bucket of c under n.     *)
Rebound(tb, tb2, c, n, f) ==
  /\ \A d \in Components \ {c} : tb2[d] = tb[d]
  /\ \A m \in Names : tb2[c][m] = IF m = n THEN f ELSE tb[c][m]

(* One if both are the same list.                                          *)
IsOne(k, l) == IF k = l THEN 1 ELSE 0

LEMMA RowFinite ==
  ASSUME NEW tb, NEW c, NEW l
  PROVE  IsFiniteSet(Row(tb, c, l)) /\ Cardinality(Row(tb, c, l)) \in Nat
<1>1. IsFiniteSet(Row(tb, c, l))
  BY FiniteAssumption, FS_Subset DEF Row
<1> QED BY <1>1, FS_CardinalityType

LEMMA BucketsFinite ==
  ASSUME NEW tb, NEW l
  PROVE  /\ IsFiniteSet(Buckets(tb, l))
         /\ Cardinality(Buckets(tb, l)) \in Nat
<1>1. IsFiniteSet(Components \X Names)
  BY FiniteAssumption, FS_Product
<1>2. IsFiniteSet(Buckets(tb, l))
  BY <1>1, FS_Subset DEF Buckets
<1> QED BY <1>2, FS_CardinalityType

(* The buckets with a list are those of one component and the others'.     *)
LEMMA BucketsOfOne ==
  ASSUME NEW tb, NEW c \in Components, NEW l
  PROVE  Cardinality(Buckets(tb, l)) =
           Cardinality({ p \in (Components \ {c}) \X Names :
                           tb[p[1]][p[2]] = l })
           + Cardinality(Row(tb, c, l))
<1> DEFINE Rest == { p \in (Components \ {c}) \X Names : tb[p[1]][p[2]] = l }
           Own  == { p \in {c} \X Names : tb[p[1]][p[2]] = l }
           f    == [ n \in Row(tb, c, l) |-> << c, n >> ]
<1>1. Buckets(tb, l) = Rest \cup Own /\ Rest \cap Own = {}
  BY DEF Buckets
<1>2. IsFiniteSet(Rest) /\ IsFiniteSet(Own)
  <2>1. Rest \subseteq Buckets(tb, l) /\ Own \subseteq Buckets(tb, l)
    BY DEF Buckets
  <2> QED BY <2>1, BucketsFinite, FS_Subset
<1>3. Cardinality(Own) = Cardinality(Row(tb, c, l))
  <2>1. f \in Bijection(Row(tb, c, l), Own)
    BY DEF Bijection, Injection, Surjection, IsInjective, Row
  <2>2. ExistsBijection(Row(tb, c, l), Own)
    BY <2>1 DEF ExistsBijection
  <2> QED BY <2>2, RowFinite, FS_Bijection
<1>4. Cardinality(Rest) \in Nat /\ Cardinality(Own) \in Nat
  BY <1>2, FS_CardinalityType
<1>5. Cardinality(Rest \cap Own) = 0
  BY <1>1, FS_EmptySet
<1>6. Cardinality(Rest \cup Own) = Cardinality(Rest) + Cardinality(Own) - 0
  BY <1>2, <1>5, FS_Union
<1> QED BY <1>1, <1>3, <1>4, <1>6

(* A step that changes the table of one component.                         *)
LEMMA BucketsAfter ==
  ASSUME NEW tb, NEW tb2, NEW c \in Components, NEW l,
         \A d \in Components \ {c} : tb2[d] = tb[d]
  PROVE  Cardinality(Buckets(tb2, l)) =
           Cardinality(Buckets(tb, l))
           - Cardinality(Row(tb, c, l)) + Cardinality(Row(tb2, c, l))
<1> DEFINE Rest(t) == { p \in (Components \ {c}) \X Names :
                          t[p[1]][p[2]] = l }
<1>1. Rest(tb) = Rest(tb2)
  OBVIOUS
<1>2. /\ Cardinality(Buckets(tb, l)) =
           Cardinality(Rest(tb)) + Cardinality(Row(tb, c, l))
      /\ Cardinality(Buckets(tb2, l)) =
           Cardinality(Rest(tb2)) + Cardinality(Row(tb2, c, l))
  BY BucketsOfOne
<1>3. Cardinality(Rest(tb)) \in Nat
  <2>1. Rest(tb) \subseteq Buckets(tb, l)
    BY DEF Buckets
  <2>2. IsFiniteSet(Rest(tb))
    BY <2>1, BucketsFinite, FS_Subset
  <2> QED BY <2>2, FS_CardinalityType
<1> HIDE DEF Rest
<1> QED BY <1>1, <1>2, <1>3, RowFinite

(* A step that changes one bucket.                                         *)
LEMMA BucketChanged ==
  ASSUME NEW tb, NEW tb2, NEW c \in Components, NEW n \in Names, NEW f, NEW l,
         Rebound(tb, tb2, c, n, f)
  PROVE  Cardinality(Buckets(tb2, l)) =
           Cardinality(Buckets(tb, l)) - IsOne(tb[c][n], l) + IsOne(f, l)
<1> DEFINE old == Cardinality(Row(tb, c, l))
           new == Cardinality(Row(tb2, c, l))
<1>2. Row(tb2, c, l) = IF f = l THEN Row(tb, c, l) \cup {n}
                       ELSE Row(tb, c, l) \ {n}
  BY DEF Row, Rebound
<1>3. n \in Row(tb, c, l) <=> tb[c][n] = l
  BY DEF Row
<1>4. Cardinality(Buckets(tb2, l)) = Cardinality(Buckets(tb, l)) - old + new
  BY BucketsAfter DEF Rebound
<1>5. /\ Cardinality(Buckets(tb, l)) \in Nat
      /\ old \in Nat /\ new \in Nat
      /\ IsFiniteSet(Row(tb, c, l))
  BY BucketsFinite, RowFinite
<1>6. CASE f = l
  <2>1. new = IF n \in Row(tb, c, l) THEN old ELSE old + 1
    BY <1>2, <1>5, <1>6, FS_AddElement
  <2> HIDE DEF old, new
  <2> QED BY <2>1, <1>3, <1>4, <1>5, <1>6 DEF IsOne
<1>7. CASE f # l
  <2>1. new = IF n \in Row(tb, c, l) THEN old - 1 ELSE old
    BY <1>2, <1>5, <1>7, FS_RemoveElement
  <2> HIDE DEF old, new
  <2> QED BY <2>1, <1>3, <1>4, <1>5, <1>7 DEF IsOne
<1> QED BY <1>6, <1>7

(* How many references are counted says who has the list.                  *)
LEMMA NoBucket ==
  ASSUME NEW tb, NEW l, Cardinality(Buckets(tb, l)) = 0,
         NEW c \in Components, NEW n \in Names
  PROVE  tb[c][n] # l
<1> SUFFICES ASSUME tb[c][n] = l PROVE FALSE
  OBVIOUS
<1>1. Buckets(tb, l) = {}
  BY BucketsFinite, FS_EmptySet
<1>2. << c, n >> \in Buckets(tb, l)
  BY DEF Buckets
<1> QED BY <1>1, <1>2

LEMMA OneBucket ==
  ASSUME NEW tb, NEW l, Cardinality(Buckets(tb, l)) = 1,
         NEW c \in Components, NEW n \in Names, tb[c][n] = l,
         NEW d \in Components, NEW m \in Names, tb[d][m] = l
  PROVE  c = d /\ n = m
<1>1. PICK p : Buckets(tb, l) = {p}
  BY BucketsFinite, FS_Singleton
<1>2. << c, n >> \in Buckets(tb, l) /\ << d, m >> \in Buckets(tb, l)
  BY DEF Buckets
<1> QED BY <1>1, <1>2

LEMMA SomeBucket ==
  ASSUME NEW tb, NEW l, NEW c \in Components, NEW n \in Names, tb[c][n] = l
  PROVE  Cardinality(Buckets(tb, l)) > 0
<1>1. << c, n >> \in Buckets(tb, l)
  BY DEF Buckets
<1>2. Buckets(tb, l) # {}
  BY <1>1
<1> QED BY <1>2, BucketsFinite, FS_EmptySet

(***************************************************************************)
(* Merging a resource into a list.                                         *)
(***************************************************************************)
(* A resource is found at a position of the list.                          *)
LEMMA PositionSound ==
  ASSUME NEW list \in Seq(Resources), NEW r
  PROVE  Position(list, r) \in 0 .. Len(list)
<1> DEFINE hits == { i \in DOMAIN list : SameKey(list[i], r) }
<1>1. hits \in SUBSET Nat /\ hits \subseteq 1 .. Len(list)
  BY LenProperties
<1>2. CASE hits = {}
  BY <1>2, LenProperties DEF Position
<1>3. CASE hits # {}
  <2>1. \E i \in hits : \A j \in hits : i <= j
    BY <1>1, <1>3, LeastExists
  <2>2. Position(list, r) \in hits
    BY <1>3, <2>1 DEF Position
  <2> QED BY <1>1, <2>2
<1> QED BY <1>2, <1>3

(* What a merge leaves is a list of what was there and the new resource,   *)
(* one longer at most, and empty only if it was and the merge is refused.  *)
LEMMA MergedSound ==
  ASSUME NEW list \in Seq(Resources), NEW rls, NEW r \in Resources
  PROVE  /\ Merged(list, rls, r) \in Seq(Resources)
         /\ Len(Merged(list, rls, r)) <= Len(list) + 1
         /\ \A i \in DOMAIN Merged(list, rls, r) :
              \/ Merged(list, rls, r)[i] = r
              \/ \E j \in DOMAIN list : Merged(list, rls, r)[i] = list[j]
         /\ list # << >> => Merged(list, rls, r) # << >>
         /\ ChangeOf(list, rls, r) \in {"ADDED", "REPLACED", "NONE", "ERROR"}
         /\ ChangeOf(list, rls, r) \in {"ADDED", "REPLACED"}
              => Merged(list, rls, r) # << >>
<1> DEFINE plan == PlanFor(list, rls, r)
           kept == IF plan = "replace" THEN RemoveAt(list, Position(list, r))
                   ELSE list
<1>1. Len(list) \in Nat
  BY LenProperties
<1>2. /\ kept \in Seq(Resources)
      /\ Len(kept) \in Nat
      /\ Len(kept) <= Len(list)
      /\ \A i \in DOMAIN kept : \E j \in DOMAIN list : kept[i] = list[j]
  <2>1. CASE plan = "replace"
    <3>1. Position(list, r) \in 1 .. Len(list)
      BY <1>1, <2>1, PositionSound DEF PlanFor
    <3> DEFINE k == Position(list, r)
    <3> HIDE DEF k
    <3>2. k \in 1 .. Len(list) /\ kept = RemoveAt(list, k)
      BY <2>1, <3>1 DEF k
    <3> HIDE DEF kept
    <3>3. /\ kept \in Seq(Resources) /\ Len(kept) = Len(list) - 1
          /\ DOMAIN kept = 1 .. Len(list) - 1
          /\ \A i \in 1 .. Len(list) - 1 :
               kept[i] = list[IF i < k THEN i ELSE i + 1]
      <4>1. /\ RemoveAt(list, k) \in Seq(Resources)
            /\ Len(RemoveAt(list, k)) = Len(list) - 1
            /\ DOMAIN RemoveAt(list, k) = 1 .. Len(list) - 1
            /\ \A i \in 1 .. Len(list) - 1 :
                 RemoveAt(list, k)[i] = list[IF i < k THEN i ELSE i + 1]
        BY <3>2, RemoveAtSound
      <4> QED BY <3>2, <4>1
    <3>4. \A i \in 1 .. Len(list) - 1 :
            (IF i < k THEN i ELSE i + 1) \in 1 .. Len(list)
      BY <1>1, <3>2
    <3>5. \A n \in Nat : k \in 1 .. n => n - 1 \in Nat /\ n - 1 <= n
      OBVIOUS
    <3>6. Len(kept) \in Nat /\ Len(kept) <= Len(list)
      BY <1>1, <3>2, <3>3, <3>5
    <3>7. DOMAIN list = 1 .. Len(list)
      BY LenProperties
    <3> QED BY <3>3, <3>4, <3>6, <3>7
  <2>2. CASE plan # "replace"
    BY <1>1, <2>2
  <2> QED BY <2>1, <2>2
<1> HIDE DEF kept
<1>3. /\ Append(kept, r) \in Seq(Resources)
      /\ Append(kept, r) # << >>
      /\ Len(Append(kept, r)) = Len(kept) + 1
      /\ DOMAIN Append(kept, r) = 1 .. Len(kept) + 1
      /\ DOMAIN kept = 1 .. Len(kept)
      /\ \A i \in 1 .. Len(kept) : Append(kept, r)[i] = kept[i]
      /\ Append(kept, r)[Len(kept) + 1] = r
  BY <1>2, AppendProperties, LenProperties
<1>4. Merged(list, rls, r) =
        IF plan \in {"append", "replace"} THEN Append(kept, r) ELSE list
  BY DEF Merged, kept
<1>5. /\ ChangeOf(list, rls, r) \in {"ADDED", "REPLACED", "NONE", "ERROR"}
      /\ ChangeOf(list, rls, r) \in {"ADDED", "REPLACED"}
           => plan \in {"append", "replace"}
  BY DEF ChangeOf
<1> HIDE DEF plan
<1>6. \A i \in DOMAIN Append(kept, r) :
        \/ Append(kept, r)[i] = r
        \/ \E j \in DOMAIN list : Append(kept, r)[i] = list[j]
  <2>1. \A i \in 1 .. Len(kept) + 1 : i = Len(kept) + 1 \/ i \in 1 .. Len(kept)
    BY <1>2
  <2> QED BY <1>2, <1>3, <2>1
<1>7. CASE plan \in {"append", "replace"}
  BY <1>1, <1>2, <1>3, <1>4, <1>5, <1>6, <1>7
<1>8. CASE plan \notin {"append", "replace"}
  BY <1>1, <1>4, <1>5, <1>8
<1> QED BY <1>7, <1>8

(***************************************************************************)
(* The operations between which no call is running.                        *)
(***************************************************************************)

(* What the invariant says while no call runs, and what it must say after. *)
LEMMA IdleRefs ==
  ASSUME Inv, Idle
  PROVE  /\ ~Merging /\ ~InList /\ ~OwnsWork
         /\ \A l \in Lists : listRefs[l] = Cardinality(Buckets(table, l))
<1>1. ~Merging /\ ~InList /\ ~OwnsWork
  BY DEF Idle, NoCall, Merging, InList, OwnsWork
<1>2. \A l \in Lists : listRefs[l] = Cardinality(Buckets(table, l)) + 0
  BY <1>1 DEF Inv, RefsExact, Buckets
<1>3. \A l \in Lists : Cardinality(Buckets(table, l)) \in Nat
  BY BucketsFinite
<1> QED BY <1>1, <1>2, <1>3

LEMMA IdleAfter ==
  ASSUME call' = NoCall,
         TypeOK', FiledByName', DeadEmpty',
         \A l \in Lists : listRefs'[l] = Cardinality(Buckets(table', l))
  PROVE  Inv'
<1>1. ~Merging' /\ ~InList' /\ ~OwnsWork'
  BY DEF NoCall, Merging, InList, OwnsWork
<1>2. RefsExact'
  <2>1. \A l \in Lists : listRefs'[l] = Cardinality(Buckets(table', l)) + 0
    BY BucketsFinite
  <2> QED BY <1>1, <2>1 DEF RefsExact, Buckets
<1>3. WorkAlone' /\ WorkFiled' /\ WorkFits'
  BY <1>1 DEF WorkAlone, WorkFiled, WorkFits
<1> QED BY <1>2, <1>3 DEF Inv

LEMMA InitInvariant == Init => Inv
<1> SUFFICES ASSUME Init PROVE Inv
  OBVIOUS
<1> USE DEF Init
<1>1. ~Merging /\ ~InList /\ ~OwnsWork
  BY DEF NoCall, Merging, InList, OwnsWork
<1>2. TypeOK
  BY MaxLengthAssumption, EmptySeq DEF TypeOK, CallType, EmptyTable
<1>3. RefsExact
  <2> SUFFICES ASSUME NEW l \in Lists
               PROVE  Cardinality(Buckets(table, l)) = 0
    BY <1>1 DEF RefsExact, Buckets
  <2>1. Buckets(table, l) = {}
    BY NoListAssumption DEF Buckets, EmptyTable
  <2> QED BY <2>1, FS_EmptySet
<1>4. FiledByName /\ DeadEmpty
  BY DEF FiledByName, DeadEmpty, Has, EmptyTable
<1>5. WorkAlone /\ WorkFiled /\ WorkFits
  BY <1>1 DEF WorkAlone, WorkFiled, WorkFits
<1> QED BY <1>2, <1>3, <1>4, <1>5 DEF Inv

LEMMA NewInvariant ==
  ASSUME Inv, NEW c \in Components, New(c)
  PROVE  Inv'
<1> USE DEF New
<1>1. call' = NoCall
  BY DEF Idle
<1>2. TypeOK'
  BY <1>1 DEF Inv, TypeOK, CallType
<1>3. FiledByName' /\ DeadEmpty'
  BY DEF Inv, FiledByName, DeadEmpty, Has
<1> QED BY <1>1, <1>2, <1>3, IdleRefs, IdleAfter

LEMMA SetMergeRulesInvariant ==
  ASSUME Inv, NEW c \in Components, NEW rls \in RuleSets, SetMergeRules(c, rls)
  PROVE  Inv'
<1> USE DEF SetMergeRules
<1>1. call' = NoCall
  BY DEF Idle
<1>2. TypeOK'
  BY <1>1 DEF Inv, TypeOK, CallType
<1>3. FiledByName' /\ DeadEmpty'
  BY DEF Inv, FiledByName, DeadEmpty, Has
<1> QED BY <1>1, <1>2, <1>3, IdleRefs, IdleAfter

(* A component that shares lists holds what the other has there.           *)
LEMMA SelectInvariant ==
  ASSUME Inv, NEW c \in Components, NEW new \in Components,
         NEW ns \in SUBSET Has(c), Select(c, new, ns)
  PROVE  Inv'
<1>1. /\ call' = NoCall /\ Idle /\ UNCHANGED << items, listRules >>
      /\ live' = live \cup {new} /\ c \in live /\ new \notin live
      /\ rules' = [ rules EXCEPT ![new] = rules[c] ]
      /\ table' = [ table EXCEPT ![new] =
                      [ n \in Names |->
                          IF n \in ns THEN table[c][n] ELSE NoList ] ]
      /\ listRefs' = [ l \in Lists |->
           listRefs[l] + Cardinality({ n \in ns : table[c][n] = l }) ]
  BY DEF Select, Share, Idle
<1>2. ns \subseteq Names /\ c # new
  BY <1>1 DEF Has
<1>3. \A l \in Lists :
        listRefs'[l] = Cardinality(Buckets(table', l)) /\ listRefs'[l] \in Nat
  <2> SUFFICES ASSUME NEW l \in Lists
               PROVE  /\ listRefs'[l] = Cardinality(Buckets(table', l))
                      /\ listRefs'[l] \in Nat
    OBVIOUS
  <2>1. \A d \in Components \ {new} : table'[d] = table[d]
    BY <1>1 DEF Inv, TypeOK
  <2>2. Row(table, new, l) = {}
    BY <1>1, NoListAssumption DEF Row, Inv, DeadEmpty, EmptyTable
  <2>3. Row(table', new, l) = { n \in ns : table[c][n] = l }
    BY <1>1, <1>2, NoListAssumption DEF Row, Inv, TypeOK
  <2>4. listRefs'[l] =
          Cardinality(Buckets(table, l)) + Cardinality(Row(table', new, l))
    BY <1>1, <2>3, IdleRefs
  <2>5. Cardinality(Buckets(table', l)) =
          Cardinality(Buckets(table, l)) - Cardinality(Row(table, new, l))
          + Cardinality(Row(table', new, l))
    BY <2>1, BucketsAfter
  <2>6. Cardinality(Row(table, new, l)) = 0
    BY <2>2, FS_EmptySet
  <2> QED BY <2>4, <2>5, <2>6, BucketsFinite, RowFinite
<1>4. TypeOK'
  <2>1. table' \in [Components -> [Names -> Lists \cup {NoList}]]
    BY <1>1, <1>2 DEF Inv, TypeOK
  <2>2. listRefs' \in [Lists -> Nat]
    BY <1>1, <1>3
  <2> QED BY <1>1, <2>1, <2>2 DEF Inv, TypeOK, CallType
<1>5. FiledByName'
  <2> SUFFICES ASSUME NEW d \in Components, NEW n \in Has(d)'
               PROVE  /\ items[table'[d][n]] # << >>
                      /\ \A i \in DOMAIN items[table'[d][n]] :
                           items[table'[d][n]][i].name = n
    BY <1>1 DEF FiledByName
  <2>1. \E e \in Components : n \in Has(e) /\ table'[d][n] = table[e][n]
    BY <1>1, <1>2 DEF Has, Inv, TypeOK
  <2> QED BY <2>1 DEF Inv, FiledByName
<1>6. DeadEmpty'
  BY <1>1 DEF Inv, DeadEmpty, TypeOK
<1> QED BY <1>1, <1>3, <1>4, <1>5, <1>6, IdleAfter

(* A component that gives up all its lists: those it shared stay whole.    *)
LEMMA EmptiedInvariant ==
  ASSUME Inv, Idle, NEW c \in Components, Emptied(c),
         live' \in { live, live \ {c} }, UNCHANGED << rules, listRules, call >>
  PROVE  Inv'
<1>1. /\ table' = [ table EXCEPT ![c] = EmptyTable ]
      /\ listRefs' = Released(c, Names)
      /\ items' = Surviving(items, listRefs')
  BY DEF Emptied
<1>2. call' = NoCall
  BY DEF Idle
<1>3. \A l \in Lists :
        listRefs'[l] = Cardinality(Buckets(table', l)) /\ listRefs'[l] \in Nat
  <2> SUFFICES ASSUME NEW l \in Lists
               PROVE  /\ listRefs'[l] = Cardinality(Buckets(table', l))
                      /\ listRefs'[l] \in Nat
    OBVIOUS
  <2>1. \A d \in Components \ {c} : table'[d] = table[d]
    BY <1>1 DEF Inv, TypeOK
  <2>2. Row(table', c, l) = {}
    BY <1>1, NoListAssumption DEF Row, Inv, TypeOK, EmptyTable
  <2>3. listRefs'[l] =
          Cardinality(Buckets(table, l)) - Cardinality(Row(table, c, l))
    BY <1>1, IdleRefs DEF Released, Row
  <2>4. Cardinality(Buckets(table', l)) =
          Cardinality(Buckets(table, l)) - Cardinality(Row(table, c, l))
          + Cardinality(Row(table', c, l))
    BY <2>1, BucketsAfter
  <2>5. Cardinality(Row(table', c, l)) = 0
    BY <2>2, FS_EmptySet
  <2> QED BY <2>3, <2>4, <2>5, BucketsFinite, RowFinite
<1>4. TypeOK'
  <2>1. table' \in [Components -> [Names -> Lists \cup {NoList}]]
    BY <1>1 DEF Inv, TypeOK, EmptyTable
  <2>2. listRefs' \in [Lists -> Nat]
    BY <1>1, <1>3 DEF Released
  <2>3. /\ items' \in [Lists -> Seq(Resources)]
        /\ \A l \in Lists : Len(items'[l]) <= MaxLength
    BY <1>1, MaxLengthAssumption DEF Inv, TypeOK, Surviving
  <2> QED BY <1>2, <2>1, <2>2, <2>3 DEF Inv, TypeOK, CallType
<1>5. FiledByName'
  <2> SUFFICES ASSUME NEW d \in Components, NEW n \in Has(d)'
               PROVE  /\ items'[table'[d][n]] # << >>
                      /\ \A i \in DOMAIN items'[table'[d][n]] :
                           items'[table'[d][n]][i].name = n
    BY DEF FiledByName
  <2>1. d # c /\ n \in Has(d) /\ table'[d][n] = table[d][n]
    BY <1>1 DEF Has, Inv, TypeOK, EmptyTable
  <2>2. table[d][n] \in Lists /\ n \in Names
    BY <2>1 DEF Has, Inv, TypeOK
  <2>3. listRefs'[table[d][n]] > 0
    BY <2>1, <2>2, <1>3, SomeBucket
  <2>4. items'[table[d][n]] = items[table[d][n]]
    BY <1>1, <2>2, <2>3 DEF Surviving
  <2>5. /\ items[table[d][n]] # << >>
        /\ \A i \in DOMAIN items[table[d][n]] : items[table[d][n]][i].name = n
    BY <2>1 DEF Inv, FiledByName
  <2>6. items'[table'[d][n]] = items[table[d][n]]
    BY <2>1, <2>4
  <2> QED BY <2>5, <2>6
<1>6. DeadEmpty'
  BY <1>1 DEF Inv, DeadEmpty, TypeOK, EmptyTable
<1> QED BY <1>2, <1>3, <1>4, <1>5, <1>6, IdleAfter

(* A name of a component gets a new list, and the old one is released.     *)
LEMMA ReleasedOne ==
  ASSUME NEW c \in Components, NEW n \in Names, NEW l \in Lists,
         listRefs[l] \in Nat
  PROVE  Released(c, {n})[l] = listRefs[l] - IsOne(table[c][n], l)
<1> DEFINE cell == { m \in {n} : table[c][m] = l }
<1>1. cell = IF table[c][n] = l THEN {n} ELSE {}
  OBVIOUS
<1>2. Cardinality({n}) = 1 /\ Cardinality({}) = 0
  BY FS_Singleton, FS_EmptySet
<1>3. Cardinality(cell) = IF table[c][n] = l THEN 1 ELSE 0
  BY <1>1, <1>2
<1>4. Released(c, {n})[l] = listRefs[l] - Cardinality(cell)
  BY DEF Released
<1> QED BY <1>3, <1>4 DEF IsOne

(* The counts stay those of the buckets if the new list f was in none.     *)
LEMMA RefsAfterStore ==
  ASSUME TypeOK, NEW c \in Components, NEW n \in Names, NEW f \in Lists,
         \A l \in Lists \ {f} : listRefs[l] = Cardinality(Buckets(table, l)),
         Cardinality(Buckets(table, f)) = 0,
         Rebound(table, table', c, n, f),
         \A l \in Lists :
           listRefs'[l] = IF l = f THEN 1 ELSE Released(c, {n})[l]
  PROVE  \A l \in Lists : /\ listRefs'[l] = Cardinality(Buckets(table', l))
                          /\ listRefs'[l] \in Nat
<1> SUFFICES ASSUME NEW l \in Lists
             PROVE  /\ listRefs'[l] = Cardinality(Buckets(table', l))
                    /\ listRefs'[l] \in Nat
  OBVIOUS
<1>1. Cardinality(Buckets(table', l)) =
        Cardinality(Buckets(table, l)) - IsOne(table[c][n], l) + IsOne(f, l)
  BY BucketChanged
<1>2. table[c][n] # f
  BY NoBucket
<1>3. listRefs'[l] = IF l = f THEN 1 ELSE Released(c, {n})[l]
  OBVIOUS
<1>4. Cardinality(Buckets(table, l)) \in Nat
      /\ Cardinality(Buckets(table', l)) \in Nat
  BY BucketsFinite
<1>5. CASE l = f
  BY <1>1, <1>2, <1>3, <1>4, <1>5 DEF IsOne
<1>6. CASE l # f
  <2>1. listRefs'[l] = listRefs[l] - IsOne(table[c][n], l)
    <3>1. listRefs[l] \in Nat
      BY DEF TypeOK
    <3> QED BY <1>3, <1>6, <3>1, ReleasedOne
  <2>2. listRefs[l] = Cardinality(Buckets(table, l))
    BY <1>6
  <2> QED BY <1>1, <1>4, <1>6, <2>1, <2>2 DEF IsOne
<1> QED BY <1>5, <1>6

(* A list that can be filed under the name n.                              *)
Filed(list, n) ==
  list # << >> /\ \A i \in DOMAIN list : list[i].name = n

(* A merge keeps a list one of its name.                                   *)
LEMMA MergedFiled ==
  ASSUME NEW list \in Seq(Resources), NEW rls, NEW r \in Resources,
         \A i \in DOMAIN list : list[i].name = r.name
  PROVE  /\ \A i \in DOMAIN Merged(list, rls, r) :
              Merged(list, rls, r)[i].name = r.name
         /\ \/ list # << >>
            \/ ChangeOf(list, rls, r) \in {"ADDED", "REPLACED"}
            => Merged(list, rls, r) # << >>
BY MergedSound

(* The new list is filed, and every other one is where it was.             *)
LEMMA FiledAfterStore ==
  ASSUME TypeOK, TypeOK', FiledByName,
         NEW c \in Components, NEW n \in Names, NEW f \in Lists,
         Rebound(table, table', c, n, f), Cardinality(Buckets(table, f)) = 0,
         \A l \in Lists : listRefs'[l] = Cardinality(Buckets(table', l)),
         \A l \in Lists \ {f} : listRefs'[l] # 0 => items'[l] = items[l],
         Filed(items'[f], n)
  PROVE  FiledByName'
<1> SUFFICES ASSUME NEW d \in Components, NEW m \in Has(d)'
             PROVE  Filed(items'[table'[d][m]], m)
  BY DEF FiledByName, Filed
<1>1. m \in Names /\ table'[d][m] \in Lists
  BY DEF Has, TypeOK
<1>2. CASE d = c /\ m = n
  <2>1. table'[d][m] = f
    BY <1>1, <1>2 DEF Rebound
  <2> QED BY <1>2, <2>1
<1>3. CASE d # c \/ m # n
  <2>1. table'[d][m] = table[d][m]
    BY <1>1, <1>3 DEF Rebound
  <2>2. table[d][m] # f
    BY <1>1, NoBucket
  <2>3. Cardinality(Buckets(table', table'[d][m])) > 0
    BY <1>1, SomeBucket
  <2>4. items'[table'[d][m]] = items[table[d][m]]
    BY <1>1, <2>1, <2>2, <2>3, BucketsFinite
  <2>5. Filed(items[table[d][m]], m)
    BY <1>1, <2>1, NoListAssumption DEF FiledByName, Has, Filed
  <2> QED BY <2>4, <2>5
<1> QED BY <1>2, <1>3

LEMMA MergeResourceInvariant ==
  ASSUME Inv, NEW c \in Components, NEW r \in Resources, MergeResource(c, r)
  PROVE  Inv'
<1> DEFINE n == r.name
           l == table[c][n]
           start == StartItems(l)
           rls == StartRules(c, l)
<1>1. /\ Idle /\ c \in live /\ Len(start) < MaxLength
      /\ MergeInPlace(c, r) \/ MergeCopying(c, r)
      /\ UNCHANGED << live, rules, call >>
  BY DEF MergeResource
<1>2. n \in Names /\ call' = NoCall
  BY <1>1, ResourcesAssumption DEF Resource, Idle
<1>3. TypeOK /\ FiledByName /\ DeadEmpty /\ l \in Lists \cup {NoList}
  BY <1>2 DEF Inv, TypeOK
<1>4. \A k \in Lists : listRefs[k] = Cardinality(Buckets(table, k))
  BY <1>1, IdleRefs
<1>5. l # NoList => l \in Lists /\ n \in Has(c) /\ Filed(items[l], n)
  BY <1>2, <1>3 DEF Has, FiledByName, Filed
<1>6. /\ start \in Seq(Resources)
      /\ \A i \in DOMAIN start : start[i].name = n
  BY <1>3, <1>5, EmptySeq DEF StartItems, TypeOK, Filed
<1>7. CASE MergeInPlace(c, r)
  <2> DEFINE new == Merged(items[l], listRules[l], r)
  <2>1. /\ l # NoList /\ listRefs[l] <= 1
        /\ items' = [ items EXCEPT ![l] = new ]
        /\ UNCHANGED << table, listRules, listRefs >>
    BY <1>3, <1>5, <1>7 DEF MergeInPlace, NeedsCopy, IsShared, TypeOK
  <2>2. start = items[l] /\ l \in Lists /\ Filed(items[l], n)
    BY <1>5, <2>1 DEF StartItems
  <2>3. new \in Seq(Resources) /\ Len(new) <= Len(items[l]) + 1 /\ Filed(new, n)
    BY <1>6, <2>2, MergedSound, MergedFiled DEF Filed
  <2>4. Cardinality(Buckets(table, l)) = 1
    BY <1>2, <1>4, <2>1, <2>2, SomeBucket, BucketsFinite
  <2>5. TypeOK'
    <3>1. Len(new) <= MaxLength
      BY <1>1, <1>3, <2>2, <2>3, MaxLengthAssumption, LenProperties
    <3> QED BY <1>1, <1>2, <1>3, <2>1, <2>3, <3>1 DEF TypeOK, CallType
  <2>6. FiledByName'
    <3> SUFFICES ASSUME NEW d \in Components, NEW m \in Has(d)'
                 PROVE  Filed(items'[table'[d][m]], m)
      BY DEF FiledByName, Filed
    <3>1. m \in Has(d) /\ m \in Names /\ table'[d][m] = table[d][m]
          /\ table[d][m] \in Lists
      BY <1>3, <2>1 DEF Has, TypeOK
    <3>2. CASE table[d][m] = l
      <4>1. m = n
        BY <1>2, <2>4, <3>1, <3>2, OneBucket
      <4>2. items'[l] = new
        BY <1>3, <2>1, <2>2 DEF TypeOK
      <4> QED BY <2>3, <3>1, <3>2, <4>1, <4>2
    <3>3. CASE table[d][m] # l
      <4>1. items'[table[d][m]] = items[table[d][m]]
        BY <1>3, <2>1, <3>1, <3>3 DEF TypeOK
      <4>2. Filed(items[table[d][m]], m)
        BY <1>3, <3>1 DEF FiledByName, Filed
      <4> QED BY <3>1, <4>1, <4>2
    <3> QED BY <3>2, <3>3
  <2>7. DeadEmpty'
    BY <1>1, <1>3, <2>1 DEF DeadEmpty
  <2> QED BY <1>2, <1>4, <2>1, <2>5, <2>6, <2>7, IdleAfter
<1>8. CASE MergeCopying(c, r) /\ ChangeOf(start, rls, r) \in {"ERROR", "NONE"}
  <2>1. UNCHANGED << table, items, listRules, listRefs >>
    BY <1>8 DEF MergeCopying
  <2>2. TypeOK'
    BY <1>1, <1>2, <1>3, <2>1 DEF TypeOK, CallType
  <2>3. FiledByName' /\ DeadEmpty'
    BY <1>1, <1>3, <2>1 DEF FiledByName, DeadEmpty, Has
  <2> QED BY <1>2, <1>4, <2>1, <2>2, <2>3, IdleAfter
<1>9. CASE /\ MergeCopying(c, r)
           /\ ChangeOf(start, rls, r) \notin {"ERROR", "NONE"}
  <2> DEFINE new == Merged(start, rls, r)
  <2>1. PICK f \in Lists :
          /\ IsFree(f)
          /\ Store(c, n, f, [ items EXCEPT ![f] = new ])
          /\ listRules' = [ listRules EXCEPT ![f] = rls ]
    BY <1>9 DEF MergeCopying
  <2>2. /\ table' = [ table EXCEPT ![c][n] = f ]
        /\ listRefs' = [ Released(c, {n}) EXCEPT ![f] = 1 ]
        /\ items' = Surviving([ items EXCEPT ![f] = new ], listRefs')
    BY <2>1 DEF Store
  <2>3. Cardinality(Buckets(table, f)) = 0
    BY <1>4, <2>1 DEF IsFree
  <2>4. Rebound(table, table', c, n, f)
    BY <1>2, <1>3, <2>2 DEF Rebound, TypeOK
  <2>5. \A k \in Lists : listRefs'[k] = IF k = f THEN 1 ELSE Released(c, {n})[k]
    BY <2>2 DEF Released
  <2>6. \A k \in Lists : /\ listRefs'[k] = Cardinality(Buckets(table', k))
                         /\ listRefs'[k] \in Nat
    BY <1>2, <1>3, <1>4, <2>3, <2>4, <2>5, RefsAfterStore
  <2>7. ChangeOf(start, rls, r) \in {"ADDED", "REPLACED"}
    BY <1>6, <1>9, MergedSound
  <2>8. new \in Seq(Resources) /\ Len(new) <= Len(start) + 1 /\ Filed(new, n)
    BY <1>6, <2>7, MergedSound, MergedFiled DEF Filed
  <2>9. /\ items' \in [Lists -> Seq(Resources)]
        /\ \A k \in Lists : items'[k] = IF listRefs'[k] = 0 THEN << >>
                                        ELSE IF k = f THEN new ELSE items[k]
    BY <1>3, <2>2, <2>8, EmptySeq DEF Surviving, TypeOK
  <2>10. rls \in RuleSets \cup {{}}
    BY <1>3, <1>5 DEF StartRules, TypeOK
  <2>11. TypeOK'
    <3>1. Len(new) <= MaxLength
      BY <1>1, <1>6, <2>8, MaxLengthAssumption, LenProperties
    <3>2. ASSUME NEW k \in Lists
          PROVE  Len(items'[k]) <= MaxLength
      <4>1. items'[k] = << >> \/ items'[k] = new \/ items'[k] = items[k]
        BY <2>9
      <4>2. Len(items[k]) <= MaxLength /\ Len(<< >>) = 0 /\ 0 <= MaxLength
        BY <1>3, MaxLengthAssumption DEF TypeOK
      <4> QED BY <3>1, <4>1, <4>2
    <3>3. listRefs' \in [Lists -> Nat]
      BY <2>2, <2>6 DEF Released
    <3>4. table' \in [Components -> [Names -> Lists \cup {NoList}]]
      BY <1>3, <2>2 DEF TypeOK
    <3> QED BY <1>1, <1>2, <1>3, <2>1, <2>9, <2>10, <3>2, <3>3, <3>4
            DEF TypeOK, CallType
  <2>12. FiledByName'
    <3>1. items'[f] = new
      BY <2>5, <2>9
    <3>2. \A k \in Lists \ {f} : listRefs'[k] # 0 => items'[k] = items[k]
      BY <2>9
    <3> QED BY <1>2, <1>3, <2>3, <2>4, <2>6, <2>8, <2>11, <3>1, <3>2,
               FiledAfterStore
  <2>13. DeadEmpty'
    BY <1>1, <1>3, <2>4 DEF DeadEmpty, Rebound
  <2> QED BY <1>2, <2>6, <2>11, <2>12, <2>13, IdleAfter
<1> QED BY <1>1, <1>7, <1>8, <1>9

(***************************************************************************)
(* The steps of lcfgcomponent_merge_component.                             *)
(***************************************************************************)

(* What the invariant says of a running merge.                             *)
LEMMA MergeMeans ==
  ASSUME Inv, Merging
  PROVE  /\ DOMAIN call = { "kind", "into", "from", "todo", "name", "work",
                            "at", "one", "change" }
         /\ call.kind = "merge"
         /\ call.into \in live /\ call.from \in live
         /\ call.into \in Components /\ call.from \in Components
         /\ call.into # call.from
         /\ call.todo \subseteq Has(call.from)
         /\ call.at \in 0 .. MaxLength + 1
         /\ call.at > 0 => /\ call.name \in Has(call.from)
                           /\ call.work \in Lists
         /\ call.at = 0 => call.work = NoList
         /\ call.one \in {"NONE", "MODIFIED", "ERROR"}
         /\ call.change \in {"NONE", "MODIFIED", "ERROR"}
<1>1. call # NoCall
  BY DEF Merging, NoCall
<1> QED BY <1>1 DEF Inv, TypeOK, CallType

(* The references are those of the buckets but for the list in work.       *)
LEMMA MergeRefs ==
  ASSUME Inv
  PROVE  /\ \A l \in Lists : ~(OwnsWork /\ call.work = l) =>
              listRefs[l] = Cardinality(Buckets(table, l))
         /\ \A l \in Lists : OwnsWork /\ call.work = l =>
              listRefs[l] = Cardinality(Buckets(table, l)) + 1
<1>1. \A l \in Lists : listRefs[l] = Cardinality(Buckets(table, l))
        + IF OwnsWork /\ call.work = l THEN 1 ELSE 0
  BY DEF Inv, RefsExact, Buckets
<1>2. \A l \in Lists : Cardinality(Buckets(table, l)) \in Nat
  BY BucketsFinite
<1> QED BY <1>1, <1>2

LEMMA MergeRefsAfter ==
  ASSUME \A l \in Lists : ~(OwnsWork' /\ call'.work = l) =>
           listRefs'[l] = Cardinality(Buckets(table', l)),
         \A l \in Lists : OwnsWork' /\ call'.work = l =>
           listRefs'[l] = Cardinality(Buckets(table', l)) + 1
  PROVE  RefsExact'
<1>1. \A l \in Lists : Cardinality(Buckets(table', l)) \in Nat
  BY BucketsFinite
<1>2. \A l \in Lists : listRefs'[l] = Cardinality(Buckets(table', l))
        + IF OwnsWork' /\ call'.work = l THEN 1 ELSE 0
  BY <1>1
<1> QED BY <1>2 DEF RefsExact, Buckets

(* The list in work is the call's own, or that of one bucket.              *)
LEMMA WorkIsApart ==
  ASSUME Inv, InList,
         NEW c \in Components, NEW n \in Names, table[c][n] = call.work
  PROVE  c = call.into /\ n = call.name /\ ~OwnsWork
<1>1. /\ Merging /\ call.at > 0 /\ call.work \in Lists
      /\ call.into \in Components /\ call.name \in Names
      /\ listRefs[call.work] = 1
  <2>1. Merging /\ call.at > 0
    BY DEF InList
  <2> QED BY <2>1, MergeMeans DEF Inv, WorkAlone, Has
<1>2. ~OwnsWork
  <2> SUFFICES ASSUME OwnsWork PROVE FALSE
    OBVIOUS
  <2>1. Cardinality(Buckets(table, call.work)) = 0
    BY <1>1, MergeRefs, BucketsFinite
  <2> QED BY <2>1, NoBucket
<1>3. Cardinality(Buckets(table, call.work)) = 1
  BY <1>1, <1>2, MergeRefs
<1>4. table[call.into][call.name] = call.work
  BY <1>2 DEF OwnsWork
<1> QED BY <1>1, <1>2, <1>3, <1>4, OneBucket

LEMMA MergeComponentInvariant ==
  ASSUME Inv, NEW c1 \in Components, NEW c2 \in Components,
         MergeComponent(c1, c2)
  PROVE  Inv'
<1> USE DEF MergeComponent
<1>1. call'.at = 0 /\ ~InList' /\ ~OwnsWork'
  BY DEF InList, OwnsWork
<1>2. TypeOK'
  BY MaxLengthAssumption DEF Inv, TypeOK, CallType, Has
<1>3. RefsExact'
  BY <1>1, IdleRefs, MergeRefsAfter
<1>4. FiledByName' /\ DeadEmpty'
  BY DEF Inv, FiledByName, DeadEmpty, Has
<1>5. WorkAlone' /\ WorkFiled'
  BY <1>1 DEF WorkAlone, WorkFiled
<1>6. WorkFits'
  BY <1>1 DEF WorkFits, Has, StartItems
<1> QED BY <1>2, <1>3, <1>4, <1>5, <1>6 DEF Inv

LEMMA ReturnInvariant ==
  ASSUME Inv, Return
  PROVE  Inv'
<1> USE DEF Return
<1>1. ~OwnsWork
  BY DEF Done, OwnsWork, InList
<1>2. TypeOK'
  BY DEF Inv, TypeOK, CallType
<1>3. FiledByName' /\ DeadEmpty'
  BY DEF Inv, FiledByName, DeadEmpty, Has
<1> QED BY <1>1, <1>2, <1>3, MergeRefs, IdleAfter

LEMMA StartListInvariant ==
  ASSUME Inv, NEW n \in Names, StartList(n)
  PROVE  Inv'
<1> DEFINE into == call.into
           from == call.from
           l == table[into][n]
<1>1. /\ Merging /\ call.at = 0 /\ n \in call.todo
      /\ UNCHANGED << live, rules, table >>
  BY DEF StartList
<1>2. /\ TypeOK /\ FiledByName /\ DeadEmpty
      /\ into \in Components /\ from \in Components /\ into # from
      /\ l \in Lists \cup {NoList}
      /\ n \in Has(from) /\ table[from][n] \in Lists
  BY <1>1, MergeMeans DEF Inv, TypeOK, Has
<1>3. \A k \in Lists : listRefs[k] = Cardinality(Buckets(table, k))
  BY <1>1, MergeRefs DEF OwnsWork, InList
<1>4. l # NoList => l \in Lists /\ n \in Has(into) /\ Filed(items[l], n)
  BY <1>2 DEF Has, FiledByName, Filed
<1>5. /\ StartItems(l) \in Seq(Resources)
      /\ Len(StartItems(l)) \in Nat
      /\ Len(StartItems(l)) <= MaxLength
      /\ \A i \in DOMAIN StartItems(l) : StartItems(l)[i].name = n
  <2>1. CASE l = NoList
    BY <2>1, EmptySeq, MaxLengthAssumption DEF StartItems
  <2>2. CASE l # NoList
    BY <1>2, <1>4, <2>2, LenProperties DEF StartItems, TypeOK, Filed
  <2> QED BY <2>1, <2>2
<1>6. Len(StartItems(l)) + Len(items[table[from][n]]) <= MaxLength
  BY <1>1 DEF Inv, WorkFits
<1>7. \A m \in call.todo :
        Len(StartItems(table[into][m])) + Len(items[table[from][m]])
          <= MaxLength
  BY <1>1 DEF Inv, WorkFits
<1> DEFINE After(w) ==
      call' = [ call EXCEPT !.todo = @ \ {n}, !.name = n,
                            !.work = w, !.at = 1, !.one = "NONE" ]
<1>8. ASSUME NEW w, After(w)
      PROVE  /\ Merging' /\ InList' /\ call'.kind = "merge"
             /\ call'.into = into /\ call'.from = from
             /\ call'.todo = call.todo \ {n} /\ call'.name = n
             /\ call'.work = w /\ call'.at = 1 /\ call'.one = "NONE"
             /\ call'.change = call.change /\ DOMAIN call' = DOMAIN call
  BY <1>1, <1>8, MergeMeans DEF Merging, InList
<1> HIDE DEF After
<1>9. ASSUME NEW w \in Lists, After(w), RefsExact',
             items' \in [Lists -> Seq(Resources)],
             \A k \in Lists \ {w} : items'[k] = items[k],
             items'[w] = StartItems(l), listRefs'[w] = 1,
             listRules' \in [Lists -> RuleSets \cup {{}}],
             listRefs' \in [Lists -> Nat],
             \A d \in Components : \A m \in Names :
               table[d][m] = w => d = into /\ m = n /\ l = w
      PROVE  Inv'
  <2>1. \A d \in Components : \A m \in Has(d) :
          items'[table[d][m]] = items[table[d][m]]
    <3> SUFFICES ASSUME NEW d \in Components, NEW m \in Has(d)
                 PROVE  items'[table[d][m]] = items[table[d][m]]
      OBVIOUS
    <3>1. m \in Names /\ table[d][m] \in Lists
      BY <1>2 DEF Has, TypeOK
    <3>2. CASE table[d][m] # w
      BY <1>9, <3>1, <3>2
    <3>3. CASE table[d][m] = w
      BY <1>9, <1>4, <3>1, <3>3, NoListAssumption DEF StartItems
    <3> QED BY <3>2, <3>3
  <2>2. TypeOK'
    <3>1. \A k \in Lists : Len(items'[k]) <= MaxLength
      BY <1>2, <1>5, <1>9 DEF TypeOK
    <3>2. CallType'
      <4>1. /\ into \in live /\ from \in live /\ into # from
            /\ call.todo \ {n} \subseteq Has(from)
            /\ call.change \in {"NONE", "MODIFIED", "ERROR"}
            /\ DOMAIN call = { "kind", "into", "from", "todo", "name", "work",
                               "at", "one", "change" }
        BY <1>1, MergeMeans
      <4>2. Has(call.from)' = Has(from) /\ live' = live
        BY <1>1, <1>8, <1>9 DEF Has
      <4>3. 1 \in 0 .. MaxLength + 1
        BY MaxLengthAssumption
      <4> HIDE DEF into, from
      <4> QED BY <1>2, <1>8, <1>9, <4>1, <4>2, <4>3 DEF CallType
    <3> QED BY <1>1, <1>2, <1>9, <3>1, <3>2 DEF TypeOK
  <2>3. FiledByName'
    <3> SUFFICES ASSUME NEW d \in Components, NEW m \in Has(d)'
                 PROVE  Filed(items'[table'[d][m]], m)
      BY DEF FiledByName, Filed
    <3>1. m \in Has(d) /\ table'[d][m] = table[d][m]
      BY <1>1 DEF Has
    <3>2. Filed(items[table[d][m]], m)
      BY <1>2, <3>1 DEF FiledByName, Filed
    <3> QED BY <2>1, <3>1, <3>2
  <2>4. DeadEmpty' /\ WorkAlone'
    BY <1>1, <1>2, <1>8, <1>9 DEF DeadEmpty, WorkAlone
  <2>5. WorkFiled'
    BY <1>5, <1>8, <1>9 DEF WorkFiled
  <2>6. WorkFits'
    <3>1. Source' = items[table[from][n]]
      BY <1>1, <1>2, <1>8, <1>9, <2>1 DEF Source
    <3>2. Len(items[table[from][n]]) \in Nat
      BY <1>2, LenProperties DEF TypeOK
    <3>3. /\ call'.at = 1 /\ 1 <= Len(items[table[from][n]]) + 1
          /\ Len(StartItems(l)) + Len(items[table[from][n]]) - 1 < MaxLength
          /\ items'[call'.work] = StartItems(l)
      <4>1. \A a, b \in Nat : a + b <= MaxLength =>
              1 <= b + 1 /\ a + b - 1 < MaxLength
        BY MaxLengthAssumption
      <4> HIDE DEF into, from, l
      <4>2. /\ 1 <= Len(items[table[from][n]]) + 1
            /\ Len(StartItems(l)) + Len(items[table[from][n]]) - 1 < MaxLength
        BY <1>5, <1>6, <3>2, <4>1
      <4>3. items'[call'.work] = StartItems(l)
        BY <1>8, <1>9
      <4>4. call'.at = 1
        BY <1>8, <1>9
      <4> QED BY <4>2, <4>3, <4>4
    <3>4. ASSUME NEW m \in call.todo
          PROVE  /\ StartItems(table[call.into][m])' = StartItems(table[into][m])
                 /\ items[table[call.from][m]]' = items[table[from][m]]
      <4>1. m \in Has(from) /\ m \in Names /\ table' = table
            /\ call'.into = into /\ call'.from = from
        BY <1>1, <1>8, <1>9, MergeMeans DEF Has
      <4>2. table[into][m] # NoList => m \in Has(into)
        BY <4>1 DEF Has
      <4>3. items'[table[from][m]] = items[table[from][m]]
        BY <1>2, <2>1, <4>1
      <4>4. table[into][m] # NoList =>
              items'[table[into][m]] = items[table[into][m]]
        BY <1>2, <2>1, <4>2
      <4> HIDE DEF into, from
      <4> QED BY <4>1, <4>3, <4>4 DEF StartItems
    <3>5. \A m \in call'.todo :
            Len(StartItems(table[call.into][m])')
              + Len(items[table[call.from][m]]') <= MaxLength
      BY <1>7, <1>8, <1>9, <3>4
    <3>6. call'.name \notin call'.todo
      BY <1>8, <1>9
    <3> HIDE DEF from, into, l
    <3> QED BY <1>8, <1>9, <3>1, <3>3, <3>5, <3>6 DEF WorkFits
  <2> QED BY <1>9, <2>2, <2>3, <2>4, <2>5, <2>6 DEF Inv
<1>10. CASE ~NeedsCopy(l) /\ After(l) /\ UNCHANGED << items, listRules, listRefs >>
  <2>1. l # NoList /\ l \in Lists /\ listRefs[l] <= 1
    BY <1>2, <1>10 DEF NeedsCopy, IsShared, TypeOK
  <2>2. Cardinality(Buckets(table, l)) = 1 /\ listRefs[l] = 1
    BY <1>2, <1>3, <2>1, SomeBucket, BucketsFinite
  <2>3. RefsExact'
    <3>1. ~OwnsWork'
      BY <1>1, <1>8, <1>10 DEF OwnsWork
    <3> QED BY <1>1, <1>3, <1>10, <3>1, MergeRefsAfter
  <2>4. \A d \in Components : \A m \in Names :
          table[d][m] = l => d = into /\ m = n
    BY <1>2, <2>2, OneBucket
  <2>5. items[l] = StartItems(l)
    BY <2>1 DEF StartItems
  <2> QED BY <1>2, <1>9, <1>10, <2>1, <2>2, <2>3, <2>4, <2>5 DEF TypeOK
<1>11. ASSUME NEW f \in Lists, IsFree(f), After(f),
              items' = [ items EXCEPT ![f] = StartItems(l) ],
              listRules' = [ listRules EXCEPT ![f] = StartRules(into, l) ],
              listRefs' = [ listRefs EXCEPT ![f] = 1 ]
       PROVE  Inv'
  <2>1. Cardinality(Buckets(table, f)) = 0
    BY <1>3, <1>11 DEF IsFree
  <2>2. \A d \in Components : \A m \in Names : table[d][m] # f
    BY <2>1, NoBucket
  <2>3. /\ items' \in [Lists -> Seq(Resources)]
        /\ listRefs' \in [Lists -> Nat]
        /\ listRefs'[f] = 1 /\ items'[f] = StartItems(l)
        /\ \A k \in Lists \ {f} : items'[k] = items[k] /\ listRefs'[k] = listRefs[k]
    BY <1>2, <1>5, <1>11 DEF TypeOK
  <2>4. listRules' \in [Lists -> RuleSets \cup {{}}]
    BY <1>2, <1>11 DEF TypeOK, StartRules
  <2>5. OwnsWork' /\ call'.work = f
    BY <1>1, <1>2, <1>8, <1>11, <2>2 DEF OwnsWork
  <2>6. RefsExact'
    <3>1. \A k \in Lists \ {f} : listRefs'[k] = Cardinality(Buckets(table', k))
      BY <1>1, <1>3, <2>3
    <3>2. listRefs'[f] = Cardinality(Buckets(table', f)) + 1
      BY <1>1, <2>1, <2>3
    <3> QED BY <2>5, <3>1, <3>2, MergeRefsAfter
  <2> QED BY <1>9, <1>11, <2>2, <2>3, <2>4, <2>6
<1> QED
  <2>1. \/ ~NeedsCopy(l) /\ After(l) /\ UNCHANGED << items, listRules, listRefs >>
        \/ \E f \in Lists :
             /\ IsFree(f) /\ After(f)
             /\ items' = [ items EXCEPT ![f] = StartItems(l) ]
             /\ listRules' = [ listRules EXCEPT ![f] = StartRules(into, l) ]
             /\ listRefs' = [ listRefs EXCEPT ![f] = 1 ]
    BY DEF StartList, After
  <2> QED BY <1>10, <1>11, <2>1

(* The next resource of the second component goes into the list in work.   *)
LEMMA MergeNextInvariant ==
  ASSUME Inv, MergeNext
  PROVE  Inv'
<1> DEFINE into == call.into
           from == call.from
           name == call.name
           w == call.work
           src == Source
           r == Source[call.at]
           new == Merged(items[w], listRules[w], r)
           change == ChangeOf(items[w], listRules[w], r)
<1>1. /\ InList /\ Merging /\ call.at > 0 /\ call.one # "ERROR"
      /\ ~(call.at > Len(src))
      /\ items' = [ items EXCEPT ![w] = new ]
      /\ call' = [ call EXCEPT !.at = @ + 1, !.one = Accumulate(@, change) ]
      /\ UNCHANGED << live, rules, table, listRules, listRefs >>
  BY DEF MergeNext, InList, ListDone
<1>2. /\ TypeOK /\ FiledByName /\ DeadEmpty
      /\ into \in Components /\ from \in Components /\ into # from
      /\ into \in live /\ from \in live
      /\ name \in Has(from) /\ name \in Names /\ w \in Lists
      /\ call.todo \subseteq Has(from)
      /\ call.at \in Nat /\ call.at \in 1 .. MaxLength + 1
  BY <1>1, MaxLengthAssumption, MergeMeans DEF Inv, Has
<1>3. /\ src = items[table[from][name]] /\ table[from][name] \in Lists
      /\ src \in Seq(Resources) /\ Len(src) <= MaxLength /\ Len(src) \in Nat
      /\ Filed(src, name)
  <2>1. src = items[table[from][name]] /\ table[from][name] \in Lists
    BY <1>2 DEF Source, TypeOK, Has
  <2> QED BY <1>2, <2>1, LenProperties DEF TypeOK, FiledByName, Filed
<1>4. r \in Resources /\ r.name = name
  <2>1. call.at \in 1 .. Len(src) /\ DOMAIN src = 1 .. Len(src)
    BY <1>1, <1>2, <1>3, LenProperties
  <2> QED BY <1>3, <2>1 DEF Filed
<1>5. /\ items[w] \in Seq(Resources)
      /\ \A i \in DOMAIN items[w] : items[w][i].name = name
      /\ call.one = "MODIFIED" => items[w] # << >>
      /\ Len(items[w]) + Len(src) - call.at < MaxLength
      /\ Len(items[w]) \in Nat
      /\ name \notin call.todo
  BY <1>1, <1>2, LenProperties DEF Inv, TypeOK, WorkFiled, WorkFits
<1>6. /\ new \in Seq(Resources)
      /\ Len(new) <= Len(items[w]) + 1
      /\ Len(new) \in Nat
      /\ \A i \in DOMAIN new : new[i].name = name
      /\ items[w] # << >> \/ change \in {"ADDED", "REPLACED"} => new # << >>
      /\ change \in {"ADDED", "REPLACED", "NONE", "ERROR"}
  <2> HIDE DEF w, r, name
  <2>1. /\ new \in Seq(Resources)
        /\ Len(new) <= Len(items[w]) + 1
        /\ change \in {"ADDED", "REPLACED", "NONE", "ERROR"}
    BY <1>4, <1>5, MergedSound
  <2>2. /\ \A i \in DOMAIN new : new[i].name = name
        /\ items[w] # << >> \/ change \in {"ADDED", "REPLACED"} => new # << >>
    BY <1>4, <1>5, MergedFiled
  <2>3. Len(new) \in Nat
    BY <2>1, LenProperties
  <2> QED BY <2>1, <2>2, <2>3
<1>7. \A d \in Components : \A m \in Names :
        table[d][m] = w => d = into /\ m = name /\ ~OwnsWork
  BY <1>1, WorkIsApart
<1>8. /\ call'.into = into /\ call'.from = from /\ call'.name = name
      /\ call'.work = w /\ call'.todo = call.todo /\ call'.kind = "merge"
      /\ call'.at = call.at + 1 /\ call'.one = Accumulate(call.one, change)
      /\ call'.change = call.change /\ DOMAIN call' = DOMAIN call
  BY <1>1, MergeMeans
<1>9. Merging' /\ InList' /\ (OwnsWork' <=> OwnsWork)
  BY <1>1, <1>2, <1>8 DEF Merging, InList, OwnsWork
<1>10. /\ items' \in [Lists -> Seq(Resources)]
       /\ items'[w] = new
       /\ \A k \in Lists \ {w} : items'[k] = items[k]
  BY <1>1, <1>2, <1>6 DEF TypeOK
<1> HIDE DEF into, from, name, w, src, r, new, change
<1>11. Len(new) <= MaxLength /\ call.at + 1 \in 1 .. MaxLength + 1
       /\ call.at + 1 <= Len(src) + 1
       /\ Len(new) + Len(src) - (call.at + 1) < MaxLength
  <2>1. \A a, n, old, s \in Nat :
          a > 0 /\ ~(a > s) /\ s <= MaxLength /\ n <= old + 1
            /\ old + s - a < MaxLength
          => /\ n <= MaxLength /\ a + 1 \in 1 .. MaxLength + 1
             /\ a + 1 <= s + 1 /\ n + s - (a + 1) < MaxLength
    BY MaxLengthAssumption
  <2> QED BY <1>1, <1>2, <1>3, <1>5, <1>6, <2>1
<1>12. TypeOK'
  <2>1. \A k \in Lists : Len(items'[k]) <= MaxLength
    BY <1>2, <1>10, <1>11 DEF TypeOK
  <2>2. CallType'
    <3>1. Has(call.from)' = Has(from)
      BY <1>1, <1>8 DEF Has
    <3>2. call'.at \in 0 .. MaxLength + 1 /\ ~(call'.at = 0)
      BY <1>8, <1>11, MaxLengthAssumption
    <3>3. /\ call'.one \in {"NONE", "MODIFIED", "ERROR"}
          /\ call'.change \in {"NONE", "MODIFIED", "ERROR"}
          /\ DOMAIN call' = { "kind", "into", "from", "todo", "name", "work",
                              "at", "one", "change" }
      BY <1>1, <1>8, MergeMeans DEF Accumulate
    <3>4. live' = live
      BY <1>1
    <3> QED BY <1>2, <1>8, <3>1, <3>2, <3>3, <3>4 DEF CallType
  <2> QED BY <1>1, <1>2, <1>10, <2>1, <2>2 DEF TypeOK
<1>13. RefsExact'
  BY <1>1, <1>8, <1>9, MergeRefs, MergeRefsAfter DEF w
<1>14. FiledByName'
  <2> SUFFICES ASSUME NEW d \in Components, NEW m \in Has(d)'
               PROVE  Filed(items'[table'[d][m]], m)
    BY DEF FiledByName, Filed
  <2>1. m \in Has(d) /\ m \in Names /\ table'[d][m] = table[d][m]
        /\ table[d][m] \in Lists
    BY <1>1, <1>2 DEF Has, TypeOK
  <2>2. Filed(items[table[d][m]], m)
    BY <1>2, <2>1 DEF FiledByName, Filed
  <2>3. CASE table[d][m] # w
    BY <1>10, <2>1, <2>2, <2>3
  <2>4. CASE table[d][m] = w
    <3>1. m = name /\ items[w] # << >>
      BY <1>7, <2>1, <2>2, <2>4 DEF Filed
    <3> QED BY <1>6, <1>10, <2>1, <2>4, <3>1 DEF Filed
  <2> QED BY <2>3, <2>4
<1>15. DeadEmpty' /\ WorkAlone'
  BY <1>1, <1>2, <1>8 DEF DeadEmpty, Inv, WorkAlone, w
<1>16. WorkFiled'
  <2>1. call'.one = "MODIFIED" => items'[w] # << >>
    BY <1>1, <1>5, <1>6, <1>8, <1>10 DEF Accumulate
  <2> QED BY <1>6, <1>8, <1>9, <1>10, <2>1 DEF WorkFiled
<1>17. WorkFits'
  <2>1. Source' = src
    <3>1. table[from][name] # w
      BY <1>2, <1>7
    <3> QED BY <1>1, <1>3, <1>8, <1>10, <3>1 DEF Source
  <2>2. ASSUME NEW m \in call.todo
        PROVE  /\ StartItems(table[call.into][m])' = StartItems(table[into][m])
               /\ items[table[call.from][m]]' = items[table[from][m]]
    <3>1. m \in Has(from) /\ m \in Names /\ m # name
          /\ table[into][m] \in Lists \cup {NoList} /\ table[from][m] \in Lists
      BY <1>2, <1>5 DEF Has, TypeOK
    <3>2. table[into][m] # w /\ table[from][m] # w
      BY <1>2, <1>7, <3>1
    <3> QED BY <1>1, <1>8, <1>10, <3>1, <3>2 DEF StartItems
  <2>3. \A m \in call'.todo :
          Len(StartItems(table[call.into][m])')
            + Len(items[table[call.from][m]]') <= MaxLength
    <3>1. \A m \in call.todo :
            Len(StartItems(table[into][m])) + Len(items[table[from][m]])
              <= MaxLength
      BY <1>1 DEF Inv, WorkFits, into, from
    <3> QED BY <1>8, <2>2, <3>1
  <2> QED BY <1>5, <1>8, <1>9, <1>10, <1>11, <2>1, <2>3 DEF WorkFits
<1> QED BY <1>12, <1>13, <1>14, <1>15, <1>16, <1>17 DEF Inv

(* The list in work is stored, thrown away, or was in its bucket already.  *)
LEMMA EndListInvariant ==
  ASSUME Inv, EndList
  PROVE  Inv'
<1> DEFINE into == call.into
           from == call.from
           name == call.name
           w == call.work
           stored == OwnsWork /\ call.one = "MODIFIED"
<1>1. /\ InList /\ Merging
      /\ table' = IF stored THEN [ table EXCEPT ![into][name] = w ] ELSE table
      /\ listRefs' = IF stored THEN Released(into, {name})
                     ELSE IF OwnsWork THEN [ listRefs EXCEPT ![w] = 0 ]
                     ELSE listRefs
      /\ items' = Surviving(items, listRefs')
      /\ call' = [ call EXCEPT !.at = 0, !.work = NoList, !.change = call.one ]
      /\ UNCHANGED << live, rules, listRules >>
  BY DEF EndList, InList
<1>2. /\ TypeOK /\ FiledByName /\ DeadEmpty
      /\ into \in Components /\ from \in Components /\ into # from
      /\ into \in live /\ from \in live
      /\ name \in Has(from) /\ name \in Names /\ w \in Lists
      /\ call.todo \subseteq Has(from)
      /\ call.one \in {"NONE", "MODIFIED", "ERROR"}
      /\ listRefs[w] = 1
      /\ name \notin call.todo
  BY <1>1, MergeMeans DEF Inv, InList, Has, WorkAlone, WorkFits
<1>3. /\ call'.into = into /\ call'.from = from /\ call'.todo = call.todo
      /\ call'.kind = "merge" /\ call'.at = 0 /\ call'.work = NoList
      /\ call'.one = call.one /\ call'.change = call.one
      /\ DOMAIN call' = DOMAIN call
  BY <1>1, MergeMeans
<1>4. Merging' /\ ~InList' /\ ~OwnsWork'
  BY <1>3 DEF Merging, InList, OwnsWork
<1>5. stored => /\ Cardinality(Buckets(table, w)) = 0
                /\ Rebound(table, table', into, name, w)
                /\ Filed(items[w], name)
  <2> SUFFICES ASSUME stored
               PROVE  /\ Cardinality(Buckets(table, w)) = 0
                      /\ Rebound(table, table', into, name, w)
                      /\ Filed(items[w], name)
    OBVIOUS
  <2>1. listRefs[w] = Cardinality(Buckets(table, w)) + 1
    BY <1>2, MergeRefs
  <2>2. Cardinality(Buckets(table, w)) = 0
    BY <1>2, <2>1, BucketsFinite
  <2>3. Rebound(table, table', into, name, w)
    BY <1>1, <1>2 DEF Rebound, TypeOK
  <2>4. Filed(items[w], name)
    BY <1>1 DEF Inv, WorkFiled, Filed
  <2> QED BY <2>2, <2>3, <2>4
<1> HIDE DEF into, from, name, w
<1>6. \A l \in Lists : /\ listRefs'[l] = Cardinality(Buckets(table', l))
                       /\ listRefs'[l] \in Nat
  <2>1. CASE stored
    <3>1. \A l \in Lists \ {w} : listRefs[l] = Cardinality(Buckets(table, l))
      BY MergeRefs DEF w
    <3>2. listRefs'[w] = 1
      <4>1. Released(into, {name})[w] = listRefs[w] - IsOne(table[into][name], w)
        BY <1>2, ReleasedOne DEF TypeOK
      <4>2. table[into][name] # w
        BY <1>2, <1>5, <2>1, NoBucket
      <4> QED BY <1>1, <1>2, <2>1, <4>1, <4>2 DEF IsOne
    <3>3. \A l \in Lists :
            listRefs'[l] = IF l = w THEN 1 ELSE Released(into, {name})[l]
      BY <1>1, <2>1, <3>2
    <3> QED BY <1>2, <1>5, <2>1, <3>1, <3>3, RefsAfterStore
  <2>2. CASE OwnsWork /\ ~stored
    <3>1. listRefs' = [ listRefs EXCEPT ![w] = 0 ] /\ table' = table
      BY <1>1, <2>2
    <3>2. /\ \A l \in Lists \ {w} : listRefs[l] = Cardinality(Buckets(table, l))
          /\ listRefs[w] = Cardinality(Buckets(table, w)) + 1
      BY <1>2, <2>2, MergeRefs DEF w
    <3>3. Cardinality(Buckets(table, w)) = 0
      BY <1>2, <3>2, BucketsFinite
    <3> QED BY <1>2, <3>1, <3>2, <3>3 DEF TypeOK
  <2>3. CASE ~OwnsWork
    <3>1. listRefs' = listRefs /\ table' = table
      BY <1>1, <2>3
    <3> QED BY <1>2, <2>3, <3>1, MergeRefs DEF TypeOK
  <2> QED BY <2>1, <2>2, <2>3
<1>7. /\ listRefs' \in [Lists -> Nat]
      /\ table' \in [Components -> [Names -> Lists \cup {NoList}]]
      /\ items' \in [Lists -> Seq(Resources)]
  <2>1. listRefs' \in [Lists -> Nat]
    <3>1. DOMAIN listRefs' = Lists /\ listRefs' = [ l \in Lists |-> listRefs'[l] ]
      BY <1>1, <1>2 DEF Released, TypeOK
    <3> QED BY <1>6, <3>1
  <2>2. table' \in [Components -> [Names -> Lists \cup {NoList}]]
    BY <1>1, <1>2 DEF TypeOK
  <2> QED BY <1>1, <1>2, <2>1, <2>2, EmptySeq DEF Surviving, TypeOK
<1>8. \A l \in Lists : items'[l] = IF listRefs'[l] = 0 THEN << >> ELSE items[l]
  BY <1>1 DEF Surviving
<1>9. \A d \in Components : \A m \in Names :
        table'[d][m] # NoList =>
          items'[table'[d][m]] = items[table'[d][m]]
  <2> SUFFICES ASSUME NEW d \in Components, NEW m \in Names,
                      table'[d][m] # NoList
               PROVE  items'[table'[d][m]] = items[table'[d][m]]
    OBVIOUS
  <2>1. table'[d][m] \in Lists
    BY <1>7
  <2>2. Cardinality(Buckets(table', table'[d][m])) > 0
    BY SomeBucket
  <2> QED BY <1>6, <1>8, <2>1, <2>2
<1>10. \A d \in Components : \A m \in Names :
         d # into \/ m # name => table'[d][m] = table[d][m]
  <2>1. CASE stored
    BY <1>5, <2>1 DEF Rebound
  <2>2. CASE ~stored
    BY <1>1, <2>2
  <2> QED BY <2>1, <2>2
<1>11. TypeOK'
  <2>1. \A l \in Lists : Len(items'[l]) <= MaxLength
    <3>1. Len(<< >>) = 0 /\ 0 <= MaxLength
      BY MaxLengthAssumption
    <3> QED BY <1>2, <1>8, <3>1 DEF TypeOK
  <2>2. CallType'
    <3>1. Has(call.from)' = Has(from)
      BY <1>2, <1>3, <1>10 DEF Has
    <3>2. /\ call'.at \in 0 .. MaxLength + 1 /\ ~(call'.at > 0)
          /\ live' = live
      BY <1>1, <1>3, MaxLengthAssumption
    <3>3. DOMAIN call' = { "kind", "into", "from", "todo", "name", "work",
                           "at", "one", "change" }
      BY <1>1, <1>3, MergeMeans
    <3> QED BY <1>2, <1>3, <3>1, <3>2, <3>3 DEF CallType
  <2> QED BY <1>1, <1>2, <1>7, <2>1, <2>2 DEF TypeOK
<1>12. RefsExact'
  BY <1>4, <1>6, MergeRefsAfter
<1>13. FiledByName'
  <2>1. CASE stored
    <3>1. \A l \in Lists \ {w} : listRefs'[l] # 0 => items'[l] = items[l]
      BY <1>8
    <3>2. table'[into][name] = w /\ w # NoList
      BY <1>2, <1>5, <2>1, NoListAssumption DEF Rebound
    <3>3. items'[w] = items[w]
      BY <1>2, <1>9, <3>2
    <3> QED BY <1>2, <1>5, <1>6, <1>11, <2>1, <3>1, <3>3, FiledAfterStore
  <2>2. CASE ~stored
    <3> SUFFICES ASSUME NEW d \in Components, NEW m \in Has(d)'
                 PROVE  Filed(items'[table'[d][m]], m)
      BY DEF FiledByName, Filed
    <3>1. m \in Has(d) /\ m \in Names /\ table'[d][m] = table[d][m]
          /\ table[d][m] # NoList
      BY <1>1, <2>2 DEF Has
    <3>2. Filed(items[table[d][m]], m)
      BY <1>2, <3>1 DEF FiledByName, Filed
    <3> QED BY <1>9, <3>1, <3>2
  <2> QED BY <2>1, <2>2
<1>14. DeadEmpty'
  <2> SUFFICES ASSUME NEW d \in Components \ live
               PROVE  table'[d] = EmptyTable
    BY <1>1 DEF DeadEmpty
  <2>1. d # into
    BY <1>2
  <2>2. table'[d] = table[d]
    BY <1>1, <1>2, <2>1 DEF TypeOK
  <2> QED BY <1>2, <2>2 DEF DeadEmpty
<1>15. WorkAlone' /\ WorkFiled'
  BY <1>4 DEF WorkAlone, WorkFiled
<1>16. WorkFits'
  <2>1. ASSUME NEW m \in call.todo
        PROVE  /\ StartItems(table[call.into][m])' = StartItems(table[into][m])
               /\ items[table[call.from][m]]' = items[table[from][m]]
    <3>1. m \in Has(from) /\ m \in Names /\ m # name /\ table[from][m] # NoList
      BY <1>2 DEF Has
    <3>2. table'[into][m] = table[into][m] /\ table'[from][m] = table[from][m]
      BY <1>2, <1>10, <3>1
    <3>3. items'[table'[from][m]] = items[table[from][m]]
      BY <1>2, <1>9, <3>1, <3>2
    <3>4. table[into][m] # NoList =>
            items'[table'[into][m]] = items[table[into][m]]
      BY <1>2, <1>9, <3>1, <3>2
    <3> QED BY <1>3, <3>2, <3>3, <3>4 DEF StartItems
  <2>2. \A m \in call.todo :
          Len(StartItems(table[into][m])) + Len(items[table[from][m]])
            <= MaxLength
    BY <1>1 DEF Inv, WorkFits, into, from
  <2>3. \A m \in call'.todo :
          Len(StartItems(table[call.into][m])')
            + Len(items[table[call.from][m]]') <= MaxLength
    BY <1>3, <2>1, <2>2
  <2> QED BY <1>4, <2>3 DEF WorkFits
<1> QED BY <1>11, <1>12, <1>13, <1>14, <1>15, <1>16 DEF Inv

(***************************************************************************)
(* The theorems.                                                           *)
(***************************************************************************)
LEMMA NextInvariant == Inv /\ [Next]_vars => Inv'
<1> SUFFICES ASSUME Inv, [Next]_vars
             PROVE  Inv'
  OBVIOUS
<1>1. ASSUME NEW c \in Components,
             New(c) \/ RemoveAllResources(c) \/ Destroy(c)
      PROVE  Inv'
  <2>1. CASE New(c)
    BY <2>1, NewInvariant
  <2>2. CASE RemoveAllResources(c)
    BY <2>2, EmptiedInvariant DEF RemoveAllResources
  <2>3. CASE Destroy(c)
    BY <2>3, EmptiedInvariant DEF Destroy
  <2> QED BY <1>1, <2>1, <2>2, <2>3
<1>2. ASSUME NEW c \in Components, NEW rls \in RuleSets, SetMergeRules(c, rls)
      PROVE  Inv'
  BY <1>2, SetMergeRulesInvariant
<1>3. ASSUME NEW c \in Components, NEW r \in Resources, MergeResource(c, r)
      PROVE  Inv'
  BY <1>3, MergeResourceInvariant
<1>4. ASSUME NEW c \in Components, NEW new \in Components,
             NEW ns \in SUBSET Has(c), Select(c, new, ns)
      PROVE  Inv'
  BY <1>4, SelectInvariant
<1>5. ASSUME NEW c \in Components, NEW c2 \in Components, MergeComponent(c, c2)
      PROVE  Inv'
  BY <1>5, MergeComponentInvariant
<1>6. ASSUME NEW n \in Names, StartList(n)
      PROVE  Inv'
  BY <1>6, StartListInvariant
<1>7. CASE UNCHANGED vars
  <2> USE <1>7 DEF vars
  <2>1. InList' = InList /\ Merging' = Merging /\ OwnsWork' = OwnsWork
        /\ Source' = Source
    BY DEF InList, Merging, OwnsWork, Source
  <2>2. TypeOK' /\ RefsExact' /\ FiledByName'
    BY <2>1 DEF Inv, TypeOK, CallType, Has, RefsExact, FiledByName
  <2>3. DeadEmpty' /\ WorkAlone' /\ WorkFiled' /\ WorkFits'
    BY <2>1 DEF Inv, DeadEmpty, WorkAlone, WorkFiled, WorkFits, StartItems
  <2> QED BY <2>2, <2>3 DEF Inv
<1> QED
  BY <1>1, <1>2, <1>3, <1>4, <1>5, <1>6, <1>7, MergeNextInvariant,
     EndListInvariant, ReturnInvariant DEF Next

LEMMA Invariant == Spec => []Inv
BY InitInvariant, NextInvariant, PTL DEF Spec

(* The components are well typed, and each resource is in the list where a *)
(* probe for its name looks (lcfgcomponent_find_list), after any calls.    *)
THEOREM AlwaysWellFormed == Spec => []WellFormed
<1>1. Inv => WellFormed
  BY DEF Inv, WellFormed
<1> QED BY <1>1, Invariant, PTL

(* No list is freed while a bucket has it, none is leaked, and none that   *)
(* two components share is written to as if it were not.                   *)
THEOREM ReferencesAreExact == Spec => []RefsExact
<1>1. Inv => RefsExact
  BY DEF Inv
<1> QED BY <1>1, Invariant, PTL

(* The loop of lcfgreslist_merge_list never writes to the list it reads,   *)
(* nor to one another component holds.                                     *)
THEOREM MergesWriteApart == Spec => []WritesApart
<1>1. Inv => WritesApart
  BY WorkIsApart DEF WritesApart
<1> QED BY <1>1, Invariant, PTL

(***************************************************************************)
(* Who a step changes.                                                     *)
(***************************************************************************)

(* A component whose buckets and their lists stay holds what it held.      *)
LEMMA HeldStays ==
  ASSUME NEW c, table'[c] = table[c],
         \A n \in Has(c) : items'[table[c][n]] = items[table[c][n]]
  PROVE  Held(c)' = Held(c)
<1>1. Has(c)' = Has(c)
  BY DEF Has
<1>2. \A n \in Has(c) : items'[table'[c][n]] = items[table[c][n]]
  OBVIOUS
<1> QED BY <1>1, <1>2 DEF Held

(* A list in a bucket is not one that was destroyed.                       *)
LEMMA InBucketAfter ==
  ASSUME Inv', NEW c \in Components, NEW n \in Names, table'[c][n] \in Lists
  PROVE  listRefs'[table'[c][n]] # 0
<1> DEFINE l == table'[c][n]
<1>1. Cardinality(Buckets(table', l)) > 0 /\ Cardinality(Buckets(table', l)) \in Nat
  BY SomeBucket, BucketsFinite
<1>2. \E x \in {0, 1} : listRefs'[l] = Cardinality(Buckets(table', l)) + x
  BY DEF Inv, RefsExact, Buckets
<1> QED BY <1>1, <1>2

(* Every step disturbs at most one component d, the target of a merge that *)
(* is running.                                                             *)
DisturbsOnly(d) ==
  /\ Merging => d = call.into
  /\ \A c \in live \cap live' : c # d => Held(c)' = Held(c)

(* A step that changes the table of d only, and to the lists only what     *)
(* does not concern the others, disturbs only d.                           *)
LEMMA Disturbs ==
  ASSUME Inv, NEW d, Merging => d = call.into,
         \A c \in Components \ {d} : table'[c] = table[c],
         \A c \in Components \ {d} : \A n \in Has(c) :
           items'[table[c][n]] = items[table[c][n]]
  PROVE  DisturbsOnly(d)
<1>1. live \subseteq Components
  BY DEF Inv, TypeOK
<1> QED BY <1>1, HeldStays DEF DisturbsOnly

LEMMA StepDisturbs ==
  ASSUME Inv, Inv', Next
  PROVE  \E d : DisturbsOnly(d)
<1>1. Idle => ~Merging
  BY IdleRefs
<1>2. \A c \in Components : \A n \in Has(c) :
        n \in Names /\ table[c][n] \in Lists
  BY DEF Inv, TypeOK, Has
<1>3. TypeOK
  BY DEF Inv
<1>4. ASSUME NEW c \in Components, RemoveAllResources(c) \/ Destroy(c)
      PROVE  DisturbsOnly(c)
  <2>1. Idle /\ Emptied(c)
    BY <1>4 DEF RemoveAllResources, Destroy
  <2>2. \A e \in Components \ {c} : table'[e] = table[e]
    BY <1>3, <2>1 DEF Emptied, TypeOK
  <2>3. ASSUME NEW e \in Components \ {c}, NEW n \in Has(e)
        PROVE  items'[table[e][n]] = items[table[e][n]]
    <3>1. listRefs'[table[e][n]] # 0
      BY <1>2, <2>2, InBucketAfter
    <3> QED BY <1>2, <2>1, <3>1 DEF Emptied, Surviving
  <2> QED BY <1>1, <2>1, <2>2, <2>3, Disturbs
<1>5. ASSUME NEW c \in Components, NEW r \in Resources, MergeResource(c, r)
      PROVE  DisturbsOnly(c)
  <2> DEFINE n == r.name
             l == table[c][n]
  <2>1. Idle /\ (MergeInPlace(c, r) \/ MergeCopying(c, r)) /\ n \in Names
    BY <1>5, ResourcesAssumption DEF MergeResource, Resource
  <2>2. \A k \in Lists : listRefs[k] = Cardinality(Buckets(table, k))
    BY <2>1, IdleRefs
  <2>3. CASE MergeInPlace(c, r)
    <3>1. /\ l \in Lists /\ listRefs[l] <= 1 /\ table' = table
          /\ \A k \in Lists \ {l} : items'[k] = items[k]
      BY <1>3, <2>1, <2>3 DEF MergeInPlace, NeedsCopy, IsShared, TypeOK
    <3>2. Cardinality(Buckets(table, l)) = 1
      BY <2>1, <2>2, <3>1, SomeBucket, BucketsFinite
    <3>3. ASSUME NEW e \in Components \ {c}, NEW m \in Has(e)
          PROVE  items'[table[e][m]] = items[table[e][m]]
      <4>1. table[e][m] # l
        BY <1>2, <2>1, <3>2, OneBucket
      <4> QED BY <1>2, <3>1, <4>1
    <3> QED BY <1>1, <2>1, <3>1, <3>3, Disturbs
  <2>4. CASE MergeCopying(c, r) /\ UNCHANGED << table, items >>
    BY <1>1, <2>1, <2>4, Disturbs
  <2>5. CASE MergeCopying(c, r) /\ ~UNCHANGED << table, items >>
    <3> DEFINE new == Merged(StartItems(l), StartRules(c, l), r)
    <3>1. PICK f \in Lists :
            IsFree(f) /\ Store(c, n, f, [ items EXCEPT ![f] = new ])
      BY <2>5 DEF MergeCopying
    <3>2. /\ \A e \in Components \ {c} : table'[e] = table[e]
          /\ \A k \in Lists \ {f} : listRefs'[k] # 0 => items'[k] = items[k]
      BY <1>3, <2>1, <3>1 DEF Store, Surviving, TypeOK
    <3>3. Cardinality(Buckets(table, f)) = 0
      BY <2>2, <3>1 DEF IsFree
    <3>4. ASSUME NEW e \in Components \ {c}, NEW m \in Has(e)
          PROVE  items'[table[e][m]] = items[table[e][m]]
      <4>1. table[e][m] # f
        BY <1>2, <3>3, NoBucket
      <4>2. listRefs'[table[e][m]] # 0
        BY <1>2, <3>2, InBucketAfter
      <4> QED BY <1>2, <3>2, <4>1, <4>2
    <3> QED BY <1>1, <2>1, <3>2, <3>4, Disturbs
  <2> QED BY <2>1, <2>3, <2>4, <2>5
<1>6. ASSUME NEW c \in Components, NEW new \in Components,
             NEW ns \in SUBSET Has(c), Select(c, new, ns)
      PROVE  DisturbsOnly(new)
  <2>1. /\ Idle /\ items' = items
        /\ \A e \in Components \ {new} : table'[e] = table[e]
    BY <1>3, <1>6 DEF Select, Share, TypeOK
  <2> QED BY <1>1, <2>1, Disturbs
<1>7. ASSUME UNCHANGED << table, items >>
      PROVE  DisturbsOnly(call.into)
  BY <1>7, Disturbs
<1>8. ASSUME NEW n \in Names, StartList(n)
      PROVE  DisturbsOnly(call.into)
  <2>1. ~OwnsWork /\ table' = table
    <3>1. call.at = 0 /\ table' = table
      BY <1>8 DEF StartList
    <3> QED BY <3>1 DEF OwnsWork, InList
  <2>2. \A k \in Lists : listRefs[k] # 0 => items'[k] = items[k]
    BY <1>3, <1>8 DEF StartList, IsFree, TypeOK
  <2>3. \A k \in Lists : listRefs[k] = Cardinality(Buckets(table, k))
    BY <2>1, MergeRefs
  <2>4. ASSUME NEW e \in Components, NEW m \in Has(e)
        PROVE  items'[table[e][m]] = items[table[e][m]]
    <3>1. Cardinality(Buckets(table, table[e][m])) > 0
      BY <1>2, SomeBucket
    <3> QED BY <1>2, <2>2, <2>3, <3>1
  <2> QED BY <2>1, <2>4, Disturbs
<1>9. ASSUME MergeNext
      PROVE  DisturbsOnly(call.into)
  <2>1. /\ InList /\ table' = table /\ items' = [ items EXCEPT ![call.work] =
             Merged(items[call.work], listRules[call.work], Source[call.at]) ]
    BY <1>9 DEF MergeNext
  <2>2. \A k \in Lists : k # call.work => items'[k] = items[k]
    BY <1>3, <2>1 DEF TypeOK
  <2>3. ASSUME NEW e \in Components \ {call.into}, NEW m \in Has(e)
        PROVE  items'[table[e][m]] = items[table[e][m]]
    <3>1. table[e][m] # call.work
      BY <1>2, <2>1, WorkIsApart
    <3> QED BY <1>2, <2>2, <3>1
  <2> QED BY <2>1, <2>3, Disturbs
<1>10. ASSUME EndList
       PROVE  DisturbsOnly(call.into)
  <2>1. /\ \A e \in Components \ {call.into} : table'[e] = table[e]
        /\ \A k \in Lists : listRefs'[k] # 0 => items'[k] = items[k]
    BY <1>3, <1>10 DEF EndList, Surviving, TypeOK
  <2>2. ASSUME NEW e \in Components \ {call.into}, NEW m \in Has(e)
        PROVE  items'[table[e][m]] = items[table[e][m]]
    <3>1. listRefs'[table[e][m]] # 0
      BY <1>2, <2>1, InBucketAfter
    <3> QED BY <1>2, <2>1, <3>1
  <2> QED BY <2>1, <2>2, Disturbs
<1>11. CASE \/ \E c \in Components :
                 \/ New(c)
                 \/ \E rls \in RuleSets : SetMergeRules(c, rls)
                 \/ \E c2 \in Components : MergeComponent(c, c2)
            \/ Return
  <2>1. UNCHANGED << table, items >>
    BY <1>11 DEF New, SetMergeRules, MergeComponent, Return
  <2> QED BY <1>7, <2>1
<1> QED BY <1>4, <1>5, <1>6, <1>8, <1>9, <1>10, <1>11 DEF Next

(* What one component holds never changes because of what is done to       *)
(* another: the promise of lcfgcomponent_clone that copy on write avoids   *)
(* "action at a distance", for every sequence of calls.                    *)
THEOREM NothingAtADistance == Spec => NoActionAtADistance
<1> DEFINE A == /\ \A c, d \in live \cap live' :
                     c = d \/ Held(c)' = Held(c) \/ Held(d)' = Held(d)
                /\ Merging => \A c \in live \ {call.into} : Held(c)' = Held(c)
<1>1. Inv /\ Inv' /\ [Next]_vars => [A]_vars
  <2> SUFFICES ASSUME Inv, Inv', Next
               PROVE  A
    OBVIOUS
  <2>1. PICK d : DisturbsOnly(d)
    BY StepDisturbs
  <2>2. \A c, e \in live \cap live' :
          c = e \/ Held(c)' = Held(c) \/ Held(e)' = Held(e)
    BY <2>1 DEF DisturbsOnly
  <2>3. Merging => live' = live
    BY IdleRefs DEF Next, New, RemoveAllResources, Destroy, SetMergeRules,
       MergeResource, Select, MergeComponent, StartList, MergeNext, EndList,
       Return
  <2>4. Merging => \A c \in live \ {call.into} : Held(c)' = Held(c)
    BY <2>1, <2>3 DEF DisturbsOnly
  <2> QED BY <2>2, <2>4
<1> QED BY <1>1, Invariant, PTL DEF Spec, NoActionAtADistance

(***************************************************************************)
(* The resources of a component (module Resource): whatever is set, edited,*)
(* cloned, saved, exported or loaded, the value of every resource is one   *)
(* its type allows, for all names, texts and numbers of calls.             *)
(*                                                                         *)
(* Every part of a resource stays a text, and with it the status file and  *)
(* the variables of the environment: that the words of a value, and the    *)
(* lines of a file, can be counted is what the loops over them rest on.    *)
(***************************************************************************)
(* A text, or the null pointer.                                            *)
IsText(text) == text = NULL \/ IsList(text)

(* A list of texts.                                                        *)
WordList(words) == IsList(words) /\ \A k \in DOMAIN words : IsList(words[k])

(* The files of a derivation.                                              *)
FileSet(files) == IsFiniteSet(files) /\ \A f \in files : IsList(f)

(* What the searches in a text find are places in it, and what they cut    *)
(* out of it are texts.                                                    *)
LEMMA PiecesOfText ==
  ASSUME NEW text, IsList(text)
  PROVE  /\ \A piece : FirstOf(text, piece) \in Nat /\ LastOf(text, piece) \in Nat
         /\ \A i \in Int : IsList(From(text, i)) /\ IsList(Before(text, i))
         /\ \A pieces : IsList(Skipped(text, pieces))
         /\ \A i \in Nat : WordEnd(text, i) \in Int
         /\ \A i \in Nat : BlanksAfter(text, i) \in Int
         /\ CommentEnd(text) \in Nat
         /\ IsList(CommentOf(text)) /\ IsList(TemplatesOf(text))
         /\ IsList(Chomped(text))
<1>1. Len(text) \in Nat
  BY ListProperties
<1>2. \A J : 1 .. Len(text) \in SUBSET Nat
  OBVIOUS
<1>3. ASSUME NEW piece PROVE FirstOf(text, piece) \in Nat
  <2> DEFINE I == { i \in 1 .. Len(text) : text[i] = piece }
  <2>1. FirstOf(text, piece) = IF I # {} THEN Min(I) ELSE 0
    BY DEF FirstOf, SelectInSeq
  <2>2. I \in SUBSET Nat
    OBVIOUS
  <2> HIDE DEF I
  <2> QED BY <2>1, <2>2, PlaceFound
<1>4. ASSUME NEW piece PROVE LastOf(text, piece) \in Nat
  <2> DEFINE I == { i \in 1 .. Len(text) : text[i] = piece }
  <2>1. LastOf(text, piece) = IF I # {} THEN Max(I) ELSE 0
    BY DEF LastOf, SelectLastInSeq
  <2>2. I \in SUBSET (1 .. Len(text))
    OBVIOUS
  <2> HIDE DEF I
  <2> QED BY <1>1, <2>1, <2>2, LastPlaceFound
<1>5. ASSUME NEW i \in Int PROVE IsList(From(text, i)) /\ IsList(Before(text, i))
  BY <1>1, PartOfList DEF From, Before
<1>6. ASSUME NEW pieces PROVE IsList(Skipped(text, pieces))
  <2> DEFINE I == { i \in 1 .. Len(text) : text[i] \notin pieces }
             at == IF I # {} THEN Min(I) ELSE 0
  <2>1. Skipped(text, pieces) = IF at = 0 THEN << >> ELSE From(text, at)
    BY DEF Skipped, SelectInSeq
  <2>2. I \in SUBSET Nat
    OBVIOUS
  <2> HIDE DEF I
  <2>3. at \in Nat
    BY <2>2, PlaceFound
  <2> HIDE DEF at
  <2> QED BY <1>5, <2>1, <2>3, ShortLists
<1>7. ASSUME NEW i \in Nat PROVE WordEnd(text, i) \in Int
  <2> DEFINE I == { j \in i .. Len(text) : text[j] \in Blanks }
             at == IF I # {} THEN Min(I) ELSE 0
  <2>1. WordEnd(text, i) = IF at = 0 THEN Len(text) ELSE at - 1
    BY DEF WordEnd, SelectInSubSeq
  <2>2. I \in SUBSET Nat
    BY <1>1
  <2> HIDE DEF I
  <2>3. at \in Nat
    BY <2>2, PlaceFound
  <2> HIDE DEF at
  <2> QED BY <1>1, <2>1, <2>3
<1>8. ASSUME NEW i \in Nat PROVE BlanksAfter(text, i) \in Int
  <2> DEFINE I == { j \in i .. Len(text) : text[j] \notin Blanks }
             at == IF I # {} THEN Min(I) ELSE 0
  <2>1. BlanksAfter(text, i) = IF i > Len(text) THEN 0 ELSE (IF at = 0 THEN Len(text) + 1 ELSE at) - i
    BY DEF BlanksAfter, SelectInSubSeq
  <2>2. I \in SUBSET Nat
    BY <1>1
  <2> HIDE DEF I
  <2>3. at \in Nat
    BY <2>2, PlaceFound
  <2> HIDE DEF at
  <2> QED BY <1>1, <2>1, <2>3
<1>9. CommentEnd(text) \in Nat
  <2> DEFINE open == FirstOf(text, "(")
             I == { j \in open .. Len(text) : text[j] = ")" }
             at == IF I # {} THEN Min(I) ELSE 0
  <2>1. CommentEnd(text) = IF open = 0 THEN 0 ELSE at
    BY DEF CommentEnd, SelectInSubSeq
  <2>2. open \in Nat
    BY <1>3
  <2> HIDE DEF open
  <2>3. I \in SUBSET Nat
    BY <1>1, <2>2
  <2> HIDE DEF I
  <2>4. at \in Nat
    BY <2>3, PlaceFound
  <2> HIDE DEF at
  <2> QED BY <2>1, <2>4
<1>10. IsList(CommentOf(text))
  <2> DEFINE open == FirstOf(text, "(")
  <2>1. CommentOf(text) = SubSeq(text, open + 1, CommentEnd(text) - 1)
    BY DEF CommentOf
  <2>2. open \in Nat
    BY <1>3
  <2> HIDE DEF open
  <2> QED BY <1>9, <2>1, <2>2, PartOfList
<1>11. IsList(TemplatesOf(text))
  <2> DEFINE colon == FirstOf(text, ": ")
             rest == From(text, colon + 1)
             I == { i \in 1 .. Len(rest) : rest[i] \notin Blanks }
             at == IF I # {} THEN Min(I) ELSE 0
  <2>1. TemplatesOf(text) = IF colon = 0 THEN << >> ELSE IF at = 0 THEN << >> ELSE From(rest, at)
    BY DEF TemplatesOf, Skipped, SelectInSeq
  <2>2. colon \in Nat
    BY <1>3
  <2> HIDE DEF colon
  <2>3. IsList(rest)
    BY <1>5, <2>2
  <2> HIDE DEF rest
  <2>4. I \in SUBSET Nat
    OBVIOUS
  <2> HIDE DEF I
  <2>5. at \in Nat
    BY <2>4, PlaceFound
  <2> HIDE DEF at
  <2>6. IsList(From(rest, at))
    BY <2>3, <2>5, PartOfList, ListProperties DEF From
  <2> QED BY <2>1, <2>6, ShortLists
<1>12. IsList(Chomped(text))
  <2> DEFINE I == { i \in 1 .. Len(text) : text[i] \notin {"CR", "LF"} }
             keep == IF I # {} THEN Max(I) ELSE 0
  <2>1. Chomped(text) = IF text = << >> THEN text ELSE SubSeq(text, 1, IF keep = 0 THEN 1 ELSE keep)
    BY DEF Chomped, SelectLastInSeq
  <2>2. I \in SUBSET (1 .. Len(text))
    OBVIOUS
  <2> HIDE DEF I
  <2>3. keep \in Nat
    BY <1>1, <2>2, LastPlaceFound
  <2> HIDE DEF keep
  <2>4. IsList(SubSeq(text, 1, IF keep = 0 THEN 1 ELSE keep))
    BY <2>3, PartOfList
  <2> QED BY <2>1, <2>4
<1> QED BY <1>3, <1>4, <1>5, <1>6, <1>7, <1>8, <1>9, <1>10, <1>11, <1>12

(* The words and the lines of a text are texts, and can be counted.        *)
LEMMA WordsOfText ==
  ASSUME NEW text, IsList(text)
  PROVE  WordList(Words(text)) /\ WordList(Lines(text))
<1>1. DOMAIN text = 1 .. Len(text) /\ Len(text) \in Nat
  BY ListProperties
<1>2. ASSUME NEW places, places \subseteq DOMAIN text, NEW parts,
             \A i \in DOMAIN text : IsList(parts[i])
      PROVE  WordList(AtPlaces(parts, places))
  <2>1. places \in SUBSET Nat /\ IsFiniteSet(places)
    <3>1. DOMAIN text \subseteq Nat
      BY <1>1
    <3>2. IsFiniteSet(DOMAIN text)
      BY ListProperties
    <3> QED BY <1>2, <3>1, <3>2, FS_Subset
  <2>2. /\ IsList(AtPlaces(parts, places))
        /\ \A k \in DOMAIN AtPlaces(parts, places) :
             \E i \in places : AtPlaces(parts, places)[k] = parts[i]
    <3>1. Takes(AtPlaces(parts, places), parts, places)
      BY <2>1, AtPlacesSound
    <3> HIDE DEF AtPlaces
    <3> QED BY <3>1, TakesContents
  <2> QED BY <1>2, <2>2 DEF WordList
<1>3. WordList(Words(text))
  <2> DEFINE word(i) == SubSeq(text, i, WordEnd(text, i))
             parts == [ i \in DOMAIN text |-> word(i) ]
  <2>1. \A i \in DOMAIN text : IsList(word(i))
    <3> SUFFICES ASSUME NEW i \in DOMAIN text PROVE IsList(word(i))
      OBVIOUS
    <3>1. i \in Nat /\ i \in Int
      BY <1>1
    <3>2. WordEnd(text, i) \in Int
      BY <3>1, PiecesOfText
    <3> QED BY <3>1, <3>2, PartOfList
  <2>2. \A i \in DOMAIN text : parts[i] = word(i)
    OBVIOUS
  <2>3. Words(text) = AtPlaces(parts, WordStarts(text))
    BY DEF Words
  <2> HIDE DEF word, parts
  <2> QED BY <1>2, <2>1, <2>2, <2>3 DEF WordStarts
<1>4. WordList(Lines(text))
  <2> DEFINE I(i) == { j \in i .. Len(text) : text[j] = "LF" }
             lf(i) == IF I(i) # {} THEN Min(I(i)) ELSE 0
             line(i) == Chomped(SubSeq(text, i, IF lf(i) = 0 THEN Len(text) ELSE lf(i)))
             parts == [ i \in DOMAIN text |-> line(i) ]
  <2>1. ASSUME NEW i \in DOMAIN text PROVE IsList(line(i))
    <3>1. I(i) \in SUBSET Nat
      BY <1>1
    <3>2. lf(i) \in Nat
      <4> HIDE DEF I
      <4> QED BY <3>1, PlaceFound
    <3>3. IsList(SubSeq(text, i, IF lf(i) = 0 THEN Len(text) ELSE lf(i)))
      <4> HIDE DEF lf
      <4> QED BY <1>1, <3>2, PartOfList
    <3> HIDE DEF lf
    <3> QED BY <3>3, PiecesOfText
  <2>2. \A i \in DOMAIN text : parts[i] = line(i)
    OBVIOUS
  <2>3. Lines(text) = AtPlaces(parts, LineStarts(text))
    BY DEF Lines, SelectInSubSeq
  <2> HIDE DEF line, parts
  <2> QED BY <1>2, <2>1, <2>2, <2>3 DEF LineStarts
<1> QED BY <1>3, <1>4

(* Words with blanks between them are a text.                              *)
LEMMA SpacedIsText ==
  ASSUME NEW words, WordList(words)
  PROVE  IsList(Spaced(words))
<1> DEFINE part(k) == IF k = 1 THEN words[k] ELSE <<" ">> \o words[k]
           parts == [ k \in DOMAIN words |-> part(k) ]
<1>1. IsList(words) /\ \A k \in DOMAIN words : IsList(words[k])
  BY DEF WordList
<1>2. \A k \in DOMAIN words : IsList(part(k))
  BY <1>1, ShortLists, JoinedList
<1> HIDE DEF part
<1>3. parts = [ k \in DOMAIN words |-> parts[k] ] /\ \A k \in DOMAIN words : parts[k] = part(k)
  OBVIOUS
<1>4. Spaced(words) = FlattenSeq(parts)
  BY DEF Spaced, part
<1> HIDE DEF parts
<1> QED BY <1>1, <1>2, <1>3, <1>4, PartsPutTogether

(* What is written for derivations and values, and decoded again, are      *)
(* texts.                                                                  *)
LEMMA FormatsAreText ==
  /\ \A files : FileSet(files) => IsList(DerivationText(files))
  /\ \A text : IsList(text) => IsList(EncValue(text)) /\ IsList(DecodeEntities(text))
<1>1. ASSUME NEW files, FileSet(files) PROVE IsList(DerivationText(files))
  <2>1. WordList(SetToSeq(files))
    BY <1>1, OrderedSet DEF FileSet, WordList
  <2> QED BY <2>1, SpacedIsText DEF DerivationText
<1>2. ASSUME NEW text, IsList(text) PROVE IsList(EncValue(text))
  <2> DEFINE part(i) == IF text[i] \in Unsafe THEN <<"&", EntityEnd[text[i]]>> ELSE <<text[i]>>
             parts == [ i \in DOMAIN text |-> part(i) ]
  <2>1. \A i \in DOMAIN text : IsList(part(i))
    BY ShortLists
  <2> HIDE DEF part
  <2>2. parts = [ i \in DOMAIN text |-> parts[i] ] /\ \A i \in DOMAIN text : parts[i] = part(i)
    OBVIOUS
  <2>3. EncValue(text) = FlattenSeq(parts)
    BY DEF EncValue, part
  <2> HIDE DEF parts
  <2> QED BY <1>2, <2>1, <2>2, <2>3, PartsPutTogether
<1>3. ASSUME NEW text, IsList(text) PROVE IsList(DecodeEntities(text))
  <2> DEFINE opens(i) == i \in 1..(Len(text) - 1) /\ text[i] = "&" /\ text[i + 1] \in DOMAIN Entities
             part(i) == CASE opens(i) -> <<Entities[text[i + 1]]>>
                          [] opens(i - 1) -> << >>
                          [] OTHER -> <<text[i]>>
             parts == [ i \in DOMAIN text |-> part(i) ]
  <2>1. \A i \in DOMAIN text : IsList(part(i))
    <3> HIDE DEF opens
    <3> QED BY SMT, ShortLists
  <2>2. DecodeEntities(text) = FlattenSeq(parts)
    BY DEF DecodeEntities
  <2> HIDE DEF part
  <2>3. parts = [ i \in DOMAIN text |-> parts[i] ] /\ \A i \in DOMAIN text : parts[i] = part(i)
    OBVIOUS
  <2> HIDE DEF parts
  <2> QED BY <1>3, <2>1, <2>2, <2>3, PartsPutTogether
<1> QED BY <1>1, <1>2, <1>3

(* A record with the fields of an LCFGResource.                            *)
Fields == { "name", "value", "type", "template", "context", "derivation",
            "comment", "priority" }

(* A resource whose parts are texts, and its value one its type allows.    *)
Fits(res, name) ==
  /\ DOMAIN res = Fields
  /\ res.name = name
  /\ res.type \in Types
  /\ res.template # NULL =>
       WordList(res.template) /\ \A k \in DOMAIN res.template : ValidTemplate(res.template[k])
  /\ IsText(res.value) /\ IsText(res.comment) /\ IsText(res.context)
  /\ FileSet(res.derivation)
  /\ res.value # NULL => ValidValueForType(res.type, res.value)

(* The parts that a fresh resource has, and how parts are made from        *)
(* others.                                                                 *)
LEMMA TextParts ==
  /\ IsText(NULL) /\ FileSet({})
  /\ \A text : IsList(text) => IsText(text)
  /\ \A text : IsText(text) => IsList(OrEmpty(text)) /\ IsText(Copied(text))
  /\ \A f, g : FileSet(f) /\ FileSet(g) => FileSet(f \cup g)
  /\ \A words : WordList(words) => FileSet(ToSet(words))
  /\ FileSet({<<"c">>})
<1>1. IsText(NULL) /\ FileSet({}) /\ \A text : IsList(text) => IsText(text)
  BY FS_EmptySet DEF IsText, FileSet
<1>2. \A text : IsText(text) => IsList(OrEmpty(text)) /\ IsText(Copied(text))
  BY ShortLists DEF IsText, OrEmpty, Copied
<1>3. ASSUME NEW f, NEW g, FileSet(f), FileSet(g) PROVE FileSet(f \cup g)
  BY <1>3, FS_Union DEF FileSet
<1>4. ASSUME NEW words, WordList(words) PROVE FileSet(ToSet(words))
  <2>1. IsFiniteSet(DOMAIN words) /\ \A k \in DOMAIN words : IsList(words[k])
    BY <1>4, ListProperties DEF WordList
  <2>2. IsFiniteSet(ToSet(words))
    <3>1. words \in [ DOMAIN words -> ToSet(words) ]
      <4>1. words = [ k \in DOMAIN words |-> words[k] ]
        BY <1>4 DEF WordList, IsList
      <4> QED BY <4>1 DEF ToSet
    <3>2. words \in Surjection(DOMAIN words, ToSet(words))
      BY <3>1 DEF Surjection, ToSet
    <3> QED BY <2>1, <3>2, FS_Surjection
  <2> QED BY <2>1, <2>2 DEF FileSet, ToSet
<1>5. FileSet({<<"c">>})
  BY ShortLists, FS_Singleton DEF FileSet
<1> QED BY <1>1, <1>2, <1>3, <1>4, <1>5

(* A fresh resource fits under any name that is valid.                     *)
LEMMA NewFits ==
  ASSUME NEW name, ValidName(name)
  PROVE  Fits(Named(name), name) /\ SetName(NewResource, name) = Granted(Named(name))
<1>1. /\ Named(name) = [ NewResource EXCEPT !.name = name ]
      /\ SetName(NewResource, name) = Granted(Named(name))
  BY DEF Named, SetName, Granted
<1> QED BY <1>1, TextParts DEF Fits, Fields, NewResource, Types

(* The setters of one part: lcfgresource_set_value checks the value,       *)
(* lcfgresource_set_type the value that is there.                          *)
LEMMA SettersFit ==
  ASSUME NEW res, NEW name, Fits(res, name)
  PROVE  /\ Fits(Granted(res).res, name) /\ Fits(Refused(res).res, name)
         /\ \A text : IsText(text) => Fits(SetValue(res, text).res, name)
         /\ Fits(UnsetValue(res).res, name)
         /\ \A text : IsText(text) => Fits(SetComment(res, text).res, name)
         /\ \A type \in Types : Fits(SetType(res, type).res, name)
         /\ \A text : IsText(text) => Fits(SetContext(res, text).res, name)
         /\ \A n : Fits(EvalPriority(res, n).res, name)
         /\ \A n : Fits([ res EXCEPT !.priority = n ], name)
         /\ \A files : FileSet(files) => Fits(AddDerivation(res, files).res, name)
         /\ \A files : FileSet(files) => Fits(SetDerivation(res, files).res, name)
         /\ \A text : IsText(text) => Fits(Commented(res, text), name)
<1>1. \A r : Granted(r).res = r /\ Refused(r).res = r /\ Granted(r).ok /\ ~Refused(r).ok
  BY DEF Granted, Refused
<1>2. IsText(NULL)
  BY TextParts
<1> USE DEF Fits, Fields
<1>3. ASSUME NEW text, IsText(text) PROVE Fits(SetValue(res, text).res, name)
  BY <1>1, <1>3 DEF SetValue
<1>4. Fits(UnsetValue(res).res, name)
  BY <1>2, <1>1 DEF UnsetValue
<1>5. ASSUME NEW text, IsText(text) PROVE Fits(SetComment(res, text).res, name)
  BY <1>1, <1>5 DEF SetComment
<1>6. ASSUME NEW type \in Types PROVE Fits(SetType(res, type).res, name)
  BY <1>1 DEF SetType
<1>7. ASSUME NEW text, IsText(text) PROVE Fits(SetContext(res, text).res, name)
  BY <1>1, <1>7 DEF SetContext
<1>8. ASSUME NEW n PROVE Fits([ res EXCEPT !.priority = n ], name)
  OBVIOUS
<1>9. ASSUME NEW n PROVE Fits(EvalPriority(res, n).res, name)
  BY <1>1 DEF EvalPriority
<1>10. ASSUME NEW files, FileSet(files) PROVE Fits(AddDerivation(res, files).res, name)
  <2>1. FileSet(res.derivation \cup files)
    BY <1>10, TextParts
  <2> DEFINE more == res.derivation \cup files
  <2>2. AddDerivation(res, files) = Granted([ res EXCEPT !.derivation = more ])
    BY DEF AddDerivation
  <2>3. FileSet(more)
    BY <2>1
  <2> HIDE DEF more
  <2> QED BY <1>1, <2>2, <2>3
<1>11. ASSUME NEW files, FileSet(files) PROVE Fits(SetDerivation(res, files).res, name)
  BY <1>1, <1>11 DEF SetDerivation
<1>12. ASSUME NEW text, IsText(text) PROVE Fits(Commented(res, text), name)
  BY <1>1, <1>12 DEF Commented
<1> HIDE DEF Fits
<1>13. Fits(Granted(res).res, name) /\ Fits(Refused(res).res, name)
  BY <1>1
<1> QED BY <1>3, <1>4, <1>5, <1>6, <1>7, <1>8, <1>9, <1>10, <1>11, <1>12, <1>13

(* The setters that set several parts: what a failure leaves behind fits.  *)
LEMMA TypesFit ==
  ASSUME NEW res, NEW name, Fits(res, name)
  PROVE  /\ \A text : IsText(text) => Fits(AddContext(res, text).res, name)
         /\ \A text : IsText(text) => Fits(SetTemplateAsString(res, text).res, name)
         /\ Fits(SetTypeDefault(res).res, name)
         /\ \A text : IsList(text) => Fits(SetTypeAsString(res, text).res, name)
<1>1. \A r : Granted(r).res = r /\ Refused(r).res = r
  BY DEF Granted, Refused
<1>2. ASSUME NEW text, IsText(text) PROVE Fits(AddContext(res, text).res, name)
  <2>1. ASSUME NEW t, IsList(t) PROVE IsList(Bracketed(t))
    BY <2>1, ShortLists, JoinedList DEF Bracketed
  <2>2. ASSUME NEW t, IsList(t), NEW u, IsList(u) PROVE IsText(CombineExpressions(t, u))
    <3>1. IsList(Bracketed(t)) /\ IsList(Bracketed(u)) /\ IsList(<<" & ">>)
      BY <2>1, <2>2, ShortLists
    <3>2. IsList(Bracketed(u) \o <<" & ">> \o Bracketed(t))
      BY <3>1, JoinedList
    <3> QED BY <2>2, <3>2 DEF CombineExpressions, IsText
  <2>3. IsText(res.context)
    BY DEF Fits
  <2>4. ~IsEmpty(text) /\ HasContext(res) => IsList(text) /\ IsList(res.context)
    BY <1>2, <2>3 DEF IsEmpty, HasContext, IsText
  <2>5. \/ AddContext(res, text) = Granted(res)
        \/ AddContext(res, text) = SetContext(res, text)
        \/ ~IsEmpty(text) /\ HasContext(res)
           /\ AddContext(res, text) = SetContext(res, CombineExpressions(res.context, text))
    BY SMT DEF AddContext
  <2> QED BY <1>1, <1>2, <2>2, <2>4, <2>5, SettersFit
<1>3. ASSUME NEW r, Fits(r, name), NEW text, IsText(text)
      PROVE  Fits(SetTemplateAsString(r, text).res, name)
  <2>1. \/ SetTemplateAsString(r, text) = Refused(r)
        \/ SetTemplateAsString(r, text) = Granted([ r EXCEPT !.template = NULL ])
        \/ /\ text # NULL /\ \A k \in DOMAIN Words(text) : ValidTemplate(Words(text)[k])
           /\ SetTemplateAsString(r, text) = Granted([ r EXCEPT !.template = Words(text) ])
    BY SMT DEF SetTemplateAsString, IsEmpty
  <2>2. Fits([ r EXCEPT !.template = NULL ], name)
    BY <1>3 DEF Fits, Fields
  <2>3. text # NULL => WordList(Words(text))
    BY <1>3, WordsOfText DEF IsText
  <2>4. text # NULL /\ (\A k \in DOMAIN Words(text) : ValidTemplate(Words(text)[k]))
          => Fits([ r EXCEPT !.template = Words(text) ], name)
    BY <1>3, <2>3 DEF Fits, Fields
  <2> QED BY <1>1, <1>3, <2>1, <2>2, <2>4
<1>4. Fits(SetTypeDefault(res).res, name)
  <2> DEFINE set == SetType(res, "string")
  <2>1. Fits(set.res, name)
    BY SettersFit DEF Types
  <2> HIDE DEF set
  <2>2. Fits([ set.res EXCEPT !.template = NULL, !.comment = NULL ], name)
    BY <2>1, TextParts DEF Fits, Fields
  <2>3. \/ SetTypeDefault(res) = Granted(res)
        \/ SetTypeDefault(res) = Granted([ set.res EXCEPT !.template = NULL, !.comment = NULL ])
        \/ SetTypeDefault(res) = set
    BY Zenon DEF SetTypeDefault, Then, set
  <2> QED BY <1>1, <2>1, <2>2, <2>3
<1>5. ASSUME NEW spec, IsList(spec) PROVE Fits(SetTypeSpec(res, spec).res, name)
  <2> DEFINE type == TypeName(spec)
             set == SetType(res, type)
             list == SetType(res, "list")
             more == Commented(list.res, CommentOf(spec))
             last == TemplatesOf(From(spec, CommentEnd(spec) + 1))
  <2>1. \/ SetTypeSpec(res, spec) = Refused(res)
        \/ SetTypeSpec(res, spec) = list
        \/ SetTypeSpec(res, spec) = Templated(more, last)
        \/ type \in Types /\ SetTypeSpec(res, spec) = set
        \/ type \in Types /\ SetTypeSpec(res, spec) = Granted(Commented(set.res, CommentOf(spec)))
    BY SMT DEF SetTypeSpec, Then
  <2>2. Fits(list.res, name) /\ (type \in Types => Fits(set.res, name))
    BY SettersFit DEF Types
  <2> HIDE DEF type, set, list
  <2>3. IsText(CommentOf(spec)) /\ IsText(last)
    <3>1. IsList(CommentOf(spec)) /\ CommentEnd(spec) + 1 \in Int
      BY <1>5, PiecesOfText
    <3>2. IsList(From(spec, CommentEnd(spec) + 1))
      BY <1>5, <3>1, PiecesOfText
    <3>3. IsList(last)
      BY <3>2, PiecesOfText
    <3> QED BY <3>1, <3>3, TextParts
  <2>4. /\ Fits(more, name)
        /\ type \in Types => Fits(Commented(set.res, CommentOf(spec)), name)
    BY <2>2, <2>3, SettersFit
  <2> HIDE DEF more, last
  <2>5. Fits(Templated(more, last).res, name)
    BY <1>1, <1>3, <2>3, <2>4 DEF Templated
  <2> QED BY <1>1, <2>1, <2>2, <2>4, <2>5
<1>6. ASSUME NEW text, IsList(text) PROVE Fits(SetTypeAsString(res, text).res, name)
  <2> DEFINE spec == Skipped(text, Blanks)
  <2>1. IsList(spec) /\ (spec # << >> => IsList(Tail(spec)))
    BY <1>6, PiecesOfText, RestOfList
  <2>2. \/ spec # << >> /\ SetTypeAsString(res, text) = SetTypeSpec(res, Tail(spec))
        \/ SetTypeAsString(res, text) = SetTypeSpec(res, spec)
    BY DEF SetTypeAsString
  <2> HIDE DEF spec
  <2> QED BY <1>5, <2>1, <2>2
<1> QED BY <1>2, <1>3, <1>4, <1>6

(* lcfgresource_set_attribute, whatever the symbol and the text.           *)
LEMMA AttributeFits ==
  ASSUME NEW res, NEW name, Fits(res, name), NEW symbol, NEW text, IsList(text)
  PROVE  Fits(SetAttribute(res, symbol, text).res, name)
<1>1. \A r : Granted(r).res = r
  BY DEF Granted
<1>2. FileSet(ToSet(Words(text))) /\ IsText(DecodeEntities(text)) /\ IsText(Copied(text))
  BY TextParts, WordsOfText, FormatsAreText
<1>3. \/ SetAttribute(res, symbol, text) = SetDerivation(res, ToSet(Words(text)))
      \/ SetAttribute(res, symbol, text) = SetTypeDefault(res)
      \/ SetAttribute(res, symbol, text) = SetTypeAsString(res, text)
      \/ SetAttribute(res, symbol, text) = SetContext(res, Copied(text))
      \/ \E n : SetAttribute(res, symbol, text) = Granted([ res EXCEPT !.priority = n ])
      \/ SetAttribute(res, symbol, text) = Refused(res)
      \/ SetAttribute(res, symbol, text) = SetValue(res, DecodeEntities(text))
  BY Zenon DEF SetAttribute
<1> QED BY <1>1, <1>2, <1>3, SettersFit, TypesFit

(* A clone that succeeds fits under the same name.                         *)
LEMMA CloneFits ==
  ASSUME NEW res, NEW name, ValidName(name), Fits(res, name), Clone(res).ok
  PROVE  Fits(Clone(res).res, name)
<1> DEFINE typed == [ NewResource EXCEPT !.type = res.type, !.priority = res.priority ]
           named == SetName(typed, name)
           valued == IF IsEmpty(res.value) THEN Granted(named.res) ELSE SetValue(named.res, res.value)
           shaped == IF res.template = NULL THEN Granted(valued.res)
                     ELSE SetTemplateAsString(valued.res, TemplateAsString(res.template))
           placed == SetContext([ shaped.res EXCEPT !.comment = Copied(res.comment) ], Copied(res.context))
<1>1. \A r : Granted(r).res = r /\ Refused(r).res = r /\ ~Refused(r).ok
  BY DEF Granted, Refused
<1>2. ~IsEmpty(res.name) /\ res.name = name
  BY DEF Fits, ValidName
<1>3. /\ IsText(res.value) /\ IsText(Copied(res.comment)) /\ IsText(Copied(res.context))
      /\ FileSet(res.derivation)
      /\ res.template # NULL => IsText(TemplateAsString(res.template))
  BY TextParts, SpacedIsText DEF Fits, TemplateAsString
<1>4. Fits(named.res, name) /\ named.ok
  BY TextParts DEF Fits, Fields, SetName, Granted, NewResource
<1>5. Fits(valued.res, name)
  <2> HIDE DEF named
  <2> QED BY <1>3, <1>1, <1>4, SettersFit
<1>6. Fits(shaped.res, name)
  <2> HIDE DEF valued
  <2> QED BY <1>3, <1>1, <1>5, TypesFit
<1>7. Fits([ shaped.res EXCEPT !.comment = Copied(res.comment) ], name)
  <2> HIDE DEF shaped
  <2> QED BY <1>3, <1>6 DEF Fits, Fields
<1>8. Fits(placed.res, name)
  <2> HIDE DEF shaped
  <2> QED BY <1>3, <1>7, SettersFit
<1>9. \/ Clone(res) = valued \/ Clone(res) = shaped \/ Clone(res) = placed
      \/ Clone(res) = SetDerivation(placed.res, res.derivation)
  <2>1. named.ok /\ ~IsEmpty(res.name) /\ res.name = name
    BY <1>2, <1>4
  <2> QED BY <2>1, Zenon DEF Clone, Then
<1> HIDE DEF placed, shaped, valued
<1> QED BY <1>3, <1>5, <1>6, <1>8, <1>9, SettersFit

(***************************************************************************)
(* The mutators: what they end in is lcfgresource_set_value.               *)
(***************************************************************************)
LEMMA MutatorsFit ==
  ASSUME NEW res, NEW name, Fits(res, name)
  PROVE  /\ \A text : IsText(text) => Fits(Append_value(res, text).res, name)
         /\ \A text : IsText(text) => Fits(Prepend_value(res, text).res, name)
         /\ \A tag : IsText(tag) => Fits(AppendTag(res, tag).res, name)
         /\ \A tag : IsText(tag) => Fits(PrependTag(res, tag).res, name)
         /\ \A tag : IsText(tag) => Fits(AddTag(res, tag).res, name)
         /\ \A old, made : IsList(old) /\ IsList(made) => Fits(ReplaceTag(res, old, made).res, name)
         /\ \A old, made : IsList(old) /\ IsList(made) => Fits(Replace(res, old, made).res, name)
<1> DEFINE Ends(outcome) == \/ outcome = Refused(res) \/ outcome = Granted(res)
                            \/ outcome = UnsetValue(res)
                            \/ \E text : IsText(text) /\ outcome = SetValue(res, text)
           value == OrEmpty(res.value)
<1>1. ASSUME NEW outcome, Ends(outcome)
      PROVE  Fits(outcome.res, name)
  BY <1>1, SettersFit
<1>2. IsText(res.value) /\ IsList(value)
  BY TextParts DEF Fits
<1>3. ASSUME NEW text, IsText(text)
      PROVE  /\ Ends(Append_value(res, text)) /\ Ends(Prepend_value(res, text))
             /\ Ends(AppendTag(res, text)) /\ Ends(PrependTag(res, text))
  <2> DEFINE after == IF value # << >> /\ Last(value) \notin Blanks THEN <<" ">> ELSE << >>
             before == IF value # << >> /\ Head(value) \notin Blanks THEN <<" ">> ELSE << >>
  <2> HIDE DEF value
  <2>1. IsList(after) /\ IsList(before)
    BY ShortLists
  <2> HIDE DEF after, before
  <2>2. IsList(text) => /\ IsText(value \o text) /\ IsText(text \o value)
                        /\ IsText(value \o after \o text) /\ IsText(text \o before \o value)
    BY <1>2, <2>1, JoinedList DEF IsText
  <2>3. ~IsEmpty(text) => IsList(text)
    BY <1>3 DEF IsEmpty, IsText
  <2> USE DEF Editable
  <2>4. Ends(Append_value(res, text))
    BY <2>2, <2>3, SMT DEF Append_value, value
  <2>5. Ends(Prepend_value(res, text))
    BY <2>2, <2>3, SMT DEF Prepend_value, value
  <2>6. Ends(AppendTag(res, text))
    <3>1. \/ AppendTag(res, text) = Refused(res) \/ AppendTag(res, text) = Granted(res)
          \/ ~IsEmpty(text) /\ AppendTag(res, text) = SetValue(res, value \o after \o text)
      BY Zenon DEF AppendTag, value, after
    <3> QED BY <2>2, <2>3, <3>1
  <2>7. Ends(PrependTag(res, text))
    <3>1. \/ PrependTag(res, text) = Refused(res) \/ PrependTag(res, text) = Granted(res)
          \/ ~IsEmpty(text) /\ PrependTag(res, text) = SetValue(res, text \o before \o value)
      BY Zenon DEF PrependTag, value, before
    <3> QED BY <2>2, <2>3, <3>1
  <2> QED BY <2>4, <2>5, <2>6, <2>7
<1>4. ASSUME NEW tag, IsText(tag) PROVE Ends(AddTag(res, tag))
  BY <1>3, <1>4 DEF AddTag
<1>5. ASSUME NEW places \in SUBSET Nat, places # {} => IsList(res.value),
             NEW n \in Int, NEW made, IsList(made)
      PROVE  Ends(ReplaceAtFirst(res, places, n, made))
  <2> DEFINE at == First(places)
             text == Before(res.value, at) \o made \o From(res.value, at + n)
  <2>1. CASE places # {}
    <3>1. at \in Nat
      <4>1. \E i \in places : \A j \in places : i <= j
        BY <2>1, LeastExists
      <4> QED BY <4>1 DEF First
    <3> HIDE DEF at
    <3>2. IsList(Before(res.value, at)) /\ IsList(From(res.value, at + n))
      <4>1. at \in Int /\ at + n \in Int
        BY <3>1
      <4> QED BY <1>5, <2>1, <4>1, PiecesOfText
    <3>3. IsText(text)
      BY <1>5, <3>2, JoinedList DEF IsText
    <3>4. ReplaceAtFirst(res, places, n, made) = Rewrite(res, text)
      BY <2>1 DEF ReplaceAtFirst, at
    <3> HIDE DEF text
    <3> QED BY <3>3, <3>4 DEF Rewrite
  <2>2. CASE places = {}
    BY <2>2 DEF ReplaceAtFirst
  <2> QED BY <2>1, <2>2
<1>6. ASSUME NEW item, IsList(item)
      PROVE  /\ Found(value, item) \in SUBSET Nat /\ FindItem(value, item) \in SUBSET Nat
             /\ Found(value, item) # {} /\ item # << >> => IsList(res.value)
             /\ FindItem(value, item) # {} /\ item # << >> => IsList(res.value)
  <2>1. Found(value, item) \in SUBSET Nat /\ FindItem(value, item) \subseteq Found(value, item)
    BY DEF Found, FindItem
  <2>2. ASSUME Found(value, item) # {}, item # << >> PROVE IsList(res.value)
    <3>1. CASE res.value = NULL
      <4>1. value = << >>
        BY <3>1 DEF OrEmpty
      <4>2. Len(item) \in Nat /\ Len(item) # 0
        BY <1>6, <2>2, EmptySeq, ListProperties DEF IsList
      <4>3. Found(value, item) = {}
        <5>1. Len(value) = 0
          BY <4>1
        <5> HIDE DEF value
        <5> QED BY <4>2, <5>1 DEF Found
      <4> QED BY <2>2, <4>3
    <3> QED BY <1>2, <3>1 DEF IsText
  <2> QED BY <2>1, <2>2
<1>7. ASSUME NEW old, NEW made, IsList(old), IsList(made)
      PROVE  Ends(ReplaceTag(res, old, made))
  <2> DEFINE places == FindItem(value, old)
             gap == IF made = << >> /\ places # {} THEN BlanksAfter(res.value, First(places) + Len(old)) ELSE 0
             n == Len(old) + gap
  <2>1. \/ ReplaceTag(res, old, made) = Refused(res) \/ ReplaceTag(res, old, made) = Granted(res)
        \/ old # << >> /\ ReplaceTag(res, old, made) = ReplaceAtFirst(res, places, n, made)
    BY SMT DEF ReplaceTag
  <2>2. old # << >> => places \in SUBSET Nat /\ (places # {} => IsList(res.value))
    BY <1>6, <1>7
  <2> HIDE DEF places
  <2>3. old # << >> => n \in Int
    <3>1. Len(old) \in Nat
      BY <1>7, ListProperties
    <3>2. ASSUME old # << >>, places # {} PROVE First(places) \in Nat
      <4>1. \E i \in places : \A j \in places : i <= j
        BY <2>2, <3>2, LeastExists
      <4> QED BY <2>2, <3>2, <4>1 DEF First
    <3>3. old # << >> /\ places # {} => First(places) + Len(old) \in Nat
      BY <3>1, <3>2
    <3>4. old # << >> => gap \in Int
      BY <2>2, <3>3, PiecesOfText
    <3> HIDE DEF gap
    <3> QED BY <3>1, <3>4
  <2> HIDE DEF n
  <2>4. old # << >> => Ends(ReplaceAtFirst(res, places, n, made))
    <3> HIDE DEF Ends
    <3> QED BY <1>5, <1>7, <2>2, <2>3
  <2> QED BY <2>1, <2>4
<1>8. ASSUME NEW old, NEW made, IsList(old), IsList(made)
      PROVE  Ends(Replace(res, old, made))
  <2> DEFINE places == Found(value, old)
             n == Len(old)
  <2>1. \/ Replace(res, old, made) = Refused(res) \/ Replace(res, old, made) = Granted(res)
        \/ old # << >> /\ Replace(res, old, made) = ReplaceAtFirst(res, places, n, made)
    BY SMT DEF Replace
  <2>2. old # << >> => places \in SUBSET Nat /\ (places # {} => IsList(res.value))
    BY <1>6, <1>8
  <2> HIDE DEF places
  <2>3. n \in Int
    BY <1>8, ListProperties
  <2> HIDE DEF n
  <2>4. old # << >> => Ends(ReplaceAtFirst(res, places, n, made))
    <3> HIDE DEF Ends
    <3> QED BY <1>5, <1>8, <2>2, <2>3
  <2> QED BY <2>1, <2>4
<1> HIDE DEF Ends
<1> QED BY <1>1, <1>3, <1>4, <1>7, <1>8

(* Adding tags one by one.                                                 *)
AddRun(state, res, tags, n) ==
  /\ state[0] = IF Editable(res) THEN Granted(res) ELSE Refused(res)
  /\ \A k \in 1 .. n : state[k] = IF state[k - 1].ok THEN AddTag(state[k - 1].res, tags[k])
                                  ELSE state[k - 1]

(* A function on the steps of a run.                                       *)
OnSteps(state, n) == state = [ k \in 0 .. n |-> state[k] ]

(* There is such a run, whatever the tags are.                             *)
LEMMA AddRunExists ==
  ASSUME NEW res, NEW tags, NEW n \in Nat
  PROVE  \E state : OnSteps(state, n) /\ AddRun(state, res, tags, n)
<1> DEFINE First1(o, t) == IF o.ok THEN AddTag(o.res, t) ELSE o
           S == { m \in Nat : \E state : OnSteps(state, m) /\ AddRun(state, res, tags, m) }
<1>1. 0 \in S
  <2> DEFINE state == [ k \in 0 .. 0 |-> IF Editable(res) THEN Granted(res) ELSE Refused(res) ]
  <2>1. OnSteps(state, 0) /\ AddRun(state, res, tags, 0)
    BY DEF AddRun, OnSteps
  <2> QED BY <2>1
<1>2. ASSUME NEW m \in 1 .. n, m - 1 \in S
      PROVE  m \in S
  <2>1. PICK before : OnSteps(before, m - 1) /\ AddRun(before, res, tags, m - 1)
    BY <1>2
  <2> DEFINE state == [ k \in 0 .. m |-> IF k = m THEN First1(before[m - 1], tags[m]) ELSE before[k] ]
  <2>2. /\ OnSteps(state, m)
        /\ \A k \in 0 .. m - 1 : state[k] = before[k]
        /\ state[m] = First1(before[m - 1], tags[m])
    BY DEF OnSteps
  <2> HIDE DEF state
  <2>3. state[0] = IF Editable(res) THEN Granted(res) ELSE Refused(res)
    BY <2>1, <2>2 DEF AddRun
  <2>4. ASSUME NEW k \in 1 .. m
        PROVE  state[k] = First1(state[k - 1], tags[k])
    <3>1. CASE k = m
      <4>1. state[m - 1] = before[m - 1]
        BY <2>2
      <4> HIDE DEF First1
      <4> QED BY <2>2, <3>1, <4>1
    <3>2. CASE k # m
      <4>1. k \in 1 .. m - 1 /\ k \in 0 .. m - 1 /\ k - 1 \in 0 .. m - 1
        BY <3>2
      <4> QED BY <2>1, <2>2, <4>1 DEF AddRun
    <3> QED BY <3>1, <3>2
  <2>5. AddRun(state, res, tags, m)
    BY <2>3, <2>4 DEF AddRun
  <2> QED BY <2>2, <2>5
<1> HIDE DEF S
<1>3. \A m \in 0 .. n : m \in S
  BY <1>1, <1>2, UpTo
<1> QED BY <1>3 DEF S

(* AddWords ends where such a run ends.                                    *)
LEMMA AddWordsRuns ==
  ASSUME NEW res, NEW tags, Len(tags) \in Nat
  PROVE  \E state : AddRun(state, res, tags, Len(tags)) /\ AddWords(res, tags) = state[Len(tags)]
<1> DEFINE n == Len(tags)
           start == IF Editable(res) THEN Granted(res) ELSE Refused(res)
           Step(f) == [ k \in 0 .. n |-> IF k = 0 THEN start
                                         ELSE IF f[k - 1].ok THEN AddTag(f[k - 1].res, tags[k])
                                         ELSE f[k - 1] ]
           upTo == CHOOSE f : f = Step(f)
<1>1. AddWords(res, tags) = upTo[n]
  BY DEF AddWords, Then
<1> HIDE DEF n
<1>2. n \in Nat
  BY DEF n
<1>3. \E f : f = Step(f)
  <2>1. PICK f : OnSteps(f, n) /\ AddRun(f, res, tags, n)
    BY <1>2, AddRunExists
  <2>2. ASSUME NEW k \in 0 .. n
        PROVE  f[k] = Step(f)[k]
    <3>1. k # 0 => k \in 1 .. n
      BY <1>2
    <3> QED BY <2>1, <3>1 DEF AddRun
  <2>3. f = [ k \in 0 .. n |-> Step(f)[k] ]
    BY <2>1, <2>2 DEF OnSteps
  <2> QED BY <2>3
<1>4. upTo = Step(upTo)
  BY <1>3
<1> HIDE DEF upTo
<1>5. \A k \in 0 .. n : upTo[k] = Step(upTo)[k]
  BY <1>4
<1>6. AddRun(upTo, res, tags, n)
  <2>1. upTo[0] = start
    BY <1>2, <1>5
  <2>2. ASSUME NEW k \in 1 .. n
        PROVE  upTo[k] = IF upTo[k - 1].ok THEN AddTag(upTo[k - 1].res, tags[k]) ELSE upTo[k - 1]
    BY <1>2, <1>5
  <2> QED BY <2>1, <2>2 DEF AddRun
<1> QED BY <1>1, <1>6 DEF n

(* After each tag the resource fits.                                       *)
LEMMA AddWordsFit ==
  ASSUME NEW res, NEW name, Fits(res, name), NEW tags, WordList(tags)
  PROVE  Fits(AddWords(res, tags).res, name)
<1> DEFINE n == Len(tags)
<1>1. n \in Nat /\ \A k \in 1 .. n : IsText(tags[k])
  BY ListProperties, TextParts DEF WordList
<1>2. PICK state : AddRun(state, res, tags, n) /\ AddWords(res, tags) = state[n]
  BY <1>1, AddWordsRuns
<1> DEFINE S == { k \in 0 .. n : Fits(state[k].res, name) }
<1> HIDE DEF n
<1>3. 0 \in S
  <2>1. Fits(Granted(res).res, name) /\ Fits(Refused(res).res, name)
    BY SettersFit
  <2>2. state[0] = Granted(res) \/ state[0] = Refused(res)
    BY <1>2 DEF AddRun
  <2> QED BY <1>1, <2>1, <2>2
<1>4. ASSUME NEW k \in 1 .. n, k - 1 \in S
      PROVE  k \in S
  <2>1. state[k] = IF state[k - 1].ok THEN AddTag(state[k - 1].res, tags[k]) ELSE state[k - 1]
    BY <1>2 DEF AddRun
  <2>2. Fits(state[k - 1].res, name)
    BY <1>4
  <2>3. Fits(state[k].res, name)
    BY <1>1, <2>1, <2>2, MutatorsFit
  <2> QED BY <1>1, <2>3
<1> HIDE DEF S
<1>5. n \in S
  BY <1>1, <1>3, <1>4, UpTo
<1> QED BY <1>2, <1>5 DEF S

(***************************************************************************)
(* The lines of a status file.                                             *)
(***************************************************************************)
AllFit(resources) ==
  /\ DOMAIN resources = ResNames
  /\ \A name \in ResNames : resources[name] # NULL => Fits(resources[name], name)

(* The value a line gives is a text, whatever the line says.               *)
LEMMA SpecIsText ==
  ASSUME NEW line, IsList(line)
  PROVE  IsList(ParseSpec(line).value)
<1> DEFINE spec == Skipped(line, Blanks)
           sep == FirstOf(spec, "=")
<1>1. ParseSpec(line).value = From(spec, sep + 1)
  BY DEF ParseSpec
<1>2. IsList(spec)
  BY PiecesOfText
<1>3. sep + 1 \in Int
  <2> HIDE DEF spec
  <2> QED BY <1>2, PiecesOfText
<1> HIDE DEF spec, sep
<1> QED BY <1>1, <1>2, <1>3, PiecesOfText

(* One line of a status file.                                              *)
LEMMA LineFits ==
  ASSUME NEW outcome, DOMAIN outcome = {"ok", "meta", "comp"}, AllFit(outcome.comp),
         NEW line, IsList(line)
  PROVE  /\ DOMAIN LoadLine(outcome, line) = {"ok", "meta", "comp"}
         /\ AllFit(LoadLine(outcome, line).comp)
<1> DEFINE spec == ParseSpec(line)
           res == IF outcome.comp[spec.name] = NULL THEN Named(spec.name) ELSE outcome.comp[spec.name]
           set == SetAttribute(res, spec.symbol, spec.value)
           entered == [ ok |-> set.ok, meta |-> outcome.meta,
                        comp |-> [ outcome.comp EXCEPT ![spec.name] = set.res ] ]
<1>1. \/ LoadLine(outcome, line) = outcome
      \/ LoadLine(outcome, line) = [ outcome EXCEPT !.ok = FALSE ]
      \/ spec.name \in ResNames /\ LoadLine(outcome, line) = entered
  BY SMT DEF LoadLine, LoadSpec
<1>2. ASSUME spec.name \in ResNames
      PROVE  AllFit(entered.comp)
  <2>1. IsList(spec.value)
    BY SpecIsText
  <2>2. Fits(res, spec.name)
    <3>1. ValidName(spec.name)
      BY <1>2, NamesAssumption
    <3> HIDE DEF spec
    <3> QED BY <1>2, <3>1, NewFits DEF AllFit
  <2>3. Fits(set.res, spec.name)
    <3> HIDE DEF spec, res
    <3> QED BY <2>1, <2>2, AttributeFits
  <2> HIDE DEF spec, set
  <2> QED BY <1>2, <2>3 DEF AllFit
<1> HIDE DEF spec, set
<1>3. DOMAIN [ outcome EXCEPT !.ok = FALSE ] = DOMAIN outcome /\ [ outcome EXCEPT !.ok = FALSE ].comp = outcome.comp
  OBVIOUS
<1>4. DOMAIN entered = {"ok", "meta", "comp"}
  OBVIOUS
<1> HIDE DEF entered
<1> QED BY <1>1, <1>2, <1>3, <1>4

(* What is loaded before the first line,                                   *)
LoadStart(meta) == [ ok |-> TRUE, meta |-> meta, comp |-> Unset ]

(* and after each line.                                                    *)
LoadRun(state, lines, meta, n) ==
  /\ state[0] = LoadStart(meta)
  /\ \A k \in 1 .. n : state[k] = LoadLine(state[k - 1], lines[k])

(* There is such a run, whatever the lines are.                            *)
LEMMA LoadRunExists ==
  ASSUME NEW lines, NEW meta, NEW n \in Nat
  PROVE  \E state : OnSteps(state, n) /\ LoadRun(state, lines, meta, n)
<1> DEFINE S == { m \in Nat : \E state : OnSteps(state, m) /\ LoadRun(state, lines, meta, m) }
<1>1. 0 \in S
  <2> DEFINE state == [ k \in 0 .. 0 |-> LoadStart(meta) ]
  <2>1. OnSteps(state, 0) /\ LoadRun(state, lines, meta, 0)
    BY DEF LoadRun, OnSteps
  <2> QED BY <2>1
<1>2. ASSUME NEW m \in 1 .. n, m - 1 \in S
      PROVE  m \in S
  <2>1. PICK before : OnSteps(before, m - 1) /\ LoadRun(before, lines, meta, m - 1)
    BY <1>2
  <2> DEFINE state == [ k \in 0 .. m |-> IF k = m THEN LoadLine(before[m - 1], lines[m])
                                         ELSE before[k] ]
  <2>2. /\ OnSteps(state, m)
        /\ \A k \in 0 .. m - 1 : state[k] = before[k]
        /\ state[m] = LoadLine(before[m - 1], lines[m])
    BY DEF OnSteps
  <2> HIDE DEF state
  <2>3. state[0] = LoadStart(meta)
    BY <2>1, <2>2 DEF LoadRun
  <2>4. ASSUME NEW k \in 1 .. m
        PROVE  state[k] = LoadLine(state[k - 1], lines[k])
    <3>1. CASE k = m
      <4>1. state[m - 1] = before[m - 1]
        BY <2>2
      <4> QED BY <2>2, <3>1, <4>1
    <3>2. CASE k # m
      <4>1. k \in 1 .. m - 1 /\ k \in 0 .. m - 1 /\ k - 1 \in 0 .. m - 1
        BY <3>2
      <4> QED BY <2>1, <2>2, <4>1 DEF LoadRun
    <3> QED BY <3>1, <3>2
  <2>5. LoadRun(state, lines, meta, m)
    BY <2>3, <2>4 DEF LoadRun
  <2> QED BY <2>2, <2>5
<1> HIDE DEF S
<1>3. \A m \in 0 .. n : m \in S
  BY <1>1, <1>2, UpTo
<1> QED BY <1>3 DEF S

(* LoadLines ends where such a run ends.                                   *)
LEMMA LoadLinesRuns ==
  ASSUME NEW lines, NEW meta, Len(lines) \in Nat
  PROVE  \E state : LoadRun(state, lines, meta, Len(lines)) /\ LoadLines(lines, meta) = state[Len(lines)]
<1> DEFINE n == Len(lines)
           Step(f) == [ k \in 0 .. n |-> IF k = 0 THEN LoadStart(meta)
                                         ELSE LoadLine(f[k - 1], lines[k]) ]
           upTo == CHOOSE f : f = Step(f)
<1>1. LoadLines(lines, meta) = upTo[n]
  BY DEF LoadLines, LoadStart
<1> HIDE DEF n
<1>2. n \in Nat
  BY DEF n
<1>3. \E f : f = Step(f)
  <2>1. PICK f : OnSteps(f, n) /\ LoadRun(f, lines, meta, n)
    BY <1>2, LoadRunExists
  <2>2. ASSUME NEW k \in 0 .. n
        PROVE  f[k] = Step(f)[k]
    <3>1. k # 0 => k \in 1 .. n
      BY <1>2
    <3> QED BY <2>1, <3>1 DEF LoadRun
  <2>3. f = [ k \in 0 .. n |-> Step(f)[k] ]
    BY <2>1, <2>2 DEF OnSteps
  <2> QED BY <2>3
<1>4. upTo = Step(upTo)
  BY <1>3
<1> HIDE DEF upTo
<1>5. \A k \in 0 .. n : upTo[k] = Step(upTo)[k]
  BY <1>4
<1>6. LoadRun(upTo, lines, meta, n)
  <2>1. upTo[0] = LoadStart(meta)
    BY <1>2, <1>5
  <2>2. ASSUME NEW k \in 1 .. n
        PROVE  upTo[k] = LoadLine(upTo[k - 1], lines[k])
    BY <1>2, <1>5
  <2> QED BY <2>1, <2>2 DEF LoadRun
<1> QED BY <1>1, <1>6 DEF n

(* After each line the resources fit.                                      *)
LEMMA LoadLinesFit ==
  ASSUME NEW lines, WordList(lines), NEW meta
  PROVE  AllFit(LoadLines(lines, meta).comp)
<1> DEFINE n == Len(lines)
           Good(outcome) == DOMAIN outcome = {"ok", "meta", "comp"} /\ AllFit(outcome.comp)
<1>1. n \in Nat /\ \A k \in 1 .. n : IsList(lines[k])
  BY ListProperties DEF WordList
<1>2. PICK state : LoadRun(state, lines, meta, n) /\ LoadLines(lines, meta) = state[n]
  BY <1>1, LoadLinesRuns
<1> DEFINE S == { k \in 0 .. n : Good(state[k]) }
<1> HIDE DEF n
<1>3. 0 \in S
  <2>1. Good(LoadStart(meta))
    BY DEF LoadStart, Unset, AllFit
  <2> HIDE DEF Good
  <2> QED BY <1>1, <1>2, <2>1 DEF LoadRun
<1>4. ASSUME NEW k \in 1 .. n, k - 1 \in S
      PROVE  k \in S
  <2>1. state[k] = LoadLine(state[k - 1], lines[k])
    BY <1>2 DEF LoadRun
  <2>2. Good(state[k - 1])
    BY <1>4
  <2>3. Good(LoadLine(state[k - 1], lines[k]))
    BY <1>1, <2>2, LineFits
  <2> HIDE DEF Good
  <2> QED BY <1>1, <2>1, <2>3
<1> HIDE DEF S
<1>5. n \in S
  BY <1>1, <1>3, <1>4, UpTo
<1> QED BY <1>2, <1>5 DEF S

(***************************************************************************)
(* A resource made from a line of text is filed under the name in the line.*)
(***************************************************************************)
LEMMA SpecFits ==
  ASSUME NEW line, IsList(line), FromSpec(ParseSpec(line)).ok
  PROVE  /\ GoodSpec(ParseSpec(line))
         /\ Fits(FromSpec(ParseSpec(line)).res, ParseSpec(line).name)
<1> DEFINE spec == ParseSpec(line)
<1>1. IsList(spec.value)
  BY SpecIsText
<1> HIDE DEF spec
<1>2. GoodSpec(spec)
  BY DEF FromSpec, Refused, spec
<1>3. ValidName(spec.name)
  BY <1>2 DEF GoodSpec
<1>4. Fits(Named(spec.name), spec.name) /\ SetName(NewResource, spec.name) = Granted(Named(spec.name))
  BY <1>3, NewFits
<1>5. FromSpec(spec) = SetAttribute(Named(spec.name), spec.symbol, spec.value)
  BY <1>2, <1>4 DEF FromSpec, Then, Granted
<1>6. Fits(SetAttribute(Named(spec.name), spec.symbol, spec.value).res, spec.name)
  BY <1>1, <1>4, AttributeFits
<1> QED BY <1>2, <1>5, <1>6 DEF spec

(* A resource made from the variables of an environment.                   *)
LEMMA VariablesFit ==
  ASSUME NEW name \in ResNames, NEW type, IsText(type), NEW value, IsText(value),
         FromVariables(name, type, value).ok
  PROVE  Fits(FromVariables(name, type, value).res, name)
<1> DEFINE named == SetName(NewResource, name)
           typed == IF IsEmpty(type) THEN named ELSE SetTypeAsString(named.res, type)
<1>1. Fits(named.res, name) /\ named.ok
  <2>1. ValidName(name)
    BY NamesAssumption
  <2>2. Fits(Named(name), name) /\ named = Granted(Named(name))
    BY <2>1, NewFits
  <2> QED BY <2>2 DEF Granted
<1> HIDE DEF named
<1>2. Fits(typed.res, name)
  <2>1. ~IsEmpty(type) => IsList(type)
    BY DEF IsEmpty, IsText
  <2> QED BY <1>1, <2>1, TypesFit
<1>3. FromVariables(name, type, value) = typed \/ FromVariables(name, type, value) = SetValue(typed.res, value)
  BY <1>1, SMT DEF FromVariables, Then, Refused, named
<1> HIDE DEF typed
<1> QED BY <1>2, <1>3, SettersFit

(* Pieces of a line of text.                                               *)
Pieces == STRING \cup WordPieces \cup {"=", "."}

(* The first place of a piece.                                             *)
LEMMA FirstOfIs ==
  ASSUME NEW s \in Seq(Pieces), NEW piece, NEW k \in 1 .. Len(s), s[k] = piece,
         \A i \in 1 .. k - 1 : s[i] # piece
  PROVE  FirstOf(s, piece) = k
<1> DEFINE I == { i \in 1 .. Len(s) : s[i] = piece }
<1>1. FirstOf(s, piece) = IF I # {} THEN Min(I) ELSE 0
  BY DEF FirstOf, SelectInSeq
<1>2. k \in I /\ I \subseteq Int /\ \A i \in I : k <= i
  BY LenProperties
<1> HIDE DEF I
<1>3. Min(I) = k
  BY <1>2, MinIs
<1> QED BY <1>1, <1>2, <1>3

(* The last place of a piece that ends the text.                           *)
LEMMA LastOfIs ==
  ASSUME NEW s \in Seq(Pieces), s # << >>, NEW piece, s[Len(s)] = piece
  PROVE  LastOf(s, piece) = Len(s)
<1> DEFINE I == { i \in 1 .. Len(s) : s[i] = piece }
<1>1. LastOf(s, piece) = IF I # {} THEN Max(I) ELSE 0
  BY DEF LastOf, SelectLastInSeq
<1>2. Len(s) \in I /\ I \subseteq Int /\ \A i \in I : Len(s) >= i
  BY LenProperties, EmptySeq
<1> HIDE DEF I
<1>3. Max(I) = Len(s)
  BY <1>2, MaxIs
<1> QED BY <1>1, <1>2, <1>3

(* A piece that is not in the text.                                        *)
LEMMA NotThere ==
  ASSUME NEW s \in Seq(Pieces), NEW piece, \A i \in 1 .. Len(s) : s[i] # piece
  PROVE  FirstOf(s, piece) = 0 /\ LastOf(s, piece) = 0
BY DEF FirstOf, LastOf, SelectInSeq, SelectLastInSeq

(* A text that starts with no blank.                                       *)
LEMMA NothingSkipped ==
  ASSUME NEW s \in Seq(Pieces), s # << >>, s[1] \notin Blanks
  PROVE  Skipped(s, Blanks) = s
<1> DEFINE I == { i \in 1 .. Len(s) : s[i] \notin Blanks }
           At(i) == IF i = 0 THEN << >> ELSE SubSeq(s, i, Len(s))
<1>1. Skipped(s, Blanks) = At(IF I # {} THEN Min(I) ELSE 0)
  BY DEF Skipped, SelectInSeq, From
<1>2. 1 \in I /\ I \subseteq Int /\ \A i \in I : 1 <= i
  BY LenProperties, EmptySeq
<1> HIDE DEF I
<1>3. Min(I) = 1
  BY <1>2, MinIs
<1>4. Skipped(s, Blanks) = SubSeq(s, 1, Len(s))
  BY <1>1, <1>2, <1>3
<1> QED BY <1>4, SubSeqFull

(* No name holds a piece that ends a key or that starts a line.            *)
LEMMA NamePieces ==
  ASSUME NEW name \in ResNames
  PROVE  /\ name \in Seq(Pieces) /\ name # << >> /\ Len(name) \in Nat \ {0}
         /\ \A i \in 1 .. Len(name) : name[i] \notin {"=", "."} \cup Blanks \cup Symbols
<1>1. /\ name \in Seq(WordPieces) /\ name # << >>
  BY NamesAssumption DEF ValidName, IsEmpty
<1>2. Len(name) \in Nat /\ Len(name) # 0 /\ \A i \in 1 .. Len(name) : name[i] \in WordPieces
  BY <1>1, LenProperties, EmptySeq, ElementOfSeq
<1>3. WordPieces \subseteq Pieces /\ \A p \in WordPieces : p \notin {"=", "."} \cup Blanks \cup Symbols
  BY DEF Pieces, WordPieces, Letters, Digits, Types, Blanks, Symbols
<1>4. name \in Seq(Pieces)
  BY <1>1, <1>3, SeqMonotonic
<1> QED BY <1>1, <1>2, <1>3, <1>4

(* A line that begins with a name.                                         *)
LEMMA LineBegins ==
  ASSUME NEW name \in ResNames, NEW rest \in Seq(Pieces)
  PROVE  /\ name \o rest \in Seq(Pieces) /\ Len(name \o rest) = Len(name) + Len(rest)
         /\ \A i \in 1 .. Len(name) : (name \o rest)[i] = name[i]
         /\ \A i \in 1 .. Len(rest) : (name \o rest)[Len(name) + i] = rest[i]
         /\ Skipped(name \o rest, Blanks) = name \o rest
         /\ Before(name \o rest, Len(name) + 1) = name
<1>1. name \in Seq(Pieces) /\ Len(name) \in Nat \ {0} /\ Len(rest) \in Nat
      /\ \A i \in 1 .. Len(name) : name[i] \notin Blanks
  BY NamePieces, LenProperties
<1> DEFINE line == name \o rest
<1>2. /\ line \in Seq(Pieces) /\ Len(line) = Len(name) + Len(rest)
      /\ \A i \in 1 .. Len(name) + Len(rest) :
           line[i] = IF i <= Len(name) THEN name[i] ELSE rest[i - Len(name)]
  BY <1>1, ConcatProperties
<1> HIDE DEF line
<1>3. \A i \in 1 .. Len(name) : line[i] = name[i]
  BY <1>1, <1>2
<1>4. ASSUME NEW i \in 1 .. Len(rest)
      PROVE  line[Len(name) + i] = rest[i]
  <2>1. Len(name) + i \in 1 .. Len(name) + Len(rest) /\ ~(Len(name) + i <= Len(name))
        /\ (Len(name) + i) - Len(name) = i
    BY <1>1
  <2> QED BY <1>2, <2>1
<1>5. Skipped(line, Blanks) = line
  <2>1. line # << >> /\ line[1] \notin Blanks
    BY <1>1, <1>2, <1>3, EmptySeq
  <2> QED BY <1>2, <2>1, NothingSkipped
<1>6. Before(line, Len(name) + 1) = name
  <2>1. Before(line, Len(name) + 1) = SubSeq(line, 1, Len(name))
    BY <1>1 DEF Before
  <2>2. \A i \in 1 .. Len(name) : line[i] \in Pieces
    BY <1>1, <1>3, ElementOfSeq
  <2>3. /\ SubSeq(line, 1, Len(name)) \in Seq(Pieces)
        /\ Len(SubSeq(line, 1, Len(name))) = IF 1 <= Len(name) THEN Len(name) - 1 + 1 ELSE 0
        /\ \A i \in 1 .. Len(name) - 1 + 1 : SubSeq(line, 1, Len(name))[i] = line[1 + i - 1]
    BY <1>1, <2>2, SubSeqProperties
  <2>4. Len(SubSeq(line, 1, Len(name))) = Len(name)
    BY <1>1, <2>3
  <2>5. \A i \in 1 .. Len(name) : SubSeq(line, 1, Len(name))[i] = name[i]
    BY <1>1, <1>3, <2>3
  <2>6. SubSeq(line, 1, Len(name)) = name
    BY <1>1, <2>3, <2>4, <2>5, SeqEqual
  <2> QED BY <2>1, <2>6
<1> QED BY <1>2, <1>3, <1>4, <1>5, <1>6 DEF line

(* The parts of ParseSpec that decide under which name a line is filed.    *)
LEMMA SpecParts ==
  ASSUME NEW line
  PROVE  LET spec == Skipped(line, Blanks)
             key == ParseKey(Before(spec, FirstOf(spec, "=")))
         IN  /\ ParseSpec(line).name = key.name /\ ParseSpec(line).ok = key.ok
             /\ ParseSpec(line).found <=> FirstOf(spec, "=") > 0
BY DEF ParseSpec, ParseKey, ParsePath

(* A key without a symbol.                                                 *)
LEMMA PlainKey ==
  ASSUME NEW key \in Seq(Pieces), key # << >>, key[1] \notin Symbols
  PROVE  ParseKey(key) = ParsePath(NULL, key, Before(key, LastOf(key, ".")))
BY HeadTailProperties DEF ParseKey

(* A line that begins with a name and is accepted is for that name: what   *)
(* could follow it ends the key, or is refused.                            *)
LEMMA NamedByLine ==
  ASSUME NEW name \in ResNames,
         NEW rest \in SpecRests, GoodSpec(ParseSpec(name \o rest))
  PROVE  ParseSpec(name \o rest).name = name
<1> DEFINE line == name \o rest
<1>1. /\ rest \in Seq(Pieces)
      /\ rest = << >> \/ rest = <<".", "=">> \/ rest[1] = "="
  BY SpecsAssumption, SeqMonotonic DEF Pieces
<1> HIDE DEF line
<1>2. /\ name \in Seq(Pieces) /\ name # << >> /\ Len(name) \in Nat \ {0}
      /\ \A i \in 1 .. Len(name) : name[i] \notin {"=", "."} \cup Blanks \cup Symbols
  BY NamePieces
<1>3. CASE rest[1] = "=" /\ rest # << >>
  <2>1. rest \in Seq(Pieces) /\ Len(rest) \in Nat \ {0} /\ rest[1] = "="
    BY <1>1, <1>3, EmptySeq, LenProperties
  <2>2. line = name \o rest
    BY DEF line
  <2>3. /\ line \in Seq(Pieces) /\ Len(line) = Len(name) + Len(rest)
        /\ \A i \in 1 .. Len(name) : line[i] = name[i]
        /\ line[Len(name) + 1] = "="
        /\ Skipped(line, Blanks) = line /\ Before(line, Len(name) + 1) = name
    BY <2>1, <2>2, LineBegins
  <2>4. FirstOf(line, "=") = Len(name) + 1
    <3>1. Len(name) + 1 \in 1 .. Len(line) /\ \A i \in 1 .. (Len(name) + 1) - 1 : line[i] # "="
      BY <1>2, <2>1, <2>3
    <3> QED BY <2>3, <3>1, FirstOfIs
  <2>5. ParseSpec(line).name = ParseKey(name).name
    BY <2>3, <2>4, SpecParts
  <2>6. ParseKey(name) = ParsePath(NULL, name, Before(name, LastOf(name, ".")))
    BY <1>2, PlainKey
  <2>7. LastOf(name, ".") = 0
    BY <1>2, NotThere
  <2>8. LastPart(name) = name
    BY <1>2, <2>7, SubSeqFull DEF LastPart, From
  <2> QED BY <2>5, <2>6, <2>8 DEF ParsePath, line
<1>4. CASE rest = <<".", "=">>
  <2>1. rest \in Seq(Pieces) /\ Len(rest) = 2 /\ rest[1] = "." /\ rest[2] = "="
    BY <1>1, <1>4
  <2>2. line = name \o rest
    BY DEF line
  <2>3. /\ line \in Seq(Pieces) /\ Len(line) = Len(name) + 2
        /\ \A i \in 1 .. Len(name) : line[i] = name[i]
        /\ line[Len(name) + 1] = "." /\ line[Len(name) + 2] = "="
        /\ Skipped(line, Blanks) = line
    <3>1. 1 \in 1 .. Len(rest) /\ 2 \in 1 .. Len(rest)
      BY <2>1
    <3> QED BY <2>1, <2>2, <3>1, LineBegins
  <2>4. FirstOf(line, "=") = Len(name) + 2
    <3>1. Len(name) + 2 \in 1 .. Len(line)
      BY <1>2, <2>3
    <3>2. ASSUME NEW i \in 1 .. (Len(name) + 2) - 1 PROVE line[i] # "="
      <4>1. i \in 1 .. Len(name) \/ i = Len(name) + 1
        BY <1>2
      <4> QED BY <1>2, <2>3, <4>1
    <3> QED BY <2>3, <3>1, <3>2, FirstOfIs
  <2> DEFINE key == Before(line, Len(name) + 2)
  <2>5. key \in Seq(Pieces) /\ Len(key) = Len(name) + 1 /\ key[1] = name[1]
        /\ key[Len(name) + 1] = "."
    <3> DEFINE n == Len(name) + 1
    <3>1. n \in Nat /\ n = Len(name) + 1 /\ n >= 1
      BY <1>2
    <3>2. \A i \in 1 .. n : line[i] \in Pieces
      BY <1>2, <2>3, ElementOfSeq
    <3>3. key = SubSeq(line, 1, n)
      BY <1>2 DEF Before
    <3> HIDE DEF n, key
    <3>4. /\ SubSeq(line, 1, n) \in Seq(Pieces)
          /\ Len(SubSeq(line, 1, n)) = IF 1 <= n THEN n - 1 + 1 ELSE 0
          /\ \A i \in 1 .. n - 1 + 1 : SubSeq(line, 1, n)[i] = line[1 + i - 1]
      BY <3>1, <3>2, SubSeqProperties
    <3>5. 1 \in 1 .. n - 1 + 1 /\ n \in 1 .. n - 1 + 1 /\ 1 + n - 1 = n /\ 1 \in 1 .. Len(name)
      BY <1>2, <3>1
    <3>6. key[1] = line[1] /\ key[n] = line[n]
      BY <3>3, <3>4, <3>5
    <3> QED BY <2>3, <3>1, <3>3, <3>4, <3>5, <3>6
  <2>6. ParseSpec(line).ok = ParseKey(key).ok
    BY <2>3, <2>4, SpecParts
  <2> HIDE DEF key
  <2>7. key # << >> /\ key[1] \notin Symbols
    BY <1>2, <2>5, EmptySeq
  <2>8. LastOf(key, ".") = Len(key)
    BY <2>5, <2>7, LastOfIs
  <2>9. LastPart(key) = << >>
    BY <1>2, <2>5, <2>8, SubSeqEmpty DEF LastPart, From
  <2>10. ~ParseKey(key).ok
    <3>1. \A owner : ~ParsePath(NULL, key, owner).ok
      BY <2>9 DEF ParsePath
    <3> QED BY <2>5, <2>7, <3>1, PlainKey
  <2> QED BY <2>6, <2>10 DEF GoodSpec, line
<1>5. CASE rest = << >>
  <2>1. line = name
    BY <1>2, <1>5, ConcatEmptySeq DEF line
  <2>2. Skipped(name, Blanks) = name
    BY <1>2, NothingSkipped
  <2>3. FirstOf(name, "=") = 0
    BY <1>2, NotThere
  <2>4. ~ParseSpec(name).found
    BY <2>2, <2>3, SpecParts
  <2> QED BY <2>1, <2>4 DEF GoodSpec, line
<1> QED BY <1>1, <1>3, <1>4, <1>5

(* Names are texts and valid.                                              *)
LEMMA NamesAreText ==
  \A name \in ResNames \cup {CompName} : IsList(name) /\ ValidName(name)
BY NamesAssumption, ShortLists

(* The block of a resource in a status file, and its type in a variable,   *)
(* are texts.                                                              *)
LEMMA BlockIsText ==
  ASSUME NEW res, NEW name, IsList(name), Fits(res, name), NEW meta
  PROVE  IsList(TypeAsString(res)) /\ IsList(ToStatus(res, CompName, meta))
<1> DEFINE remark == IF HasComment(res) THEN <<"(">> \o res.comment \o <<")">> ELSE << >>
           form == IF res.type = "list" THEN <<": ">> \o TemplateAsString(res.template) ELSE << >>
           context == IF HasContext(res) THEN <<"[">> \o res.context \o <<"]">> ELSE << >>
           value == EncValue(OrEmpty(res.value))
           spec == Key(NULL, CompName, res.name) \o context \o <<"=">> \o value
           type == IF HasMeta(res)
                   THEN Key("%", CompName, res.name) \o <<"=">> \o TypeAsString(res) \o <<"LF">>
                   ELSE << >>
           files == DerivationText(res.derivation)
           derive == IF meta /\ res.derivation # {}
                     THEN Key("#", CompName, res.name) \o <<"=">> \o files \o <<"LF">>
                     ELSE << >>
<1>1. /\ IsText(res.value) /\ IsText(res.comment) /\ IsText(res.context)
      /\ res.template # NULL => WordList(res.template)
      /\ FileSet(res.derivation) /\ res.name = name
  BY DEF Fits
<1>2. ASSUME NEW symbol PROVE IsList(Key(symbol, CompName, res.name))
  <2>1. IsList(CompName)
    BY NamesAreText
  <2> DEFINE mark == IF symbol = NULL THEN << >> ELSE <<symbol>>
             owner == IF IsEmpty(CompName) THEN << >> ELSE CompName \o <<".">>
  <2>2. IsList(mark) /\ IsList(owner)
    BY <2>1, ShortLists, JoinedList
  <2>3. Key(symbol, CompName, res.name) = mark \o owner \o res.name
    BY DEF Key
  <2> HIDE DEF mark, owner
  <2> QED BY <1>1, <2>2, <2>3, JoinedList
<1>3. IsList(remark)
  <2>1. HasComment(res) => IsList(res.comment)
    BY <1>1 DEF HasComment, IsEmpty, IsText
  <2> QED BY <2>1, ShortLists, JoinedList
<1>4. IsList(form)
  <2>1. IsList(TemplateAsString(res.template))
    BY <1>1, ShortLists, SpacedIsText DEF TemplateAsString
  <2> QED BY <2>1, ShortLists, JoinedList
<1>5. IsList(TypeAsString(res))
  <2>1. TypeAsString(res) = <<res.type>> \o remark \o form
    BY DEF TypeAsString
  <2> HIDE DEF remark, form
  <2> QED BY <1>3, <1>4, <2>1, ShortLists, JoinedList
<1>6. IsList(context)
  <2>1. HasContext(res) => IsList(res.context)
    BY <1>1 DEF HasContext, IsEmpty, IsText
  <2> QED BY <2>1, ShortLists, JoinedList
<1>7. IsList(value) /\ IsList(files)
  BY <1>1, TextParts, FormatsAreText
<1>8. IsList(spec)
  <2> HIDE DEF context, value
  <2> QED BY <1>2, <1>6, <1>7, ShortLists, JoinedList
<1>9. IsList(type)
  BY <1>2, <1>5, ShortLists, JoinedList
<1>10. IsList(derive)
  <2> HIDE DEF files
  <2> QED BY <1>2, <1>7, ShortLists, JoinedList
<1>11. ToStatus(res, CompName, meta) = spec \o <<"LF">> \o type \o derive
  BY DEF ToStatus, ToSpec
<1> HIDE DEF spec, type, derive
<1>12. IsList(ToStatus(res, CompName, meta))
  BY <1>8, <1>9, <1>10, <1>11, ShortLists, JoinedList
<1> QED BY <1>5, <1>12

(* What lcfgcomponent_to_status_file writes is a text.                     *)
LEMMA FileIsText ==
  ASSUME NEW resources, AllFit(resources), NEW all, NEW meta
  PROVE  IsList(StatusFile(resources, all, meta))
<1> DEFINE shown == Shown(resources, all)
           order == SetToSeq(shown)
           rank == [ k \in DOMAIN order |-> NameRank[order[k]] ]
           sorted == SortedEntries(shown)
           block(k) == ToStatus(resources[sorted[k]], CompName, meta)
           blocks == [ k \in DOMAIN sorted |-> block(k) ]
<1>1. shown \subseteq { name \in ResNames : resources[name] # NULL } /\ IsFiniteSet(shown)
  BY NamesAssumption, FS_Subset DEF Shown, Present
<1>2. IsList(order) /\ \A k \in DOMAIN order : order[k] \in shown
  <2> HIDE DEF shown
  <2> QED BY <1>1, OrderedSet
<1>3. \A k \in DOMAIN order : rank[k] \in Int
  <2> HIDE DEF shown, order
  <2> QED BY <1>1, <1>2, NamesAssumption
<1>4. sorted = SortedByKey(rank, order)
  BY DEF SortedEntries
<1>5. IsList(sorted) /\ \A k \in DOMAIN sorted : sorted[k] \in shown
  <2> HIDE DEF shown, order, rank, sorted
  <2>1. Takes(sorted, order, DOMAIN order)
    BY <1>2, <1>3, <1>4, SortSound
  <2>2. IsList(sorted) /\ \A k \in DOMAIN sorted : \E i \in DOMAIN order : sorted[k] = order[i]
    BY <2>1, TakesContents
  <2> QED BY <1>2, <2>2
<1> HIDE DEF shown, sorted
<1>6. \A k \in DOMAIN sorted : IsList(block(k))
  <2> SUFFICES ASSUME NEW k \in DOMAIN sorted PROVE IsList(block(k))
    OBVIOUS
  <2>1. sorted[k] \in ResNames /\ resources[sorted[k]] # NULL
    BY <1>1, <1>5
  <2>2. IsList(sorted[k]) /\ Fits(resources[sorted[k]], sorted[k])
    BY <2>1, NamesAreText DEF AllFit
  <2> QED BY <2>2, BlockIsText
<1>7. StatusFile(resources, all, meta) = FlattenSeq(blocks)
  BY DEF StatusFile, shown, sorted
<1> HIDE DEF block
<1>8. blocks = [ k \in DOMAIN sorted |-> blocks[k] ] /\ \A k \in DOMAIN sorted : blocks[k] = block(k)
  OBVIOUS
<1> HIDE DEF blocks
<1> QED BY <1>5, <1>6, <1>7, <1>8, PartsPutTogether

(* The inductive invariant: every resource fits, and what is outside the   *)
(* component, the file and the variables, holds texts only.                *)
ResourcesKept ==
  /\ AllFit(comp)
  /\ IsList(file)
  /\ \A name \in ResNames : IsText(env.value[name]) /\ IsText(env.type[name])
  /\ env.list \subseteq ResNames
  /\ ops \in 0 .. MaxOps

(* What callers pass are texts.                                            *)
LEMMA InputsAreText ==
  /\ \A text \in UNION { ValueTexts, TypeTexts, TemplateTexts, CommentTexts, ContextTexts, TagTexts } : IsList(text)
  /\ \A text \in ValueTexts : IsText(CanonBoolean(text))
  /\ \A rest \in SpecRests : IsList(rest)
<1>1. \A text \in UNION { ValueTexts, TypeTexts, TemplateTexts, CommentTexts, ContextTexts, TagTexts } : IsList(text)
  BY TextsAssumption, ShortLists
<1>2. \A rest \in SpecRests : IsList(rest)
  BY SpecsAssumption, ShortLists
<1>3. ASSUME NEW text \in ValueTexts PROVE IsText(CanonBoolean(text))
  <2>1. IsList(text)
    BY <1>1
  <2>2. CanonBoolean(text) \in {<< >>, text, NULL}
    BY SMT DEF CanonBoolean
  <2> QED BY <2>1, <2>2, ShortLists DEF IsText
<1> QED BY <1>1, <1>2, <1>3

(* An edit of one resource.                                                *)
LEMMA EditFits ==
  ASSUME NEW name \in ResNames, Fits(comp[name], name), Edit(name)
  PROVE  \E outcome : Fits(outcome.res, name) /\ Change(name, outcome)
<1> DEFINE res == comp[name]
           Made == \E outcome : Fits(outcome.res, name) /\ Change(name, outcome)
<1>1. \A outcome : Fits(outcome.res, name) /\ Change(name, outcome) => Made
  OBVIOUS
<1> HIDE DEF Made
<1>2. ASSUME SettingValue(name) PROVE Made
  <2>1. PICK text \in ValueTexts : Change(name, SetValue(res, text))
    BY <1>2 DEF SettingValue
  <2>2. IsText(text)
    BY InputsAreText, TextParts
  <2> QED BY <1>1, <2>1, <2>2, SettersFit
<1>3. ASSUME SettingBoolean(name) PROVE Made
  <2>1. PICK text \in ValueTexts : Change(name, SetValue(res, CanonBoolean(text)))
    BY <1>3 DEF SettingBoolean
  <2> QED BY <1>1, <2>1, InputsAreText, SettersFit
<1>4. ASSUME UnsettingValue(name) PROVE Made
  BY <1>1, <1>4, SettersFit DEF UnsettingValue
<1>5. ASSUME SettingType(name) PROVE Made
  <2>1. PICK type \in {"string", "integer", "boolean", "list"} : Change(name, SetType(res, type))
    BY <1>5 DEF SettingType
  <2>2. type \in Types
    BY DEF Types
  <2> QED BY <1>1, <2>1, <2>2, SettersFit
<1>6. ASSUME SettingTypeText(name) PROVE Made
  <2>1. PICK text \in TypeTexts : Change(name, SetTypeAsString(res, text))
    BY <1>6 DEF SettingTypeText
  <2> QED BY <1>1, <2>1, InputsAreText, TypesFit
<1>7. ASSUME SettingTypeDefault(name) PROVE Made
  BY <1>1, <1>7, TypesFit DEF SettingTypeDefault
<1>8. ASSUME SettingTemplate(name) PROVE Made
  <2>1. PICK text \in TemplateTexts : Change(name, SetTemplateAsString(res, text))
    BY <1>8 DEF SettingTemplate
  <2>2. IsText(text)
    BY InputsAreText, TextParts
  <2> QED BY <1>1, <2>1, <2>2, TypesFit
<1>9. ASSUME SettingComment(name) PROVE Made
  <2>1. PICK text \in CommentTexts \cup {NULL} : Change(name, SetComment(res, text))
    BY <1>9 DEF SettingComment
  <2>2. IsText(text)
    BY InputsAreText, TextParts
  <2> QED BY <1>1, <2>1, <2>2, SettersFit
<1>10. ASSUME SettingContext(name) PROVE Made
  <2>1. PICK text \in ContextTexts : \/ Change(name, SetContext(res, text))
                                     \/ Change(name, AddContext(res, text))
    BY <1>10 DEF SettingContext
  <2>2. IsText(text)
    BY InputsAreText, TextParts
  <2> QED BY <1>1, <2>1, <2>2, SettersFit, TypesFit
<1>11. ASSUME SettingPriority(name) PROVE Made
  BY <1>1, <1>11, SettersFit DEF SettingPriority
<1>12. ASSUME AddingDerivation(name) PROVE Made
  BY <1>1, <1>12, SettersFit, TextParts DEF AddingDerivation
<1>13. ASSUME SettingAttribute(name) PROVE Made
  <2>1. PICK symbol, text : IsList(text) /\ Change(name, SetAttribute(res, symbol, text))
    BY <1>13, ShortLists, Zenon DEF SettingAttribute
  <2> QED BY <1>1, <2>1, AttributeFits
<1>14. ASSUME Mutating(name) PROVE Made
  <2>1. PICK tag \in TagTexts :
          \/ Change(name, Append_value(res, tag)) \/ Change(name, Prepend_value(res, tag))
          \/ Change(name, AppendTag(res, tag)) \/ Change(name, PrependTag(res, tag))
          \/ Change(name, AddTags(res, tag))
    BY <1>14 DEF Mutating
  <2>2. IsText(tag) /\ IsList(tag)
    BY InputsAreText, TextParts
  <2>3. Fits(AddTags(res, tag).res, name)
    BY <2>2, WordsOfText, AddWordsFit DEF AddTags
  <2> QED BY <1>1, <2>1, <2>2, <2>3, MutatorsFit
<1>15. ASSUME Replacing(name) PROVE Made
  <2>1. PICK old \in TagTexts, new \in TagTexts \cup {<< >>} :
          \/ Change(name, ReplaceTag(res, old, new)) \/ Change(name, Replace(res, old, new))
    BY <1>15 DEF Replacing
  <2>2. IsList(old) /\ IsList(new)
    BY InputsAreText, ShortLists
  <2> QED BY <1>1, <2>1, <2>2, MutatorsFit
<1>16. ASSUME Copying(name) PROVE Made
  BY <1>1, <1>16, CloneFits, NamesAreText DEF Copying
<1>17. Made
  BY <1>2, <1>3, <1>4, <1>5, <1>6, <1>7, <1>8, <1>9, <1>10, <1>11, <1>12, <1>13, <1>14, <1>15,
     <1>16 DEF Edit
<1> QED BY <1>17 DEF Made

(* A change of one resource leaves the others, the file and the variables  *)
(* alone.                                                                  *)
LEMMA ChangeKept ==
  ASSUME AllFit(comp), NEW name \in ResNames, NEW outcome, Fits(outcome.res, name),
         Change(name, outcome)
  PROVE  AllFit(comp') /\ UNCHANGED << file, env >>
<1>1. comp' = [ comp EXCEPT ![name] = outcome.res ] /\ UNCHANGED << file, env >>
  BY DEF Change
<1> QED BY <1>1 DEF AllFit

(* It holds of fresh resources.                                            *)
LEMMA KeptInit == LifeInit => ResourcesKept
<1> SUFFICES ASSUME LifeInit PROVE ResourcesKept
  OBVIOUS
<1>1. AllFit(comp)
  <2>1. DOMAIN comp = ResNames /\ \A name \in ResNames : comp[name] = Named(name)
    BY DEF LifeInit
  <2>2. \A name \in ResNames : Fits(Named(name), name)
    BY NamesAreText, NewFits
  <2> QED BY <2>1, <2>2 DEF AllFit
<1>2. \A name \in ResNames : env.value[name] = NULL /\ env.type[name] = NULL
  BY DEF LifeInit, Unset
<1> QED BY <1>1, <1>2, TextParts, ShortLists, TextsAssumption DEF LifeInit, ResourcesKept

(* Every call keeps it.                                                    *)
LEMMA KeptStep == ResourcesKept /\ [LifeNext]_lifeVars => ResourcesKept'
<1> SUFFICES ASSUME ResourcesKept, [LifeNext]_lifeVars PROVE ResourcesKept'
  OBVIOUS
<1> DEFINE EnvTexts == \A name \in ResNames : IsText(env.value[name]) /\ IsText(env.type[name])
           Kept == AllFit(comp) /\ IsList(file) /\ EnvTexts /\ env.list \subseteq ResNames
<1>1. Kept /\ ops \in 0 .. MaxOps
  BY DEF ResourcesKept
<1>2. ASSUME NEW name \in Present(comp), Edit(name)
      PROVE  Kept'
  <2>1. name \in ResNames /\ Fits(comp[name], name)
    BY <1>1 DEF Present, AllFit
  <2>2. PICK outcome : Fits(outcome.res, name) /\ Change(name, outcome)
    BY <1>2, <2>1, EditFits
  <2>3. AllFit(comp') /\ file' = file /\ env' = env
    BY <1>1, <2>1, <2>2, ChangeKept
  <2> QED BY <1>1, <2>3
<1>3. ASSUME NEW name \in ResNames, Create(name)
      PROVE  Kept'
  <2>1. \E outcome : Fits(outcome.res, name) /\ Change(name, outcome)
    <3>1. CASE Change(name, Granted(Named(name)))
      BY <3>1, NamesAreText, NewFits, SettersFit
    <3>2. CASE \E rest \in SpecRests : \E made \in {FromSpec(ParseSpec(name \o rest))} :
                 made.ok /\ Change(name, made)
      <4>1. PICK rest \in SpecRests : /\ FromSpec(ParseSpec(name \o rest)).ok
                                      /\ Change(name, FromSpec(ParseSpec(name \o rest)))
        BY <3>2
      <4>2. IsList(name \o rest)
        BY InputsAreText, NamesAreText, JoinedList
      <4>3. /\ GoodSpec(ParseSpec(name \o rest))
            /\ Fits(FromSpec(ParseSpec(name \o rest)).res, ParseSpec(name \o rest).name)
        BY <4>1, <4>2, SpecFits
      <4>4. ParseSpec(name \o rest).name = name
        BY <4>3, NamedByLine
      <4> QED BY <4>1, <4>3, <4>4
    <3> QED BY <1>3, <3>1, <3>2 DEF Create
  <2>2. PICK outcome : Fits(outcome.res, name) /\ Change(name, outcome)
    BY <2>1
  <2>3. AllFit(comp') /\ file' = file /\ env' = env
    BY <1>1, <2>2, ChangeKept
  <2> QED BY <1>1, <2>3
<1>4. ASSUME NEW all, NEW meta, ToEnv(all, meta)
      PROVE  Kept'
  <2> DEFINE shown == Shown(comp, all)
  <2>1. /\ \A n \in ResNames :
             /\ env'.value[n] = IF n \in shown THEN OrEmpty(comp[n].value) ELSE env.value[n]
             /\ env'.type[n] = IF n \in shown /\ meta /\ HasMeta(comp[n])
                               THEN TypeAsString(comp[n]) ELSE env.type[n]
        /\ env'.list = shown /\ comp' = comp /\ file' = file
    BY <1>4 DEF ToEnv
  <2>2. \A n \in shown : n \in ResNames /\ comp[n] # NULL
    BY DEF Shown, Present
  <2> HIDE DEF shown
  <2>3. ASSUME NEW n \in shown
        PROVE  IsText(OrEmpty(comp[n].value)) /\ IsText(TypeAsString(comp[n]))
    <3>1. Fits(comp[n], n) /\ IsList(n)
      BY <1>1, <2>2, NamesAreText DEF AllFit
    <3>2. IsText(comp[n].value)
      BY <3>1 DEF Fits
    <3>3. IsList(OrEmpty(comp[n].value)) /\ IsList(TypeAsString(comp[n]))
      BY <3>1, <3>2, BlockIsText, TextParts
    <3> QED BY <3>3, TextParts
  <2>4. EnvTexts'
    BY <1>1, <2>1, <2>3
  <2>5. env'.list \subseteq ResNames
    BY <2>1, <2>2
  <2> HIDE DEF EnvTexts
  <2> QED BY <1>1, <2>1, <2>4, <2>5
<1>5. ASSUME NEW all, NEW meta, SaveStatus(all, meta)
      PROVE  Kept'
  <2>1. IsList(StatusFile(comp, all, meta))
    BY <1>1, FileIsText
  <2> QED BY <1>1, <1>5, <2>1 DEF SaveStatus
<1>6. ASSUME LoadEnv
      PROVE  Kept'
  <2>1. /\ \A name \in env.list : FromEnv(env, name).ok
        /\ comp' = [ name \in ResNames |-> IF name \in env.list THEN FromEnv(env, name).res ELSE NULL ]
        /\ file' = file /\ env' = env
    BY <1>6 DEF LoadEnv
  <2>2. ASSUME NEW name \in env.list PROVE Fits(FromEnv(env, name).res, name)
    <3>1. name \in ResNames /\ IsText(env.type[name]) /\ IsText(env.value[name])
      BY <1>1
    <3> QED BY <2>1, <3>1, VariablesFit DEF FromEnv
  <2>3. AllFit(comp')
    BY <2>1, <2>2 DEF AllFit
  <2> QED BY <1>1, <2>1, <2>3
<1>7. ASSUME NEW meta, LoadStatus(meta)
      PROVE  Kept'
  <2>1. comp' = LoadLines(Lines(file), meta).comp /\ file' = file /\ env' = env
    BY <1>7 DEF LoadStatus, FromStatusFile
  <2>2. AllFit(comp')
    BY <1>1, <2>1, WordsOfText, LoadLinesFit
  <2> QED BY <1>1, <2>1, <2>2
<1>8. CASE LifeNext
  <2>1. Kept'
    BY <1>2, <1>3, <1>4, <1>5, <1>6, <1>7, <1>8 DEF LifeNext
  <2>2. (ops \in 0 .. MaxOps)'
    BY <1>1, <1>8, TextsAssumption DEF LifeNext
  <2> QED BY <2>1, <2>2 DEF ResourcesKept
<1>9. CASE UNCHANGED lifeVars
  BY <1>1, <1>9 DEF lifeVars, ResourcesKept
<1> QED BY <1>8, <1>9

(* It is what ResourcesSound asks for, and more.                           *)
LEMMA KeptSound == ResourcesKept => ResourcesSound
<1> SUFFICES ASSUME ResourcesKept PROVE ResourcesSound
  OBVIOUS
<1>1. \A name \in Present(comp) : Fits(comp[name], name)
  BY DEF ResourcesKept, AllFit, Present
<1>2. DOMAIN NewResource = Fields
  BY DEF NewResource, Fields
<1>3. ResourcesTyped
  BY <1>1, <1>2 DEF ResourcesTyped, ResourcesKept, Fits
<1>4. ValueFitsType
  BY <1>1 DEF ValueFitsType, Fits
<1> QED BY <1>3, <1>4 DEF ResourcesSound

(* After whatever setters (resource.c), mutators (mutate.c), copies, loads *)
(* and exports (component.c), every resource is filed under its name, well *)
(* typed, and has a value that its type allows.                            *)
THEOREM ValuesFitTypes == LifeSpec => []ResourcesSound
<1>1. ResourcesKept => ResourcesSound
  BY KeptSound
<1>2. LifeSpec => []ResourcesKept
  BY KeptInit, KeptStep, PTL DEF LifeSpec
<1> QED BY <1>1, <1>2, PTL
=============================================================================
