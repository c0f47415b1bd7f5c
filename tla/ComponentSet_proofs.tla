------------------------ MODULE ComponentSet_proofs -------------------------
(***************************************************************************)
(* Theorems about ComponentSet, for any sets, components, names, hashes    *)
(* and number of buckets.                                                  *)
(***************************************************************************)
EXTENDS ComponentSet, FiniteSetTheorems, TLAPS

(***************************************************************************)
(* The order in which a probe visits the buckets.                          *)
(***************************************************************************)

(* No bucket is visited before itself, and of two buckets one is visited   *)
(* before the other.                                                       *)
LEMMA ProbeOrder ==
  ASSUME NEW h \in Nat, NEW i \in Slots, NEW j \in Slots
  PROVE  /\ ~ProbedBefore(h, i, i)
         /\ i # j => ProbedBefore(h, i, j) \/ ProbedBefore(h, j, i)
BY BucketsAssumption DEF Slots, ProbedBefore

(* The home bucket of a name is a number.                                  *)
LEMMA HomeIsNat ==
  ASSUME NEW c \in Components
  PROVE  Home(Name[c]) \in Nat
<1>1. Name[c] \in Names
  BY DEF Names
<1>2. Hash[Name[c]] \in Nat
  BY <1>1, HashAssumption
<1>3. QED
  BY <1>2, BucketsAssumption DEF Home

(* The probe for a name ends at one bucket at most.                        *)
LEMMA ProbeEndUnique ==
  ASSUME NEW s \in Sets, NEW c \in Components,
         NEW i \in Slots, NEW j \in Slots,
         ProbeEnd(s, Name[c], i), ProbeEnd(s, Name[c], j)
  PROVE  i = j
<1>1. Home(Name[c]) \in Nat
  BY HomeIsNat
<1>2. i # j => \/ ProbedBefore(Home(Name[c]), i, j)
               \/ ProbedBefore(Home(Name[c]), j, i)
  BY <1>1, ProbeOrder
<1>3. QED
  BY <1>2 DEF ProbeEnd

(* Where every component is findable, a set has no name twice.             *)
LEMMA OnePerName ==
  ASSUME TypeOK, AllFindable, NEW s \in Sets, NEW i \in Slots, NEW j \in Slots,
         slot[s][i] # NoComponent, slot[s][j] # NoComponent,
         Name[slot[s][i]] = Name[slot[s][j]]
  PROVE  i = j
<1>1. slot[s][i] \in Components
  BY DEF TypeOK
<1>2. /\ ProbeEnd(s, Name[slot[s][i]], i)
      /\ ProbeEnd(s, Name[slot[s][i]], j)
  BY DEF AllFindable
<1>3. QED
  BY <1>1, <1>2, ProbeEndUnique

(* ... and a lookup finds exactly the components in the set.               *)
LEMMA FoundIsHeld ==
  ASSUME TypeOK, AllFindable, NEW s \in Sets, NEW c \in Components
  PROVE  Finds(s, Name[c], c) <=> \E i \in Slots : slot[s][i] = c
BY ComponentsAssumption DEF Finds, AllFindable

(***************************************************************************)
(* Type correctness.                                                       *)
(***************************************************************************)

(* What lcfgcompset_insert_component does to the buckets.                  *)
LEMMA InsertedSlots ==
  ASSUME TypeOK, NEW s \in Sets, NEW c \in Components, NEW i \in Slots,
         Insert(s, c, i, refs)
  PROVE  /\ slot' \in [Sets -> [Slots -> Components \cup {NoComponent}]]
         /\ \A t \in Sets, j \in Slots :
              slot'[t][j] = IF t = s /\ j = i THEN c ELSE slot[t][j]
         /\ entries' \in [Sets -> Nat]
         /\ refs' \in [Components -> Int]
BY DEF TypeOK, Insert, Put, Recounted

(* What lcfgcompset_relinquish does to the buckets.                        *)
LEMMA RelinquishedSlots ==
  ASSUME TypeOK, NEW s \in Sets, Relinquish(s)
  PROVE  /\ slot' \in [Sets -> [Slots -> Components \cup {NoComponent}]]
         /\ \A t \in Sets, j \in Slots :
              slot'[t][j] = IF t = s /\ setRefs[s] = 1
                            THEN NoComponent ELSE slot[t][j]
         /\ entries' \in [Sets -> Nat]
<1>1. CASE setRefs[s] = 1
  <2> DEFINE empty == [ i \in Slots |-> NoComponent ]
  <2>1. slot' = [ slot EXCEPT ![s] = empty ]
    BY <1>1 DEF Relinquish
  <2>2. /\ empty \in [Slots -> Components \cup {NoComponent}]
        /\ \A j \in Slots : empty[j] = NoComponent
    OBVIOUS
  <2>3. entries' \in [Sets -> Nat]
    BY <1>1 DEF TypeOK, Relinquish
  <2> HIDE DEF empty
  <2>4. QED
    BY <1>1, <2>1, <2>2, <2>3 DEF TypeOK
<1>2. CASE setRefs[s] # 1
  BY <1>2 DEF TypeOK, Relinquish
<1>3. QED
  BY <1>1, <1>2

LEMMA SlotsFinite ==
  ASSUME NEW S, S \subseteq Slots
  PROVE  IsFiniteSet(S) /\ Cardinality(S) \in Nat
<1>1. IsFiniteSet(Slots)
  BY BucketsAssumption, FS_Interval DEF Slots
<1>2. QED
  BY <1>1, FS_Subset, FS_CardinalityType

LEMMA RelinquishedRefs ==
  ASSUME TypeOK, NEW s \in Sets, Relinquish(s)
  PROVE  refs' \in [Components -> Int]
<1>1. \A c \in Components : Cardinality({ i \in Slots : slot[s][i] = c }) \in Nat
  BY SlotsFinite
<1> DEFINE held(c) == Cardinality({ i \in Slots : slot[s][i] = c })
<1>2. CASE setRefs[s] = 1
  <2>1. refs' = [ c \in Components |-> refs[c] - held(c) ]
    BY <1>2 DEF Relinquish
  <2>2. \A c \in Components : held(c) \in Nat
    BY <1>1
  <2> HIDE DEF held
  <2>3. QED
    BY <2>1, <2>2 DEF TypeOK
<1>3. CASE setRefs[s] # 1
  BY <1>3 DEF TypeOK, Relinquish
<1>4. QED
  BY <1>2, <1>3

(* The sets a running call works on are allocated.  Without this the count *)
(* a failed load decrements could become negative.                         *)
SetsInUse ==
  call # NoCall =>
    /\ Exists(call.into)
    /\ call.kind # "load" => Exists(call.from)

LEMMA TypeInit == Init => TypeOK /\ SetsInUse
BY DEF Init, TypeOK, SetsInUse, NoCall

LEMMA TypeStep == TypeOK /\ SetsInUse /\ [Next]_vars => TypeOK'
<1> SUFFICES ASSUME TypeOK, SetsInUse, [Next]_vars PROVE TypeOK'
  OBVIOUS
<1>1. ASSUME NEW c \in Components, NewComponent(c) PROVE TypeOK'
  BY <1>1 DEF TypeOK, NewComponent, Allocate
<1>2. ASSUME NEW s \in Sets, NEW c \in Components, TakeComponent(s, c)
      PROVE  TypeOK'
  BY <1>2 DEF TypeOK, TakeComponent
<1>3. ASSUME NEW c \in Components, ReleaseComponent(c) PROVE TypeOK'
  BY <1>3 DEF TypeOK, ReleaseComponent
<1>4. ASSUME NEW s \in Sets, NewSet(s) PROVE TypeOK'
  BY <1>4 DEF TypeOK, NewSet
<1>5. ASSUME NEW s \in Sets, AcquireSet(s) PROVE TypeOK'
  BY <1>5 DEF TypeOK, AcquireSet
<1>6. ASSUME NEW s \in Sets, ReleaseSet(s) PROVE TypeOK'
  <2>1. /\ slot' \in [Sets -> [Slots -> Components \cup {NoComponent}]]
        /\ entries' \in [Sets -> Nat]
        /\ refs' \in [Components -> Int]
    BY <1>6, RelinquishedSlots, RelinquishedRefs DEF ReleaseSet
  <2>2. setRefs' \in [Sets -> Nat]
    BY <1>6 DEF TypeOK, ReleaseSet, Relinquish, Exists
  <2>3. QED
    BY <1>6, <2>1, <2>2 DEF TypeOK, ReleaseSet
<1>7. ASSUME NEW s \in Sets, NEW c \in Components, InsertComponent(s, c)
      PROVE  TypeOK'
  <2>1. CASE \E i \in Slots : Insert(s, c, i, refs)
    BY <1>7, <2>1, InsertedSlots DEF TypeOK, InsertComponent
  <2>2. CASE UNCHANGED << slot, entries, refs >>
    BY <1>7, <2>2 DEF TypeOK, InsertComponent
  <2>3. QED
    BY <1>7, <2>1, <2>2 DEF InsertComponent
<1>8. ASSUME NEW s \in Sets, NEW c \in Components, FindOrCreate(s, c)
      PROVE  TypeOK'
  <2>1. content' \in [Components -> SUBSET Components]
    BY <1>8 DEF TypeOK, FindOrCreate, Allocate
  <2>2. CASE \E i \in Slots : Insert(s, c, i, refs)
    BY <1>8, <2>1, <2>2, InsertedSlots DEF TypeOK, FindOrCreate
  <2>3. CASE UNCHANGED << slot, entries, refs >>
    BY <1>8, <2>1, <2>3 DEF TypeOK, FindOrCreate
  <2>4. QED
    BY <1>8, <2>2, <2>3 DEF FindOrCreate
<1>9. ASSUME NEW into \in Sets, NEW from \in Sets, NEW new \in BOOLEAN,
             \/ MergeComponents(into, from, new)
             \/ Transplant(into, from)
      PROVE  TypeOK'
  <2>1. ASSUME NEW k \in {"merge", "transplant"}, NEW t \in BOOLEAN
        PROVE  [ kind |-> k, into |-> into, from |-> from,
                 takeNew |-> t, next |-> 0, change |-> "NONE" ] \in LoopCall
    BY BucketsAssumption DEF LoopCall
  <2>2. call' \in {NoCall} \cup LoopCall
    <3>1. CASE MergeComponents(into, from, new)
      BY <2>1, <3>1 DEF MergeComponents, StartCall
    <3>2. CASE Transplant(into, from)
      BY <2>1, <3>2 DEF Transplant, StartCall
    <3>3. QED
      BY <1>9, <3>1, <3>2
  <2>3. UNCHANGED << slot, entries, setRefs, refs, owned, content >>
    BY <1>9 DEF MergeComponents, Transplant, StartCall
  <2>4. QED
    BY <2>2, <2>3 DEF TypeOK
<1>10. ASSUME NEW c \in Components \cup {NoComponent}, AtBucket(c),
              NEW rc, Turn(rc)
       PROVE  call' \in {NoCall} \cup LoopCall
  <2>1. call \in LoopCall /\ call.next < Buckets
    BY <1>10 DEF TypeOK, AtBucket, Looping, LoadCall
  <2>2. ASSUME NEW so \in {"NONE", "MODIFIED"}
        PROVE  [ call EXCEPT !.next = @ + 1, !.change = so ] \in LoopCall
    <3> DEFINE next == [ call EXCEPT !.next = @ + 1 ]
    <3>1. next \in LoopCall
      BY <2>1, BucketsAssumption DEF LoopCall
    <3>2. \A l \in LoopCall : [ l EXCEPT !.change = so ] \in LoopCall
      BY DEF LoopCall
    <3>3. [ call EXCEPT !.next = @ + 1, !.change = so ]
            = [ next EXCEPT !.change = so ]
      BY <2>1 DEF LoopCall
    <3>4. QED
      BY <3>1, <3>2, <3>3
  <2>3. CASE rc = "ERROR"
    BY <1>10, <2>3 DEF Turn
  <2>4. CASE rc = "NONE"
    <3>1. call.change \in {"NONE", "MODIFIED"}
      BY <2>1 DEF LoopCall
    <3>2. call' = [ call EXCEPT !.next = @ + 1, !.change = call.change ]
      BY <1>10, <2>4 DEF Turn
    <3>3. QED
      BY <2>2, <3>1, <3>2
  <2>5. CASE rc # "ERROR" /\ rc # "NONE"
    BY <1>10, <2>2, <2>5 DEF Turn
  <2>6. QED
    BY <2>3, <2>4, <2>5
<1>11. CASE SkipBucket
  BY <1>10, <1>11 DEF TypeOK, SkipBucket
<1>12. ASSUME NEW c \in Components, NEW target \in Components,
              MergeInto(c, target)
       PROVE  TypeOK'
  <2>1. content' \in [Components -> SUBSET Components]
    BY <1>12 DEF TypeOK, MergeInto
  <2>2. QED
    BY <1>10, <1>12, <2>1 DEF TypeOK, MergeInto
<1>13. ASSUME NEW c \in Components, ShareComponent(c) PROVE TypeOK'
  <2>1. call.into \in Sets
    BY <1>13 DEF TypeOK, ShareComponent, AtBucket, Looping, LoopCall, LoadCall
  <2>2. call' \in {NoCall} \cup LoopCall
    BY <1>10, <1>13 DEF ShareComponent
  <2>3. CASE \E i \in Slots : Insert(call.into, c, i, refs)
    BY <1>13, <2>1, <2>2, <2>3, InsertedSlots DEF TypeOK, ShareComponent
  <2>4. CASE UNCHANGED << slot, entries, refs >>
    BY <1>13, <2>2, <2>4 DEF TypeOK, ShareComponent
  <2>5. QED
    BY <1>13, <2>3, <2>4 DEF ShareComponent
<1>14. CASE ReturnFromLoop
  BY <1>14 DEF TypeOK, ReturnFromLoop
<1>15. ASSUME NEW s \in Sets, StartLoad(s) PROVE TypeOK'
  BY <1>15 DEF TypeOK, StartLoad, LoadCall
<1>16. ASSUME NEW c \in Components, LoadComponent(c) PROVE TypeOK'
  <2>1. call.into \in Sets
    BY <1>16 DEF TypeOK, LoadComponent, Loading, LoopCall, LoadCall
  <2>2. content' \in [Components -> SUBSET Components]
    BY <1>16 DEF TypeOK, LoadComponent, Allocate
  <2>3. QED
    BY <1>16, <2>1, <2>2, InsertedSlots DEF TypeOK, LoadComponent
<1>17. CASE FailLoad
  <2>1. call.into \in Sets
    BY <1>17 DEF TypeOK, FailLoad, Loading, LoopCall, LoadCall
  <2>2. /\ slot' \in [Sets -> [Slots -> Components \cup {NoComponent}]]
        /\ entries' \in [Sets -> Nat]
        /\ refs' \in [Components -> Int]
    BY <1>17, <2>1, RelinquishedSlots, RelinquishedRefs DEF FailLoad
  <2>3. setRefs' \in [Sets -> Nat]
    BY <1>17, <2>1 DEF TypeOK, SetsInUse, FailLoad, Loading, Relinquish, Exists
  <2>4. QED
    BY <1>17, <2>2, <2>3 DEF TypeOK, FailLoad
<1>18. CASE FinishLoad
  BY <1>18 DEF TypeOK, FinishLoad
<1>19. CASE UNCHANGED vars
  BY <1>19 DEF TypeOK, vars
<1>20. QED
  BY <1>1, <1>2, <1>3, <1>4, <1>5, <1>6, <1>7, <1>8, <1>9, <1>11, <1>12,
     <1>13, <1>14, <1>15, <1>16, <1>17, <1>18, <1>19 DEF Next

LEMMA SetsInUseStep ==
  TypeOK /\ SetsInUse /\ [Next]_vars => SetsInUse'
<1> SUFFICES ASSUME TypeOK, SetsInUse, [Next]_vars PROVE SetsInUse'
  OBVIOUS
<1>1. CASE call' = NoCall
  BY <1>1 DEF SetsInUse
<1>2. CASE call' = call /\ UNCHANGED setRefs
  BY <1>2 DEF SetsInUse, Exists
<1>3. ASSUME NEW s \in Sets, StartLoad(s) PROVE SetsInUse'
  BY <1>3 DEF TypeOK, StartLoad, SetsInUse, Exists
<1>4. ASSUME NEW into \in Sets, NEW from \in Sets, NEW new \in BOOLEAN,
             \/ MergeComponents(into, from, new)
             \/ Transplant(into, from)
      PROVE  SetsInUse'
  <2>1. Exists(into)' /\ Exists(from)'
    BY <1>4 DEF MergeComponents, Transplant, StartCall, Exists
  <2>2. call' = NoCall \/ (call'.into = into /\ call'.from = from)
    BY <1>4 DEF MergeComponents, Transplant, StartCall
  <2>3. QED
    BY <2>1, <2>2 DEF SetsInUse, Exists
<1>5. ASSUME Looping, NEW rc, Turn(rc), UNCHANGED setRefs PROVE SetsInUse'
  <2>1. call \in LoopCall
    BY <1>5 DEF TypeOK, Looping, LoadCall
  <2>2. CASE rc # "ERROR"
    BY <1>5, <2>1, <2>2 DEF SetsInUse, Exists, LoopCall, Looping, Turn
  <2>3. QED
    BY <1>1, <1>5, <2>2 DEF Turn
<1>6. CASE Idle /\ call' = call
  BY <1>6 DEF Idle, SetsInUse
<1>7. QED
  BY <1>1, <1>2, <1>3, <1>4, <1>5, <1>6
  DEF Next, vars, NewComponent, TakeComponent, ReleaseComponent, NewSet,
      AcquireSet, ReleaseSet, InsertComponent, FindOrCreate, SkipBucket,
      MergeInto, ShareComponent, AtBucket, ReturnFromLoop, LoadComponent,
      FailLoad, FinishLoad

(* Every reachable state has the declared types: in particular counts of   *)
(* references to sets, and those of the callers, never go below zero, and  *)
(* a loop never leaves the table.                                          *)
THEOREM TypeCorrect == Spec => []TypeOK
<1>1. TypeOK /\ SetsInUse /\ [Next]_vars => (TypeOK /\ SetsInUse)'
  BY TypeStep, SetsInUseStep
<1>2. QED
  BY <1>1, TypeInit, PTL DEF Spec

(***************************************************************************)
(* What a step can do to the buckets and the reference counts: nothing but *)
(* change a count together with a caller's, insert one component, or empty *)
(* one set.                                                                *)
(***************************************************************************)
Quiet ==
  /\ UNCHANGED << slot, entries >>
  /\ \A c \in Components :
       (refs[c] = 0 => owned[c] = 0) =>
          refs'[c] - owned'[c] = refs[c] - owned[c]

Inserts(s, c, i) == Insert(s, c, i, refs) /\ UNCHANGED owned

Empties(s) == setRefs[s] = 1 /\ Relinquish(s) /\ UNCHANGED owned

LEMMA StepKinds ==
  ASSUME TypeOK, [Next]_vars
  PROVE  \/ Quiet
         \/ \E s \in Sets, c \in Components, i \in Slots : Inserts(s, c, i)
         \/ \E s \in Sets : Empties(s)
<1>1. ASSUME UNCHANGED << slot, entries, refs, owned >> PROVE Quiet
  BY <1>1 DEF Quiet
<1>2. ASSUME NEW c \in Components,
             \/ NewComponent(c)
             \/ \E s \in Sets : TakeComponent(s, c)
             \/ ReleaseComponent(c)
      PROVE  Quiet
  <2>1. CASE NewComponent(c)
    BY <2>1 DEF TypeOK, Quiet, NewComponent, Allocate
  <2>2. CASE \E s \in Sets : TakeComponent(s, c)
    BY <2>2 DEF TypeOK, Quiet, TakeComponent
  <2>3. CASE ReleaseComponent(c)
    BY <2>3 DEF TypeOK, Quiet, ReleaseComponent
  <2>4. QED
    BY <1>2, <2>1, <2>2, <2>3
<1>3. ASSUME NEW s \in Sets, Relinquish(s), UNCHANGED owned
      PROVE  Quiet \/ Empties(s)
  BY <1>1, <1>3 DEF Relinquish, Empties
<1>4. CASE \E s \in Sets : ReleaseSet(s)
  BY <1>3, <1>4 DEF ReleaseSet
<1>5. call # NoCall => call.into \in Sets
  BY DEF TypeOK, LoopCall, LoadCall
<1>6. CASE FailLoad
  BY <1>3, <1>5, <1>6 DEF FailLoad, Loading
<1>7. ASSUME NEW s \in Sets, NEW c \in Components,
             InsertComponent(s, c) \/ FindOrCreate(s, c)
      PROVE  Quiet \/ \E i \in Slots : Inserts(s, c, i)
  BY <1>1, <1>7 DEF InsertComponent, FindOrCreate, Inserts
<1>8. ASSUME NEW c \in Components, ShareComponent(c) \/ LoadComponent(c)
      PROVE  Quiet \/ \E i \in Slots : Inserts(call.into, c, i)
  BY <1>1, <1>8 DEF ShareComponent, LoadComponent, Inserts
<1>9. ASSUME NEW c \in Components, ShareComponent(c) \/ LoadComponent(c)
      PROVE  call.into \in Sets
  BY <1>5, <1>9 DEF ShareComponent, LoadComponent, AtBucket, Looping, Loading
<1>10. QED
  BY <1>1, <1>2, <1>4, <1>6, <1>7, <1>8, <1>9
  DEF Next, vars, NewSet, AcquireSet, MergeComponents, Transplant, StartCall,
      SkipBucket, MergeInto, ReturnFromLoop, StartLoad, FinishLoad

(***************************************************************************)
(* Lookups.                                                                *)
(***************************************************************************)
LEMMA FindableInit == Init => AllFindable
BY DEF Init, AllFindable

(* An insertion puts the component where a lookup of its name ends, and    *)
(* the bucket it fills held nothing, or its name, so no other probe that   *)
(* used to pass that bucket stops there now.                               *)
LEMMA FindableInsert ==
  ASSUME TypeOK, AllFindable, NEW s \in Sets, NEW c \in Components,
         NEW i \in Slots, Insert(s, c, i, refs)
  PROVE  AllFindable'
<1> SUFFICES ASSUME NEW t \in Sets, NEW j \in Slots, slot'[t][j] # NoComponent
             PROVE  ProbeEnd(t, Name[slot[t][j]], j)'
  BY DEF AllFindable
<1>1. \A u \in Sets, k \in Slots :
        slot'[u][k] = IF u = s /\ k = i THEN c ELSE slot[u][k]
  BY InsertedSlots
<1>2. ProbeEnd(s, Name[c], i)
  BY DEF Insert
<1>3. c # NoComponent /\ slot'[t][j] \in Components
  BY <1>1, ComponentsAssumption DEF TypeOK
<1>4. CASE t # s
  BY <1>1, <1>4 DEF AllFindable, ProbeEnd, Stops
<1>5. CASE t = s /\ j = i
  <2>1. \A k \in Slots :
          ProbedBefore(Home(Name[c]), k, i) => k # i /\ ~Stops(s, Name[c], k)
    BY <1>2, HomeIsNat, ProbeOrder DEF ProbeEnd
  <2>2. QED
    BY <1>1, <1>3, <1>5, <2>1 DEF ProbeEnd, Stops
<1>6. CASE t = s /\ j # i
  <2> DEFINE d == slot[s][j]
  <2>1. d = slot'[s][j] /\ d \in Components /\ d # NoComponent
    BY <1>1, <1>3, <1>6
  <2>2. ProbeEnd(s, Name[d], j)
    BY <2>1 DEF AllFindable
  <2>3. Name[d] # Name[c]
    BY <1>2, <1>6, <2>1, <2>2, ProbeEndUnique
  <2>4. \A k \in Slots :
          ProbedBefore(Home(Name[d]), k, j) => ~Stops(s, Name[d], k)'
    BY <1>1, <1>3, <2>1, <2>2, <2>3 DEF ProbeEnd, Stops
  <2>5. QED
    BY <1>6, <2>1, <2>4 DEF ProbeEnd, Stops
<1>7. QED
  BY <1>4, <1>5, <1>6

LEMMA FindableStep == TypeOK /\ AllFindable /\ [Next]_vars => AllFindable'
<1> SUFFICES ASSUME TypeOK, AllFindable, [Next]_vars PROVE AllFindable'
  OBVIOUS
<1>1. CASE Quiet
  BY <1>1 DEF Quiet, AllFindable, ProbeEnd, Stops
<1>2. ASSUME NEW s \in Sets, NEW c \in Components, NEW i \in Slots,
             Inserts(s, c, i)
      PROVE  AllFindable'
  BY <1>2, FindableInsert DEF Inserts
<1>3. ASSUME NEW s \in Sets, Empties(s) PROVE AllFindable'
  <2>1. \A t \in Sets, j \in Slots :
          slot'[t][j] = IF t = s THEN NoComponent ELSE slot[t][j]
    BY <1>3, RelinquishedSlots DEF Empties
  <2>2. QED
    BY <2>1 DEF AllFindable, ProbeEnd, Stops
<1>4. QED
  BY <1>1, <1>2, <1>3, StepKinds

(* Whatever is inserted, replaced, shared or destroyed, every component in *)
(* a set is found under its name, at the one bucket its probe ends at.     *)
THEOREM LookupCorrect == Spec => []AllFindable
<1>1. TypeOK /\ AllFindable /\ [Next]_vars => AllFindable'
  BY FindableStep
<1>2. QED
  BY <1>1, FindableInit, TypeCorrect, PTL DEF Spec

(***************************************************************************)
(* Counting the buckets in use.                                            *)
(***************************************************************************)
Used(s) == { i \in Slots : slot[s][i] # NoComponent }

LEMMA EntriesInit == Init => EntriesExact
<1> SUFFICES ASSUME Init PROVE EntriesExact
  OBVIOUS
<1>1. \A s \in Sets : entries[s] = 0 /\ Used(s) = {}
  BY DEF Init, Used
<1>2. QED
  BY <1>1, FS_EmptySet DEF EntriesExact, Used

LEMMA EntriesInsert ==
  ASSUME TypeOK, EntriesExact, NEW s \in Sets, NEW c \in Components,
         NEW i \in Slots, Insert(s, c, i, refs)
  PROVE  EntriesExact'
<1> SUFFICES ASSUME NEW t \in Sets
             PROVE  entries'[t] = Cardinality(Used(t)')
  BY DEF EntriesExact, Used
<1>1. \A u \in Sets, j \in Slots :
        slot'[u][j] = IF u = s /\ j = i THEN c ELSE slot[u][j]
  BY InsertedSlots
<1>2. entries[t] = Cardinality(Used(t))
  BY DEF EntriesExact, Used
<1>3. CASE t # s
  <2>1. Used(t)' = Used(t)
    BY <1>1, <1>3 DEF Used
  <2>2. entries'[t] = entries[t]
    BY <1>3 DEF Insert, Put, TypeOK
  <2>3. QED
    BY <1>2, <2>1, <2>2
<1>4. CASE t = s /\ slot[s][i] = NoComponent
  <2>1. Used(s)' = Used(s) \cup {i} /\ i \notin Used(s)
    BY <1>1, <1>4, ComponentsAssumption DEF Used
  <2>2. entries'[s] = entries[s] + 1
    BY <1>4 DEF Insert, Put, TypeOK
  <2>3. IsFiniteSet(Used(s))
    BY SlotsFinite DEF Used
  <2>4. Cardinality(Used(s) \cup {i}) = Cardinality(Used(s)) + 1
    BY <2>1, <2>3, FS_AddElement
  <2>5. QED
    BY <1>2, <1>4, <2>1, <2>2, <2>4
<1>5. CASE t = s /\ slot[s][i] # NoComponent
  <2>1. Used(s)' = Used(s)
    BY <1>1, <1>5, ComponentsAssumption DEF Used
  <2>2. entries'[s] = entries[s]
    BY <1>5 DEF Insert, Put
  <2>3. QED
    BY <1>2, <1>5, <2>1, <2>2
<1>6. QED
  BY <1>3, <1>4, <1>5

LEMMA EntriesStep == TypeOK /\ EntriesExact /\ [Next]_vars => EntriesExact'
<1> SUFFICES ASSUME TypeOK, EntriesExact, [Next]_vars PROVE EntriesExact'
  OBVIOUS
<1>1. CASE Quiet
  BY <1>1 DEF Quiet, EntriesExact
<1>2. ASSUME NEW s \in Sets, NEW c \in Components, NEW i \in Slots,
             Inserts(s, c, i)
      PROVE  EntriesExact'
  BY <1>2, EntriesInsert DEF Inserts
<1>3. ASSUME NEW s \in Sets, Empties(s) PROVE EntriesExact'
  <2>1. \A t \in Sets, j \in Slots :
          slot'[t][j] = IF t = s THEN NoComponent ELSE slot[t][j]
    BY <1>3, RelinquishedSlots DEF Empties
  <2>2. \A t \in Sets : Used(t)' = IF t = s THEN {} ELSE Used(t)
    BY <2>1 DEF Used
  <2>3. \A t \in Sets : entries'[t] = IF t = s THEN 0 ELSE entries[t]
    BY <1>3 DEF Empties, Relinquish, TypeOK
  <2>4. QED
    BY <2>2, <2>3, FS_EmptySet DEF EntriesExact, Used
<1>4. QED
  BY <1>1, <1>2, <1>3, StepKinds

(* The count of entries is always the number of buckets in use, so a set   *)
(* with a component in it is never taken for an empty one.                 *)
THEOREM CountCorrect == Spec => []EntriesExact
<1>1. TypeOK /\ EntriesExact /\ [Next]_vars => EntriesExact'
  BY EntriesStep
<1>2. QED
  BY <1>1, EntriesInit, TypeCorrect, PTL DEF Spec

(***************************************************************************)
(* Counting references.                                                    *)
(***************************************************************************)
Holds(s, c) == \E i \in Slots : slot[s][i] = c
Holders(c) == { s \in Sets : Holds(s, c) }

LEMMA HoldersFinite ==
  ASSUME NEW c PROVE IsFiniteSet(Holders(c)) /\ Cardinality(Holders(c)) \in Nat
BY SetsAssumption, FS_Subset, FS_CardinalityType DEF Holders

LEMMA RefsInit == Init => RefsExact
<1> SUFFICES ASSUME Init, NEW c \in Components
             PROVE  refs[c] = owned[c] + Cardinality(Holders(c))
  BY DEF RefsExact, Holders, Holds
<1>1. Holders(c) = {}
  BY ComponentsAssumption DEF Init, Holders, Holds
<1>2. QED
  BY <1>1, FS_EmptySet DEF Init

(* An insertion makes the set hold the new component, and no longer the    *)
(* one in that bucket; the latter was nowhere else in the set, and the     *)
(* former was in the set only if it is the latter.                         *)
LEMMA HoldersInsert ==
  ASSUME TypeOK, AllFindable, NEW s \in Sets, NEW c \in Components,
         NEW i \in Slots, Insert(s, c, i, refs), NEW d \in Components
  PROVE  /\ d = c => Holders(d)' = Holders(d) \cup {s}
         /\ d # c /\ d = slot[s][i] => Holders(d)' = Holders(d) \ {s}
         /\ d # c /\ d # slot[s][i] => Holders(d)' = Holders(d)
         /\ Holds(s, c) <=> slot[s][i] = c
<1>1. \A u \in Sets, j \in Slots :
        slot'[u][j] = IF u = s /\ j = i THEN c ELSE slot[u][j]
  BY InsertedSlots
<1>2. ProbeEnd(s, Name[c], i)
  BY DEF Insert
<1>3. ASSUME NEW j \in Slots, slot[s][j] = c PROVE j = i
  BY <1>2, <1>3, ProbeEndUnique, ComponentsAssumption DEF AllFindable
<1>4. ASSUME NEW j \in Slots, d = slot[s][i], slot[s][j] = d PROVE j = i
  BY <1>4, OnePerName, ComponentsAssumption
<1>5. \A u \in Sets : u # s => (Holds(u, d)' <=> Holds(u, d))
  BY <1>1 DEF Holds
<1>6. Holds(s, d)' <=> d = c \/ (Holds(s, d) /\ d # slot[s][i])
  BY <1>1, <1>4 DEF Holds
<1>7. Holds(s, c) <=> slot[s][i] = c
  BY <1>3 DEF Holds
<1>8. QED
  BY <1>5, <1>6, <1>7 DEF Holders

LEMMA RefsInsert ==
  ASSUME TypeOK, AllFindable, RefsExact, NEW s \in Sets, NEW c \in Components,
         NEW i \in Slots, Inserts(s, c, i)
  PROVE  RefsExact'
<1> SUFFICES ASSUME NEW d \in Components
             PROVE  refs'[d] = owned'[d] + Cardinality(Holders(d)')
  BY DEF RefsExact, Holders, Holds
<1> DEFINE old == slot[s][i]
<1>1. Insert(s, c, i, refs) /\ owned' = owned
  BY DEF Inserts
<1>2. refs[d] = owned[d] + Cardinality(Holders(d))
  BY DEF RefsExact, Holders, Holds
<1>3. /\ refs[d] \in Int /\ owned[d] \in Nat
      /\ Cardinality(Holders(d)) \in Nat /\ IsFiniteSet(Holders(d))
  BY HoldersFinite DEF TypeOK
<1>4. refs'[d] = refs[d] + (IF d = c THEN 1 ELSE 0)
                         - (IF d = old /\ old # NoComponent THEN 1 ELSE 0)
  BY <1>1 DEF TypeOK, Insert, Put, Recounted
<1>5. d # NoComponent
  BY ComponentsAssumption
<1>6. CASE d = c /\ old = c
  <2>1. Holders(d)' = Holders(d)
    BY <1>1, <1>6, HoldersInsert DEF Holders
  <2>2. QED
    BY <1>1, <1>2, <1>3, <1>4, <1>5, <1>6, <2>1
<1>7. CASE d = c /\ old # c
  <2>1. Holders(d)' = Holders(d) \cup {s} /\ s \notin Holders(d)
    BY <1>1, <1>7, HoldersInsert DEF Holders
  <2>2. Cardinality(Holders(d) \cup {s}) = Cardinality(Holders(d)) + 1
    BY <1>3, <2>1, FS_AddElement
  <2>3. QED
    BY <1>1, <1>2, <1>3, <1>4, <1>5, <1>7, <2>1, <2>2
<1>8. CASE d # c /\ d = old
  <2>1. Holders(d)' = Holders(d) \ {s} /\ s \in Holders(d)
    BY <1>1, <1>8, HoldersInsert DEF Holders, Holds
  <2>2. Cardinality(Holders(d) \ {s}) = Cardinality(Holders(d)) - 1
    BY <1>3, <2>1, FS_RemoveElement
  <2>3. QED
    BY <1>1, <1>2, <1>3, <1>4, <1>5, <1>8, <2>1, <2>2
<1>9. CASE d # c /\ d # old
  <2>1. Holders(d)' = Holders(d)
    BY <1>1, <1>9, HoldersInsert
  <2>2. QED
    BY <1>1, <1>2, <1>3, <1>4, <1>9, <2>1
<1>10. QED
  BY <1>6, <1>7, <1>8, <1>9

(* The destruction of a set releases each of its components once, as no    *)
(* component is in it twice.                                               *)
LEMMA RefsEmptied ==
  ASSUME TypeOK, AllFindable, RefsExact, NEW s \in Sets, Empties(s)
  PROVE  RefsExact'
<1> SUFFICES ASSUME NEW d \in Components
             PROVE  refs'[d] = owned'[d] + Cardinality(Holders(d)')
  BY DEF RefsExact, Holders, Holds
<1> DEFINE At == { i \in Slots : slot[s][i] = d }
<1>1. refs'[d] = refs[d] - Cardinality(At) /\ owned' = owned
  BY DEF Empties, Relinquish
<1>2. refs[d] = owned[d] + Cardinality(Holders(d))
  BY DEF RefsExact, Holders, Holds
<1>3. /\ refs[d] \in Int /\ owned[d] \in Nat
      /\ Cardinality(Holders(d)) \in Nat /\ IsFiniteSet(Holders(d))
  BY HoldersFinite DEF TypeOK
<1>4. Holders(d)' = Holders(d) \ {s}
  <2>1. \A t \in Sets, j \in Slots :
          slot'[t][j] = IF t = s THEN NoComponent ELSE slot[t][j]
    BY RelinquishedSlots DEF Empties
  <2>2. \A t \in Sets : Holds(t, d)' <=> t # s /\ Holds(t, d)
    BY <2>1, ComponentsAssumption DEF Holds
  <2>3. QED
    BY <2>2 DEF Holders
<1>5. CASE Holds(s, d)
  <2>1. PICK i \in Slots : slot[s][i] = d
    BY <1>5 DEF Holds
  <2>2. \A j \in Slots : slot[s][j] = d => j = i
    BY <2>1, OnePerName, ComponentsAssumption
  <2>3. Cardinality(At) = 1
    <3>1. At = {i}
      BY <2>1, <2>2
    <3>2. QED
      BY <3>1, FS_Singleton
  <2>4. Cardinality(Holders(d) \ {s}) = Cardinality(Holders(d)) - 1
    BY <1>3, <1>5, FS_RemoveElement DEF Holders
  <2> HIDE DEF At
  <2>5. QED
    BY <1>1, <1>2, <1>3, <1>4, <2>3, <2>4
<1>6. CASE ~Holds(s, d)
  <2>1. s \notin Holders(d)
    BY <1>6 DEF Holders
  <2>2. Cardinality(Holders(d)') = Cardinality(Holders(d))
    <3>1. Holders(d) \ {s} = Holders(d)
      BY <2>1
    <3>2. QED
      BY <1>4, <3>1
  <2>3. At = {}
    BY <1>6 DEF Holds
  <2>4. Cardinality(At) = 0
    BY <2>3, FS_EmptySet
  <2> HIDE DEF At
  <2>5. QED
    BY <1>1, <1>2, <1>3, <2>2, <2>4
<1>7. QED
  BY <1>5, <1>6

LEMMA RefsStep ==
  TypeOK /\ TypeOK' /\ AllFindable /\ RefsExact /\ [Next]_vars => RefsExact'
<1> SUFFICES ASSUME TypeOK, TypeOK', AllFindable, RefsExact, [Next]_vars
             PROVE  RefsExact'
  OBVIOUS
<1>1. ASSUME Quiet, NEW c \in Components
      PROVE  refs'[c] = owned'[c] + Cardinality(Holders(c)')
  <2>1. Holders(c)' = Holders(c)
    BY <1>1 DEF Quiet, Holders, Holds
  <2>2. refs[c] = owned[c] + Cardinality(Holders(c))
    BY DEF RefsExact, Holders, Holds
  <2>3. /\ refs[c] \in Int /\ owned[c] \in Nat
        /\ refs'[c] \in Int /\ owned'[c] \in Nat
        /\ Cardinality(Holders(c)) \in Nat
    BY <1>1, HoldersFinite DEF TypeOK
  <2>4. refs[c] = 0 => owned[c] = 0
    BY <2>2, <2>3
  <2>5. refs'[c] - owned'[c] = refs[c] - owned[c]
    BY <1>1, <2>4 DEF Quiet
  <2>6. QED
    BY <2>1, <2>2, <2>3, <2>5
<1>2. ASSUME NEW s \in Sets, NEW c \in Components, NEW i \in Slots,
             Inserts(s, c, i)
      PROVE  RefsExact'
  BY <1>2, RefsInsert
<1>3. ASSUME NEW s \in Sets, Empties(s) PROVE RefsExact'
  BY <1>3, RefsEmptied
<1>4. CASE Quiet
  BY <1>1, <1>4 DEF RefsExact, Holders, Holds
<1>5. QED
  BY <1>2, <1>3, <1>4, StepKinds

(* The reference count of a component is exactly the number of callers and *)
(* sets that hold it, so a component is freed when, and only when, nothing *)
(* can reach it any more.                                                  *)
THEOREM ReferencesCorrect == Spec => []RefsExact
<1>1. TypeOK /\ TypeOK' /\ AllFindable /\ RefsExact /\ [Next]_vars => RefsExact'
  BY RefsStep
<1>2. QED
  BY <1>1, RefsInit, TypeCorrect, LookupCorrect, PTL DEF Spec

(***************************************************************************)
(* Sets as maps.                                                           *)
(***************************************************************************)
Held(s) == { c \in Components : Finds(s, Name[c], c) }

LEMMA HeldIsHolds ==
  ASSUME TypeOK, AllFindable, NEW s \in Sets
  PROVE  Held(s) = { c \in Components : Holds(s, c) }
BY FoundIsHeld DEF Held, Holds

LEMMA HeldInsert ==
  ASSUME TypeOK, AllFindable, NEW s \in Sets, NEW c \in Components,
         NEW i \in Slots, Insert(s, c, i, refs)
  PROVE  \A t \in Sets, d \in Components :
           Holds(t, d)' <=> IF t = s
                            THEN d = c \/ (Holds(s, d) /\ Name[d] # Name[c])
                            ELSE Holds(t, d)
<1>1. \A t \in Sets, j \in Slots :
        slot'[t][j] = IF t = s /\ j = i THEN c ELSE slot[t][j]
  BY InsertedSlots
<1>2. ProbeEnd(s, Name[c], i)
  BY DEF Insert
<1>3. ASSUME NEW d \in Components, NEW j \in Slots, slot[s][j] = d
      PROVE  j = i <=> Name[d] = Name[c]
  <2>1. d # NoComponent
    BY ComponentsAssumption
  <2>2. ProbeEnd(s, Name[d], j)
    BY <1>3, <2>1 DEF AllFindable
  <2>3. QED
    BY <1>2, <1>3, <2>1, <2>2, ProbeEndUnique DEF ProbeEnd, Stops
<1>4. ASSUME NEW d \in Components
      PROVE  Holds(s, d)' <=> d = c \/ (Holds(s, d) /\ Name[d] # Name[c])
  BY <1>1, <1>3 DEF Holds
<1>5. QED
  BY <1>1, <1>4 DEF Holds

LEMMA MapStep ==
  ASSUME TypeOK, AllFindable, TypeOK', AllFindable', [Next]_vars
  PROVE  [Map!MapNext]_([ s \in Sets |-> Held(s) ])
<1> DEFINE holds == [ s \in Sets |-> Held(s) ]
<1>1. \A s \in Sets : Held(s) = { c \in Components : Holds(s, c) }
  BY HeldIsHolds
<1>2. \A s \in Sets : Held(s)' = { c \in Components : Holds(s, c)' }
  <2>1. \A s \in Sets, c \in Components :
          Finds(s, Name[c], c)' <=> \E i \in Slots : slot'[s][i] = c
    BY ComponentsAssumption DEF Finds, AllFindable
  <2>2. QED
    BY <2>1 DEF Held, Holds
<1>3. CASE Quiet
  <2>1. \A s \in Sets : Held(s)' = Held(s)
    BY <1>1, <1>2, <1>3 DEF Quiet, Holds
  <2>2. QED
    BY <2>1
<1>4. ASSUME NEW s \in Sets, NEW c \in Components, NEW i \in Slots,
             Inserts(s, c, i)
      PROVE  Map!MapNext
  <2>1. \A t \in Sets, d \in Components :
          Holds(t, d)' <=> IF t = s
                           THEN d = c \/ (Holds(s, d) /\ Name[d] # Name[c])
                           ELSE Holds(t, d)
    BY <1>4, HeldInsert DEF Inserts
  <2>2. \A t \in Sets :
          Held(t)' = IF t = s
                     THEN { d \in Held(s) : Name[d] # Name[c] } \cup {c}
                     ELSE Held(t)
    BY <1>1, <1>2, <2>1
  <2>3. Map!Bind(s, c)
    BY <2>2 DEF Map!Bind, Held
  <2>4. QED
    BY <2>3 DEF Map!MapNext
<1>5. ASSUME NEW s \in Sets, Empties(s) PROVE Map!MapNext
  <2>1. \A t \in Sets, j \in Slots :
          slot'[t][j] = IF t = s THEN NoComponent ELSE slot[t][j]
    BY <1>5, RelinquishedSlots DEF Empties
  <2>2. \A t \in Sets : Held(t)' = IF t = s THEN {} ELSE Held(t)
    BY <1>1, <1>2, <2>1, ComponentsAssumption DEF Holds
  <2>3. Map!Clear(s)
    BY <2>2 DEF Map!Clear, Held
  <2>4. QED
    BY <2>3 DEF Map!MapNext
<1>6. QED
  BY <1>3, <1>4, <1>5, StepKinds

(* To its callers a component set is a map from names to components: every *)
(* step of the table is a binding of one name, the emptying of one set, or *)
(* cannot be seen.                                                         *)
THEOREM MapImplemented == Spec => ImplementsMap
<1>1. Init => Map!MapInit
  BY ComponentsAssumption DEF Init, Map!MapInit, Finds
<1>2. TypeOK /\ AllFindable /\ TypeOK' /\ AllFindable' /\ [Next]_vars
        => [Map!MapNext]_([ s \in Sets |-> Held(s) ])
  BY MapStep
<1>3. QED
  BY <1>1, <1>2, TypeCorrect, LookupCorrect, PTL
  DEF Spec, ImplementsMap, Map!MapSpec, Held

(***************************************************************************)
(* The loops over a set.                                                   *)
(***************************************************************************)

(* What the loop of call has to have done about the component d it passed. *)
Provided(d) ==
  IF call.kind = "transplant" THEN Finds(call.into, Name[d], d)
  ELSE ~Absent(call.into, Name[d])

(* The loop goes on with the next bucket.                                  *)
GoesOn ==
  /\ call'.into = call.into /\ call'.from = call.from
  /\ call'.kind = call.kind /\ call'.takeNew = call.takeNew
  /\ call'.next = call.next + 1

LEMMA LoopTypes ==
  ASSUME TypeOK, Looping
  PROVE  /\ call \in LoopCall
         /\ call.into \in Sets /\ call.from \in Sets /\ call.next \in Nat
BY BucketsAssumption DEF TypeOK, Looping, LoadCall, LoopCall

(* A turn that takes the new component c of its bucket keeps what the ones *)
(* before it provided, and provides c.                                     *)
LEMMA ShareProvides ==
  ASSUME TypeOK, AllFindable, TypeOK', AllFindable', NothingLeftBehind,
         Looping, call.takeNew, NEW c \in Components, AtBucket(c),
         NEW i \in Slots, Insert(call.into, c, i, refs), GoesOn
  PROVE  NothingLeftBehind'
<1> DEFINE into == call.into
           from == call.from
<1>1. /\ into \in Sets /\ from \in Sets /\ call.next \in Nat
      /\ call \in LoopCall
  BY LoopTypes
<1>2. /\ call'.into = into /\ call'.from = from /\ call'.kind = call.kind
      /\ call'.takeNew = call.takeNew /\ call'.next = call.next + 1
  BY DEF GoesOn
<1>3. /\ call.next \in Slots /\ slot[from][call.next] = c
      /\ ProbeEnd(into, Name[c], i) /\ c # NoComponent
  BY <1>1, BucketsAssumption, ComponentsAssumption DEF AtBucket, Insert, Slots
<1>4. \A t \in Sets, j \in Slots :
        slot'[t][j] = IF t = into /\ j = i THEN c ELSE slot[t][j]
  BY <1>1, InsertedSlots
<1>5. slot'[from] = slot[from]
  <2>1. CASE from # into
    BY <1>1, <1>4, <2>1 DEF TypeOK
  <2>2. CASE from = into
    <3>1. i = call.next
      BY <1>1, <1>3, <2>2, ProbeEndUnique DEF AllFindable
    <3>2. \A j \in Slots : slot'[from][j] = slot[from][j]
      BY <1>1, <1>3, <1>4, <3>1
    <3>3. QED
      BY <1>1, <3>2 DEF TypeOK
  <2>3. QED
    BY <2>1, <2>2
<1>6. \A d \in Components :
        Finds(into, Name[d], d)'
          <=> d = c \/ (Finds(into, Name[d], d) /\ Name[d] # Name[c])
  <2>1. \A d \in Components :
          Holds(into, d)' <=> d = c \/ (Holds(into, d) /\ Name[d] # Name[c])
    BY <1>1, <1>2, HeldInsert
  <2>2. \A d \in Components : Finds(into, Name[d], d) <=> Holds(into, d)
    BY <1>1, FoundIsHeld DEF Holds
  <2>3. \A d \in Components :
          Finds(into, Name[d], d)' <=> \E j \in Slots : slot'[into][j] = d
    BY <1>1, <1>2, ComponentsAssumption DEF Finds, AllFindable
  <2>4. \A d \in Components : Holds(into, d)' <=> \E j \in Slots : slot'[into][j] = d
    BY <1>2 DEF Holds
  <2>5. QED
    BY <2>1, <2>2, <2>3, <2>4
<1>7. Finds(into, Name[c], c)'
  BY <1>6
<1>8. ASSUME NEW d \in Components, NEW j \in Slots, j < call.next,
             slot[from][j] = d
      PROVE  Provided(d)'
  <2>1. d # NoComponent
    BY ComponentsAssumption
  <2>2. CASE call.kind = "transplant"
    <3>1. Finds(into, Name[d], d)
      BY <1>8, <2>1, <2>2 DEF NothingLeftBehind
    <3>2. Name[d] # Name[c]
      BY <1>1, <1>3, <1>8, <2>1, OnePerName
    <3>3. Finds(into, Name[d], d)'
      BY <1>6, <3>1, <3>2
    <3>4. QED
      BY <1>2, <2>2, <3>3 DEF Provided
  <2>3. CASE call.kind # "transplant"
    <3>1. PICK e \in Components : Finds(into, Name[d], e)
      BY <1>8, <2>1, <2>3 DEF NothingLeftBehind, Absent
    <3>2. Name[e] = Name[d]
      BY <3>1 DEF Finds, ProbeEnd, Stops
    <3>3. CASE Name[d] = Name[c]
      BY <1>2, <1>7, <2>3, <3>3 DEF Provided, Absent
    <3>4. CASE Name[d] # Name[c]
      <4>1. Finds(into, Name[e], e)'
        BY <1>6, <3>1, <3>2, <3>4
      <4>2. QED
        BY <1>2, <2>3, <3>2, <4>1 DEF Provided, Absent
    <3>5. QED
      BY <3>3, <3>4
  <2>4. QED
    BY <2>2, <2>3
<1>9. Provided(c)'
  BY <1>2, <1>7 DEF Provided, Absent
<1>10. ASSUME NEW j \in Slots, j < call'.next, slot'[from][j] # NoComponent
       PROVE  Provided(slot[from][j])'
  <2>1. PICK d \in Components : d = slot[from][j] /\ d = slot'[from][j]
    BY <1>1, <1>5, <1>10 DEF TypeOK
  <2>2. j < call.next \/ j = call.next
    BY <1>1, <1>2, <1>10 DEF Slots
  <2>3. Provided(d)'
    BY <1>3, <1>8, <1>9, <2>1, <2>2
  <2>4. QED
    BY <1>2, <2>1, <2>3
<1>11. QED
  BY <1>2, <1>10 DEF NothingLeftBehind, Provided

(* A turn that leaves the sets alone may only pass a bucket the target has *)
(* been seen to provide for.                                               *)
LEMMA PassProvides ==
  ASSUME TypeOK, NothingLeftBehind, Looping, call.takeNew, call.next < Buckets,
         slot[call.from][call.next] # NoComponent
           => Provided(slot[call.from][call.next]),
         UNCHANGED slot, GoesOn
  PROVE  NothingLeftBehind'
<1>1. /\ call \in LoopCall /\ call.next \in Nat
      /\ call.from \in Sets /\ call.into \in Sets
  BY LoopTypes
<1>2. /\ call'.into = call.into /\ call'.from = call.from
      /\ call'.kind = call.kind /\ call'.takeNew = call.takeNew
      /\ call'.next = call.next + 1
  BY DEF GoesOn
<1>3. ASSUME NEW j \in Slots, j < call'.next, slot[call.from][j] # NoComponent
      PROVE  Provided(slot[call.from][j])
  <2>1. j < call.next \/ j = call.next
    BY <1>1, <1>2, <1>3 DEF Slots
  <2>2. QED
    BY <1>3, <2>1 DEF NothingLeftBehind, Provided
<1>4. QED
  BY <1>2, <1>3 DEF NothingLeftBehind, Provided, Finds, Absent, ProbeEnd, Stops

LEMMA LoopStep ==
  TypeOK /\ AllFindable /\ TypeOK' /\ AllFindable' /\ NothingLeftBehind
    /\ [Next]_vars => NothingLeftBehind'
<1> SUFFICES ASSUME TypeOK, AllFindable, TypeOK', AllFindable',
                    NothingLeftBehind, [Next]_vars,
                    Looping', call'.takeNew
             PROVE  NothingLeftBehind'
  BY DEF NothingLeftBehind
<1>1. CASE UNCHANGED << slot, call >>
  BY <1>1 DEF NothingLeftBehind, Looping, Finds, Absent, ProbeEnd, Stops
<1>2. ASSUME NEW into \in Sets, NEW from \in Sets, NEW new \in BOOLEAN,
             \/ MergeComponents(into, from, new)
             \/ Transplant(into, from)
      PROVE  NothingLeftBehind'
  <2>1. call'.next = 0
    BY <1>2 DEF MergeComponents, Transplant, StartCall, Looping
  <2>2. QED
    BY <2>1 DEF NothingLeftBehind, Slots
<1>3. ASSUME Looping, NEW rc, Turn(rc)
      PROVE  GoesOn /\ call.takeNew
  BY <1>3, LoopTypes DEF Turn, Looping, LoopCall, GoesOn
<1>4. CASE SkipBucket
  <2>1. /\ Looping /\ Turn("NONE") /\ call.next < Buckets
        /\ UNCHANGED slot
        /\ slot[call.from][call.next] = NoComponent \/ ~call.takeNew
    BY <1>4 DEF SkipBucket, AtBucket
  <2>2. QED
    BY <1>3, <2>1, PassProvides
<1>5. ASSUME NEW c \in Components, NEW target \in Components,
             MergeInto(c, target)
      PROVE  NothingLeftBehind'
  <2>1. /\ Looping /\ call.next < Buckets /\ UNCHANGED slot
        /\ call.kind = "merge" /\ slot[call.from][call.next] = c
        /\ Finds(call.into, Name[c], target)
    BY <1>5 DEF MergeInto, AtBucket
  <2>2. PICK rc : Turn(rc)
    BY <1>5 DEF MergeInto
  <2>3. Provided(c)
    BY <2>1 DEF Provided, Absent
  <2>4. QED
    BY <1>3, <2>1, <2>2, <2>3, PassProvides
<1>6. ASSUME NEW c \in Components, ShareComponent(c) PROVE NothingLeftBehind'
  <2>1. Looping /\ AtBucket(c)
    BY <1>6 DEF ShareComponent, AtBucket
  <2>2. ~Turn("ERROR")
    BY DEF Turn, Looping
  <2>3. /\ Turn("MODIFIED")
        /\ \E i \in Slots : Insert(call.into, c, i, refs)
    BY <1>6, <2>2 DEF ShareComponent
  <2>4. QED
    BY <1>3, <2>1, <2>3, ShareProvides
<1>7. call' # NoCall /\ call'.kind # "load"
  BY DEF Looping
<1>8. CASE Idle /\ UNCHANGED call
  BY <1>7, <1>8 DEF Idle
<1>9. CASE Loading /\ UNCHANGED call
  BY <1>7, <1>9 DEF Loading
<1>10. ASSUME NEW s \in Sets, StartLoad(s) PROVE FALSE
  BY <1>7, <1>10 DEF StartLoad
<1>11. CASE call' = NoCall
  BY <1>7, <1>11
<1>12. QED
  BY <1>1, <1>2, <1>4, <1>5, <1>6, <1>8, <1>9, <1>10, <1>11
  DEF Next, vars, NewComponent, TakeComponent, ReleaseComponent, NewSet,
      AcquireSet, ReleaseSet, InsertComponent, FindOrCreate, ReturnFromLoop,
      LoadComponent, FailLoad, FinishLoad

(* What a merge that takes new components, or a transplant, has walked     *)
(* past is in the target set, up to the last bucket, whatever collides and *)
(* even where both sets are the same.                                      *)
THEOREM LoopsComplete == Spec => []NothingLeftBehind
<1>1. Init => NothingLeftBehind
  BY DEF Init, NothingLeftBehind, Looping
<1>2. TypeOK /\ AllFindable /\ TypeOK' /\ AllFindable' /\ NothingLeftBehind
        /\ [Next]_vars => NothingLeftBehind'
  BY LoopStep
<1>3. QED
  BY <1>1, <1>2, TypeCorrect, LookupCorrect, PTL DEF Spec

(* For any hashes, sizes and calls the sets are well typed, counted right  *)
(* and find what is in them (lcfgcompset_insert_component).                *)
THEOREM SetsCorrect == Spec => []WellFormed
<1>1. TypeOK /\ AllFindable /\ EntriesExact => WellFormed
  BY DEF WellFormed
<1> QED BY <1>1, TypeCorrect, LookupCorrect, CountCorrect, PTL
=============================================================================
