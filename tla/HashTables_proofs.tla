-------------------------- MODULE HashTables_proofs ---------------------------
(***************************************************************************)
(* The two hash tables that grow.                                          *)
(*                                                                         *)
(* The table of a component: it always has room, for every number of       *)
(* entries and every default size, and an array is shorter than the table  *)
(* only where a copy was made for more names than the default size holds.  *)
(*                                                                         *)
(* The table of a package set, for every set of packages, every hash and   *)
(* every initial size: what it counts is right, only a hole that a removal *)
(* has left hides a list, growing it ends the process only for a conflict, *)
(* and to its callers it is a map wherever no list is hidden.              *)
(***************************************************************************)
EXTENDS ComponentTable, PackageSet, PackageMerge_proofs

(***************************************************************************)
(* The sizes of the table of a component.                                  *)
(***************************************************************************)
(* The state is typed and no table is overloaded: the load factor stays    *)
(* below LCFG_COMP_LOAD_MAX between two calls.  HasRoom alone is not       *)
(* inductive: one more entry could fill the table.                         *)
NotOverloaded == \A c \in Components : ~Overloaded(inUse[c], buckets[c])

(* The size after a resize: it is a size, and enough for the entries.      *)
LEMMA NewSizeEnough ==
  ASSUME NEW e \in Nat, NEW b \in Nat \ {0}
  PROVE  /\ NewSize(e, b) \in Nat \ {0}
         /\ NewSize(e, b) >= b
         /\ ~Overloaded(e, NewSize(e, b))
  BY DEF NewSize, Overloaded, WantBuckets

(* The size a copy starts with.                                            *)
LEMMA PresizedEnough ==
  ASSUME NEW w \in Nat
  PROVE  /\ Presized(w) \in Nat \ {0}
         /\ \A e \in 0 .. w : ~Overloaded(e, Presized(w))
         /\ NewSize(0, Presized(w)) = Presized(w)
         /\ ArrayAfter(DefaultSize, 0, Presized(w)) = DefaultSize
  BY DefaultSizeAssumption
  DEF Presized, NewSize, ArrayAfter, Overloaded, WantBuckets

(* A component that select or clone has presized for w names needs no      *)
(* resize while w names are inserted one by one: as the comment in select  *)
(* says, the call "should not be strictly necessary".                      *)
THEOREM PresizedSuffices ==
  ASSUME NEW w \in Nat, NEW e \in 0 .. w
  PROVE  NewSize(e, Presized(w)) = Presized(w)
  BY PresizedEnough DEF NewSize

LEMMA TableInitSound == TableInit => SizesOK /\ NotOverloaded
  BY DefaultSizeAssumption DEF TableInit, SizesOK, NotOverloaded, Overloaded

(* What a step that makes a copy of e of w names does.                     *)
LEMMA CopySound ==
  ASSUME SizesOK, NotOverloaded, NEW new \in Components,
         NEW w \in Nat, NEW e \in 0 .. w, Copy(new, w, e)
  PROVE  SizesOK' /\ NotOverloaded'
<1>1. /\ Presized(w) \in Nat \ {0}
      /\ ~Overloaded(e, Presized(w))
      /\ NewSize(0, Presized(w)) = Presized(w)
      /\ ArrayAfter(DefaultSize, 0, Presized(w)) = DefaultSize
  BY PresizedEnough
<1>2. SizesOK'
  BY <1>1, DefaultSizeAssumption DEF Copy, SizesOK
<1>3. \A c \in Components : ~Overloaded(inUse'[c], buckets'[c])
  BY <1>1 DEF Copy, SizesOK, NotOverloaded
<1> QED BY <1>2, <1>3 DEF NotOverloaded, Overloaded

LEMMA TableNextSound ==
  ASSUME SizesOK, NotOverloaded, [TableNext]_tableVars
  PROVE  SizesOK' /\ NotOverloaded'
<1>1. ASSUME NEW c \in Components, New(c)
      PROVE  SizesOK' /\ NotOverloaded'
  BY <1>1, DefaultSizeAssumption DEF New, SizesOK, NotOverloaded, Overloaded
<1>2. ASSUME NEW c \in Components, AddName(c)
      PROVE  SizesOK' /\ NotOverloaded'
  <2> DEFINE e == inUse[c] + 1
             b == NewSize(e, buckets[c])
  <2>1. e \in Nat /\ b \in Nat \ {0} /\ b >= buckets[c] /\ ~Overloaded(e, b)
    BY NewSizeEnough DEF SizesOK
  <2>2. ArrayAfter(allocated[c], e, buckets[c]) \in Nat \ {0}
    BY <2>1 DEF ArrayAfter, SizesOK
  <2>3. /\ inUse' = [ inUse EXCEPT ![c] = e ]
        /\ buckets' = [ buckets EXCEPT ![c] = b ]
        /\ allocated' = [ allocated EXCEPT
                            ![c] = ArrayAfter(allocated[c], e, buckets[c]) ]
        /\ live' = live
        /\ wanted' = [ wanted EXCEPT
                         ![c] = IF b > buckets[c] THEN 0 ELSE wanted[c] ]
    BY <1>2 DEF AddName
  <2> HIDE DEF e, b
  <2>4. SizesOK'
    BY <2>1, <2>2, <2>3 DEF SizesOK
  <2>5. \A k \in Components : ~Overloaded(inUse'[k], buckets'[k])
    BY <2>1, <2>3 DEF SizesOK, NotOverloaded
  <2> QED BY <2>4, <2>5 DEF NotOverloaded, Overloaded
<1>3. ASSUME NEW c \in Components, RemoveAllResources(c)
      PROVE  SizesOK' /\ NotOverloaded'
  BY <1>3 DEF RemoveAllResources, SizesOK, NotOverloaded, Overloaded
<1>4. ASSUME NEW c \in Components, Destroy(c)
      PROVE  SizesOK' /\ NotOverloaded'
  BY <1>4 DEF Destroy, SizesOK, NotOverloaded, Overloaded
<1>5. ASSUME NEW c \in Components, NEW new \in Components, Clone(c, new)
      PROVE  SizesOK' /\ NotOverloaded'
  <2>1. inUse[c] \in Nat /\ inUse[c] \in 0 .. inUse[c]
    BY DEF SizesOK
  <2>2. Copy(new, inUse[c], inUse[c])
    BY <1>5 DEF Clone
  <2> QED BY <2>1, <2>2, CopySound
<1>6. ASSUME NEW c \in Components, NEW new \in Components,
             NEW w \in 0 .. MaxCopied, NEW e \in 0 .. w, Select(c, new, w, e)
      PROVE  SizesOK' /\ NotOverloaded'
  <2>1. w \in Nat
    BY BoundsAssumption
  <2>2. Copy(new, w, e)
    BY <1>6 DEF Select
  <2> QED BY <2>1, <2>2, CopySound
<1>7. CASE UNCHANGED tableVars
  BY <1>7 DEF tableVars, SizesOK, NotOverloaded, Overloaded
<1> QED BY <1>1, <1>2, <1>3, <1>4, <1>5, <1>6, <1>7 DEF TableNext

(* The sizes are sizes, whatever is called (the fields of LCFGComponent).  *)
THEOREM SizesTyped == TableSpec => []SizesOK
<1>1. TableInit => SizesOK /\ NotOverloaded
  BY TableInitSound
<1>2. (SizesOK /\ NotOverloaded) /\ [TableNext]_tableVars => (SizesOK /\ NotOverloaded)'
  BY TableNextSound
<1> QED BY <1>1, <1>2, PTL DEF TableSpec

(* Some bucket of every component is free between two calls: no merge is   *)
(* refused for want of space (lcfgcomponent_find_bucket always finds one). *)
THEOREM AlwaysRoom == TableSpec => []HasRoom
<1>1. TableInit => SizesOK /\ NotOverloaded
  BY TableInitSound
<1>2. (SizesOK /\ NotOverloaded) /\ [TableNext]_tableVars => (SizesOK /\ NotOverloaded)'
  BY TableNextSound
<1>3. SizesOK /\ NotOverloaded => HasRoom
  <2> SUFFICES ASSUME SizesOK, NotOverloaded, NEW c \in live
               PROVE  inUse[c] < buckets[c]
    BY DEF HasRoom
  <2>1. inUse[c] \in Nat /\ buckets[c] \in Nat /\ c \in Components
    BY DEF SizesOK
  <2> QED BY <2>1 DEF NotOverloaded, Overloaded
<1> QED BY <1>1, <1>2, <1>3, PTL DEF TableSpec

(* Whatever is cloned, selected and merged, a component has an array with  *)
(* a place for each of its buckets, except where clone or select counted   *)
(* the buckets for more names than the default size is meant for and it    *)
(* has not grown since: then it has the default array and too many buckets *)
(* (lcfgcomponent_clone, lcfgcomponent_select, lcfgcomponent_resize).      *)
THEOREM ArraysShortOnlyWhenPresized == TableSpec => []ArrayShortOnlyWhenPresized
<1> DEFINE Fits(c) == IF WantBuckets(wanted[c]) <= DefaultSize
                      THEN allocated[c] = buckets[c]
                      ELSE /\ allocated[c] = DefaultSize
                           /\ buckets[c] = WantBuckets(wanted[c])
<1>0. WantBuckets(0) <= DefaultSize
  BY DefaultSizeAssumption DEF WantBuckets
<1>1. TableInit => SizesOK /\ NotOverloaded /\ ArrayShortOnlyWhenPresized
  BY TableInitSound DEF TableInit, ArrayShortOnlyWhenPresized
<1>2. ASSUME SizesOK, NotOverloaded, ArrayShortOnlyWhenPresized, [TableNext]_tableVars
      PROVE  ArrayShortOnlyWhenPresized'
  <2> USE <1>2
  <2>1. ASSUME NEW new \in Components, NEW w \in Nat, NEW e \in 0 .. w,
               Copy(new, w, e)
        PROVE  ArrayShortOnlyWhenPresized'
    <3>1. /\ NewSize(0, Presized(w)) = Presized(w)
          /\ ArrayAfter(DefaultSize, 0, Presized(w)) = DefaultSize
      BY PresizedEnough
    <3>2. /\ wanted' = [ wanted EXCEPT ![new] = w ]
          /\ buckets' = [ buckets EXCEPT ![new] = Presized(w) ]
          /\ allocated' = [ allocated EXCEPT ![new] = DefaultSize ]
          /\ live' = live \cup {new}
      BY <2>1, <3>1 DEF Copy
    <3>3. Fits(new)'
      BY <3>2, DefaultSizeAssumption DEF SizesOK, Presized, WantBuckets
    <3>4. ASSUME NEW c \in live, c # new
          PROVE  Fits(c)'
      BY <3>2, <3>4 DEF SizesOK, ArrayShortOnlyWhenPresized
    <3> QED BY <3>2, <3>3, <3>4 DEF ArrayShortOnlyWhenPresized
  <2>2. ASSUME NEW c \in Components, AddName(c)
        PROVE  ArrayShortOnlyWhenPresized'
    <3> DEFINE e == inUse[c] + 1
               b == NewSize(e, buckets[c])
    <3>1. e \in Nat /\ b \in Nat \ {0} /\ b >= buckets[c]
      BY NewSizeEnough DEF SizesOK
    <3>2. /\ live' = live /\ c \in live
          /\ buckets' = [ buckets EXCEPT ![c] = b ]
          /\ allocated' = [ allocated EXCEPT
                              ![c] = IF b > buckets[c] THEN b ELSE allocated[c] ]
          /\ wanted' = [ wanted EXCEPT
                           ![c] = IF b > buckets[c] THEN 0 ELSE wanted[c] ]
      BY <2>2 DEF AddName, ArrayAfter
    <3> HIDE DEF e, b
    <3>3. Fits(c)'
      <4>1. CASE b > buckets[c]
        BY <1>0, <3>1, <3>2, <4>1 DEF SizesOK
      <4>2. CASE ~(b > buckets[c])
        <5>1. b = buckets[c]
          BY <3>1, <4>2 DEF SizesOK
        <5> QED BY <3>2, <4>2, <5>1 DEF SizesOK, ArrayShortOnlyWhenPresized
      <4> QED BY <4>1, <4>2
    <3>4. ASSUME NEW k \in live, k # c
          PROVE  Fits(k)'
      BY <3>2, <3>4 DEF SizesOK, ArrayShortOnlyWhenPresized
    <3> QED BY <3>2, <3>3, <3>4 DEF ArrayShortOnlyWhenPresized
  <2>3. ASSUME NEW c \in Components, New(c)
        PROVE  ArrayShortOnlyWhenPresized'
    BY <1>0, <2>3 DEF New, ArrayShortOnlyWhenPresized, SizesOK
  <2>4. ASSUME NEW c \in Components, RemoveAllResources(c) \/ Destroy(c)
        PROVE  ArrayShortOnlyWhenPresized'
    BY <2>4 DEF RemoveAllResources, Destroy, ArrayShortOnlyWhenPresized, SizesOK
  <2>5. ASSUME NEW c \in Components, NEW new \in Components, Clone(c, new)
        PROVE  ArrayShortOnlyWhenPresized'
    <3>1. /\ inUse[c] \in Nat
          /\ inUse[c] \in 0 .. inUse[c]
          /\ Copy(new, inUse[c], inUse[c])
      BY <2>5 DEF Clone, SizesOK
    <3> QED BY <2>1, <3>1
  <2>6. ASSUME NEW c \in Components, NEW new \in Components,
               NEW w \in 0 .. MaxCopied, NEW e \in 0 .. w, Select(c, new, w, e)
        PROVE  ArrayShortOnlyWhenPresized'
    <3>1. w \in Nat /\ Copy(new, w, e)
      BY <2>6, BoundsAssumption DEF Select
    <3> QED BY <2>1, <3>1
  <2>7. CASE UNCHANGED tableVars
    BY <2>7 DEF tableVars, ArrayShortOnlyWhenPresized
  <2> QED BY <2>2, <2>3, <2>4, <2>5, <2>6, <2>7 DEF TableNext
<1>3. SizesOK /\ NotOverloaded /\ ArrayShortOnlyWhenPresized /\ [TableNext]_tableVars
        => (SizesOK /\ NotOverloaded /\ ArrayShortOnlyWhenPresized)'
  BY <1>2, TableNextSound
<1> QED BY <1>1, <1>3, PTL DEF TableSpec

(* For any default size and calls the sizes are sizes and a bucket is free *)
(* (lcfgcomponent_resize).                                                 *)
THEOREM TablesCorrect == TableSpec => []SizesSound
<1>1. SizesOK /\ HasRoom => SizesSound
  BY DEF SizesSound
<1> QED BY <1>1, SizesTyped, AlwaysRoom, PTL

(***************************************************************************)
(* The tables of a package set: some buckets, each with a list.            *)
(***************************************************************************)
Tables == UNION { [0 .. b - 1 -> Seq(Packages)] : b \in Nat \ {0} }

LEMMA TableSize ==
  ASSUME NEW b \in Nat \ {0}, NEW S, NEW t \in [0 .. b - 1 -> S]
  PROVE  Buckets(t) = b /\ DOMAIN t = 0 .. b - 1 /\ IsFiniteSet(DOMAIN t)
<1>1. DOMAIN t = 0 .. b - 1
  OBVIOUS
<1>2. b - 1 \in Int /\ 0 \in Int /\ ~(0 > b - 1) /\ (b - 1) - 0 + 1 = b
  OBVIOUS
<1>3. /\ IsFiniteSet(0 .. b - 1)
      /\ Cardinality(0 .. b - 1) = IF 0 > b - 1 THEN 0 ELSE (b - 1) - 0 + 1
  BY <1>2, FS_Interval
<1> QED BY <1>1, <1>2, <1>3 DEF Buckets

LEMMA TableShape ==
  ASSUME NEW t \in Tables
  PROVE  /\ Buckets(t) \in Nat \ {0} /\ DOMAIN t = 0 .. Buckets(t) - 1
         /\ IsFiniteSet(DOMAIN t) /\ DOMAIN t \subseteq Nat
         /\ \A i \in DOMAIN t : t[i] \in Seq(Packages)
         /\ t \in [0 .. Buckets(t) - 1 -> Seq(Packages)]
<1>1. PICK b \in Nat \ {0} : t \in [0 .. b - 1 -> Seq(Packages)]
  BY DEF Tables
<1>2. Buckets(t) = b /\ DOMAIN t = 0 .. b - 1 /\ IsFiniteSet(DOMAIN t)
  BY <1>1, TableSize
<1> QED BY <1>1, <1>2

LEMMA FirstOfList ==
  ASSUME NEW s \in Seq(Packages)
  PROVE  /\ DOMAIN s = 1 .. Len(s) /\ Len(s) \in Nat
         /\ \A k \in DOMAIN s : s[k] \in Packages
         /\ s # << >> <=> DOMAIN s # {}
         /\ s # << >> => 1 \in DOMAIN s /\ s[1] \in Packages /\ s[1].name \in Names
<1>1. DOMAIN s = 1 .. Len(s) /\ Len(s) \in Nat
      /\ \A k \in 1 .. Len(s) : s[k] \in Packages
  BY LenProperties
<1>2. s # << >> <=> Len(s) # 0
  BY EmptySeq
<1>3. Len(s) # 0 <=> 1 \in 1 .. Len(s)
  BY <1>1
<1>4. 1 .. Len(s) # {} <=> 1 \in 1 .. Len(s)
  BY <1>1
<1> QED BY <1>1, <1>2, <1>3, <1>4 DEF Names

(***************************************************************************)
(* Probing.                                                                *)
(***************************************************************************)
LEMMA HomeIsBucket ==
  ASSUME NEW t \in Tables, NEW n \in Names
  PROVE  Home(t, n) \in Nat /\ Home(t, n) \in DOMAIN t
<1>1. Buckets(t) \in Nat \ {0} /\ DOMAIN t = 0 .. Buckets(t) - 1
  BY TableShape
<1>2. Hash[n] \in Nat
  BY HashAssumption
<1>3. Home(t, n) = Hash[n] % Buckets(t)
  BY DEF Home
<1>4. Hash[n] % Buckets(t) \in 0 .. Buckets(t) - 1
  BY <1>1, <1>2
<1>5. 0 .. Buckets(t) - 1 \subseteq Nat
  BY <1>1
<1> QED BY <1>1, <1>3, <1>4, <1>5

LEMMA ProbesOrdered ==
  ASSUME NEW h \in Nat, NEW i \in Nat, NEW j \in Nat
  PROVE  /\ ~ProbedBefore(h, i, i)
         /\ i # j => ProbedBefore(h, i, j) \/ ProbedBefore(h, j, i)
BY DEF ProbedBefore

(* A probe ends at one bucket at most.                                     *)
LEMMA ProbesEndOnce ==
  ASSUME NEW t \in Tables, NEW n \in Names,
         NEW i \in ProbeEnd(t, n), NEW j \in ProbeEnd(t, n)
  PROVE  i = j
<1>1. Home(t, n) \in Nat
  BY HomeIsBucket
<1>2. i \in DOMAIN t /\ j \in DOMAIN t /\ i \in Nat /\ j \in Nat
  BY TableShape DEF ProbeEnd
<1>3. /\ Ends(t, n, i) /\ Ends(t, n, j)
      /\ ProbedBefore(Home(t, n), i, j) => ~Ends(t, n, i)
      /\ ProbedBefore(Home(t, n), j, i) => ~Ends(t, n, j)
  BY <1>2 DEF ProbeEnd
<1> QED BY <1>1, <1>2, <1>3, ProbesOrdered

(* Where a bucket is free every probe ends: at the first of the buckets    *)
(* that could end it.                                                      *)
LEMMA ProbesEnd ==
  ASSUME NEW t \in Tables, NEW n \in Names,
         NEW free \in DOMAIN t, t[free] = << >>
  PROVE  ProbeEnd(t, n) # {}
<1> DEFINE h == Home(t, n)
           b == Buckets(t)
           rank(i) == IF h <= i THEN i - h ELSE i + b - h
           T == { rank(i) : i \in { j \in DOMAIN t : Ends(t, n, j) } }
<1>1. /\ b \in Nat \ {0} /\ DOMAIN t = 0 .. b - 1
      /\ h \in Nat /\ h \in 0 .. b - 1
  BY TableShape, HomeIsBucket
<1> HIDE DEF h, b
<1>2. \A i \in 0 .. b - 1 : rank(i) \in Nat
  BY <1>1
<1>3. \A i, j \in 0 .. b - 1 : ProbedBefore(h, j, i) => ~(rank(i) <= rank(j))
  BY <1>1 DEF ProbedBefore
<1>4. Ends(t, n, free)
  BY DEF Ends
<1>5. T \in SUBSET Nat /\ T # {}
  BY <1>1, <1>2, <1>4
<1>6. PICK x \in T : \A y \in T : x <= y
  <2> HIDE DEF T
  <2> QED BY <1>5, LeastExists
<1>7. PICK i \in DOMAIN t : Ends(t, n, i) /\ x = rank(i)
  OBVIOUS
<1>8. \A j \in DOMAIN t : Ends(t, n, j) => rank(i) <= rank(j)
  BY <1>6, <1>7
<1> HIDE DEF T, rank
<1>9. i \in ProbeEnd(t, n)
  BY <1>1, <1>3, <1>7, <1>8 DEF ProbeEnd, h
<1> QED BY <1>9

(***************************************************************************)
(* What a sound table is.                                                  *)
(***************************************************************************)
Used(t) == { i \in DOMAIN t : t[i] # << >> }

(* The packages in the table.                                              *)
Held(t) == UNION { ToSet(t[i]) : i \in DOMAIN t }

(* All packages in a bucket have one name.                                 *)
Filed(t) == \A i \in DOMAIN t : \A k \in DOMAIN t[i] : t[i][k].name = t[i][1].name

Findable(t) == \A i \in Used(t) : i \in ProbeEnd(t, t[i][1].name)

(* No list has two packages of one key.                                    *)
OneEach(t) == \A i \in DOMAIN t : Unique(t[i])

LEMMA UsedBuckets ==
  ASSUME NEW t \in Tables
  PROVE  /\ IsFiniteSet(Used(t)) /\ Cardinality(Used(t)) \in Nat
         /\ Cardinality(DOMAIN t) = Buckets(t)
         /\ Used(t) \subseteq DOMAIN t
         /\ \A i \in Used(t) : /\ t[i][1] \in Packages
                               /\ t[i][1].name \in Names
                               /\ 1 \in DOMAIN t[i]
<1>1. IsFiniteSet(DOMAIN t) /\ Used(t) \in SUBSET DOMAIN t
  BY TableShape DEF Used
<1>2. IsFiniteSet(Used(t)) /\ Cardinality(Used(t)) \in Nat
  BY <1>1, FS_Subset, FS_CardinalityType
<1>3. \A i \in Used(t) : t[i] \in Seq(Packages) /\ t[i] # << >>
  BY TableShape DEF Used
<1> QED BY <1>1, <1>2, <1>3, FirstOfList DEF Buckets

(* A table that is not overloaded has a free bucket.                       *)
LEMMA RoomFound ==
  ASSUME NEW t \in Tables, Cardinality(Used(t)) < Buckets(t)
  PROVE  \E i \in DOMAIN t : t[i] = << >>
<1>1. Cardinality(Used(t)) \in Nat /\ Buckets(t) \in Nat
      /\ Cardinality(DOMAIN t) = Buckets(t)
  BY UsedBuckets, TableShape
<1>2. Used(t) # DOMAIN t
  BY <1>1
<1> QED BY <1>2 DEF Used

LEMMA HeldSound ==
  ASSUME NEW t \in Tables
  PROVE  /\ Held(t) \subseteq Packages
         /\ \A p : p \in Held(t) <=>
              \E i \in DOMAIN t : \E k \in DOMAIN t[i] : t[i][k] = p
<1>1. \A i \in DOMAIN t : ToSet(t[i]) \subseteq Packages
  BY TableShape, ContentsTyped
<1> QED BY <1>1 DEF Held, ToSet

(* Two packages of one key in a sound table are the same.                  *)
LEMMA KeysHeldOnce ==
  ASSUME NEW t \in Tables, Filed(t), Findable(t), OneEach(t),
         NEW p \in Held(t), NEW q \in Held(t), SameKey(p, q)
  PROVE  p = q
<1>1. PICK i \in DOMAIN t : \E k \in DOMAIN t[i] : t[i][k] = p
  BY HeldSound
<1>2. PICK k \in DOMAIN t[i] : t[i][k] = p
  BY <1>1
<1>3. PICK j \in DOMAIN t : \E m \in DOMAIN t[j] : t[j][m] = q
  BY HeldSound
<1>4. PICK m \in DOMAIN t[j] : t[j][m] = q
  BY <1>3
<1>5. t[i] \in Seq(Packages) /\ t[j] \in Seq(Packages)
  BY TableShape
<1>6. i \in Used(t) /\ j \in Used(t)
  BY <1>2, <1>4, <1>5, FirstOfList DEF Used
<1>7. t[i][1].name = t[j][1].name
  BY <1>2, <1>4 DEF Filed, SameKey
<1>8. i = j
  BY <1>6, <1>7, UsedBuckets, ProbesEndOnce DEF Findable
<1>9. k = m
  BY <1>2, <1>4, <1>8 DEF OneEach, Unique
<1> QED BY <1>2, <1>4, <1>8, <1>9

(* What ends the probe for a list before it is one of the buckets H.       *)
Reached(t, H) ==
  \A i \in Used(t), j \in DOMAIN t :
    /\ ProbedBefore(Home(t, t[i][1].name), j, i)
    /\ Ends(t, t[i][1].name, j)
    => j \in H

(* A list is put where the probe for its name ends, or it is emptied.      *)
Puts(t, u, slot, n) ==
  /\ DOMAIN u = DOMAIN t
  /\ slot \in ProbeEnd(t, n)
  /\ \A j \in DOMAIN t : j # slot => u[j] = t[j]
  /\ u[slot] # << >> => u[slot][1].name = n

LEMMA PutReached ==
  ASSUME NEW t \in Tables, NEW u \in Tables, NEW H, Reached(t, H),
         NEW slot, NEW n \in Names, Puts(t, u, slot, n)
  PROVE  Reached(u, HolesAfter(H, slot, t[slot], u[slot]))
<1> DEFINE after == HolesAfter(H, slot, t[slot], u[slot])
<1>1. SUFFICES ASSUME NEW i \in Used(u), NEW j \in DOMAIN u,
                      ProbedBefore(Home(u, u[i][1].name), j, i),
                      Ends(u, u[i][1].name, j)
               PROVE  j \in after
  BY DEF Reached
<1>2. /\ DOMAIN u = DOMAIN t /\ slot \in DOMAIN t /\ i \in DOMAIN t
      /\ \A k \in DOMAIN t : k # slot => u[k] = t[k]
      /\ Ends(t, n, slot)
      /\ \A k \in DOMAIN t : ProbedBefore(Home(t, n), k, slot) => ~Ends(t, n, k)
  BY DEF Puts, ProbeEnd, Used
<1>3. \A m : Home(u, m) = Home(t, m)
  BY <1>2 DEF Home, Buckets
<1>4. slot \in Nat /\ Home(t, n) \in Nat
  BY <1>2, TableShape, HomeIsBucket
<1>5. \A k \in H : k \in after
  BY DEF HolesAfter
<1>6. CASE i = slot
  <2>1. u[i][1].name = n /\ j # slot
    BY <1>1, <1>3, <1>4, <1>6, ProbesOrdered DEF Used, Puts
  <2>2. Ends(t, n, j) /\ ProbedBefore(Home(t, n), j, slot)
    BY <1>1, <1>2, <1>3, <1>6, <2>1 DEF Ends
  <2> QED BY <1>1, <1>2, <2>2
<1>7. CASE i # slot
  <2> DEFINE m == t[i][1].name
  <2>1. u[i] = t[i] /\ i \in Used(t)
    BY <1>2, <1>7 DEF Used
  <2>2. /\ ProbedBefore(Home(t, m), j, i) /\ Ends(u, m, j)
        /\ Ends(t, m, j) => j \in H
    BY <1>1, <1>2, <1>3, <2>1 DEF Reached
  <2> HIDE DEF m
  <2>3. CASE Ends(t, m, j)
    BY <1>5, <2>2, <2>3
  <2>4. CASE ~Ends(t, m, j)
    <3>1. j = slot
      BY <1>1, <1>2, <2>2, <2>4 DEF Ends
    <3>2. t[slot] # << >> /\ m # n
      BY <1>2, <2>4, <3>1 DEF Ends
    <3>3. u[slot] = << >>
      BY <2>2, <3>1, <3>2 DEF Ends, Puts
    <3> QED BY <3>1, <3>2, <3>3 DEF HolesAfter
  <2> QED BY <2>3, <2>4
<1> QED BY <1>6, <1>7

LEMMA ReachedFindable ==
  ASSUME NEW t
  PROVE  Reached(t, {}) <=> Findable(t)
<1>1. \A i \in Used(t) : i \in DOMAIN t /\ Ends(t, t[i][1].name, i)
  BY DEF Used, Ends
<1>2. \A i \in Used(t) :
        i \in ProbeEnd(t, t[i][1].name)
          <=> \A j \in DOMAIN t : ProbedBefore(Home(t, t[i][1].name), j, i)
                                   => ~Ends(t, t[i][1].name, j)
  BY <1>1 DEF ProbeEnd
<1> QED BY <1>2 DEF Reached, Findable

(* How the number of buckets in use changes.                               *)
LEMMA PutCounted ==
  ASSUME NEW t \in Tables, NEW u \in Tables, DOMAIN u = DOMAIN t,
         NEW slot \in DOMAIN t, \A j \in DOMAIN t : j # slot => u[j] = t[j]
  PROVE  Cardinality(Used(u)) = Counted(Cardinality(Used(t)), t[slot], u[slot])
<1>1. IsFiniteSet(Used(t)) /\ Cardinality(Used(t)) \in Nat
  BY UsedBuckets
<1>2. CASE t[slot] = << >> /\ u[slot] # << >>
  <2>1. Used(u) = Used(t) \cup {slot} /\ slot \notin Used(t)
    BY <1>2 DEF Used
  <2> QED BY <1>1, <1>2, <2>1, FS_AddElement DEF Counted
<1>3. CASE t[slot] # << >> /\ u[slot] = << >>
  <2>1. Used(u) = Used(t) \ {slot} /\ slot \in Used(t)
    BY <1>3 DEF Used
  <2> QED BY <1>1, <1>3, <2>1, FS_RemoveElement DEF Counted
<1>4. CASE (t[slot] = << >>) <=> (u[slot] = << >>)
  <2>1. Used(u) = Used(t)
    BY <1>4 DEF Used
  <2> QED BY <1>4, <2>1 DEF Counted
<1> QED BY <1>2, <1>3, <1>4

(***************************************************************************)
(* Placing one package.                                                    *)
(***************************************************************************)
Stores ==
  [ table: Tables, entries: Nat, derivation: [Packages -> SUBSET Nat],
    change: Changes, failed: BOOLEAN, holes: SUBSET Nat ]

(* Stores that count their buckets in use.                                 *)
CountedStores ==
  { s \in Stores : /\ s.entries = Cardinality(Used(s.table))
                   /\ s.holes \subseteq DOMAIN s.table }

(* What merging p at slot makes of a store.                                *)
PlacedAt(store, p, placed, slot) ==
  LET t == store.table
      u == placed.table
  IN /\ slot \in ProbeEnd(t, p.name) /\ slot \in DOMAIN t
     /\ \A j \in DOMAIN t : j # slot => u[j] = t[j]
     /\ u[slot] = Merged(t[slot], rules, p)
     /\ placed.entries = Counted(store.entries, t[slot], u[slot])
     /\ placed.derivation = DerivationAfter(t[slot], rules, p, store.derivation)
     /\ placed.change = ChangeOf(t[slot], rules, p)
     /\ placed.holes = HolesAfter(store.holes, slot, t[slot], u[slot])

NotPlaced(store, p, placed) ==
  /\ ProbeEnd(store.table, p.name) = {}
  /\ placed.table = store.table /\ placed.entries = store.entries
  /\ placed.derivation = store.derivation /\ placed.holes = store.holes
  /\ placed.change = "ERROR"

LEMMA PlaceSound ==
  ASSUME NEW store \in CountedStores, NEW p \in Packages
  PROVE  /\ Place(store, p) \in CountedStores
         /\ DOMAIN Place(store, p).table = DOMAIN store.table
         /\ Buckets(Place(store, p).table) = Buckets(store.table)
         /\ Place(store, p).failed = store.failed
         /\ \/ NotPlaced(store, p, Place(store, p))
            \/ \E slot : PlacedAt(store, p, Place(store, p), slot)
<1> DEFINE t == store.table
           ends == ProbeEnd(t, p.name)
           slot == CHOOSE i \in ends : TRUE
           new == Merged(t[slot], rules, p)
           placed == Place(store, p)
<1>1. /\ store \in Stores /\ store.entries = Cardinality(Used(t))
      /\ t \in Tables /\ store.entries \in Nat /\ store.failed \in BOOLEAN
      /\ store.derivation \in [Packages -> SUBSET Nat] /\ store.change \in Changes
      /\ store.holes \subseteq DOMAIN t /\ store.holes \in SUBSET Nat
  BY DEF CountedStores, Stores
<1>2. CASE ends = {}
  <2>1. placed = [store EXCEPT !.change = "ERROR"]
    BY <1>2 DEF Place
  <2>2. /\ placed.table = t /\ placed.entries = store.entries
        /\ placed.derivation = store.derivation
        /\ placed.change = "ERROR" /\ placed.failed = store.failed
        /\ placed.holes = store.holes
        /\ placed \in Stores
    BY <1>1, <2>1 DEF Stores, Changes
  <2> QED BY <1>1, <1>2, <2>2 DEF NotPlaced, CountedStores
<1>3. CASE ends # {}
  <2>1. slot \in ends /\ slot \in DOMAIN t
    BY <1>3 DEF ProbeEnd
  <2>2. placed =
          [ table |-> [t EXCEPT ![slot] = new],
            entries |-> Counted(store.entries, t[slot], new),
            derivation |-> DerivationAfter(t[slot], rules, p, store.derivation),
            change |-> ChangeOf(t[slot], rules, p),
            failed |-> store.failed,
            holes |-> HolesAfter(store.holes, slot, t[slot], new) ]
    BY <1>3 DEF Place
  <2>3. t[slot] \in Seq(Packages)
    BY <1>1, <2>1, TableShape
  <2>4. new \in Seq(Packages)
    BY <2>3, MergedShape
  <2> HIDE DEF slot, new, ends, t
  <2> DEFINE u == [t EXCEPT ![slot] = new]
  <2>5. /\ u \in Tables /\ DOMAIN u = DOMAIN t
        /\ \A j \in DOMAIN t : j # slot => u[j] = t[j]
        /\ u[slot] = new
    <3>1. /\ Buckets(t) \in Nat \ {0}
          /\ t \in [0 .. Buckets(t) - 1 -> Seq(Packages)]
      BY <1>1, TableShape
    <3>2. u \in [0 .. Buckets(t) - 1 -> Seq(Packages)]
      BY <2>1, <2>4, <3>1
    <3> QED BY <2>1, <3>1, <3>2 DEF Tables
  <2>6. placed.table = u
    BY <2>2
  <2> HIDE DEF u
  <2>7. Cardinality(Used(u)) = Counted(store.entries, t[slot], new)
    BY <1>1, <2>1, <2>5, PutCounted
  <2>8. Cardinality(Used(u)) \in Nat /\ Buckets(u) = Buckets(t)
    BY <2>5, UsedBuckets DEF Buckets
  <2>9. DerivationAfter(t[slot], rules, p, store.derivation)
          \in [Packages -> SUBSET Nat]
    BY <1>1, <2>3, DerivationSound
  <2>10. ChangeOf(t[slot], rules, p) \in Changes
    BY ChangesSound
  <2>11. /\ placed.entries = Counted(store.entries, t[slot], new)
         /\ placed.derivation = DerivationAfter(t[slot], rules, p, store.derivation)
         /\ placed.change = ChangeOf(t[slot], rules, p)
         /\ placed.failed = store.failed
         /\ placed.holes = HolesAfter(store.holes, slot, t[slot], new)
    BY <2>2
  <2>12. placed \in CountedStores
    <3>1. placed = [ table |-> u, entries |-> Cardinality(Used(u)),
                     derivation |-> placed.derivation, change |-> placed.change,
                     failed |-> placed.failed, holes |-> placed.holes ]
      BY <2>2, <2>7 DEF u
    <3>2. placed.holes \subseteq DOMAIN u /\ placed.holes \in SUBSET Nat
      <4>1. slot \in Nat
        BY <1>1, <2>1, TableShape
      <4> HIDE DEF placed
      <4> QED BY <1>1, <2>1, <2>5, <2>11, <4>1 DEF HolesAfter
    <3> HIDE DEF placed
    <3>3. placed \in Stores
      BY <1>1, <2>5, <2>8, <2>9, <2>10, <2>11, <3>1, <3>2 DEF Stores
    <3> QED BY <2>6, <3>1, <3>2, <3>3 DEF CountedStores
  <2>13. PlacedAt(store, p, placed, slot)
    BY <2>1, <2>5, <2>6, <2>11 DEF PlacedAt, ends, t, new
  <2> QED BY <2>5, <2>6, <2>8, <2>11, <2>12, <2>13 DEF t
<1> QED BY <1>2, <1>3

(***************************************************************************)
(* The loops over what was in the table, by induction over their length.   *)
(***************************************************************************)
ListRun(state, store, list, n) ==
  /\ state[0] = store
  /\ \A k \in 1 .. n : state[k] = Again(state[k - 1], list[k])

TableRun(state, store, old, n) ==
  /\ state[0] = store
  /\ \A i \in 1 .. n : state[i] = WithList(state[i - 1], old[i - 1])

IsOn(state, n) == state = [ i \in 0 .. n |-> state[i] ]

LEMMA ListRunExists ==
  ASSUME NEW store, NEW list, NEW n \in Nat
  PROVE  \E state : IsOn(state, n) /\ ListRun(state, store, list, n)
<1> DEFINE S == { m \in Nat : \E state : /\ IsOn(state, m)
                                         /\ ListRun(state, store, list, m) }
<1>1. 0 \in S
  <2> DEFINE state == [ i \in 0 .. 0 |-> store ]
  <2>1. IsOn(state, 0) /\ ListRun(state, store, list, 0)
    BY DEF ListRun, IsOn
  <2> QED BY <2>1
<1>2. ASSUME NEW m \in 1 .. n, m - 1 \in S
      PROVE  m \in S
  <2>1. PICK before : IsOn(before, m - 1) /\ ListRun(before, store, list, m - 1)
    BY <1>2
  <2> DEFINE state == [ i \in 0 .. m |-> IF i = m THEN Again(before[m - 1], list[m])
                                         ELSE before[i] ]
  <2>2. /\ IsOn(state, m)
        /\ \A i \in 0 .. m - 1 : state[i] = before[i]
        /\ state[m] = Again(before[m - 1], list[m])
    BY DEF IsOn
  <2> HIDE DEF state
  <2>3. state[0] = store
    BY <2>1, <2>2 DEF ListRun
  <2>4. ASSUME NEW i \in 1 .. m
        PROVE  state[i] = Again(state[i - 1], list[i])
    <3>1. CASE i = m
      <4>1. state[m - 1] = before[m - 1]
        BY <2>2
      <4> QED BY <2>2, <3>1, <4>1
    <3>2. CASE i # m
      <4>1. i \in 1 .. m - 1 /\ i \in 0 .. m - 1 /\ i - 1 \in 0 .. m - 1
        BY <3>2
      <4> QED BY <2>1, <2>2, <4>1 DEF ListRun
    <3> QED BY <3>1, <3>2
  <2>5. ListRun(state, store, list, m)
    BY <2>3, <2>4 DEF ListRun
  <2> QED BY <2>2, <2>5
<1> HIDE DEF S
<1>3. \A m \in 0 .. n : m \in S
  BY <1>1, <1>2, UpTo
<1> QED BY <1>3 DEF S

LEMMA WithListRuns ==
  ASSUME NEW store, NEW list, Len(list) \in Nat
  PROVE  \E state : /\ ListRun(state, store, list, Len(list))
                    /\ WithList(store, list) = state[Len(list)]
<1> DEFINE n == Len(list)
           Step(f) == [ k \in 0 .. n |->
                          IF k = 0 THEN store
                          ELSE CHOOSE after \in { Again(before, list[k]) :
                                                  before \in { f[k - 1] } } : TRUE ]
           upTo == CHOOSE f : f = Step(f)
<1>1. WithList(store, list) = upTo[n]
  BY DEF WithList
<1>2. \A before, k : (CHOOSE after \in { Again(b, list[k]) : b \in {before} } : TRUE)
                       = Again(before, list[k])
  OBVIOUS
<1>3. \E f : f = Step(f)
  <2>1. PICK f : IsOn(f, n) /\ ListRun(f, store, list, n)
    BY ListRunExists
  <2>2. ASSUME NEW k \in 0 .. n
        PROVE  f[k] = Step(f)[k]
    <3>1. k # 0 => k \in 1 .. n
      OBVIOUS
    <3>2. k # 0 => f[k] = Again(f[k - 1], list[k])
      BY <2>1, <3>1 DEF ListRun
    <3>3. f[0] = store
      BY <2>1 DEF ListRun
    <3>4. Step(f)[k] = IF k = 0 THEN store
                       ELSE CHOOSE after \in { Again(before, list[k]) :
                                               before \in { f[k - 1] } } : TRUE
      OBVIOUS
    <3> HIDE DEF Step
    <3> QED BY <1>2, <3>2, <3>3, <3>4
  <2>3. f = [ k \in 0 .. n |-> Step(f)[k] ]
    BY <2>1, <2>2 DEF IsOn
  <2> QED BY <2>3
<1>4. upTo = Step(upTo)
  BY <1>3
<1> HIDE DEF upTo
<1>5. \A k \in 0 .. n : upTo[k] = Step(upTo)[k]
  BY <1>4
<1>6. ListRun(upTo, store, list, n)
  <2>1. upTo[0] = store
    BY <1>5
  <2>2. ASSUME NEW k \in 1 .. n
        PROVE  upTo[k] = Again(upTo[k - 1], list[k])
    BY <1>2, <1>5
  <2> QED BY <2>1, <2>2 DEF ListRun
<1> QED BY <1>1, <1>6
LEMMA TableRunExists ==
  ASSUME NEW store, NEW old, NEW n \in Nat
  PROVE  \E state : IsOn(state, n) /\ TableRun(state, store, old, n)
<1> DEFINE S == { m \in Nat : \E state : /\ IsOn(state, m)
                                         /\ TableRun(state, store, old, m) }
<1>1. 0 \in S
  <2> DEFINE state == [ i \in 0 .. 0 |-> store ]
  <2>1. IsOn(state, 0) /\ TableRun(state, store, old, 0)
    BY DEF TableRun, IsOn
  <2> QED BY <2>1
<1>2. ASSUME NEW m \in 1 .. n, m - 1 \in S
      PROVE  m \in S
  <2>1. PICK before : IsOn(before, m - 1) /\ TableRun(before, store, old, m - 1)
    BY <1>2
  <2> DEFINE state == [ i \in 0 .. m |->
                         IF i = m THEN WithList(before[m - 1], old[m - 1])
                         ELSE before[i] ]
  <2>2. /\ IsOn(state, m)
        /\ \A i \in 0 .. m - 1 : state[i] = before[i]
        /\ state[m] = WithList(before[m - 1], old[m - 1])
    BY DEF IsOn
  <2> HIDE DEF state
  <2>3. state[0] = store
    BY <2>1, <2>2 DEF TableRun
  <2>4. ASSUME NEW i \in 1 .. m
        PROVE  state[i] = WithList(state[i - 1], old[i - 1])
    <3>1. CASE i = m
      <4>1. state[m - 1] = before[m - 1]
        BY <2>2
      <4> QED BY <2>2, <3>1, <4>1
    <3>2. CASE i # m
      <4>1. i \in 1 .. m - 1 /\ i \in 0 .. m - 1 /\ i - 1 \in 0 .. m - 1
        BY <3>2
      <4> QED BY <2>1, <2>2, <4>1 DEF TableRun
    <3> QED BY <3>1, <3>2
  <2>5. TableRun(state, store, old, m)
    BY <2>3, <2>4 DEF TableRun
  <2> QED BY <2>2, <2>5
<1> HIDE DEF S
<1>3. \A m \in 0 .. n : m \in S
  BY <1>1, <1>2, UpTo
<1> QED BY <1>3 DEF S

LEMMA WithTableRuns ==
  ASSUME NEW store, NEW old, Buckets(old) \in Nat
  PROVE  \E state : /\ TableRun(state, store, old, Buckets(old))
                    /\ WithTable(store, old) = state[Buckets(old)]
<1> DEFINE n == Buckets(old)
           Step(f) == [ k \in 0 .. n |->
                          IF k = 0 THEN store
                          ELSE CHOOSE after \in { WithList(before, old[k - 1]) :
                                                  before \in { f[k - 1] } } : TRUE ]
           upTo == CHOOSE f : f = Step(f)
<1>1. WithTable(store, old) = upTo[n]
  BY DEF WithTable
<1>2. \A before, k : (CHOOSE after \in { WithList(b, old[k - 1]) : b \in {before} } : TRUE)
                       = WithList(before, old[k - 1])
  OBVIOUS
<1>3. \E f : f = Step(f)
  <2>1. PICK f : IsOn(f, n) /\ TableRun(f, store, old, n)
    BY TableRunExists
  <2>2. ASSUME NEW k \in 0 .. n
        PROVE  f[k] = Step(f)[k]
    <3>1. k # 0 => k \in 1 .. n
      OBVIOUS
    <3>2. k # 0 => f[k] = WithList(f[k - 1], old[k - 1])
      BY <2>1, <3>1 DEF TableRun
    <3>3. f[0] = store
      BY <2>1 DEF TableRun
    <3>4. Step(f)[k] = IF k = 0 THEN store
                       ELSE CHOOSE after \in { WithList(before, old[k - 1]) :
                                               before \in { f[k - 1] } } : TRUE
      OBVIOUS
    <3> HIDE DEF Step
    <3> QED BY <1>2, <3>2, <3>3, <3>4
  <2>3. f = [ k \in 0 .. n |-> Step(f)[k] ]
    BY <2>1, <2>2 DEF IsOn
  <2> QED BY <2>3
<1>4. upTo = Step(upTo)
  BY <1>3
<1> HIDE DEF upTo
<1>5. \A k \in 0 .. n : upTo[k] = Step(upTo)[k]
  BY <1>4
<1>6. TableRun(upTo, store, old, n)
  <2>1. upTo[0] = store
    BY <1>5
  <2>2. ASSUME NEW k \in 1 .. n
        PROVE  upTo[k] = WithList(upTo[k - 1], old[k - 1])
    BY <1>2, <1>5
  <2> QED BY <2>1, <2>2 DEF TableRun
<1> QED BY <1>1, <1>6

(* What every package that is merged again keeps true of the store, growth *)
(* keeps true.                                                             *)
LEMMA WithListKeeps ==
  ASSUME NEW I, NEW store \in I, NEW list, Len(list) \in Nat,
         \A s \in I : \A k \in 1 .. Len(list) : Again(s, list[k]) \in I
  PROVE  WithList(store, list) \in I
<1> DEFINE n == Len(list)
<1>1. PICK state : ListRun(state, store, list, n) /\ WithList(store, list) = state[n]
  BY WithListRuns
<1> DEFINE S == { k \in Nat : state[k] \in I }
<1> HIDE DEF n
<1>2. 0 \in S
  BY <1>1 DEF ListRun
<1>3. \A k \in 1 .. n : k - 1 \in S => k \in S
  BY <1>1 DEF ListRun, n
<1> HIDE DEF S
<1>4. n \in Nat /\ n \in 0 .. n
  BY DEF n
<1>5. n \in S
  BY <1>2, <1>3, <1>4, UpTo
<1> QED BY <1>1, <1>5 DEF S

LEMMA WithTableKeeps ==
  ASSUME NEW I, NEW store \in I, NEW old \in Tables,
         \A s \in I : \A p \in Held(old) : Again(s, p) \in I
  PROVE  WithTable(store, old) \in I
<1> DEFINE n == Buckets(old)
<1>0. n \in Nat /\ n \in 0 .. n /\ \A i \in 1 .. n : i - 1 \in DOMAIN old
  BY TableShape
<1>1. PICK state : TableRun(state, store, old, n) /\ WithTable(store, old) = state[n]
  BY <1>0, WithTableRuns
<1> DEFINE S == { i \in Nat : state[i] \in I }
<1> HIDE DEF n
<1>2. 0 \in S
  BY <1>1 DEF TableRun
<1>3. ASSUME NEW i \in 1 .. n, i - 1 \in S
      PROVE  i \in S
  <2> DEFINE list == old[i - 1]
  <2>1. list \in Seq(Packages) /\ i - 1 \in DOMAIN old
    BY <1>0, TableShape
  <2>2. \A k \in 1 .. Len(list) : list[k] \in Held(old)
    BY <2>1, FirstOfList, HeldSound
  <2>3. Len(list) \in Nat
    BY <2>1, FirstOfList
  <2> HIDE DEF list
  <2>4. state[i - 1] \in I
    BY <1>3
  <2>5. WithList(state[i - 1], list) \in I
    BY <2>2, <2>3, <2>4, WithListKeeps
  <2> QED BY <1>1, <2>5 DEF TableRun, list
<1> HIDE DEF S
<1>5. n \in S
  BY <1>0, <1>2, <1>3, UpTo
<1> QED BY <1>1, <1>5 DEF S

(***************************************************************************)
(* Types and counts.                                                       *)
(***************************************************************************)
LEMMA AgainSound ==
  ASSUME NEW s \in CountedStores, NEW p \in Packages
  PROVE  /\ Again(s, p) \in CountedStores
         /\ Again(s, p).table = Place(s, p).table
         /\ Again(s, p).entries = Place(s, p).entries
         /\ Again(s, p).derivation = Place(s, p).derivation
         /\ Again(s, p).holes = Place(s, p).holes
         /\ Again(s, p).change = Place(s, p).change
         /\ Again(s, p).failed = (Place(s, p).failed \/ Place(s, p).change = "ERROR")
<1> DEFINE placed == Place(s, p)
<1>1. placed \in CountedStores
  BY PlaceSound
<1>2. Again(s, p) = [ placed EXCEPT !.failed = placed.failed \/ placed.change = "ERROR" ]
  BY DEF Again
<1> HIDE DEF placed
<1>3. /\ Again(s, p) \in Stores
      /\ Again(s, p).table = placed.table
      /\ Again(s, p).entries = placed.entries
      /\ Again(s, p).derivation = placed.derivation
      /\ Again(s, p).holes = placed.holes
      /\ Again(s, p).change = placed.change
      /\ Again(s, p).failed = (placed.failed \/ placed.change = "ERROR")
  BY <1>1, <1>2 DEF CountedStores, Stores
<1> QED BY <1>1, <1>3 DEF CountedStores, placed

LEMMA EmptyTableSound ==
  ASSUME NEW b \in Nat \ {0}
  PROVE  /\ EmptyTable(b) \in Tables /\ Buckets(EmptyTable(b)) = b
         /\ \A i \in DOMAIN EmptyTable(b) : EmptyTable(b)[i] = << >>
         /\ Used(EmptyTable(b)) = {} /\ Held(EmptyTable(b)) = {}
         /\ Cardinality(Used(EmptyTable(b))) = 0
<1> DEFINE t == EmptyTable(b)
<1>1. << >> \in Seq(Packages)
  BY EmptySeq
<1>2. t \in [0 .. b - 1 -> Seq(Packages)] /\ \A i \in DOMAIN t : t[i] = << >>
  BY <1>1 DEF EmptyTable
<1> HIDE DEF t
<1>3. t \in Tables
  BY <1>2 DEF Tables
<1>4. Used(t) = {}
  BY <1>2 DEF Used
<1>5. Held(t) = {}
  BY <1>1, <1>2, <1>3, HeldSound, FirstOfList
<1> QED BY <1>2, <1>3, <1>4, <1>5, TableSize, FS_EmptySet DEF t

LEMMA EmptiedSound ==
  ASSUME NEW store \in CountedStores
  PROVE  /\ Emptied(store) \in CountedStores
         /\ Emptied(store).table = EmptyTable(2 * store.entries + 1)
         /\ Emptied(store).derivation = store.derivation
         /\ Emptied(store).failed = store.failed
         /\ Emptied(store).holes = {} /\ Emptied(store).entries = 0
         /\ 2 * store.entries + 1 \in Nat \ {0}
<1> DEFINE b == 2 * store.entries + 1
<1>1. store \in Stores /\ b \in Nat \ {0}
  BY DEF CountedStores, Stores
<1> HIDE DEF b
<1>2. EmptyTable(b) \in Tables /\ Cardinality(Used(EmptyTable(b))) = 0
  BY <1>1, EmptyTableSound
<1> DEFINE e == [ store EXCEPT !.table = EmptyTable(b), !.entries = 0, !.holes = {} ]
<1>3. /\ e \in Stores /\ e.entries = 0 /\ e.table = EmptyTable(b)
      /\ e.derivation = store.derivation /\ e.failed = store.failed
      /\ e.holes = {}
  BY <1>1, <1>2 DEF Stores
<1>4. e \in CountedStores
  <2> HIDE DEF e
  <2> QED BY <1>2, <1>3 DEF CountedStores
<1>5. Emptied(store) = e
  BY DEF Emptied, b
<1> HIDE DEF e
<1> QED BY <1>1, <1>3, <1>4, <1>5 DEF b

(* A growing table becomes what it held, merged again; a process that      *)
(* ends leaves it alone.                                                   *)
LEMMA ResizedSound ==
  ASSUME NEW store \in CountedStores
  PROVE  LET new == WithTable(Emptied(store), store.table)
         IN /\ new \in CountedStores
            /\ Resized(store) \in CountedStores
            /\ Resized(store).change = store.change
            /\ ~Grows(store) => Resized(store) = store
            /\ Grows(store) /\ new.failed =>
                 /\ Resized(store).table = store.table
                 /\ Resized(store).entries = store.entries
                 /\ Resized(store).derivation = store.derivation
                 /\ Resized(store).holes = store.holes
                 /\ Resized(store).failed
            /\ Grows(store) /\ ~new.failed =>
                 /\ Resized(store).table = new.table
                 /\ Resized(store).entries = new.entries
                 /\ Resized(store).derivation = new.derivation
                 /\ Resized(store).holes = new.holes
                 /\ ~Resized(store).failed
<1> DEFINE new == WithTable(Emptied(store), store.table)
<1>1. new \in CountedStores
  <2>1. store.table \in Tables
    BY DEF CountedStores, Stores
  <2>2. \A s \in CountedStores :
          \A p \in Held(store.table) : Again(s, p) \in CountedStores
    BY <2>1, HeldSound, AgainSound
  <2>3. Emptied(store) \in CountedStores
    BY EmptiedSound
  <2> QED BY <2>1, <2>2, <2>3, WithTableKeeps
<1>2. Resized(store) = IF Grows(store) THEN Moved(store, new) ELSE store
  BY DEF Resized
<1> HIDE DEF new
<1>3. /\ store \in Stores /\ new \in Stores
      /\ new.entries = Cardinality(Used(new.table))
      /\ new.holes \subseteq DOMAIN new.table
      /\ store.entries = Cardinality(Used(store.table))
      /\ store.holes \subseteq DOMAIN store.table
  BY <1>1 DEF CountedStores
<1>4. CASE ~Grows(store)
  BY <1>1, <1>2, <1>4 DEF new
<1>5. CASE Grows(store) /\ new.failed
  <2> DEFINE e == [ store EXCEPT !.failed = TRUE ]
  <2>1. /\ e \in Stores /\ e.table = store.table /\ e.entries = store.entries
        /\ e.derivation = store.derivation /\ e.failed
        /\ e.holes = store.holes /\ e.change = store.change
    BY <1>3 DEF Stores
  <2>2. Resized(store) = e
    BY <1>2, <1>5 DEF Moved
  <2> HIDE DEF e
  <2>3. e \in CountedStores
    BY <1>3, <2>1 DEF CountedStores
  <2> QED BY <1>1, <1>5, <2>1, <2>2, <2>3 DEF new
<1>6. CASE Grows(store) /\ ~new.failed
  <2> DEFINE e == [ new EXCEPT !.change = store.change ]
  <2>1. /\ e \in Stores /\ e.table = new.table /\ e.entries = new.entries
        /\ e.derivation = new.derivation /\ e.failed = new.failed
        /\ e.holes = new.holes /\ e.change = store.change
    BY <1>3 DEF Stores
  <2>2. Resized(store) = e
    BY <1>2, <1>6 DEF Moved
  <2> HIDE DEF e
  <2>3. e \in CountedStores
    BY <1>3, <2>1 DEF CountedStores
  <2> QED BY <1>1, <1>6, <2>1, <2>2, <2>3 DEF new
<1> QED BY <1>4, <1>5, <1>6

(* The table is typed and its entries are counted.                         *)
Counts == TypeOK /\ table \in Tables /\ entries = Cardinality(Used(table))

LEMMA StoreCounted ==
  ASSUME Counts
  PROVE  /\ Store \in CountedStores
         /\ Store.table = table /\ Store.entries = entries
         /\ Store.derivation = derivation /\ Store.failed = FALSE
         /\ Store.holes = holes
<1>1. Store \in Stores
  <2>1. holes \subseteq Nat
    BY TableShape DEF Counts, TypeOK
  <2> QED BY <2>1 DEF Counts, TypeOK, Store, Stores
<1>2. /\ Store.table = table /\ Store.entries = entries
      /\ Store.derivation = derivation /\ Store.failed = FALSE
      /\ Store.holes = holes
  BY DEF Store
<1> QED BY <1>1, <1>2 DEF CountedStores, Counts, TypeOK

LEMMA MergedStoreSound ==
  ASSUME NEW store \in CountedStores, NEW p \in Packages
  PROVE  /\ MergedStore(store, p) \in CountedStores
         /\ MergedStore(store, p).change = Place(store, p).change
         /\ Place(store, p).entries > store.entries =>
              MergedStore(store, p) = Resized(Place(store, p))
         /\ ~(Place(store, p).entries > store.entries) =>
              MergedStore(store, p) = Place(store, p)
<1>1. Place(store, p) \in CountedStores
  BY PlaceSound
<1>2. /\ Resized(Place(store, p)) \in CountedStores
      /\ Resized(Place(store, p)).change = Place(store, p).change
  BY <1>1, ResizedSound
<1> QED BY <1>1, <1>2 DEF MergedStore

LEMMA CallsTyped ==
  ASSUME call \in CallType, NEW p, call.lists # << >>, Head(call.lists) # << >>,
         p = Head(Head(call.lists)), NEW one
  PROVE  /\ p \in Packages
         /\ [ call EXCEPT !.lists[1] = Tail(@), !.inner = Accumulate(@, one) ] \in CallType
<1> DEFINE lists == call.lists
           first == Tail(Head(lists))
<1>1. lists \in Seq(Seq(Packages)) /\ call.inner \in {"NONE", "MODIFIED", "ERROR"}
  BY DEF CallType
<1>2. Head(lists) \in Seq(Packages) /\ Head(lists) = lists[1] /\ 1 \in DOMAIN lists
  <2>1. Len(lists) \in Nat /\ Len(lists) # 0 /\ DOMAIN lists = 1 .. Len(lists)
    BY <1>1, EmptySeq, LenProperties
  <2> QED BY <1>1, <2>1, HeadTailProperties
<1>3. p \in Packages /\ first \in Seq(Packages)
  BY <1>2, HeadTailProperties
<1>4. Accumulate(call.inner, one) \in {"NONE", "MODIFIED", "ERROR"}
  BY <1>1 DEF Accumulate
<1>5. [ lists EXCEPT ![1] = first ] \in Seq(Seq(Packages))
  <2> HIDE DEF first
  <2> QED BY <1>1, <1>2, <1>3, ExceptSeq
<1>6. [ call EXCEPT !.lists[1] = Tail(@), !.inner = Accumulate(@, one) ] =
        [ call EXCEPT !.lists = [ lists EXCEPT ![1] = first ],
                      !.inner = Accumulate(call.inner, one) ]
  BY <1>2
<1>7. [ call EXCEPT !.lists = [ lists EXCEPT ![1] = first ],
                    !.inner = Accumulate(call.inner, one) ] \in CallType
  <2> DEFINE rest == [ lists EXCEPT ![1] = first ]
             inner == Accumulate(call.inner, one)
  <2>1. rest \in Seq(Seq(Packages)) /\ inner \in {"NONE", "MODIFIED", "ERROR"}
    BY <1>4, <1>5
  <2> HIDE DEF rest, inner
  <2>2. [ call EXCEPT !.lists = rest, !.inner = inner ] \in CallType
    BY <2>1 DEF CallType
  <2> QED BY <2>2 DEF rest, inner
<1> QED BY <1>3, <1>6, <1>7

(* What a step does: it merges one package, or leaves the table, or sorts. *)
Merges(p) == Absorb(p) /\ rules' = rules /\ ~exited
Leaves == UNCHANGED << table, entries, derivation, exited, holes >>
Sorts ==
  /\ UNCHANGED << entries, rules, derivation, exited, holes >> /\ ~exited
  /\ table' = [ i \in DOMAIN table |-> Sorted(table[i]) ]

LEMMA StepKinds ==
  ASSUME Counts, [Next]_vars
  PROVE  /\ rules' \in RuleSets /\ call' \in CallType /\ change' \in Changes
         /\ \/ \E p \in Packages : Merges(p)
            \/ Leaves
            \/ Sorts
<1>1. /\ rules \in RuleSets /\ call \in CallType /\ change \in Changes
      /\ \A p \in Packages : Outcome(p) \in Changes
  <2>1. Store \in CountedStores
    BY StoreCounted
  <2>2. \A p \in Packages : MergedStore(Store, p) \in CountedStores
    BY <2>1, MergedStoreSound
  <2> QED BY <2>2 DEF Counts, TypeOK, Outcome, CountedStores, Stores
<1>2. \A kind \in {"none", "list", "set"}, lists \in Seq(Seq(Packages)) :
        CallOn(kind, lists) \in CallType
  BY DEF CallOn, CallType
<1>3. << >> \in Seq(Seq(Packages))
  BY EmptySeq
<1>4. ASSUME NEW p \in Packages, MergePackage(p)
      PROVE  /\ rules' \in RuleSets /\ call' \in CallType /\ change' \in Changes
             /\ Merges(p)
  BY <1>1, <1>4 DEF MergePackage, Merges, Idle
<1>5. ASSUME NEW source \in Sources, source # << >>, MergeList(Head(source))
      PROVE  /\ rules' \in RuleSets /\ call' \in CallType /\ change' \in Changes
             /\ Leaves
  <2>1. Head(source) \in Seq(Packages)
    BY <1>5, SourcesAssumption, HeadTailProperties
  <2>2. << Head(source) >> \in Seq(Seq(Packages))
    BY <2>1
  <2> QED BY <1>1, <1>2, <1>5, <2>2 DEF MergeList, Leaves, Changes
<1>6. ASSUME NEW source \in Sources, MergeSet(source)
      PROVE  /\ rules' \in RuleSets /\ call' \in CallType /\ change' \in Changes
             /\ Leaves
  BY <1>1, <1>2, <1>6, SourcesAssumption DEF MergeSet, Leaves, Changes
<1>7. ASSUME MergeStep
      PROVE  /\ rules' \in RuleSets /\ call' \in CallType /\ change' \in Changes
             /\ \E p \in Packages : Merges(p)
  <2> DEFINE p == Head(Head(call.lists))
  <2>1. /\ call.lists # << >> /\ Head(call.lists) # << >> /\ ~exited
        /\ Absorb(p) /\ rules' = rules /\ change' = change
        /\ call' = [ call EXCEPT !.lists[1] = Tail(@),
                                 !.inner = Accumulate(@, Outcome(p)) ]
    BY <1>7 DEF MergeStep, Running
  <2> HIDE DEF p
  <2>2. p \in Packages /\ call' \in CallType
    BY <1>1, <2>1, CallsTyped DEF p
  <2> QED BY <1>1, <2>1, <2>2 DEF Merges
<1>8. ASSUME EndList
      PROVE  /\ rules' \in RuleSets /\ call' \in CallType /\ change' \in Changes
             /\ Leaves
  <2>1. Tail(call.lists) \in Seq(Seq(Packages))
    BY <1>1, <1>8, HeadTailProperties DEF CallType, EndList
  <2>2. call' = [ call EXCEPT !.lists = Tail(call.lists), !.inner = "NONE" ]
    BY <1>8 DEF EndList
  <2>3. call' \in CallType
    BY <1>1, <2>1, <2>2 DEF CallType
  <2>4. change' \in Changes /\ rules' = rules /\ Leaves
    BY <1>1, <1>8 DEF EndList, Changes, CallType, Leaves
  <2> QED BY <1>1, <2>3, <2>4
<1>9. ASSUME Return
      PROVE  /\ rules' \in RuleSets /\ call' \in CallType /\ change' \in Changes
             /\ Leaves
  BY <1>1, <1>2, <1>3, <1>9 DEF Return, NoCall, Leaves
<1>10. ASSUME NEW r \in RuleSets, SetMergeRules(r)
       PROVE  /\ rules' \in RuleSets /\ call' \in CallType /\ change' \in Changes
              /\ Leaves
  BY <1>1, <1>10 DEF SetMergeRules, Leaves
<1>11. ASSUME SortForPrint
       PROVE  /\ rules' \in RuleSets /\ call' \in CallType /\ change' \in Changes
              /\ Sorts
  BY <1>1, <1>11 DEF SortForPrint, Sorts, Idle
<1>12. ASSUME UNCHANGED vars
       PROVE  /\ rules' \in RuleSets /\ call' \in CallType /\ change' \in Changes
              /\ Leaves
  BY <1>1, <1>12 DEF vars, Leaves
<1> QED BY <1>4, <1>5, <1>6, <1>7, <1>8, <1>9, <1>10, <1>11, <1>12 DEF Next

SortedTable(t) == [ i \in DOMAIN t |-> Sorted(t[i]) ]

LEMMA SortedTableSound ==
  ASSUME NEW t \in Tables
  PROVE  /\ SortedTable(t) \in Tables /\ DOMAIN SortedTable(t) = DOMAIN t
         /\ Used(SortedTable(t)) = Used(t)
         /\ \A i \in DOMAIN t : /\ SortedTable(t)[i] = Sorted(t[i])
                                /\ ToSet(SortedTable(t)[i]) = ToSet(t[i])
                                /\ Unique(t[i]) => Unique(SortedTable(t)[i])
<1> DEFINE u == SortedTable(t)
<1>1. /\ Buckets(t) \in Nat \ {0} /\ DOMAIN t = 0 .. Buckets(t) - 1
      /\ \A i \in DOMAIN t : t[i] \in Seq(Packages)
  BY TableShape
<1>2. DOMAIN u = DOMAIN t /\ \A i \in DOMAIN t : u[i] = Sorted(t[i])
  BY DEF SortedTable
<1>3. \A i \in DOMAIN t : /\ Sorted(t[i]) \in Seq(Packages)
                          /\ ToSet(Sorted(t[i])) = ToSet(t[i])
                          /\ Unique(t[i]) => Unique(Sorted(t[i]))
  BY <1>1, SortedContents
<1>4. u \in Tables
  <2>1. SortedTable(t) \in [DOMAIN t -> Seq(Packages)]
    BY <1>3 DEF SortedTable
  <2> QED BY <1>1, <2>1 DEF Tables
<1> HIDE DEF u
<1>5. \A i \in DOMAIN t : u[i] = << >> <=> t[i] = << >>
  <2> SUFFICES ASSUME NEW i \in DOMAIN t
               PROVE  Sorted(t[i]) = << >> <=> t[i] = << >>
    BY <1>2
  <2>1. \A s \in Seq(Packages) : s = << >> <=> ToSet(s) = {}
    BY FirstOfList DEF ToSet
  <2> QED BY <1>1, <1>3, <2>1
<1>6. Used(u) = Used(t)
  BY <1>2, <1>5 DEF Used
<1> QED BY <1>2, <1>3, <1>4, <1>6 DEF u

LEMMA CountsInit == Init => Counts
<1> SUFFICES ASSUME Init PROVE Counts
  OBVIOUS
<1> DEFINE b == InitialBuckets
<1>1. b \in Nat \ {0}
  BY InitialBucketsAssumption
<1>2. table = EmptyTable(b) /\ entries = 0
  BY DEF Init
<1>3. table \in Tables /\ Cardinality(Used(table)) = 0
  BY <1>1, <1>2, EmptyTableSound
<1>4. \A p \in Packages : {p.file} \in SUBSET Nat
  BY PackageFields
<1>5. call \in CallType
  <2>1. << >> \in Seq(Seq(Packages))
    BY EmptySeq
  <2> QED BY <2>1 DEF Init, NoCall, CallOn, CallType
<1>6. derivation \in [Packages -> SUBSET Nat]
  BY <1>4 DEF Init
<1>7. table \in [0 .. Buckets(table) - 1 -> Seq(Packages)]
  BY <1>3, TableShape
<1>8. entries \in Nat /\ rules \in RuleSets /\ change \in Changes /\ exited \in BOOLEAN
      /\ holes = {}
  BY DEF Init, Changes
<1> QED BY <1>2, <1>3, <1>5, <1>6, <1>7, <1>8 DEF Counts, TypeOK

LEMMA CountsStep == Counts /\ [Next]_vars => Counts'
<1> SUFFICES ASSUME Counts, [Next]_vars PROVE Counts'
  OBVIOUS
<1>1. /\ rules' \in RuleSets /\ call' \in CallType /\ change' \in Changes
      /\ \/ \E p \in Packages : Merges(p)
         \/ Leaves
         \/ Sorts
  BY StepKinds
<1>2. /\ derivation \in [Packages -> SUBSET Nat] /\ exited \in BOOLEAN
      /\ table \in Tables /\ entries = Cardinality(Used(table))
      /\ holes \subseteq DOMAIN table
  BY DEF Counts, TypeOK
<1>3. SUFFICES /\ table' \in Tables /\ entries' = Cardinality(Used(table'))
               /\ derivation' \in [Packages -> SUBSET Nat] /\ exited' \in BOOLEAN
               /\ holes' \subseteq DOMAIN table'
  <2>1. ASSUME table' \in Tables, entries' = Cardinality(Used(table'))
        PROVE  /\ entries' \in Nat
               /\ table' \in [0 .. Buckets(table') - 1 -> Seq(Packages)]
    BY <2>1, UsedBuckets, TableShape
  <2>2. Used(table)' = Used(table') /\ Buckets(table)' = Buckets(table')
    BY DEF Used, Buckets
  <2>3. Tables' = Tables /\ CallType' = CallType
    OBVIOUS
  <2> QED BY <1>1, <2>1, <2>2, <2>3 DEF Counts, TypeOK
<1>4. CASE \E p \in Packages : Merges(p)
  <2>1. PICK p \in Packages : Merges(p)
    BY <1>4
  <2> DEFINE store == MergedStore(Store, p)
  <2>2. store \in CountedStores
    BY StoreCounted, MergedStoreSound
  <2>3. /\ table' = store.table /\ entries' = store.entries
        /\ derivation' = store.derivation /\ exited' = store.failed
        /\ holes' = store.holes
    BY <2>1 DEF Merges, Absorb
  <2> HIDE DEF store
  <2> QED BY <2>2, <2>3 DEF CountedStores, Stores
<1>5. CASE Leaves
  BY <1>2, <1>5 DEF Leaves
<1>6. CASE Sorts
  <2>1. table' = SortedTable(table)
    BY <1>6 DEF Sorts, SortedTable
  <2>2. /\ table' \in Tables /\ Used(table') = Used(table)
        /\ DOMAIN table' = DOMAIN table
    BY <1>2, <2>1, SortedTableSound
  <2> QED BY <1>2, <1>6, <2>2 DEF Sorts
<1> QED BY <1>1, <1>4, <1>5, <1>6

LEMMA CountsAlways == Spec => []Counts
BY CountsInit, CountsStep, PTL DEF Spec

(* Whatever is merged, by whatever rules, and however the table grows, the *)
(* set is what its structure says (packages/set.c).                        *)
THEOREM SetsTyped == Spec => []TypeOK
<1>1. Counts => TypeOK
  BY DEF Counts
<1> QED BY <1>1, CountsAlways, PTL

(* The entries are the buckets in use, through insertions, removals and    *)
(* growth, for all rules (merge_package counts up and down, and resize     *)
(* from nothing).                                                          *)
THEOREM EntriesCounted == Spec => []EntriesExact
<1>1. Counts => EntriesExact
  BY DEF Counts, EntriesExact, Used
<1> QED BY <1>1, CountsAlways, PTL

(***************************************************************************)
(* Lookups, room and growth.                                               *)
(***************************************************************************)

(* What the bucket holds in which a package is placed.                     *)
LEMMA PlacedContents ==
  ASSUME NEW store \in CountedStores, NEW p \in Packages, NEW placed, NEW slot,
         PlacedAt(store, p, placed, slot), Filed(store.table)
  PROVE  LET old == store.table[slot]
             new == placed.table[slot]
         IN /\ old \in Seq(Packages) /\ new \in Seq(Packages)
            /\ \A q \in ToSet(old) : q.name = p.name
            /\ \A q \in ToSet(new) : q.name = p.name
            /\ \A q \in ToSet(new) : q \in ToSet(old) \/ q = p
<1> DEFINE t == store.table
           old == t[slot]
           new == placed.table[slot]
<1>1. t \in Tables
  BY DEF CountedStores, Stores
<1>2. slot \in DOMAIN t /\ Ends(t, p.name, slot) /\ new = Merged(old, rules, p)
  BY DEF PlacedAt, ProbeEnd
<1>3. old \in Seq(Packages)
  BY <1>1, <1>2, TableShape
<1>4. \A q \in ToSet(old) : q.name = p.name
  <2>1. ASSUME NEW k \in DOMAIN old
        PROVE  old[k].name = p.name
    <3>1. old[k].name = old[1].name
      BY <1>2 DEF Filed
    <3>2. old # << >>
      BY <1>3, <2>1, FirstOfList
    <3> QED BY <1>2, <3>1, <3>2 DEF Ends
  <2> QED BY <2>1 DEF ToSet
<1>5. new \in Seq(Packages) /\ \A q \in ToSet(new) : q \in ToSet(old) \/ q = p
  <2> HIDE DEF old, new
  <2> QED BY <1>2, <1>3, MergedShape, MergedContents
<1> QED BY <1>3, <1>4, <1>5

(* The stores in which only a hole ends the probe for a list before it.    *)
FiledStores ==
  { s \in CountedStores : Filed(s.table) /\ Reached(s.table, s.holes) }

(* Whatever the rules, placing a package leaves such a store.              *)
LEMMA PlaceFiled ==
  ASSUME NEW s \in FiledStores, NEW p \in Packages
  PROVE  /\ Place(s, p) \in FiledStores
         /\ \A slot : PlacedAt(s, p, Place(s, p), slot) =>
              LET u == Place(s, p).table
              IN u[slot] # << >> => u[slot][1].name = p.name
<1> DEFINE t == s.table
           placed == Place(s, p)
           u == placed.table
<1>1. /\ s \in CountedStores /\ t \in Tables
      /\ Filed(t) /\ Reached(t, s.holes) /\ p.name \in Names
  BY DEF FiledStores, CountedStores, Stores, Names
<1>2. /\ placed \in CountedStores /\ u \in Tables /\ DOMAIN u = DOMAIN t
      /\ \/ NotPlaced(s, p, placed)
         \/ \E slot : PlacedAt(s, p, placed, slot)
  BY <1>1, PlaceSound DEF CountedStores, Stores
<1> HIDE DEF placed
<1>3. CASE NotPlaced(s, p, placed)
  <2>1. placed \in FiledStores
    BY <1>1, <1>2, <1>3 DEF NotPlaced, FiledStores
  <2>2. ASSUME NEW slot, PlacedAt(s, p, placed, slot)
        PROVE  FALSE
    BY <1>3, <2>2 DEF NotPlaced, PlacedAt
  <2> QED BY <2>1, <2>2 DEF placed
<1>4. ASSUME NEW slot, PlacedAt(s, p, placed, slot)
      PROVE  placed \in FiledStores /\ (u[slot] # << >> => u[slot][1].name = p.name)
  <2>1. /\ slot \in ProbeEnd(t, p.name) /\ slot \in DOMAIN t
        /\ \A j \in DOMAIN t : j # slot => u[j] = t[j]
        /\ placed.holes = HolesAfter(s.holes, slot, t[slot], u[slot])
    BY <1>4 DEF PlacedAt
  <2>2. u[slot] \in Seq(Packages) /\ \A q \in ToSet(u[slot]) : q.name = p.name
    BY <1>1, <1>4, PlacedContents
  <2>3. \A k \in DOMAIN u[slot] : u[slot][k].name = p.name
    BY <2>2 DEF ToSet
  <2> HIDE DEF t, u
  <2>4. u[slot] # << >> => u[slot][1].name = p.name
    BY <2>2, <2>3, FirstOfList
  <2>5. Filed(u)
    <3> SUFFICES ASSUME NEW i \in DOMAIN t, NEW k \in DOMAIN u[i]
                 PROVE  u[i][k].name = u[i][1].name
      BY <1>2 DEF Filed
    <3>1. CASE i = slot
      BY <2>2, <2>3, <3>1, FirstOfList
    <3>2. CASE i # slot
      BY <1>1, <2>1, <3>2 DEF Filed
    <3> QED BY <3>1, <3>2
  <2>6. Reached(u, placed.holes)
    <3>1. Puts(t, u, slot, p.name)
      BY <1>2, <2>1, <2>4 DEF Puts
    <3> QED BY <1>1, <1>2, <2>1, <3>1, PutReached
  <2> QED BY <1>2, <2>4, <2>5, <2>6 DEF FiledStores, u
<1> QED BY <1>2, <1>3, <1>4 DEF placed

LEMMA AgainFiled ==
  ASSUME NEW s \in FiledStores, NEW p \in Packages
  PROVE  Again(s, p) \in FiledStores
<1>1. s \in CountedStores
  BY DEF FiledStores
<1>2. /\ Again(s, p) \in CountedStores
      /\ Again(s, p).table = Place(s, p).table
      /\ Again(s, p).holes = Place(s, p).holes
  BY <1>1, AgainSound
<1>3. Place(s, p) \in FiledStores
  BY PlaceFiled
<1> QED BY <1>2, <1>3 DEF FiledStores

LEMMA EmptiedFiled ==
  ASSUME NEW store \in CountedStores
  PROVE  Emptied(store) \in FiledStores
<1> DEFINE b == 2 * store.entries + 1
           t == EmptyTable(b)
<1>1. Emptied(store) \in CountedStores /\ Emptied(store).table = t /\ b \in Nat \ {0}
  BY EmptiedSound
<1> HIDE DEF b
<1>2. Used(t) = {} /\ \A i \in DOMAIN t : t[i] = << >>
  BY <1>1, EmptyTableSound
<1>3. \A i \in DOMAIN t : DOMAIN t[i] = {}
  BY <1>2
<1> HIDE DEF t
<1> QED BY <1>1, <1>2, <1>3 DEF FiledStores, Filed, Reached

(* Without a conflict a package is accepted and nothing is removed: it is  *)
(* in the list already, or no package of its key is.                       *)
LEMMA AcceptedAgain ==
  ASSUME NEW s \in Seq(Packages), NEW rls, NEW p \in Packages,
         \A q \in ToSet(s) : SameKey(q, p) => q = p
  PROVE  ChangeOf(s, rls, p) # "ERROR"
<1>1. CASE Position(s, p) # 0
  <2>1. /\ Position(s, p) \in DOMAIN s /\ SameKey(s[Position(s, p)], p)
        /\ Current(s, p) = {s[Position(s, p)]}
    BY <1>1, CurrentSound
  <2>2. Current(s, p) = {p}
    BY <2>1 DEF ToSet
  <2>3. PlanFor(s, rls, p) = Keep
    BY <2>2 DEF PlanFor, MergePlan
  <2> QED BY <2>3, Plans DEF ChangeOf
<1>2. CASE Position(s, p) = 0
  <2>1. Current(s, p) = {}
    BY <1>2 DEF Current
  <2>2. PlanFor(s, rls, p) # Reject
    <3>1. CASE UsesPrefix(rls, p)
      <4>1. PlanFor(s, rls, p) = PrefixPlan({}, p)
        BY <2>1, <3>1 DEF PlanFor, MergePlan
      <4>2. ~Pinned({})
        BY DEF Pinned
      <4>3. PrefixPlan({}, p) \in {Discard, Swap, Add, Keep}
        BY <3>1, <4>2, PackageFields DEF PrefixPlan, UsesPrefix, PackagePrefixes
      <4> QED BY <4>1, <4>3, Plans
    <3>2. CASE ~UsesPrefix(rls, p)
      BY <2>1, <3>2, Plans DEF PlanFor, MergePlan
    <3> QED BY <3>1, <3>2
  <2> QED BY <1>2, <2>2 DEF ChangeOf
<1> QED BY <1>1, <1>2

(* No two packages in K have one key.                                      *)
KeysDiffer(K) == \A p, q \in K : SameKey(p, q) => p = q

(* The probe for n has found a list of its own.                            *)
HasList(t, n) == \E i \in ProbeEnd(t, n) : t[i] # << >>

(* The stores in which a growing table can be, while the packages of one   *)
(* name are merged again: at most one bucket more than the e before is in  *)
(* use, and then it is the one where the probe for that name ends.         *)
Refilled(K, n, b, e, f) ==
  { s \in FiledStores :
      /\ Buckets(s.table) = b
      /\ s.entries <= e \/ (s.entries <= e + 1 /\ HasList(s.table, n))
      /\ Held(s.table) \subseteq K
      /\ KeysDiffer(K) => s.failed = f }

LEMMA RefilledStep ==
  ASSUME NEW K \in SUBSET Packages, NEW n, NEW b \in Nat, NEW e \in Nat, e + 1 < b,
         NEW f \in BOOLEAN, NEW s \in Refilled(K, n, b, e, f),
         NEW p \in K, p.name = n
  PROVE  Again(s, p) \in Refilled(K, n, b, e, f)
<1> DEFINE t == s.table
           placed == Place(s, p)
           u == placed.table
<1>1. /\ s \in FiledStores /\ s \in CountedStores /\ t \in Tables /\ Filed(t)
      /\ s.entries \in Nat /\ s.entries = Cardinality(Used(t))
      /\ Buckets(t) = b /\ Held(t) \subseteq K /\ p \in Packages /\ n \in Names
      /\ s.entries <= e \/ (s.entries <= e + 1 /\ HasList(t, n))
      /\ KeysDiffer(K) => s.failed = f
  BY DEF Refilled, FiledStores, CountedStores, Stores, Names
<1>2. /\ placed \in FiledStores /\ u \in Tables
      /\ DOMAIN u = DOMAIN t /\ Buckets(u) = b /\ placed.failed = s.failed
      /\ \/ NotPlaced(s, p, placed)
         \/ \E slot : PlacedAt(s, p, placed, slot)
  BY <1>1, PlaceSound, PlaceFiled DEF FiledStores, CountedStores, Stores
<1>3. ~NotPlaced(s, p, placed)
  <2>1. s.entries < b
    BY <1>1
  <2>2. \E i \in DOMAIN t : t[i] = << >>
    BY <1>1, <2>1, RoomFound
  <2>3. ProbeEnd(t, p.name) # {}
    BY <1>1, <2>2, ProbesEnd
  <2> QED BY <2>3 DEF NotPlaced
<1>4. PICK slot : PlacedAt(s, p, placed, slot)
  BY <1>2, <1>3
<1>5. /\ slot \in ProbeEnd(t, n) /\ slot \in DOMAIN t
      /\ \A j \in DOMAIN t : j # slot => u[j] = t[j]
      /\ placed.entries = Counted(s.entries, t[slot], u[slot])
      /\ placed.change = ChangeOf(t[slot], rules, p)
  BY <1>4 DEF PlacedAt
<1>6. u[slot] # << >> => u[slot][1].name = n
  BY <1>1, <1>4, PlaceFiled
<1>7. /\ t[slot] \in Seq(Packages)
      /\ \A q \in ToSet(u[slot]) : q \in ToSet(t[slot]) \/ q = p
  BY <1>1, <1>4, PlacedContents
<1> HIDE DEF t, u, placed
<1>8. u[slot] # << >> => HasList(u, n)
  <2> SUFFICES ASSUME u[slot] # << >> PROVE slot \in ProbeEnd(u, n)
    BY DEF HasList
  <2>1. Home(u, n) = Home(t, n) /\ Home(t, n) \in Nat /\ slot \in Nat
    BY <1>1, <1>2, <1>5, HomeIsBucket, TableShape DEF Home
  <2>2. Ends(u, n, slot)
    BY <1>6 DEF Ends
  <2>3. ASSUME NEW j \in DOMAIN u, ProbedBefore(Home(u, n), j, slot)
        PROVE  ~Ends(u, n, j)
    <3>1. j # slot /\ j \in DOMAIN t
      BY <1>2, <2>1, <2>3, ProbesOrdered
    <3> QED BY <1>5, <2>1, <2>3, <3>1 DEF ProbeEnd, Ends
  <2> QED BY <1>2, <1>5, <2>2, <2>3 DEF ProbeEnd
<1>9. placed.entries <= e \/ (placed.entries <= e + 1 /\ HasList(u, n))
  <2>1. HasList(t, n) => t[slot] # << >>
    BY <1>1, <1>5, ProbesEndOnce DEF HasList
  <2>2. CASE t[slot] = << >>
    BY <1>1, <1>5, <1>8, <2>1, <2>2 DEF Counted
  <2>3. CASE t[slot] # << >>
    BY <1>1, <1>5, <1>8, <2>3 DEF Counted
  <2> QED BY <2>2, <2>3
<1>10. \A q \in ToSet(t[slot]) : q \in K
  BY <1>1, <1>5 DEF Held
<1>11. Held(u) \subseteq K
  <2> SUFFICES ASSUME NEW i \in DOMAIN u, NEW q \in ToSet(u[i])
               PROVE  q \in K
    BY DEF Held
  <2>1. CASE i = slot
    BY <1>7, <1>10, <2>1
  <2>2. CASE i # slot
    BY <1>1, <1>2, <1>5, <2>2 DEF Held
  <2> QED BY <2>1, <2>2
<1>12. KeysDiffer(K) => placed.change # "ERROR"
  <2> SUFFICES ASSUME KeysDiffer(K) PROVE placed.change # "ERROR"
    OBVIOUS
  <2>1. \A q \in ToSet(t[slot]) : SameKey(q, p) => q = p
    BY <1>10 DEF KeysDiffer
  <2> QED BY <1>1, <1>5, <1>7, <2>1, AcceptedAgain
<1>13. /\ Again(s, p) \in FiledStores
       /\ Again(s, p).table = u /\ Again(s, p).entries = placed.entries
       /\ Again(s, p).failed = (placed.failed \/ placed.change = "ERROR")
  BY <1>1, AgainSound, AgainFiled DEF placed, u
<1> QED BY <1>1, <1>2, <1>9, <1>11, <1>12, <1>13 DEF Refilled

(* One list merged again needs one bucket at most.                         *)
LEMMA ListRefills ==
  ASSUME NEW K \in SUBSET Packages, NEW b \in Nat, NEW e \in Nat, e + 1 < b,
         NEW f \in BOOLEAN, NEW n, NEW store \in Refilled(K, n, b, e, f),
         NEW list \in Seq(Packages),
         \A k \in DOMAIN list : list[k] \in K /\ list[k].name = n
  PROVE  WithList(store, list) \in Refilled(K, n, b, e, f)
<1> DEFINE I == Refilled(K, n, b, e, f)
<1>1. Len(list) \in Nat /\ DOMAIN list = 1 .. Len(list)
  BY FirstOfList
<1>2. \A s \in I : \A k \in 1 .. Len(list) : Again(s, list[k]) \in I
  <2> SUFFICES ASSUME NEW s \in I, NEW k \in 1 .. Len(list)
               PROVE  Again(s, list[k]) \in I
    OBVIOUS
  <2>1. list[k] \in K /\ list[k].name = n
    BY <1>1
  <2> QED BY <2>1, RefilledStep
<1> HIDE DEF I
<1>3. store \in I
  BY DEF I
<1>4. WithList(store, list) \in I
  BY <1>1, <1>2, <1>3, WithListKeeps
<1> QED BY <1>4 DEF I

(* The stores in which a growing table can be between two of its lists.    *)
Refilling(old, b, f, i) ==
  { s \in FiledStores :
      /\ Buckets(s.table) = b
      /\ s.entries <= Cardinality({ j \in Used(old) : j < i })
      /\ Held(s.table) \subseteq Held(old)
      /\ KeysDiffer(Held(old)) => s.failed = f }

LEMMA UsedBelow ==
  ASSUME NEW t \in Tables, NEW i \in Nat
  PROVE  LET below(m) == Cardinality({ j \in Used(t) : j < m })
         IN /\ below(0) = 0 /\ below(i) \in Nat
            /\ below(i + 1) = below(i) + (IF i \in Used(t) THEN 1 ELSE 0)
            /\ below(i) <= Cardinality(Used(t))
            /\ below(Buckets(t)) = Cardinality(Used(t))
<1> DEFINE B(m) == { j \in Used(t) : j < m }
<1>1. /\ IsFiniteSet(Used(t)) /\ Used(t) \subseteq Nat
      /\ \A j \in Used(t) : j < Buckets(t)
  BY UsedBuckets, TableShape DEF Used
<1>2. \A m : IsFiniteSet(B(m)) /\ Cardinality(B(m)) \in Nat
             /\ Cardinality(B(m)) <= Cardinality(Used(t))
  <2> SUFFICES ASSUME NEW m
               PROVE  /\ IsFiniteSet(B(m)) /\ Cardinality(B(m)) \in Nat
                      /\ Cardinality(B(m)) <= Cardinality(Used(t))
    OBVIOUS
  <2>1. B(m) \in SUBSET Used(t)
    OBVIOUS
  <2> HIDE DEF B
  <2> QED BY <1>1, <2>1, FS_Subset, FS_CardinalityType
<1>3. Cardinality(B(0)) = 0
  <2>1. B(0) = {}
    BY <1>1
  <2> QED BY <2>1, FS_EmptySet
<1>4. Cardinality(B(i + 1)) = Cardinality(B(i)) + (IF i \in Used(t) THEN 1 ELSE 0)
  <2>1. CASE i \in Used(t)
    <3>1. B(i + 1) = B(i) \cup {i} /\ i \notin B(i)
      BY <1>1, <2>1
    <3> HIDE DEF B
    <3> QED BY <1>2, <2>1, <3>1, FS_AddElement
  <2>2. CASE i \notin Used(t)
    <3>1. B(i + 1) = B(i)
      BY <1>1, <2>2
    <3> HIDE DEF B
    <3> QED BY <1>2, <2>2, <3>1
  <2> QED BY <2>1, <2>2
<1>5. B(Buckets(t)) = Used(t)
  BY <1>1
<1> QED BY <1>2, <1>3, <1>4, <1>5

LEMMA RefillingStep ==
  ASSUME NEW old \in Tables, Filed(old), NEW b \in Nat, Cardinality(Used(old)) < b,
         NEW f \in BOOLEAN, NEW i \in DOMAIN old, NEW s \in Refilling(old, b, f, i)
  PROVE  WithList(s, old[i]) \in Refilling(old, b, f, i + 1)
<1> DEFINE below(m) == Cardinality({ j \in Used(old) : j < m })
           list == old[i]
           new == WithList(s, list)
<1>1. /\ i \in Nat /\ list \in Seq(Packages)
      /\ Held(old) \in SUBSET Packages /\ Cardinality(Used(old)) \in Nat
  BY TableShape, HeldSound, UsedBuckets
<1>2. /\ below(i) \in Nat /\ below(i + 1) = below(i) + (IF i \in Used(old) THEN 1 ELSE 0)
      /\ below(i + 1) <= Cardinality(Used(old))
  <2>1. i + 1 \in Nat
    BY <1>1
  <2>2. \A m \in Nat : below(m) <= Cardinality(Used(old))
    BY UsedBelow
  <2>3. /\ below(i) \in Nat
        /\ below(i + 1) = below(i) + (IF i \in Used(old) THEN 1 ELSE 0)
    BY <1>1, UsedBelow
  <2> HIDE DEF below
  <2> QED BY <2>1, <2>2, <2>3
<1>3. /\ s \in FiledStores /\ Buckets(s.table) = b /\ s.entries <= below(i)
      /\ s.entries \in Nat /\ Held(s.table) \subseteq Held(old)
      /\ KeysDiffer(Held(old)) => s.failed = f
  BY DEF Refilling, FiledStores, CountedStores, Stores
<1> HIDE DEF below
<1>4. CASE list = << >>
  <2>1. Len(list) = 0 /\ i \notin Used(old)
    BY <1>4, EmptySeq DEF Used
  <2>2. PICK state : ListRun(state, s, list, Len(list)) /\ new = state[Len(list)]
    BY <2>1, WithListRuns
  <2>3. new = s
    BY <2>1, <2>2 DEF ListRun
  <2>4. below(i + 1) = below(i)
    BY <1>2, <2>1
  <2> HIDE DEF new
  <2> QED BY <1>3, <2>3, <2>4 DEF Refilling, below, new
<1>5. CASE list # << >>
  <2> DEFINE n == list[1].name
             e == below(i)
             K == Held(old)
  <2>1. i \in Used(old)
    BY <1>5 DEF Used
  <2>2. e \in Nat /\ below(i + 1) = e + 1 /\ e + 1 < b
    BY <1>1, <1>2, <2>1
  <2>3. \A k \in DOMAIN list : list[k] \in K /\ list[k].name = n
    BY <1>1, HeldSound DEF Filed
  <2> HIDE DEF n, e, K
  <2>4. s \in Refilled(K, n, b, e, f)
    BY <1>3 DEF Refilled, e, K
  <2> HIDE DEF list
  <2>5. new \in Refilled(K, n, b, e, f)
    BY <1>1, <2>2, <2>3, <2>4, ListRefills DEF K
  <2> HIDE DEF new
  <2>6. /\ new \in FiledStores /\ Buckets(new.table) = b
        /\ new.entries <= e + 1 /\ Held(new.table) \subseteq K
        /\ KeysDiffer(K) => new.failed = f
    <3>1. new.entries \in Nat
      BY <2>5 DEF Refilled, FiledStores, CountedStores, Stores
    <3> QED BY <2>2, <2>5, <3>1 DEF Refilled
  <2> QED BY <2>2, <2>6 DEF Refilling, K, below, new, list
<1> QED BY <1>4, <1>5

(* Growing a table needs no more buckets than were in use, adds no package *)
(* and refuses none unless two have one key.                               *)
LEMMA GrowthSound ==
  ASSUME NEW store \in FiledStores
  PROVE  LET new == WithTable(Emptied(store), store.table)
         IN /\ new \in FiledStores
            /\ Buckets(new.table) = 2 * store.entries + 1
            /\ new.entries <= store.entries
            /\ Held(new.table) \subseteq Held(store.table)
            /\ KeysDiffer(Held(store.table)) => new.failed = store.failed
<1> DEFINE old == store.table
           b == 2 * store.entries + 1
           f == store.failed
           n == Buckets(old)
           first == Emptied(store)
<1>1. /\ store \in CountedStores /\ old \in Tables /\ Filed(old)
      /\ store.entries \in Nat /\ store.entries = Cardinality(Used(old))
      /\ f \in BOOLEAN /\ b \in Nat /\ b \in Nat \ {0} /\ Cardinality(Used(old)) < b
  BY DEF FiledStores, CountedStores, Stores
<1>2. n \in Nat /\ n \in 0 .. n /\ DOMAIN old = 0 .. n - 1
  BY <1>1, TableShape
<1>3. first \in Refilling(old, b, f, 0)
  <2>1. /\ first \in FiledStores /\ first.table = EmptyTable(b)
        /\ first.entries = 0 /\ first.failed = f
    BY <1>1, EmptiedFiled, EmptiedSound
  <2>2. Cardinality({ j \in Used(old) : j < 0 }) = 0
    BY <1>1, UsedBelow
  <2> HIDE DEF b, first
  <2>3. Buckets(EmptyTable(b)) = b /\ Held(EmptyTable(b)) = {}
    BY <1>1, EmptyTableSound
  <2> QED BY <2>1, <2>2, <2>3 DEF Refilling
<1>4. PICK state : TableRun(state, first, old, n) /\ WithTable(first, old) = state[n]
  BY <1>2, WithTableRuns
<1> HIDE DEF b, f, first
<1> DEFINE S == { i \in Nat : state[i] \in Refilling(old, b, f, i) }
<1>5. 0 \in S
  BY <1>3, <1>4 DEF TableRun
<1>6. ASSUME NEW i \in 1 .. n, i - 1 \in S
      PROVE  i \in S
  <2>1. i - 1 \in DOMAIN old /\ (i - 1) + 1 = i /\ i \in Nat
    BY <1>2
  <2>2. state[i] = WithList(state[i - 1], old[i - 1])
    BY <1>4 DEF TableRun
  <2>3. state[i - 1] \in Refilling(old, b, f, i - 1)
    BY <1>6
  <2> HIDE DEF old
  <2>4. WithList(state[i - 1], old[i - 1]) \in Refilling(old, b, f, (i - 1) + 1)
    BY <1>1, <2>1, <2>3, RefillingStep
  <2> QED BY <2>1, <2>2, <2>4
<1> HIDE DEF S
<1>7. n \in S
  BY <1>2, <1>5, <1>6, UpTo
<1>8. state[n] \in Refilling(old, b, f, n)
  BY <1>7 DEF S
<1>9. Cardinality({ j \in Used(old) : j < n }) = Cardinality(Used(old))
  BY <1>1, UsedBelow
<1> QED BY <1>1, <1>4, <1>8, <1>9 DEF Refilling, b, f, first

(***************************************************************************)
(* The steps of a set.                                                     *)
(***************************************************************************)

(* Every probe for a list is ended before it by a hole or not at all, a    *)
(* living process has a table that is not overloaded, and it has ended     *)
(* only for a conflict.                                                    *)
Sound ==
  /\ Filed(table)
  /\ Reached(table, holes)
  /\ ~exited => 10 * entries < 7 * Buckets(table)
  /\ exited => ~KeysDiffer(Held(table))

LEMMA StoreFiled ==
  ASSUME Counts, Sound
  PROVE  Store \in FiledStores
<1>1. Store \in CountedStores /\ Store.table = table /\ Store.holes = holes
  BY StoreCounted
<1> QED BY <1>1 DEF Sound, FiledStores

(* The store that is kept when p has been merged: the one with p in its    *)
(* place, or what that one has grown into.                                 *)
LEMMA MergesKeep ==
  ASSUME Counts, Sound, NEW p \in Packages, Merges(p)
  PROVE  LET placed == Place(Store, p)
             new == WithTable(Emptied(placed), placed.table)
         IN /\ placed \in FiledStores /\ ~placed.failed
            /\ Buckets(placed.table) = Buckets(table)
            /\ DOMAIN placed.table = DOMAIN table
            /\ \/ /\ table' = placed.table /\ entries' = placed.entries
                  /\ derivation' = placed.derivation /\ holes' = placed.holes
                  /\ ~exited'
                  /\ placed.entries > entries => ~Grows(placed)
               \/ /\ placed.entries > entries /\ Grows(placed) /\ new.failed
                  /\ table' = placed.table /\ entries' = placed.entries
                  /\ derivation' = placed.derivation /\ holes' = placed.holes
                  /\ exited'
               \/ /\ placed.entries > entries /\ Grows(placed) /\ ~new.failed
                  /\ table' = new.table /\ entries' = new.entries
                  /\ derivation' = new.derivation /\ holes' = new.holes
                  /\ ~exited'
<1> DEFINE placed == Place(Store, p)
           new == WithTable(Emptied(placed), placed.table)
           grown == Resized(placed)
           kept == MergedStore(Store, p)
<1>1. /\ Store \in CountedStores /\ Store \in FiledStores /\ ~Store.failed
      /\ Store.table = table /\ Store.entries = entries
  BY StoreCounted, StoreFiled
<1>2. /\ placed \in FiledStores /\ placed \in CountedStores /\ ~placed.failed
      /\ Buckets(placed.table) = Buckets(table)
      /\ DOMAIN placed.table = DOMAIN table
  BY <1>1, PlaceSound, PlaceFiled
<1>3. /\ table' = kept.table /\ entries' = kept.entries /\ holes' = kept.holes
      /\ derivation' = kept.derivation /\ exited' = kept.failed
      /\ placed.entries > entries => kept = grown
      /\ ~(placed.entries > entries) => kept = placed
  BY <1>1, MergedStoreSound DEF Merges, Absorb
<1> HIDE DEF placed, kept
<1>4. /\ ~Grows(placed) => grown = placed
      /\ Grows(placed) /\ new.failed =>
           /\ grown.table = placed.table /\ grown.entries = placed.entries
           /\ grown.derivation = placed.derivation
           /\ grown.holes = placed.holes /\ grown.failed
      /\ Grows(placed) /\ ~new.failed =>
           /\ grown.table = new.table /\ grown.entries = new.entries
           /\ grown.derivation = new.derivation
           /\ grown.holes = new.holes /\ ~grown.failed
  BY <1>2, ResizedSound
<1> HIDE DEF new, grown
<1>5. CASE ~(placed.entries > entries)
  BY <1>2, <1>3, <1>5 DEF placed, new
<1>6. CASE placed.entries > entries /\ ~Grows(placed)
  BY <1>2, <1>3, <1>4, <1>6 DEF placed, new
<1>7. CASE placed.entries > entries /\ Grows(placed)
  BY <1>2, <1>3, <1>4, <1>7 DEF placed, new
<1> QED BY <1>5, <1>6, <1>7

LEMMA MergesSound ==
  ASSUME Counts, Sound, NEW p \in Packages, Merges(p)
  PROVE  /\ Filed(table') /\ Reached(table', holes')
         /\ ~exited' => 10 * entries' < 7 * Buckets(table')
         /\ exited' => ~KeysDiffer(Held(table'))
<1> DEFINE placed == Place(Store, p)
           new == WithTable(Emptied(placed), placed.table)
<1>1. /\ placed \in FiledStores /\ ~placed.failed
      /\ Buckets(placed.table) = Buckets(table)
      /\ \/ /\ table' = placed.table /\ entries' = placed.entries
            /\ holes' = placed.holes /\ ~exited'
            /\ placed.entries > entries => ~Grows(placed)
         \/ /\ new.failed
            /\ table' = placed.table /\ holes' = placed.holes /\ exited'
         \/ /\ table' = new.table /\ entries' = new.entries
            /\ holes' = new.holes /\ ~exited'
  BY MergesKeep
<1> HIDE DEF placed
<1>2. /\ new \in FiledStores
      /\ Buckets(new.table) = 2 * placed.entries + 1
      /\ new.entries <= placed.entries
      /\ KeysDiffer(Held(placed.table)) => new.failed = placed.failed
  BY <1>1, GrowthSound
<1> HIDE DEF new
<1>3. /\ placed.entries \in Nat /\ new.entries \in Nat /\ entries \in Nat
      /\ placed.table \in Tables /\ Buckets(placed.table) \in Nat
      /\ Filed(placed.table) /\ Reached(placed.table, placed.holes)
      /\ Filed(new.table) /\ Reached(new.table, new.holes)
  <2>1. placed.table \in Tables
    BY <1>1 DEF FiledStores, CountedStores, Stores
  <2> QED BY <1>1, <1>2, <2>1, TableShape DEF FiledStores, CountedStores, Stores, Counts, TypeOK
<1>4. ~exited
  BY DEF Merges
<1>5. CASE /\ table' = placed.table /\ entries' = placed.entries
           /\ holes' = placed.holes /\ ~exited'
           /\ placed.entries > entries => ~Grows(placed)
  BY <1>1, <1>3, <1>4, <1>5 DEF Grows, Sound
<1>6. CASE new.failed /\ table' = placed.table /\ holes' = placed.holes /\ exited'
  BY <1>1, <1>2, <1>3, <1>6
<1>7. CASE /\ table' = new.table /\ entries' = new.entries
           /\ holes' = new.holes /\ ~exited'
  BY <1>2, <1>3, <1>7
<1> QED BY <1>1, <1>5, <1>6, <1>7

LEMMA SortsSound ==
  ASSUME NEW t \in Tables, Filed(t)
  PROVE  LET u == SortedTable(t)
         IN /\ Filed(u) /\ Held(u) = Held(t)
            /\ \A i \in Used(t) : u[i][1].name = t[i][1].name
            /\ \A H : Reached(t, H) => Reached(u, H)
<1> DEFINE u == SortedTable(t)
<1>1. /\ u \in Tables /\ DOMAIN u = DOMAIN t /\ Used(u) = Used(t)
      /\ \A i \in DOMAIN t : ToSet(u[i]) = ToSet(t[i])
  BY SortedTableSound
<1> HIDE DEF u
<1>2. \A i \in DOMAIN t : t[i] \in Seq(Packages) /\ u[i] \in Seq(Packages)
  BY <1>1, TableShape
<1>3. ASSUME NEW i \in DOMAIN t, NEW k \in DOMAIN u[i]
      PROVE  u[i][k].name = t[i][1].name
  <2>1. u[i][k] \in ToSet(t[i])
    BY <1>1 DEF ToSet
  <2> QED BY <2>1 DEF Filed, ToSet
<1>4. ASSUME NEW i \in DOMAIN t, u[i] # << >>
      PROVE  u[i][1].name = t[i][1].name /\ t[i] # << >>
  <2>1. i \in Used(t)
    BY <1>1, <1>4 DEF Used
  <2> QED BY <1>2, <1>3, <1>4, <2>1, FirstOfList DEF Used
<1>5. Filed(u)
  <2> SUFFICES ASSUME NEW i \in DOMAIN t, NEW k \in DOMAIN u[i]
               PROVE  u[i][k].name = u[i][1].name
    BY <1>1 DEF Filed
  <2>1. u[i] # << >>
    BY <1>2, FirstOfList
  <2> QED BY <1>3, <1>4, <2>1
<1>6. \A i \in Used(t) : i \in DOMAIN t /\ u[i] # << >> /\ u[i][1].name = t[i][1].name
  BY <1>1, <1>4 DEF Used
<1>7. \A m, i : i \in DOMAIN t => (Ends(u, m, i) <=> Ends(t, m, i))
  BY <1>1, <1>4 DEF Ends, Used
<1>8. \A m : Home(u, m) = Home(t, m)
  BY <1>1 DEF Home, Buckets
<1>9. \A H : Reached(t, H) => Reached(u, H)
  BY <1>1, <1>6, <1>7, <1>8 DEF Reached
<1>10. Held(u) = Held(t)
  BY <1>1 DEF Held
<1> QED BY <1>5, <1>6, <1>9, <1>10 DEF u

LEMMA SoundStep == Counts /\ Sound /\ [Next]_vars => Sound'
<1> SUFFICES ASSUME Counts, Sound, [Next]_vars
             PROVE  /\ Filed(table') /\ Reached(table', holes')
                    /\ ~exited' => 10 * entries' < 7 * Buckets(table')
                    /\ exited' => ~KeysDiffer(Held(table'))
  BY DEF Sound, Filed, Reached, Used, Ends, Home, Buckets, Held, KeysDiffer
<1>1. \/ \E p \in Packages : Merges(p)
      \/ Leaves
      \/ Sorts
  BY StepKinds
<1>2. CASE \E p \in Packages : Merges(p)
  BY <1>2, MergesSound
<1>3. CASE Leaves
  BY <1>3 DEF Leaves, Sound
<1>4. CASE Sorts
  <2>1. /\ table' = SortedTable(table) /\ entries' = entries
        /\ exited' = exited /\ holes' = holes
    BY <1>4 DEF Sorts, SortedTable
  <2>2. table \in Tables
    BY DEF Counts
  <2>3. /\ Filed(table') /\ Reached(table', holes') /\ Held(table') = Held(table)
        /\ Buckets(table') = Buckets(table)
    BY <2>1, <2>2, SortsSound, SortedTableSound DEF Sound, Buckets
  <2> QED BY <2>1, <2>3 DEF Sound
<1> QED BY <1>1, <1>2, <1>3, <1>4

LEMMA SoundInit == Init => Sound
<1> SUFFICES ASSUME Init PROVE Sound
  OBVIOUS
<1> DEFINE b == InitialBuckets
<1>1. b \in Nat \ {0} /\ table = EmptyTable(b) /\ entries = 0 /\ exited = FALSE
  BY InitialBucketsAssumption DEF Init
<1>2. /\ Buckets(table) = b /\ Used(table) = {}
      /\ \A i \in DOMAIN table : table[i] = << >>
  BY <1>1, EmptyTableSound
<1> HIDE DEF b
<1>3. \A i \in DOMAIN table : DOMAIN table[i] = {}
  BY <1>2
<1> QED BY <1>1, <1>2, <1>3 DEF Sound, Filed, Reached

LEMMA SoundAlways == Spec => []Sound
BY SoundInit, SoundStep, CountsAlways, PTL DEF Spec

(* A probe misses a list only for a hole that a removal has left before    *)
(* it, whatever packages, rules, hashes and sizes, and through collisions, *)
(* growth and printing (lcfgpkgset_find_list).                             *)
THEOREM LookupsFind == Spec => []WellFormed
<1>1. Counts /\ Sound => WellFormed
  BY DEF Counts, Sound, WellFormed, AllFindable, Reached, Used
<1> QED BY <1>1, CountsAlways, SoundAlways, PTL

(* The entries are counted right, a bucket stays free, and growing ends    *)
(* the process only where two packages of one key are kept                 *)
(* (lcfgpkgset_resize).                                                    *)
THEOREM GrowthAccepts == Spec => []CountsHold
<1>1. Counts /\ Sound => CountsHold
  <2> SUFFICES ASSUME Counts, Sound PROVE CountsHold
    OBVIOUS
  <2>1. table \in Tables /\ entries = Cardinality(Used(table)) /\ entries \in Nat
    BY DEF Counts, TypeOK
  <2>2. EntriesExact
    BY <2>1 DEF EntriesExact, Used
  <2>3. RoomLeft
    <3>1. Buckets(table) \in Nat
      BY <2>1, TableShape
    <3>2. ~exited => Cardinality(Used(table)) < Buckets(table)
      BY <2>1, <3>1 DEF Sound
    <3> QED BY <2>1, <3>2, RoomFound DEF RoomLeft
  <2>4. ExitsForConflict
    <3>1. StoredPackages = Held(table)
      BY DEF StoredPackages, Held
    <3>2. exited => \E p, q \in Held(table) : SameKey(p, q) /\ p # q
      BY DEF Sound, KeysDiffer
    <3> QED BY <3>1, <3>2 DEF ExitsForConflict
  <2> QED BY <2>2, <2>3, <2>4 DEF CountsHold
<1> QED BY <1>1, CountsAlways, SoundAlways, PTL

(***************************************************************************)
(* Without removals no bucket is emptied, and no process ends.             *)
(***************************************************************************)
NothingRemoved ==
  \A p \in Packages, r \in RuleSets : UsesPrefix(r, p) => p.prefix # "remove"

(* Two packages of one key are never kept.                                 *)
OneOfAKind == \A r \in RuleSets : "KEEP_ALL" \notin r

(* Only what a prefix asks for is removed without a replacement.           *)
LEMMA RemovalByPrefix ==
  ASSUME NEW rls, NEW cur, NEW p \in Packages,
         "remove" \in MergePlan(rls, cur, p), "append" \notin MergePlan(rls, cur, p)
  PROVE  UsesPrefix(rls, p) /\ p.prefix = "remove"
<1>1. CASE cur = {p}
  BY <1>1, Plans DEF MergePlan
<1>2. CASE cur # {p} /\ UsesPrefix(rls, p)
  <2>1. MergePlan(rls, cur, p) = PrefixPlan(cur, p)
    BY <1>2 DEF MergePlan
  <2>2. p.prefix # "remove" => PrefixPlan(cur, p) \in {Reject, Add, Keep, Swap}
    BY <1>2, PackageFields DEF PrefixPlan, UsesPrefix, PackagePrefixes
  <2> QED BY <1>2, <2>1, <2>2, Plans
<1>3. CASE cur # {p} /\ ~UsesPrefix(rls, p)
  <2>1. MergePlan(rls, cur, p) \in {Add, Swap, Keep, Reject}
    BY <1>3 DEF MergePlan, PriorityPlan
  <2> QED BY <1>3, <2>1, Plans
<1> QED BY <1>1, <1>2, <1>3

(* A list out of which nothing is taken is not emptied.                    *)
LEMMA NotEmptied ==
  ASSUME NEW s \in Seq(Packages), NEW rls, NEW p \in Packages, s # << >>,
         ~(UsesPrefix(rls, p) /\ p.prefix = "remove")
  PROVE  Merged(s, rls, p) # << >>
<1>1. CASE Appends(s, rls, p)
  <2>1. p \in ToSet(Merged(s, rls, p))
    BY <1>1, MergedContents
  <2> QED BY <2>1 DEF ToSet
<1>2. CASE ~Appends(s, rls, p)
  <2>1. ~Removes(s, rls, p)
    BY <1>2, RemovalByPrefix DEF Appends, Removes, PlanFor
  <2>2. Merged(s, rls, p) = s
    BY <1>2, <2>1 DEF Merged, Removes, Appends
  <2> QED BY <2>2
<1> QED BY <1>1, <1>2

(* No list has two packages of one key, and there is no hole.              *)
Whole(s) == OneEach(s.table) /\ s.holes = {}

LEMMA PlaceWhole ==
  ASSUME NEW s \in FiledStores, Whole(s), NEW p \in Packages,
         ~(UsesPrefix(rules, p) /\ p.prefix = "remove"), "KEEP_ALL" \notin rules
  PROVE  Whole(Place(s, p))
<1> DEFINE t == s.table
           placed == Place(s, p)
           u == placed.table
<1>1. /\ s \in CountedStores /\ t \in Tables /\ OneEach(t) /\ s.holes = {}
  BY DEF FiledStores, CountedStores, Stores, Whole
<1>2. /\ DOMAIN u = DOMAIN t
      /\ \/ NotPlaced(s, p, placed)
         \/ \E slot : PlacedAt(s, p, placed, slot)
  BY <1>1, PlaceSound
<1> HIDE DEF placed
<1>3. CASE NotPlaced(s, p, placed)
  BY <1>1, <1>3 DEF NotPlaced, Whole, placed
<1>4. ASSUME NEW slot, PlacedAt(s, p, placed, slot)
      PROVE  OneEach(u) /\ placed.holes = {}
  <2>1. /\ slot \in DOMAIN t /\ u[slot] = Merged(t[slot], rules, p)
        /\ \A j \in DOMAIN t : j # slot => u[j] = t[j]
        /\ placed.holes = HolesAfter({}, slot, t[slot], u[slot])
    BY <1>1, <1>4 DEF PlacedAt
  <2>2. t[slot] \in Seq(Packages) /\ Unique(t[slot])
    BY <1>1, <2>1, TableShape DEF OneEach
  <2> HIDE DEF t, u
  <2>3. Unique(u[slot])
    BY <2>1, <2>2, MergedUnique
  <2>4. placed.holes = {}
    BY <2>1, <2>2, NotEmptied DEF HolesAfter
  <2> QED BY <1>1, <1>2, <2>1, <2>3, <2>4 DEF OneEach
<1> QED BY <1>2, <1>3, <1>4 DEF Whole, placed

LEMMA EmptiedWhole ==
  ASSUME NEW store \in CountedStores
  PROVE  Whole(Emptied(store))
<1> DEFINE b == 2 * store.entries + 1
           t == EmptyTable(b)
<1>1. /\ Emptied(store).table = t /\ Emptied(store).holes = {}
      /\ b \in Nat \ {0}
  BY EmptiedSound
<1> HIDE DEF b
<1>2. \A i \in DOMAIN t : DOMAIN t[i] = {}
  BY <1>1, EmptyTableSound
<1> HIDE DEF t
<1> QED BY <1>1, <1>2 DEF Whole, OneEach, Unique

(* Growing keeps the lists so, for packages that ask for no removal.       *)
LEMMA GrowthWhole ==
  ASSUME NEW store \in FiledStores, "KEEP_ALL" \notin rules,
         \A p \in Held(store.table) : ~(UsesPrefix(rules, p) /\ p.prefix = "remove")
  PROVE  Whole(WithTable(Emptied(store), store.table))
<1> DEFINE I == { s \in FiledStores : Whole(s) }
           old == store.table
<1>1. store \in CountedStores /\ old \in Tables
  BY DEF FiledStores, CountedStores, Stores
<1>2. Emptied(store) \in I
  BY <1>1, EmptiedFiled, EmptiedWhole
<1>3. ASSUME NEW s \in I, NEW p \in Held(old)
      PROVE  Again(s, p) \in I
  <2>1. p \in Packages /\ s \in FiledStores /\ s \in CountedStores
    BY <1>1, HeldSound DEF FiledStores
  <2>2. Again(s, p) \in FiledStores
    BY <2>1, AgainFiled
  <2>3. Whole(Place(s, p))
    BY <2>1, PlaceWhole
  <2>4. Whole(Again(s, p))
    BY <2>1, <2>3, AgainSound DEF Whole
  <2> QED BY <2>2, <2>4
<1> HIDE DEF I
<1>4. WithTable(Emptied(store), old) \in I
  BY <1>1, <1>2, <1>3, WithTableKeeps
<1> QED BY <1>4 DEF I

(* Two packages of one key in such a table are the same.                   *)
LEMMA WholeDiffer ==
  ASSUME NEW t \in Tables, Filed(t), Findable(t), OneEach(t)
  PROVE  KeysDiffer(Held(t))
BY KeysHeldOnce DEF KeysDiffer

WholeTable == OneEach(table) /\ holes = {} /\ ~exited

LEMMA WholeStep ==
  OneOfAKind /\ NothingRemoved /\ Counts /\ Sound /\ WholeTable /\ [Next]_vars
    => WholeTable'
<1> SUFFICES ASSUME OneOfAKind, NothingRemoved, Counts, Sound, WholeTable, [Next]_vars
             PROVE  OneEach(table') /\ holes' = {} /\ ~exited'
  BY DEF WholeTable, OneEach, Unique
<1>1. \/ \E p \in Packages : Merges(p)
      \/ Leaves
      \/ Sorts
  BY StepKinds
<1>2. ASSUME NEW p \in Packages, Merges(p)
      PROVE  OneEach(table') /\ holes' = {} /\ ~exited'
  <2> DEFINE placed == Place(Store, p)
             new == WithTable(Emptied(placed), placed.table)
  <2>1. /\ Store \in FiledStores /\ Whole(Store)
        /\ rules \in RuleSets /\ "KEEP_ALL" \notin rules
        /\ \A q \in Packages : ~(UsesPrefix(rules, q) /\ q.prefix = "remove")
    BY StoreFiled, StoreCounted
    DEF WholeTable, Whole, Counts, TypeOK, OneOfAKind, NothingRemoved
  <2>2. Whole(placed)
    BY <2>1, PlaceWhole
  <2>3. /\ placed \in FiledStores /\ ~placed.failed
        /\ \/ table' = placed.table /\ holes' = placed.holes /\ ~exited'
           \/ new.failed
           \/ table' = new.table /\ holes' = new.holes /\ ~exited'
    BY <1>2, MergesKeep
  <2> HIDE DEF placed
  <2>4. placed.table \in Tables
    BY <2>3 DEF FiledStores, CountedStores, Stores
  <2>5. Whole(new)
    BY <2>1, <2>3, <2>4, HeldSound, GrowthWhole
  <2>6. KeysDiffer(Held(placed.table))
    BY <2>2, <2>3, <2>4, WholeDiffer, ReachedFindable DEF Whole, FiledStores
  <2>7. ~new.failed
    BY <2>3, <2>6, GrowthSound
  <2> HIDE DEF new
  <2> QED BY <2>2, <2>3, <2>5, <2>7 DEF Whole
<1>3. CASE Leaves
  BY <1>3 DEF Leaves, WholeTable
<1>4. CASE Sorts
  <2>1. table' = SortedTable(table) /\ holes' = holes /\ exited' = exited
    BY <1>4 DEF Sorts, SortedTable
  <2>2. table \in Tables
    BY DEF Counts
  <2>3. OneEach(SortedTable(table))
    BY <2>2, SortedTableSound DEF WholeTable, OneEach
  <2> QED BY <2>1, <2>3 DEF WholeTable
<1> QED BY <1>1, <1>2, <1>3, <1>4

LEMMA WholeInit == Init => WholeTable
<1> SUFFICES ASSUME Init PROVE WholeTable
  OBVIOUS
<1> DEFINE b == InitialBuckets
<1>1. b \in Nat \ {0} /\ table = EmptyTable(b) /\ exited = FALSE /\ holes = {}
  BY InitialBucketsAssumption DEF Init
<1>2. \A i \in DOMAIN table : DOMAIN table[i] = {}
  BY <1>1, EmptyTableSound
<1> HIDE DEF b
<1> QED BY <1>1, <1>2 DEF WholeTable, OneEach, Unique

(* Where no package asks for the removal of others and no two of a key are *)
(* kept, all lists are always found and growing never ends the process:    *)
(* what was accepted once is accepted again (lcfgpkgset_resize).           *)
THEOREM AddingIsSound ==
  ASSUME OneOfAKind, NothingRemoved
  PROVE  Spec => [](AllFound /\ ~exited)
<1>1. Counts /\ Sound /\ WholeTable /\ [Next]_vars => WholeTable'
  BY WholeStep
<1>2. Sound /\ WholeTable => AllFound /\ ~exited
  BY ReachedFindable DEF Sound, WholeTable, AllFound, Findable, Used
<1> QED BY <1>1, <1>2, WholeInit, CountsAlways, SoundAlways, PTL DEF Spec

(***************************************************************************)
(* The map that a set is to its callers.                                   *)
(***************************************************************************)
LEMMA FoundWhereHeld ==
  ASSUME NEW t \in Tables, Findable(t), NEW n \in Names
  PROVE  /\ \A i \in ProbeEnd(t, n) : FindList(t, n) = t[i]
         /\ \A i \in Used(t) : t[i][1].name = n => FindList(t, n) = t[i]
         /\ (\A i \in Used(t) : t[i][1].name # n) => FindList(t, n) = << >>
         /\ FindList(t, n) \in Seq(Packages)
<1>1. ASSUME NEW i \in ProbeEnd(t, n)
      PROVE  FindList(t, n) = t[i]
  <2> DEFINE j == CHOOSE k \in ProbeEnd(t, n) : TRUE
  <2>1. j \in ProbeEnd(t, n) /\ FindList(t, n) = t[j]
    BY <1>1 DEF FindList
  <2> HIDE DEF j
  <2> QED BY <1>1, <2>1, ProbesEndOnce
<1>2. \A i \in Used(t) : t[i][1].name = n => FindList(t, n) = t[i]
  BY <1>1 DEF Findable
<1>3. CASE ProbeEnd(t, n) = {}
  <2>1. FindList(t, n) = << >> /\ << >> \in Seq(Packages)
    BY <1>3, EmptySeq DEF FindList
  <2> QED BY <1>1, <1>2, <2>1
<1>4. CASE ProbeEnd(t, n) # {}
  <2>1. PICK i \in ProbeEnd(t, n) : TRUE
    BY <1>4
  <2>2. i \in DOMAIN t /\ FindList(t, n) = t[i] /\ t[i] \in Seq(Packages)
        /\ (t[i] = << >> \/ t[i][1].name = n)
    BY <1>1, <2>1, TableShape DEF ProbeEnd, Ends
  <2> QED BY <1>1, <1>2, <2>2 DEF Used
<1> QED BY <1>3, <1>4

(* Placing a package changes what is found under its name alone.           *)
LEMMA PlacedFound ==
  ASSUME NEW store \in FiledStores, NEW p \in Packages,
         NEW placed \in FiledStores,
         DOMAIN placed.table = DOMAIN store.table,
         NEW slot, PlacedAt(store, p, placed, slot),
         Findable(store.table), Findable(placed.table), NEW n \in Names
  PROVE  /\ FindList(store.table, p.name) = store.table[slot]
         /\ FindList(placed.table, n) =
              IF n = p.name THEN placed.table[slot] ELSE FindList(store.table, n)
<1> DEFINE t == store.table
           u == placed.table
<1>1. /\ t \in Tables /\ u \in Tables /\ DOMAIN u = DOMAIN t
      /\ Filed(t) /\ Findable(t) /\ Findable(u) /\ p.name \in Names
  BY DEF FiledStores, CountedStores, Stores, Names
<1>2. /\ slot \in ProbeEnd(t, p.name) /\ slot \in DOMAIN t
      /\ \A j \in DOMAIN t : j # slot => u[j] = t[j]
      /\ t[slot] = << >> \/ t[slot][1].name = p.name
  BY DEF PlacedAt, ProbeEnd, Ends
<1>3. u[slot] # << >> => u[slot][1].name = p.name
  <2>1. u[slot] \in Seq(Packages) /\ \A q \in ToSet(u[slot]) : q.name = p.name
    BY PlacedContents DEF FiledStores
  <2> HIDE DEF u
  <2> QED BY <2>1, FirstOfList DEF ToSet
<1>4. SUFFICES FindList(u, n) = IF n = p.name THEN u[slot] ELSE FindList(t, n)
  BY <1>1, <1>2, FoundWhereHeld
<1> HIDE DEF t, u
<1>5. CASE n = p.name
  <2>1. CASE u[slot] # << >>
    BY <1>1, <1>2, <1>3, <1>5, <2>1, FoundWhereHeld DEF Used
  <2>2. CASE u[slot] = << >>
    <3>1. ASSUME NEW j \in Used(u), u[j][1].name = n
          PROVE  FALSE
      <4>1. j \in Used(t) /\ t[j][1].name = n /\ j # slot
        BY <1>1, <1>2, <2>2, <3>1 DEF Used
      <4>2. j \in ProbeEnd(t, n)
        BY <1>1, <4>1 DEF Findable
      <4> QED BY <1>1, <1>2, <1>5, <4>1, <4>2, ProbesEndOnce
    <3> QED BY <1>1, <1>5, <2>2, <3>1, FoundWhereHeld
  <2> QED BY <2>1, <2>2
<1>6. CASE n # p.name
  <2>1. \A j : (j \in Used(u) /\ u[j][1].name = n)
                  <=> (j \in Used(t) /\ t[j][1].name = n)
    BY <1>1, <1>2, <1>3, <1>6 DEF Used
  <2>2. CASE \E j \in Used(t) : t[j][1].name = n
    <3>1. PICK j \in Used(t) : t[j][1].name = n
      BY <2>2
    <3>2. j \in Used(u) /\ u[j][1].name = n /\ j # slot /\ j \in DOMAIN t
      BY <1>2, <1>6, <2>1, <3>1 DEF Used
    <3>3. FindList(t, n) = t[j] /\ FindList(u, n) = u[j]
      BY <1>1, <3>1, <3>2, FoundWhereHeld
    <3> QED BY <1>2, <1>6, <3>2, <3>3
  <2>3. CASE \A j \in Used(t) : t[j][1].name # n
    <3>1. \A j \in Used(u) : u[j][1].name # n
      BY <2>1, <2>3
    <3>2. FindList(t, n) = << >> /\ FindList(u, n) = << >>
      BY <1>1, <2>3, <3>1, FoundWhereHeld
    <3> QED BY <1>6, <3>2
  <2> QED BY <2>2, <2>3
<1> QED BY <1>5, <1>6

(* The merges of the map are those of the set.                             *)
LEMMA MapMergesAlike ==
  ASSUME NEW list, NEW r, NEW p, NEW d
  PROVE  /\ Map!Merged(list, r, p) = Merged(list, r, p)
         /\ Map!DerivationAfter(list, r, p, d) = DerivationAfter(list, r, p, d)
         /\ Map!ChangeOf(list, r, p) = ChangeOf(list, r, p)
         /\ Map!Sorted(list) = Sorted(list)
<1>1. \A a, b : Map!SameKey(a, b) = SameKey(a, b) /\ Map!Before(a, b) = Before(a, b)
                /\ Map!Identical(a, b) = Identical(a, b)
  BY DEF Map!SameKey, SameKey, Map!Before, Before, Map!Identical, Identical
<1>2. Map!Position(list, p) = Position(list, p)
  <2> DEFINE g == { i \in DOMAIN list : Map!SameKey(list[i], p) }
             h == { i \in DOMAIN list : SameKey(list[i], p) }
  <2>1. g = h
    BY <1>1
  <2>2. Map!Position(list, p) =
          IF g = {} THEN 0 ELSE CHOOSE i \in g : \A j \in g : i <= j
    BY DEF Map!Position
  <2>3. Position(list, p) =
          IF h = {} THEN 0 ELSE CHOOSE i \in h : \A j \in h : i <= j
    BY DEF Position
  <2> HIDE DEF g, h
  <2> QED BY <2>1, <2>2, <2>3
<1>3. Map!Current(list, p) = Current(list, p)
  BY <1>2 DEF Map!Current, Current
<1>4. Map!UsesPrefix(r, p) = UsesPrefix(r, p) /\ Map!Swap = Swap
  BY DEF Map!UsesPrefix, UsesPrefix, Map!Swap, Swap
<1>5. \A cur : Map!MergePlan(r, cur, p) = MergePlan(r, cur, p)
  <2>1. \A cur : Map!PrefixPlan(cur, p) = PrefixPlan(cur, p)
    BY DEF Map!PrefixPlan, PrefixPlan, Map!Pinned, Pinned,
           Map!Reject, Map!Keep, Map!Add, Map!Discard, Map!Swap,
           Reject, Keep, Add, Discard, Swap
  <2>2. \A cur : Map!PriorityPlan(cur, p) = PriorityPlan(cur, p)
    BY DEF Map!PriorityPlan, PriorityPlan,
           Map!Reject, Map!Keep, Map!Swap, Reject, Keep, Swap
  <2>3. Map!Add = Add /\ Map!Keep = Keep /\ Map!Reject = Reject
    BY DEF Map!Add, Add, Map!Keep, Keep, Map!Reject, Reject
  <2> QED BY <1>1, <1>4, <2>1, <2>2, <2>3 DEF Map!MergePlan, MergePlan
<1>6. Map!PlanFor(list, r, p) = PlanFor(list, r, p)
  BY <1>3, <1>5 DEF Map!PlanFor, PlanFor
<1>7. Map!Merged(list, r, p) = Merged(list, r, p)
  <2>1. \A s, i : Map!RemoveAt(s, i) = RemoveAt(s, i)
    BY DEF Map!RemoveAt, RemoveAt
  <2> QED BY <1>2, <1>6, <2>1 DEF Map!Merged, Merged
<1>8. Map!DerivationAfter(list, r, p, d) = DerivationAfter(list, r, p, d)
  BY <1>3, <1>4, <1>6 DEF Map!DerivationAfter, DerivationAfter
<1>9. Map!Sorted(list) = Sorted(list)
  <2>1. \A S : Map!Cardinality(S) = Cardinality(S)
    BY Zenon DEF Map!Cardinality, Cardinality
  <2> DEFINE R(i) == { j \in DOMAIN list :
                        \/ Before(list[j], list[i])
                        \/ ~Before(list[i], list[j]) /\ j <= i }
             S(i) == { j \in DOMAIN list :
                        \/ Map!Before(list[j], list[i])
                        \/ ~Map!Before(list[i], list[j]) /\ j <= i }
  <2>2. \A i : S(i) = R(i)
    BY <1>1
  <2>3. \A i : Map!Cardinality(S(i)) = Cardinality(R(i))
    BY <2>1, <2>2
  <2> HIDE DEF R, S
  <2>4. ASSUME NEW k
        PROVE  (CHOOSE i \in DOMAIN list : Map!Cardinality(S(i)) = k)
                 = (CHOOSE i \in DOMAIN list : Cardinality(R(i)) = k)
    <3>1. \A i : Map!Cardinality(S(i)) = k <=> Cardinality(R(i)) = k
      BY <2>3
    <3> QED BY <3>1, Zenon
  <2>5. Map!Sorted(list) =
          [ k \in DOMAIN list |->
              list[CHOOSE i \in DOMAIN list : Map!Cardinality(S(i)) = k] ]
    BY DEF Map!Sorted, S
  <2>6. Sorted(list) =
          [ k \in DOMAIN list |->
              list[CHOOSE i \in DOMAIN list : Cardinality(R(i)) = k] ]
    BY DEF Sorted, R
  <2>7. \A k \in DOMAIN list :
          list[CHOOSE i \in DOMAIN list : Map!Cardinality(S(i)) = k]
            = list[CHOOSE i \in DOMAIN list : Cardinality(R(i)) = k]
    BY <2>4
  <2> QED BY <2>5, <2>6, <2>7, Zenon
<1>10. Map!ChangeOf(list, r, p) = ChangeOf(list, r, p)
  BY <1>2, <1>6 DEF Map!ChangeOf, ChangeOf, Map!Reject, Reject
<1> QED BY <1>7, <1>8, <1>9, <1>10

(* The buckets with lists of one name, and these lists.                    *)
BucketsOf(t, n) == { j \in Used(t) : t[j][1].name = n }
ListsOf(t, n) == { t[i] : i \in BucketsOf(t, n) }

(* No list, or this one.                                                   *)
OnlyList(list) == IF list = << >> THEN {} ELSE {list}

LEMMA FoundList ==
  ASSUME NEW t \in Tables, Findable(t), NEW n \in Names, NEW list,
         ListsOf(t, n) = OnlyList(list)
  PROVE  FindList(t, n) = list
<1>1. CASE list = << >>
  <2>1. \A i \in Used(t) : t[i][1].name # n
    BY <1>1 DEF ListsOf, BucketsOf, OnlyList
  <2> QED BY <1>1, <2>1, FoundWhereHeld
<1>2. CASE list # << >>
  <2>1. PICK i \in Used(t) : t[i][1].name = n /\ t[i] = list
    BY <1>2 DEF ListsOf, BucketsOf, OnlyList
  <2> QED BY <2>1, FoundWhereHeld
<1> QED BY <1>1, <1>2

(* Merging a list from nothing, as the map does.                           *)
RemergeRun(state, list, r, d, n) ==
  /\ state[0] = Map!Unmerged(d)
  /\ \A k \in 1 .. n : state[k] = Map!AndMerged(state[k - 1], r, list[k])

LEMMA RemergeRunExists ==
  ASSUME NEW list, NEW r, NEW d, NEW n \in Nat
  PROVE  \E state : IsOn(state, n) /\ RemergeRun(state, list, r, d, n)
<1> DEFINE S == { m \in Nat : \E state : /\ IsOn(state, m)
                                         /\ RemergeRun(state, list, r, d, m) }
<1>1. 0 \in S
  <2> DEFINE state == [ i \in 0 .. 0 |-> Map!Unmerged(d) ]
  <2>1. IsOn(state, 0) /\ RemergeRun(state, list, r, d, 0)
    BY DEF RemergeRun, IsOn
  <2> QED BY <2>1
<1>2. ASSUME NEW m \in 1 .. n, m - 1 \in S
      PROVE  m \in S
  <2>1. PICK before : IsOn(before, m - 1) /\ RemergeRun(before, list, r, d, m - 1)
    BY <1>2
  <2> DEFINE last == Map!AndMerged(before[m - 1], r, list[m])
             state == [ i \in 0 .. m |-> IF i = m THEN last ELSE before[i] ]
  <2> HIDE DEF last
  <2>2. /\ IsOn(state, m)
        /\ \A i \in 0 .. m - 1 : state[i] = before[i]
        /\ state[m] = last
    BY DEF IsOn
  <2> HIDE DEF state
  <2>3. state[0] = Map!Unmerged(d)
    BY <2>1, <2>2 DEF RemergeRun
  <2>4. ASSUME NEW i \in 1 .. m
        PROVE  state[i] = Map!AndMerged(state[i - 1], r, list[i])
    <3>1. CASE i = m
      <4>1. state[m - 1] = before[m - 1]
        BY <2>2
      <4> QED BY <2>2, <3>1, <4>1 DEF last
    <3>2. CASE i # m
      <4>1. i \in 1 .. m - 1 /\ i \in 0 .. m - 1 /\ i - 1 \in 0 .. m - 1
        BY <3>2
      <4> QED BY <2>1, <2>2, <4>1 DEF RemergeRun
    <3> QED BY <3>1, <3>2
  <2>5. RemergeRun(state, list, r, d, m)
    BY <2>3, <2>4 DEF RemergeRun
  <2> QED BY <2>2, <2>5
<1> HIDE DEF S
<1>3. \A m \in 0 .. n : m \in S
  BY <1>1, <1>2, UpTo
<1> QED BY <1>3 DEF S

LEMMA RemergedRuns ==
  ASSUME NEW list, NEW r, NEW d, Len(list) \in Nat
  PROVE  \E state : /\ RemergeRun(state, list, r, d, Len(list))
                    /\ Map!Remerged(list, r, d) = state[Len(list)]
<1> DEFINE n == Len(list)
           Step(f) == [ k \in 0 .. n |->
                          IF k = 0 THEN Map!Unmerged(d)
                          ELSE CHOOSE after \in { Map!AndMerged(before, r, list[k]) :
                                                  before \in { f[k - 1] } } : TRUE ]
           upTo == CHOOSE f : f = Step(f)
<1>1. Map!Remerged(list, r, d) = upTo[n]
  BY DEF Map!Remerged
<1>2. \A before, k :
        (CHOOSE after \in { Map!AndMerged(b, r, list[k]) : b \in {before} } : TRUE)
          = Map!AndMerged(before, r, list[k])
  OBVIOUS
<1>3. \E f : f = Step(f)
  <2>1. PICK f : IsOn(f, n) /\ RemergeRun(f, list, r, d, n)
    BY RemergeRunExists
  <2>2. ASSUME NEW k \in 0 .. n
        PROVE  f[k] = Step(f)[k]
    <3>1. k # 0 => k \in 1 .. n
      OBVIOUS
    <3>2. k # 0 => f[k] = Map!AndMerged(f[k - 1], r, list[k])
      BY <2>1, <3>1 DEF RemergeRun
    <3>3. f[0] = Map!Unmerged(d)
      BY <2>1 DEF RemergeRun
    <3>4. Step(f)[k] = IF k = 0 THEN Map!Unmerged(d)
                       ELSE CHOOSE after \in { Map!AndMerged(before, r, list[k]) :
                                               before \in { f[k - 1] } } : TRUE
      OBVIOUS
    <3> HIDE DEF Step
    <3> QED BY <1>2, <3>2, <3>3, <3>4
  <2>3. f = [ k \in 0 .. n |-> Step(f)[k] ]
    BY <2>1, <2>2 DEF IsOn
  <2> QED BY <2>3
<1>4. upTo = Step(upTo)
  BY <1>3
<1> HIDE DEF upTo
<1>5. \A k \in 0 .. n : upTo[k] = Step(upTo)[k]
  BY <1>4
<1>6. RemergeRun(upTo, list, r, d, n)
  <2>1. upTo[0] = Map!Unmerged(d)
    BY <1>5
  <2>2. ASSUME NEW k \in 1 .. n
        PROVE  upTo[k] = Map!AndMerged(upTo[k - 1], r, list[k])
    BY <1>2, <1>5
  <2> QED BY <2>1, <2>2 DEF RemergeRun
<1> QED BY <1>1, <1>6

(* The packages of name n have the same derivation.                        *)
Alike(d, e, n) == \A q \in Packages : q.name = n => d[q] = e[q]

(* A merge changes the derivation of packages of its name alone ...        *)
LEMMA DerivationOfOthers ==
  ASSUME NEW list, NEW rls, NEW p, NEW d, DOMAIN d = Packages,
         NEW q \in Packages, q.name # p.name
  PROVE  DerivationAfter(list, rls, p, d)[q] = d[q]
<1> DEFINE du == UNION { d[c] : c \in Current(list, p) }
<1>1. /\ q # p
      /\ DerivationAfter(list, rls, p, d) \in { d, [ d EXCEPT ![p] = @ \cup du ] }
  BY DEF DerivationAfter
<1> HIDE DEF du
<1> QED BY <1>1

(* ... and looks at no others.                                             *)
LEMMA DerivationLocal ==
  ASSUME NEW list \in Seq(Packages), NEW rls, NEW p \in Packages,
         NEW d, DOMAIN d = Packages, NEW e, DOMAIN e = Packages,
         Alike(d, e, p.name)
  PROVE  Alike(DerivationAfter(list, rls, p, d), DerivationAfter(list, rls, p, e),
               p.name)
<1> DEFINE cur == Current(list, p)
           du == UNION { d[c] : c \in cur }
           eu == UNION { e[c] : c \in cur }
<1>1. \A c \in cur : c \in Packages /\ c.name = p.name
  <2> SUFFICES ASSUME NEW c \in cur PROVE c \in Packages /\ c.name = p.name
    OBVIOUS
  <2>1. Position(list, p) # 0
    BY DEF Current
  <2>2. c = list[Position(list, p)] /\ Position(list, p) \in DOMAIN list
        /\ SameKey(list[Position(list, p)], p)
    BY <2>1, CurrentSound
  <2> QED BY <2>2, FirstOfList DEF SameKey
<1>2. \A c \in cur : d[c] = e[c]
  BY <1>1 DEF Alike
<1>3. { d[c] : c \in cur } = { e[c] : c \in cur }
  BY <1>2
<1>4. du = eu
  BY <1>3
<1>5. /\ DerivationAfter(list, rls, p, d) \in
           { d, [ d EXCEPT ![p] = @ \cup du ] }
      /\ DerivationAfter(list, rls, p, e) =
           IF UsesPrefix(rls, p) /\ PlanFor(list, rls, p) = Swap
           THEN [ e EXCEPT ![p] = @ \cup eu ] ELSE e
      /\ DerivationAfter(list, rls, p, d) =
           IF UsesPrefix(rls, p) /\ PlanFor(list, rls, p) = Swap
           THEN [ d EXCEPT ![p] = @ \cup du ] ELSE d
  BY DEF DerivationAfter
<1> HIDE DEF cur, du, eu
<1> QED BY <1>4, <1>5 DEF Alike

(* What remains of the packages of a name that are merged again.           *)
Remergings ==
  [ list: Seq(Packages), derivation: [Packages -> SUBSET Nat], refused: BOOLEAN ]

(* This is the only list of its name, where the probe for it ends.         *)
Alone(t, n, list) ==
  IF list = << >> THEN BucketsOf(t, n) = {}
  ELSE \E i \in ProbeEnd(t, n) : BucketsOf(t, n) = {i} /\ t[i] = list

(* The stores in which a table can be that had no list of name n when it   *)
(* was from, and in which n now has what r says.                           *)
Remerging(from, n, r) ==
  { s \in FiledStores :
      /\ Alone(s.table, n, r.list)
      /\ \A m : m # n => ListsOf(s.table, m) = ListsOf(from.table, m)
      /\ \A q \in Packages :
           s.derivation[q] = IF q.name = n THEN r.derivation[q]
                             ELSE from.derivation[q]
      /\ s.failed = (from.failed \/ r.refused) }

LEMMA AndMergedTyped ==
  ASSUME NEW r \in Remergings, NEW p \in Packages
  PROVE  /\ Map!AndMerged(r, rules, p) \in Remergings
         /\ Map!AndMerged(r, rules, p) =
              [ list |-> Merged(r.list, rules, p),
                derivation |-> DerivationAfter(r.list, rules, p, r.derivation),
                refused |-> r.refused \/ ChangeOf(r.list, rules, p) = "ERROR" ]
<1>1. Map!AndMerged(r, rules, p) =
        [ list |-> Merged(r.list, rules, p),
          derivation |-> DerivationAfter(r.list, rules, p, r.derivation),
          refused |-> r.refused \/ ChangeOf(r.list, rules, p) = "ERROR" ]
  BY MapMergesAlike DEF Map!AndMerged
<1>2. /\ Merged(r.list, rules, p) \in Seq(Packages)
      /\ DerivationAfter(r.list, rules, p, r.derivation) \in [Packages -> SUBSET Nat]
  BY MergedShape, DerivationSound DEF Remergings
<1>3. (r.refused \/ ChangeOf(r.list, rules, p) = "ERROR") \in BOOLEAN
  BY DEF Remergings
<1> QED BY <1>1, <1>2, <1>3 DEF Remergings

(* Merging a package again in the table is merging it in the map.          *)
LEMMA RemergingStep ==
  ASSUME NEW from \in FiledStores, NEW n, NEW r \in Remergings,
         NEW s \in Remerging(from, n, r), NEW p \in Packages, p.name = n,
         \E i \in DOMAIN s.table : s.table[i] = << >>
  PROVE  Again(s, p) \in Remerging(from, n, Map!AndMerged(r, rules, p))
<1> DEFINE t == s.table
           placed == Place(s, p)
           u == placed.table
           after == Map!AndMerged(r, rules, p)
<1>1. /\ s \in FiledStores /\ s \in CountedStores /\ t \in Tables
      /\ s.derivation \in [Packages -> SUBSET Nat]
      /\ s.failed \in BOOLEAN /\ from.failed \in BOOLEAN /\ n \in Names
      /\ from.derivation \in [Packages -> SUBSET Nat]
  BY DEF Remerging, FiledStores, CountedStores, Stores, Names
<1>2. /\ Alone(t, n, r.list)
      /\ \A m : m # n => ListsOf(t, m) = ListsOf(from.table, m)
      /\ \A q \in Packages : s.derivation[q] =
           IF q.name = n THEN r.derivation[q] ELSE from.derivation[q]
      /\ s.failed = (from.failed \/ r.refused)
  BY DEF Remerging
<1>3. /\ placed \in FiledStores /\ u \in Tables
      /\ DOMAIN u = DOMAIN t /\ Buckets(u) = Buckets(t) /\ placed.failed = s.failed
      /\ \/ NotPlaced(s, p, placed)
         \/ \E slot : PlacedAt(s, p, placed, slot)
  BY <1>1, PlaceSound, PlaceFiled DEF FiledStores, CountedStores, Stores
<1>4. ~NotPlaced(s, p, placed)
  BY <1>1, ProbesEnd DEF NotPlaced
<1>5. PICK slot : PlacedAt(s, p, placed, slot)
  BY <1>3, <1>4
<1>6. /\ slot \in ProbeEnd(t, n) /\ slot \in DOMAIN t /\ Ends(t, n, slot)
      /\ \A j \in DOMAIN t : j # slot => u[j] = t[j]
      /\ u[slot] = Merged(t[slot], rules, p)
      /\ placed.derivation = DerivationAfter(t[slot], rules, p, s.derivation)
      /\ placed.change = ChangeOf(t[slot], rules, p)
  BY <1>5 DEF PlacedAt, ProbeEnd
<1>7. u[slot] # << >> => u[slot][1].name = n
  BY <1>1, <1>5, PlaceFiled
<1>8. after \in Remergings
      /\ after.list = Merged(r.list, rules, p)
      /\ after.derivation = DerivationAfter(r.list, rules, p, r.derivation)
      /\ after.refused = (r.refused \/ ChangeOf(r.list, rules, p) = "ERROR")
  BY AndMergedTyped
<1>9. /\ Again(s, p) \in FiledStores
      /\ Again(s, p).table = u /\ Again(s, p).derivation = placed.derivation
      /\ Again(s, p).failed = (placed.failed \/ placed.change = "ERROR")
  BY <1>1, AgainSound, AgainFiled DEF placed, u
<1> HIDE DEF t, u, placed, after
<1>10. t[slot] = r.list /\ BucketsOf(t, n) \subseteq {slot}
  <2>1. CASE r.list = << >>
    <3>1. BucketsOf(t, n) = {}
      BY <1>2, <2>1 DEF Alone
    <3> QED BY <1>6, <2>1, <3>1 DEF Ends, Used, BucketsOf
  <2>2. CASE r.list # << >>
    <3>1. PICK i \in ProbeEnd(t, n) : BucketsOf(t, n) = {i} /\ t[i] = r.list
      BY <1>2, <2>2 DEF Alone
    <3>2. i = slot
      BY <1>1, <1>6, <3>1, ProbesEndOnce
    <3> QED BY <3>1, <3>2
  <2> QED BY <2>1, <2>2
<1>11. u[slot] = after.list
  BY <1>6, <1>8, <1>10
<1>12. u[slot] # << >> => slot \in ProbeEnd(u, n)
  <2> SUFFICES ASSUME u[slot] # << >> PROVE slot \in ProbeEnd(u, n)
    OBVIOUS
  <2>1. Home(u, n) = Home(t, n) /\ Home(t, n) \in Nat /\ slot \in Nat
    BY <1>1, <1>3, <1>6, HomeIsBucket, TableShape DEF Home
  <2>2. Ends(u, n, slot)
    BY <1>7 DEF Ends
  <2>3. ASSUME NEW j \in DOMAIN u, ProbedBefore(Home(u, n), j, slot)
        PROVE  ~Ends(u, n, j)
    <3>1. j # slot /\ j \in DOMAIN t
      BY <1>3, <2>1, <2>3, ProbesOrdered
    <3> QED BY <1>6, <2>1, <2>3, <3>1 DEF ProbeEnd, Ends
  <2> QED BY <1>3, <1>6, <2>2, <2>3 DEF ProbeEnd
<1>13. Alone(u, n, after.list)
  <2>1. BucketsOf(u, n) = IF u[slot] = << >> THEN {} ELSE {slot}
    BY <1>3, <1>6, <1>7, <1>10 DEF BucketsOf, Used
  <2> QED BY <1>11, <1>12, <2>1 DEF Alone
<1>14. ASSUME NEW m, m # n
       PROVE  ListsOf(u, m) = ListsOf(from.table, m)
  <2>1. BucketsOf(u, m) = BucketsOf(t, m) /\ slot \notin BucketsOf(t, m)
    BY <1>3, <1>6, <1>7, <1>14 DEF BucketsOf, Used, Ends
  <2>2. \A i \in BucketsOf(t, m) : u[i] = t[i]
    BY <1>6, <2>1 DEF BucketsOf, Used
  <2>3. ListsOf(u, m) = ListsOf(t, m)
    BY <2>1, <2>2 DEF ListsOf
  <2> QED BY <1>2, <1>14, <2>3
<1>15. ASSUME NEW q \in Packages
       PROVE  placed.derivation[q] =
                IF q.name = n THEN after.derivation[q] ELSE from.derivation[q]
  <2>1. r.list \in Seq(Packages) /\ r.derivation \in [Packages -> SUBSET Nat]
    BY DEF Remergings
  <2> DEFINE list == r.list
             d == s.derivation
             e == r.derivation
  <2>2. Alike(d, e, p.name)
    BY <1>2 DEF Alike
  <2>3. /\ Alike(DerivationAfter(list, rules, p, d), DerivationAfter(list, rules, p, e),
                 p.name)
        /\ q.name # p.name => DerivationAfter(list, rules, p, d)[q] = d[q]
    <3>1. list \in Seq(Packages) /\ DOMAIN d = Packages /\ DOMAIN e = Packages
      BY <1>1, <2>1
    <3> HIDE DEF list, d, e
    <3> QED BY <2>2, <3>1, DerivationLocal, DerivationOfOthers
  <2> QED BY <1>2, <1>6, <1>8, <1>10, <2>3 DEF Alike
<1>16. (placed.failed \/ placed.change = "ERROR") = (from.failed \/ after.refused)
  <2>1. placed.change = ChangeOf(r.list, rules, p)
    BY <1>6, <1>10
  <2> DEFINE e == ChangeOf(r.list, rules, p) = "ERROR"
  <2>2. r.refused \in BOOLEAN
    BY DEF Remergings
  <2> QED BY <1>1, <1>2, <1>3, <1>8, <2>1, <2>2
<1> QED BY <1>9, <1>13, <1>14, <1>15, <1>16 DEF Remerging, after

(* A list merged again is what the map says.                               *)
LEMMA ListRemerged ==
  ASSUME NEW K \in SUBSET Packages, NEW b \in Nat, NEW e \in Nat, e + 1 < b,
         NEW n, NEW from \in Refilled(K, n, b, e, FALSE),
         BucketsOf(from.table, n) = {},
         NEW d \in [Packages -> SUBSET Nat],
         \A q \in Packages : q.name = n => from.derivation[q] = d[q],
         NEW list \in Seq(Packages),
         \A k \in DOMAIN list : list[k] \in K /\ list[k].name = n
  PROVE  /\ Map!Remerged(list, rules, d) \in Remergings
         /\ WithList(from, list) \in
              Remerging(from, n, Map!Remerged(list, rules, d))
<1> DEFINE I == Refilled(K, n, b, e, FALSE)
           length == Len(list)
<1>1. length \in Nat /\ DOMAIN list = 1 .. length /\ length \in 0 .. length
  BY FirstOfList
<1>2. PICK state : /\ ListRun(state, from, list, length)
                   /\ WithList(from, list) = state[length]
  BY <1>1, WithListRuns
<1>3. PICK run : /\ RemergeRun(run, list, rules, d, length)
                 /\ Map!Remerged(list, rules, d) = run[length]
  BY <1>1, RemergedRuns
<1> DEFINE S == { k \in Nat : /\ run[k] \in Remergings /\ state[k] \in I
                              /\ state[k] \in Remerging(from, n, run[k]) }
<1>4. 0 \in S
  <2>1. state[0] = from /\ run[0] = Map!Unmerged(d)
    BY <1>2, <1>3 DEF ListRun, RemergeRun
  <2>2. Map!Unmerged(d) = [ list |-> << >>, derivation |-> d, refused |-> FALSE ]
    BY DEF Map!Unmerged
  <2>3. run[0] \in Remergings /\ run[0].list = << >> /\ run[0].derivation = d
        /\ run[0].refused = FALSE
    BY <2>1, <2>2, EmptySeq DEF Remergings
  <2>4. from \in FiledStores /\ from.failed \in BOOLEAN
    BY DEF Refilled, FiledStores, CountedStores, Stores
  <2> QED BY <2>1, <2>3, <2>4 DEF Remerging, Alone
<1>5. ASSUME NEW k \in 1 .. length, k - 1 \in S
      PROVE  k \in S
  <2> DEFINE s == state[k - 1]
             p == list[k]
  <2>1. p \in K /\ p.name = n /\ p \in Packages /\ k \in Nat
    BY <1>1
  <2>2. state[k] = Again(s, p) /\ run[k] = Map!AndMerged(run[k - 1], rules, p)
    BY <1>2, <1>3 DEF ListRun, RemergeRun
  <2>3. s \in I /\ s \in Remerging(from, n, run[k - 1]) /\ run[k - 1] \in Remergings
    BY <1>5
  <2> HIDE DEF s, p
  <2>4. \E i \in DOMAIN s.table : s.table[i] = << >>
    <3>1. /\ s.table \in Tables /\ s.entries = Cardinality(Used(s.table))
          /\ s.entries \in Nat /\ Buckets(s.table) = b /\ s.entries <= e + 1
      BY <2>3 DEF Refilled, FiledStores, CountedStores, Stores
    <3>2. Cardinality(Used(s.table)) < Buckets(s.table)
      BY <3>1
    <3> QED BY <3>1, <3>2, RoomFound
  <2>5. Again(s, p) \in I
    BY <2>1, <2>3, RefilledStep
  <2>6. from \in FiledStores
    BY DEF Refilled
  <2>7. Again(s, p) \in Remerging(from, n, Map!AndMerged(run[k - 1], rules, p))
    BY <2>1, <2>3, <2>4, <2>6, RemergingStep
  <2>8. Map!AndMerged(run[k - 1], rules, p) \in Remergings
    BY <2>1, <2>3, AndMergedTyped
  <2> QED BY <2>1, <2>2, <2>5, <2>7, <2>8
<1> HIDE DEF S, length
<1>6. length \in S
  BY <1>1, <1>4, <1>5, UpTo
<1> QED BY <1>2, <1>3, <1>6 DEF S

(* The lists of a table are of different names.                            *)
NamesDiffer(t) ==
  \A i, j \in Used(t) : t[i][1].name = t[j][1].name => i = j

LEMMA FindableDiffers ==
  ASSUME NEW t \in Tables, Findable(t)
  PROVE  NamesDiffer(t)
<1> SUFFICES ASSUME NEW i \in Used(t), NEW j \in Used(t),
                    t[i][1].name = t[j][1].name
             PROVE  i = j
  BY DEF NamesDiffer
<1>1. t[i][1].name \in Names
  BY UsedBuckets
<1>2. i \in ProbeEnd(t, t[i][1].name) /\ j \in ProbeEnd(t, t[i][1].name)
  BY DEF Findable
<1> QED BY <1>1, <1>2, ProbesEndOnce

(* The stores in which a growing table can be that has merged again the    *)
(* lists before bucket i, when d was the derivation of each package.       *)
Regrown(old, b, d, i) ==
  { s \in Refilling(old, b, FALSE, i) :
      /\ \A j \in Used(old) :
           ListsOf(s.table, old[j][1].name) =
             IF j < i THEN OnlyList(Map!Remerged(old[j], rules, d).list) ELSE {}
      /\ \A m : (\A j \in Used(old) : old[j][1].name # m) => ListsOf(s.table, m) = {}
      /\ \A q \in Packages :
           /\ \A j \in Used(old) : j < i /\ old[j][1].name = q.name =>
                s.derivation[q] = Map!Remerged(old[j], rules, d).derivation[q]
           /\ (\A j \in Used(old) : j < i => old[j][1].name # q.name) =>
                s.derivation[q] = d[q]
      /\ s.failed = (\E j \in Used(old) : j < i /\ Map!Remerged(old[j], rules, d).refused) }

LEMMA RegrownStep ==
  ASSUME NEW old \in Tables, Filed(old), NamesDiffer(old),
         NEW b \in Nat, Cardinality(Used(old)) < b,
         NEW d \in [Packages -> SUBSET Nat],
         NEW i \in DOMAIN old, NEW s \in Regrown(old, b, d, i)
  PROVE  WithList(s, old[i]) \in Regrown(old, b, d, i + 1)
<1> DEFINE below(m) == Cardinality({ j \in Used(old) : j < m })
           list == old[i]
           new == WithList(s, list)
           R(j) == Map!Remerged(old[j], rules, d)
<1>1. /\ i \in Nat /\ list \in Seq(Packages) /\ Used(old) \subseteq Nat
      /\ Held(old) \in SUBSET Packages /\ Cardinality(Used(old)) \in Nat
      /\ s \in Refilling(old, b, FALSE, i)
  BY TableShape, HeldSound, UsedBuckets DEF Regrown
<1>2. new \in Refilling(old, b, FALSE, i + 1)
  BY <1>1, RefillingStep
<1>3. CASE list = << >>
  <2>1. Len(list) = 0 /\ i \notin Used(old)
    BY <1>3, EmptySeq DEF Used
  <2>2. PICK state : ListRun(state, s, list, Len(list)) /\ new = state[Len(list)]
    BY <2>1, WithListRuns
  <2>3. new = s
    BY <2>1, <2>2 DEF ListRun
  <2>4. \A j \in Used(old) : j < i + 1 <=> j < i
    BY <1>1, <2>1
  <2> HIDE DEF new
  <2> QED BY <1>2, <2>3, <2>4 DEF Regrown, new
<1>4. CASE list # << >>
  <2> DEFINE n == list[1].name
             e == below(i)
             K == Held(old)
             r == Map!Remerged(list, rules, d)
  <2>1. i \in Used(old)
    BY <1>4 DEF Used
  <2>2. e \in Nat /\ e + 1 < b
    <3>1. i + 1 \in Nat
      BY <1>1
    <3>2. \A m \in Nat : below(m) <= Cardinality(Used(old))
      BY UsedBelow
    <3>3. below(i) \in Nat /\ below(i + 1) = below(i) + 1
      BY <1>1, <2>1, UsedBelow
    <3> HIDE DEF below
    <3> QED BY <1>1, <3>1, <3>2, <3>3
  <2>3. \A k \in DOMAIN list : list[k] \in K /\ list[k].name = n
    BY <1>1, HeldSound DEF Filed
  <2>4. s \in Refilled(K, n, b, e, FALSE)
    BY <1>1 DEF Refilling, Refilled
  <2>5. BucketsOf(s.table, n) = {}
    <3>1. ListsOf(s.table, n) = {}
      BY <1>1, <2>1 DEF Regrown
    <3> QED BY <3>1 DEF ListsOf
  <2>6. \A j \in Used(old) : old[j][1].name = n => j = i
    BY <2>1 DEF NamesDiffer
  <2>7. \A q \in Packages : q.name = n => s.derivation[q] = d[q]
    BY <1>1, <2>6 DEF Regrown
  <2>8. s.failed = (\E j \in Used(old) : j < i /\ R(j).refused) /\ s.failed \in BOOLEAN
    BY DEF Regrown
  <2> HIDE DEF n, e, K, list
  <2>9. r \in Remergings /\ new \in Remerging(s, n, r)
    BY <1>1, <2>2, <2>3, <2>4, <2>5, <2>7, ListRemerged DEF K
  <2> HIDE DEF new
  <2>10. ListsOf(new.table, n) = OnlyList(r.list)
    BY <2>9 DEF Remerging, Alone, ListsOf, OnlyList
  <2>11. /\ \A m : m # n => ListsOf(new.table, m) = ListsOf(s.table, m)
         /\ \A q \in Packages :
              new.derivation[q] = IF q.name = n THEN r.derivation[q] ELSE s.derivation[q]
         /\ new.failed = (s.failed \/ r.refused)
    BY <2>9 DEF Remerging
  <2>12. r = R(i) /\ n = old[i][1].name
    BY DEF list, n
  <2>13. \A j \in Used(old) : j < i + 1 <=> j < i \/ j = i
    BY <1>1
  <2> HIDE DEF r, R
  <2>14. ASSUME NEW j \in Used(old)
         PROVE  ListsOf(new.table, old[j][1].name) =
                  IF j < i + 1 THEN OnlyList(R(j).list) ELSE {}
    <3>1. CASE j = i
      BY <2>10, <2>12, <2>13, <3>1
    <3>2. CASE j # i
      BY <2>6, <2>11, <2>13, <3>2 DEF Regrown, R
    <3> QED BY <3>1, <3>2
  <2>15. ASSUME NEW m, \A j \in Used(old) : old[j][1].name # m
         PROVE  ListsOf(new.table, m) = {}
    BY <2>1, <2>11, <2>12, <2>15 DEF Regrown
  <2>16. ASSUME NEW q \in Packages, NEW j \in Used(old), j < i + 1,
                old[j][1].name = q.name
         PROVE  new.derivation[q] = R(j).derivation[q]
    <3>1. CASE j = i
      BY <2>11, <2>12, <2>16, <3>1
    <3>2. CASE j # i
      BY <2>6, <2>11, <2>13, <2>16, <3>2 DEF Regrown, R
    <3> QED BY <3>1, <3>2
  <2>17. ASSUME NEW q \in Packages,
                \A j \in Used(old) : j < i + 1 => old[j][1].name # q.name
         PROVE  new.derivation[q] = d[q]
    <3>1. q.name # n
      BY <2>1, <2>12, <2>13, <2>17
    <3>2. \A j \in Used(old) : j < i => old[j][1].name # q.name
      BY <2>13, <2>17
    <3> QED BY <2>11, <3>1, <3>2 DEF Regrown
  <2>18. new.failed = (\E j \in Used(old) : j < i + 1 /\ R(j).refused)
    <3>1. r.refused \in BOOLEAN
      BY <2>9 DEF Remergings
    <3>2. (\E j \in Used(old) : j < i + 1 /\ R(j).refused)
            <=> (\E j \in Used(old) : j < i /\ R(j).refused) \/ R(i).refused
      BY <2>1, <2>13
    <3> QED BY <2>8, <2>11, <2>12, <3>1, <3>2
  <2> QED BY <1>2, <2>14, <2>15, <2>16, <2>17, <2>18 DEF Regrown, R, new, list
<1> QED BY <1>3, <1>4

(* Growing a table is merging every list again, each by itself.            *)
LEMMA GrowthRemerges ==
  ASSUME NEW store \in FiledStores, Findable(store.table), ~store.failed
  PROVE  LET new == WithTable(Emptied(store), store.table)
             R(n) == Map!Remerged(FindList(store.table, n), rules, store.derivation)
         IN /\ \A n \in Names : ListsOf(new.table, n) = OnlyList(R(n).list)
            /\ new.derivation = [ q \in Packages |-> R(q.name).derivation[q] ]
            /\ new.failed = (\E n \in Names : R(n).refused)
<1> DEFINE old == store.table
           b == 2 * store.entries + 1
           d == store.derivation
           n == Buckets(old)
           first == Emptied(store)
<1>1. /\ store \in CountedStores /\ old \in Tables /\ Filed(old) /\ NamesDiffer(old)
      /\ store.entries \in Nat /\ store.entries = Cardinality(Used(old))
      /\ d \in [Packages -> SUBSET Nat] /\ store.failed = FALSE
      /\ b \in Nat /\ b \in Nat \ {0} /\ Cardinality(Used(old)) < b
  BY FindableDiffers DEF FiledStores, CountedStores, Stores
<1>2. n \in Nat /\ n \in 0 .. n /\ DOMAIN old = 0 .. n - 1
  BY <1>1, TableShape
<1>3. first \in Regrown(old, b, d, 0)
  <2>1. /\ first \in FiledStores /\ first.table = EmptyTable(b)
        /\ first.entries = 0 /\ first.failed = FALSE /\ first.derivation = d
    BY <1>1, EmptiedFiled, EmptiedSound
  <2>2. Cardinality({ j \in Used(old) : j < 0 }) = 0
    BY <1>1, UsedBelow
  <2> HIDE DEF b, first
  <2>3. /\ Buckets(EmptyTable(b)) = b /\ Held(EmptyTable(b)) = {}
        /\ Used(EmptyTable(b)) = {}
    BY <1>1, EmptyTableSound
  <2>4. \A m : ListsOf(EmptyTable(b), m) = {}
    BY <2>3 DEF ListsOf, BucketsOf
  <2>5. \A j \in Used(old) : ~(j < 0)
    BY <1>1, UsedBuckets, TableShape
  <2> HIDE DEF d, old
  <2>6. first \in Refilling(old, b, FALSE, 0)
    BY <2>1, <2>2, <2>3 DEF Refilling
  <2>7. first.failed = (\E j \in Used(old) : j < 0 /\ Map!Remerged(old[j], rules, d).refused)
    BY <2>1, <2>5
  <2> QED BY <2>1, <2>4, <2>5, <2>6, <2>7 DEF Regrown
<1>4. PICK state : TableRun(state, first, old, n) /\ WithTable(first, old) = state[n]
  BY <1>2, WithTableRuns
<1> HIDE DEF b, d, first
<1> DEFINE S == { i \in Nat : state[i] \in Regrown(old, b, d, i) }
<1>5. 0 \in S
  BY <1>3, <1>4 DEF TableRun
<1>6. ASSUME NEW i \in 1 .. n, i - 1 \in S
      PROVE  i \in S
  <2>1. i - 1 \in DOMAIN old /\ (i - 1) + 1 = i /\ i \in Nat
    BY <1>2
  <2>2. state[i] = WithList(state[i - 1], old[i - 1])
    BY <1>4 DEF TableRun
  <2>3. state[i - 1] \in Regrown(old, b, d, i - 1)
    BY <1>6
  <2> HIDE DEF old
  <2>4. WithList(state[i - 1], old[i - 1]) \in Regrown(old, b, d, (i - 1) + 1)
    BY <1>1, <2>1, <2>3, RegrownStep
  <2> QED BY <2>1, <2>2, <2>4
<1> HIDE DEF S
<1>7. n \in S
  BY <1>2, <1>5, <1>6, UpTo
<1> DEFINE new == WithTable(first, old)
           R(m) == Map!Remerged(FindList(old, m), rules, d)
<1>8. new \in Regrown(old, b, d, n)
  BY <1>4, <1>7 DEF S
<1>9. \A j \in Used(old) : j < n /\ old[j][1].name \in Names
                            /\ FindList(old, old[j][1].name) = old[j]
  <2>1. \A j \in Used(old) : j < n /\ old[j][1].name \in Names
    BY <1>1, <1>2, UsedBuckets
  <2> QED BY <1>1, <2>1, FoundWhereHeld
<1>10. ASSUME NEW m \in Names, \A j \in Used(old) : old[j][1].name # m
       PROVE  R(m) = [ list |-> << >>, derivation |-> d, refused |-> FALSE ]
  <2>1. FindList(old, m) = << >>
    BY <1>1, <1>10, FoundWhereHeld
  <2>2. Map!Remerged(<< >>, rules, d) = Map!Unmerged(d)
    <3>1. Len(<< >>) = 0 /\ 0 \in Nat
      BY EmptySeq
    <3>2. PICK run : /\ RemergeRun(run, << >>, rules, d, Len(<< >>))
                     /\ Map!Remerged(<< >>, rules, d) = run[Len(<< >>)]
      BY <3>1, RemergedRuns
    <3> QED BY <3>1, <3>2 DEF RemergeRun
  <2> QED BY <2>1, <2>2 DEF Map!Unmerged
<1> HIDE DEF new
<1>11. ASSUME NEW m \in Names
       PROVE  ListsOf(new.table, m) = OnlyList(R(m).list)
  <2>1. CASE \E j \in Used(old) : old[j][1].name = m
    BY <1>8, <1>9, <2>1 DEF Regrown
  <2>2. CASE \A j \in Used(old) : old[j][1].name # m
    <3>1. ListsOf(new.table, m) = {}
      BY <1>8, <2>2 DEF Regrown
    <3>2. R(m).list = << >>
      BY <1>10, <2>2
    <3> QED BY <3>1, <3>2 DEF OnlyList
  <2> QED BY <2>1, <2>2
<1>12. ASSUME NEW q \in Packages
       PROVE  new.derivation[q] = R(q.name).derivation[q]
  <2>1. q.name \in Names
    BY DEF Names
  <2>2. CASE \E j \in Used(old) : old[j][1].name = q.name
    <3>1. PICK j \in Used(old) : old[j][1].name = q.name
      BY <2>2
    <3>2. new.derivation[q] = Map!Remerged(old[j], rules, d).derivation[q]
      BY <1>8, <1>9, <3>1 DEF Regrown
    <3> QED BY <1>9, <3>1, <3>2
  <2>3. CASE \A j \in Used(old) : old[j][1].name # q.name
    <3>1. new.derivation[q] = d[q]
      BY <1>8, <2>3 DEF Regrown
    <3>2. R(q.name).derivation = d
      BY <1>10, <2>1, <2>3
    <3> QED BY <3>1, <3>2
  <2> QED BY <2>2, <2>3
<1>13. new.failed = (\E m \in Names : R(m).refused)
  <2>1. new.failed = (\E j \in Used(old) : j < n /\ Map!Remerged(old[j], rules, d).refused)
    BY <1>8 DEF Regrown
  <2>2. ASSUME NEW j \in Used(old), Map!Remerged(old[j], rules, d).refused
        PROVE  \E m \in Names : R(m).refused
    BY <1>9, <2>2
  <2>3. ASSUME NEW m \in Names, R(m).refused
        PROVE  \E j \in Used(old) : j < n /\ Map!Remerged(old[j], rules, d).refused
    <3>1. PICK j \in Used(old) : old[j][1].name = m
      <4>1. CASE \A j \in Used(old) : old[j][1].name # m
        <5>1. R(m).refused = FALSE
          BY <1>10, <4>1
        <5> QED BY <2>3, <5>1
      <4> QED BY <4>1
    <3> QED BY <1>9, <2>3, <3>1
  <2> QED BY <2>1, <2>2, <2>3
<1>14. new.derivation = [ q \in Packages |-> new.derivation[q] ]
  <2>1. new \in FiledStores
    BY <1>8 DEF Regrown, Refilling
  <2> QED BY <2>1 DEF FiledStores, CountedStores, Stores
<1> QED BY <1>11, <1>12, <1>13, <1>14 DEF new, R, d, first

(* Every step of the set is a step of the map or cannot be seen.           *)
LEMMA MergesMapped ==
  ASSUME Counts, Sound, AllFound, AllFound', NEW p \in Packages, Merges(p)
  PROVE  Map!MapMerge(p) /\ ~exited
<1> DEFINE placed == Place(Store, p)
           new == WithTable(Emptied(placed), placed.table)
           map == [ n \in Names |-> FindList(table, n) ]
           merged == [ map EXCEPT ![p.name] = Merged(@, rules, p) ]
           d == DerivationAfter(map[p.name], rules, p, derivation)
<1>1. /\ Store \in FiledStores /\ Store \in CountedStores
      /\ Store.table = table /\ Store.entries = entries
      /\ Store.derivation = derivation /\ table \in Tables /\ Findable(table)
      /\ entries = Cardinality(Used(table)) /\ entries \in Nat
      /\ p.name \in Names /\ ~exited /\ rules' = rules
  BY StoreFiled, StoreCounted
  DEF Counts, TypeOK, AllFound, Findable, Used, Names, Merges
<1>2. /\ placed \in FiledStores /\ ~placed.failed
      /\ DOMAIN placed.table = DOMAIN table
      /\ \/ /\ table' = placed.table /\ derivation' = placed.derivation
            /\ ~exited'
         \/ /\ placed.entries > entries /\ new.failed
            /\ table' = placed.table /\ derivation' = placed.derivation
            /\ exited'
         \/ /\ placed.entries > entries /\ ~new.failed
            /\ table' = new.table /\ derivation' = new.derivation
            /\ ~exited'
  BY MergesKeep
<1>3. \E slot : PlacedAt(Store, p, placed, slot)
  <2>1. \/ NotPlaced(Store, p, placed)
        \/ \E slot : PlacedAt(Store, p, placed, slot)
    BY <1>1, PlaceSound
  <2>2. Buckets(table) \in Nat /\ Cardinality(Used(table)) < Buckets(table)
    BY <1>1, TableShape DEF Sound
  <2>3. \E i \in DOMAIN table : table[i] = << >>
    BY <1>1, <2>2, RoomFound
  <2>4. ~NotPlaced(Store, p, placed)
    BY <1>1, <2>3, ProbesEnd DEF NotPlaced
  <2> QED BY <2>1, <2>4
<1> HIDE DEF placed
<1>4. PICK slot : PlacedAt(Store, p, placed, slot)
  BY <1>3
<1>5. /\ slot \in ProbeEnd(table, p.name) /\ slot \in DOMAIN table
      /\ placed.table[slot] = Merged(table[slot], rules, p)
      /\ \A j \in DOMAIN table : j # slot => placed.table[j] = table[j]
      /\ placed.derivation = DerivationAfter(table[slot], rules, p, derivation)
      /\ placed.entries = Counted(entries, table[slot], placed.table[slot])
  BY <1>1, <1>4 DEF PlacedAt
<1>6. map[p.name] = table[slot]
  BY <1>1, <1>5, FoundWhereHeld
<1>7. /\ placed.derivation = d
      /\ merged[p.name] = placed.table[slot]
      /\ \A n \in Names : n # p.name => merged[n] = FindList(table, n)
  BY <1>1, <1>5, <1>6
<1>8. Findable(placed.table) => \A n \in Names : FindList(placed.table, n) = merged[n]
  BY <1>1, <1>2, <1>4, <1>7, PlacedFound
<1>9. ASSUME placed.entries > entries
      PROVE  /\ map[p.name] = << >> /\ merged[p.name] # << >>
             /\ Findable(placed.table)
  <2>1. table[slot] = << >> /\ placed.table[slot] # << >>
    BY <1>1, <1>5, <1>9 DEF Counted
  <2>2. placed.table \in Tables
    BY <1>2 DEF FiledStores, CountedStores, Stores
  <2>3. placed.table[slot][1].name = p.name
    BY <1>1, <1>4, <2>1, PlaceFiled DEF placed
  <2>4. Puts(table, placed.table, slot, p.name)
    BY <1>2, <1>5, <2>3 DEF Puts
  <2>5. Reached(placed.table, {})
    <3>1. Reached(table, {})
      BY <1>1, ReachedFindable
    <3>2. Reached(placed.table, HolesAfter({}, slot, table[slot], placed.table[slot]))
      BY <1>1, <2>2, <2>4, <3>1, PutReached
    <3> QED BY <2>1, <3>2 DEF HolesAfter
  <2> QED BY <1>6, <1>7, <2>1, <2>5, ReachedFindable
<1> DEFINE R(n) == Map!Remerged(merged[n], rules, d)
           again == [ n \in Names |-> R(n) ]
<1>10. ASSUME placed.entries > entries
       PROVE  /\ \A n \in Names : ListsOf(new.table, n) = OnlyList(R(n).list)
              /\ new.derivation = [ q \in Packages |-> R(q.name).derivation[q] ]
              /\ new.failed = (\E n \in Names : R(n).refused)
  <2> DEFINE L(n) == FindList(placed.table, n)
             Q(n) == Map!Remerged(L(n), rules, placed.derivation)
  <2>1. /\ \A n \in Names : ListsOf(new.table, n) = OnlyList(Q(n).list)
        /\ new.derivation = [ q \in Packages |-> Q(q.name).derivation[q] ]
        /\ new.failed = (\E n \in Names : Q(n).refused)
    BY <1>2, <1>9, <1>10, GrowthRemerges
  <2>2. \A n \in Names : Q(n) = R(n)
    BY <1>7, <1>8, <1>9, <1>10
  <2>3. \A q \in Packages : q.name \in Names
    BY DEF Names
  <2> HIDE DEF Q, R, new
  <2> QED BY <2>1, <2>2, <2>3
<1>11. new \in FiledStores
  BY <1>2, GrowthSound
<1> HIDE DEF new, merged, d, R
<1>12. /\ merged = [ n \in Names |-> merged[n] ]
       /\ \A list, e : Map!DerivationAfter(list, rules, p, e) = DerivationAfter(list, rules, p, e)
       /\ \A list : Map!Merged(list, rules, p) = Merged(list, rules, p)
  BY MapMergesAlike DEF merged
<1>13. map' = [ n \in Names |-> FindList(table', n) ]
  BY DEF FindList, ProbeEnd, Ends, Home, Buckets
<1>14. AllFound' => Findable(table')
  BY DEF AllFound, Findable, Used, ProbeEnd, Ends, Home, Buckets
<1>15. Map!MapMerge(p) <=>
         /\ \/ Map!MapBecomes(merged, d)
            \/ map[p.name] = << >> /\ merged[p.name] # << >> /\ Map!MapRemerge(merged, d)
         /\ rules' = rules
  <2>1. [ map EXCEPT ![p.name] = Map!Merged(@, rules, p) ] = merged
    BY <1>12 DEF merged
  <2>2. Map!DerivationAfter(map[p.name], rules, p, derivation) = d
    BY <1>12 DEF d
  <2> QED BY <2>1, <2>2 DEF Map!MapMerge
<1>16. CASE table' = placed.table /\ derivation' = placed.derivation /\ ~exited'
  <2>1. map' = merged
    BY <1>8, <1>12, <1>13, <1>14, <1>16
  <2>2. Map!MapBecomes(merged, d)
    BY <1>7, <1>16, <2>1 DEF Map!MapBecomes
  <2> QED BY <1>1, <1>15, <2>2
<1>17. CASE /\ placed.entries > entries /\ new.failed
            /\ table' = placed.table /\ derivation' = placed.derivation /\ exited'
  <2>1. map' = merged
    BY <1>8, <1>9, <1>12, <1>13, <1>17
  <2>2. \E n \in Names : again[n].refused
    BY <1>10, <1>17
  <2>3. Map!MapRemerge(merged, d)
    BY <1>7, <1>17, <2>1, <2>2 DEF Map!MapRemerge, Map!Names, Names, R
  <2> QED BY <1>1, <1>9, <1>15, <1>17, <2>3
<1>18. CASE /\ placed.entries > entries /\ ~new.failed
            /\ table' = new.table /\ derivation' = new.derivation /\ ~exited'
  <2>1. \A n \in Names : FindList(table', n) = R(n).list
    BY <1>10, <1>11, <1>14, <1>18, FoundList DEF FiledStores, CountedStores, Stores
  <2>2. map' = [ n \in Names |-> again[n].list ]
    BY <1>13, <2>1
  <2>3. derivation' = [ q \in Packages |-> again[q.name].derivation[q] ]
    BY <1>10, <1>18 DEF Names
  <2>4. ~\E n \in Names : again[n].refused
    BY <1>10, <1>18
  <2>5. Map!MapBecomes([ n \in Names |-> again[n].list ],
                       [ q \in Packages |-> again[q.name].derivation[q] ])
    BY <1>18, <2>2, <2>3 DEF Map!MapBecomes
  <2>6. again = [ n \in Names |-> Map!Remerged(merged[n], rules, d) ]
    BY DEF R
  <2> HIDE DEF again
  <2>7. Map!MapRemerge(merged, d)
    <3> DEFINE Becomes(a) ==
           Map!MapBecomes([ n \in Names |-> a[n].list ],
                          [ q \in Packages |-> a[q.name].derivation[q] ])
    <3>1. Map!MapRemerge(merged, d) <=>
            \E a \in {again} :
              IF \E n \in Names : a[n].refused
              THEN [ n \in Names |-> FindList(table, n) ]' = merged
                   /\ derivation' = d /\ exited' = TRUE
              ELSE Becomes(a)
      BY <2>6 DEF Map!MapRemerge, Map!Names, Names
    <3>2. Becomes(again)
      BY <2>5
    <3> HIDE DEF Becomes
    <3> QED BY <2>4, <3>1, <3>2
  <2> QED BY <1>1, <1>9, <1>15, <1>18, <2>7
<1> QED BY <1>2, <1>16, <1>17, <1>18

LEMMA SortsMapped ==
  ASSUME Counts, Sound, AllFound, AllFound', Sorts
  PROVE  Map!MapSort /\ ~exited
<1> DEFINE u == SortedTable(table)
<1>1. /\ table' = u /\ table \in Tables /\ Findable(table) /\ Filed(table)
      /\ rules' = rules /\ derivation' = derivation /\ exited' = exited /\ ~exited
  BY DEF Sorts, SortedTable, Counts, Sound, AllFound, Findable, Used
<1>2. /\ u \in Tables /\ DOMAIN u = DOMAIN table /\ Used(u) = Used(table)
      /\ \A i \in DOMAIN table : u[i] = Sorted(table[i])
  BY <1>1, SortedTableSound
<1>3. \A i \in Used(table) : u[i][1].name = table[i][1].name
  BY <1>1, SortsSound
<1>4. Findable(u)
  <2>1. Reached(table, {})
    BY <1>1, ReachedFindable
  <2>2. Reached(u, {})
    BY <1>1, <2>1, SortsSound
  <2> QED BY <2>2, ReachedFindable
<1> HIDE DEF u
<1>5. ASSUME NEW n \in Names
      PROVE  FindList(u, n) = Sorted(FindList(table, n))
  <2>1. CASE \E i \in Used(table) : table[i][1].name = n
    <3>1. PICK i \in Used(table) : table[i][1].name = n
      BY <2>1
    <3>2. i \in Used(u) /\ u[i][1].name = n /\ i \in DOMAIN table
      BY <1>2, <1>3, <3>1 DEF Used
    <3>3. FindList(table, n) = table[i] /\ FindList(u, n) = u[i]
      BY <1>1, <1>2, <1>4, <3>1, <3>2, FoundWhereHeld
    <3> QED BY <1>2, <3>2, <3>3
  <2>2. CASE \A i \in Used(table) : table[i][1].name # n
    <3>1. FindList(table, n) = << >> /\ FindList(u, n) = << >>
      BY <1>1, <1>2, <1>3, <1>4, <2>2, FoundWhereHeld
    <3>2. Sorted(<< >>) \in Seq(Packages) /\ ToSet(Sorted(<< >>)) = {}
      <4>1. << >> \in Seq(Packages) /\ ToSet(<< >>) = {}
        BY EmptySeq DEF ToSet
      <4> QED BY <4>1, SortedContents
    <3>3. Sorted(<< >>) = << >>
      BY <3>2, FirstOfList DEF ToSet
    <3> QED BY <3>1, <3>3
  <2> QED BY <2>1, <2>2
<1>6. \A n \in Names : Map!Sorted(FindList(table, n)) = Sorted(FindList(table, n))
  BY MapMergesAlike
<1>7. [ n \in Names |-> FindList(table, n) ]' = [ n \in Names |-> FindList(table', n) ]
  BY DEF FindList, ProbeEnd, Ends, Home, Buckets
<1> QED BY <1>1, <1>5, <1>6, <1>7 DEF Map!MapSort, Map!Names, Names

LEMMA MapStep ==
  ASSUME Counts, Sound, AllFound, AllFound', [Next]_vars
  PROVE  [Map!MapNext]_(Map!mapVars)
<1>1. \/ \E p \in Packages : Merges(p)
      \/ Leaves
      \/ Sorts
  BY StepKinds
<1>2. rules' \in RuleSets
  BY StepKinds
<1>3. CASE exited
  <2>1. UNCHANGED vars
    BY <1>3 DEF Next, MergePackage, MergeList, MergeSet, MergeStep, EndList,
                Return, SetMergeRules, SortForPrint, Idle, Running
  <2> QED BY <2>1 DEF vars, Map!mapVars, FindList, ProbeEnd, Ends, Home, Buckets
<1>4. CASE ~exited /\ \E p \in Packages : Merges(p)
  BY <1>4, MergesMapped DEF Map!MapNext
<1>5. CASE ~exited /\ Leaves
  <2>1. Map!MapSetRules(rules')
    BY <1>5 DEF Leaves, Map!MapSetRules, FindList, ProbeEnd, Ends, Home, Buckets
  <2> QED BY <1>2, <1>5, <2>1 DEF Map!MapNext
<1>6. CASE ~exited /\ Sorts
  BY <1>6, SortsMapped DEF Map!MapNext
<1> QED BY <1>1, <1>3, <1>4, <1>5, <1>6

LEMMA MapStart == Init => Map!MapInit
<1> SUFFICES ASSUME Init PROVE Map!MapInit
  OBVIOUS
<1> DEFINE b == InitialBuckets
<1>1. b \in Nat \ {0} /\ table = EmptyTable(b)
  BY InitialBucketsAssumption DEF Init
<1>2. table \in Tables /\ Used(table) = {}
  BY <1>1, EmptyTableSound
<1>3. Findable(table)
  BY <1>2 DEF Findable
<1>4. \A n \in Names : FindList(table, n) = << >>
  BY <1>2, <1>3, FoundWhereHeld
<1> HIDE DEF b
<1> QED BY <1>4 DEF Init, Map!MapInit, Map!Names, Names

(* To its callers a package set is a map from names to lists, as long as   *)
(* no list is hidden behind a hole: each merge goes through the list of    *)
(* its name alone, and growing the table, in whatever order of buckets, is *)
(* that every list is merged again by itself and that the process ends if  *)
(* one package is refused (lcfgpkgset_merge_package, lcfgpkgset_resize).   *)
THEOREM MapImplemented == Spec => ImplementsMap
<1>1. Counts /\ Sound /\ [Next]_vars
        => [AllFound /\ AllFound' => Map!MapNext]_(Map!mapVars)
  <2> SUFFICES ASSUME Counts, Sound, [Next]_vars, AllFound, AllFound'
               PROVE  Map!MapNext \/ UNCHANGED Map!mapVars
    OBVIOUS
  <2> QED BY MapStep
<1> QED BY <1>1, MapStart, CountsAlways, SoundAlways, PTL DEF Spec, ImplementsMap
===============================================================================
