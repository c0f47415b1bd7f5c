----------------------------- MODULE ListLemmas -----------------------------
(***************************************************************************)
(* Facts about positions in a list and about taking an entry out, which    *)
(* the proofs about lists of resources and of packages need.               *)
(***************************************************************************)
EXTENDS ListPlaces, Sequences, SequencesExt, FiniteSetTheorems, SequenceTheorems, TLAPS

(* The first position that a search could find.                            *)
LEMMA LeastExists ==
  ASSUME NEW T \in SUBSET Nat, T # {}
  PROVE  \E x \in T : \A y \in T : x <= y
<1>1. PICK x \in T : \A y \in T : ~ (<< y, x >> \in OpToRel(<, Nat))
  BY NatLessThanWellFounded, WFMin
<1>2. \A y \in T : ~ (y < x)
  BY <1>1 DEF OpToRel
<1> QED BY <1>2

(* What holds at 0 and from each number to the next holds up to n: with a  *)
(* set in the place of the formula, so that it can be cited.               *)
LEMMA UpTo ==
  ASSUME NEW n \in Nat, NEW S, 0 \in S, \A i \in 1 .. n : i - 1 \in S => i \in S
  PROVE  \A i \in 0 .. n : i \in S
<1> DEFINE T == {i \in 0 .. n : i \notin S}
<1>1. SUFFICES ASSUME T # {} PROVE FALSE
  OBVIOUS
<1>2. PICK x \in T : \A y \in T : x <= y
  <2>1. T \in SUBSET Nat
    OBVIOUS
  <2> HIDE DEF T
  <2> QED BY <1>1, <2>1, LeastExists
<1>3. x \in 1 .. n /\ x - 1 \in 0 .. n /\ ~(x <= x - 1)
  OBVIOUS
<1>4. x - 1 \in S
  BY <1>2, <1>3
<1> QED BY <1>3, <1>4

(* Taking out the entry at k: those before it stay, those after it move    *)
(* down by one (the pointer of the node before the one that is unlinked).  *)
LEMMA RemoveAtSound ==
  ASSUME NEW S, NEW list \in Seq(S), NEW k \in 1 .. Len(list)
  PROVE  /\ RemoveAt(list, k) \in Seq(S)
         /\ Len(RemoveAt(list, k)) = Len(list) - 1
         /\ DOMAIN RemoveAt(list, k) = 1 .. Len(list) - 1
         /\ \A i \in 1 .. Len(list) - 1 :
              RemoveAt(list, k)[i] = list[IF i < k THEN i ELSE i + 1]
<1> DEFINE head == SubSeq(list, 1, k - 1)
           tail == SubSeq(list, k + 1, Len(list))
<1>1. Len(list) \in Nat /\ DOMAIN list = 1 .. Len(list)
      /\ \A i \in 1 .. Len(list) : list[i] \in S
  BY LenProperties
<1>2. /\ head \in Seq(S)
      /\ Len(head) = k - 1
      /\ \A i \in 1 .. k - 1 : head[i] = list[i]
  <2>1. \A i \in 1 .. k - 1 : list[i] \in S
    BY <1>1
  <2>2. /\ SubSeq(list, 1, k - 1) \in Seq(S)
        /\ Len(SubSeq(list, 1, k - 1)) =
             IF 1 <= k - 1 THEN (k - 1) - 1 + 1 ELSE 0
        /\ \A i \in 1 .. (k - 1) - 1 + 1 :
             SubSeq(list, 1, k - 1)[i] = list[1 + i - 1]
    BY <1>1, <2>1, SubSeqProperties
  <2> QED BY <1>1, <2>2
<1>3. /\ tail \in Seq(S)
      /\ Len(tail) = Len(list) - k
      /\ \A i \in 1 .. Len(list) - k : tail[i] = list[k + i]
  <2>1. \A i \in k + 1 .. Len(list) : list[i] \in S
    BY <1>1
  <2>2. /\ SubSeq(list, k + 1, Len(list)) \in Seq(S)
        /\ Len(SubSeq(list, k + 1, Len(list))) =
             IF k + 1 <= Len(list) THEN Len(list) - (k + 1) + 1 ELSE 0
        /\ \A i \in 1 .. Len(list) - (k + 1) + 1 :
             SubSeq(list, k + 1, Len(list))[i] = list[k + 1 + i - 1]
    BY <1>1, <2>1, SubSeqProperties
  <2>3. Len(list) - (k + 1) + 1 = Len(list) - k
    BY <1>1
  <2>4. \A i \in 1 .. Len(list) - k : k + 1 + i - 1 = k + i
    BY <1>1
  <2>5. \A i \in 1 .. Len(list) - k :
          SubSeq(list, k + 1, Len(list))[i] = list[k + i]
    BY <2>2, <2>3, <2>4
  <2>6. (IF k + 1 <= Len(list) THEN Len(list) - (k + 1) + 1 ELSE 0) =
          Len(list) - k
    BY Len(list) \in Nat, k \in 1 .. Len(list)
  <2> QED BY <2>2, <2>5, <2>6
<1> HIDE DEF head, tail
<1>4. RemoveAt(list, k) = head \o tail
  BY DEF RemoveAt, head, tail
<1>5. /\ head \o tail \in Seq(S)
      /\ Len(head \o tail) = Len(head) + Len(tail)
      /\ \A i \in 1 .. Len(head) + Len(tail) : (head \o tail)[i] =
           IF i <= Len(head) THEN head[i] ELSE tail[i - Len(head)]
  BY <1>2, <1>3, ConcatProperties
<1>6. Len(head \o tail) = Len(list) - 1
  BY <1>1, <1>2, <1>3, <1>5
<1>7. DOMAIN (head \o tail) = 1 .. Len(list) - 1
  BY <1>5, <1>6, LenProperties
<1>8. ASSUME NEW i \in 1 .. Len(list) - 1
      PROVE  (head \o tail)[i] = list[IF i < k THEN i ELSE i + 1]
  <2>1. CASE i < k
    <3>1. (head \o tail)[i] = head[i]
      BY <1>1, <1>2, <1>3, <1>5, <2>1
    <3> QED BY <1>1, <1>2, <2>1, <3>1
  <2>2. CASE ~(i < k)
    <3>1. (head \o tail)[i] = tail[i - (k - 1)]
      BY <1>1, <1>2, <1>3, <1>5, <2>2
    <3>2. tail[i - (k - 1)] = list[k + (i - (k - 1))]
      BY <1>1, <1>3, <2>2
    <3>3. k + (i - (k - 1)) = i + 1
      BY <1>1
    <3> QED BY <1>1, <2>2, <3>1, <3>2, <3>3
  <2> QED BY <2>1, <2>2
<1> QED BY <1>4, <1>5, <1>6, <1>7, <1>8

(* In a total order of the positions P, down[i] holds those that come no   *)
(* later than i.                                                           *)
TotalOrder(P, down) ==
  /\ down \in [P -> SUBSET P]
  /\ \A i \in P : i \in down[i]
  /\ \A i, j \in P : i \in down[j] \/ j \in down[i]
  /\ \A i, j \in P : i \in down[j] /\ j \in down[i] => i = j
  /\ \A i, j \in P : i \in down[j] => down[i] \subseteq down[j]

(* The position whose rank is k.                                           *)
ByRank(P, down) ==
  [k \in 1 .. Cardinality(P) |->
     CHOOSE i \in P : Cardinality(down[i]) = k]

(* Each position in P, once.                                               *)
Enumerates(n, P, pick) ==
  /\ pick \in [1 .. n -> P]
  /\ \A k, m \in 1 .. n : pick[k] = pick[m] => k = m
  /\ \A i \in P : \E k \in 1 .. n : pick[k] = i

(* Sorting by rank: no two positions have the same rank and every rank is  *)
(* taken, so nothing is lost or doubled, and all comes in order.           *)
LEMMA RanksEnumerate ==
  ASSUME NEW P, IsFiniteSet(P), NEW down, TotalOrder(P, down)
  PROVE  /\ Enumerates(Cardinality(P), P, ByRank(P, down))
         /\ \A k, m \in 1 .. Cardinality(P) : k <= m =>
              ByRank(P, down)[k] \in down[ByRank(P, down)[m]]
<1> DEFINE n == Cardinality(P)
           pick == ByRank(P, down)
           rank == [i \in P |-> Cardinality(down[i])]
<1> USE DEF TotalOrder
<1>1. /\ n \in Nat /\ IsFiniteSet(1 .. n)
      /\ Cardinality(1 .. n) = n
  <2>1. n \in Nat
    BY FS_CardinalityType
  <2> HIDE DEF n
  <2>2. n \in Int /\ 1 \in Int
    BY <2>1
  <2>3. /\ IsFiniteSet(1 .. n)
        /\ Cardinality(1 .. n) = IF 1 > n THEN 0 ELSE n - 1 + 1
    BY <2>2, FS_Interval
  <2> QED BY <2>1, <2>3
<1>2. ASSUME NEW i \in P
      PROVE  /\ IsFiniteSet(down[i]) /\ Cardinality(down[i]) \in 1 .. n
             /\ \A j \in P : j \in down[i] =>
                  /\ Cardinality(down[j]) <= Cardinality(down[i])
                  /\ Cardinality(down[j]) = Cardinality(down[i]) => i = j
  <2>1. IsFiniteSet(down[i]) /\ Cardinality(down[i]) <= n
    BY FS_Subset
  <2>2. Cardinality(down[i]) \in Nat
    BY <2>1, FS_CardinalityType
  <2>3. Cardinality(down[i]) # 0
    BY <2>1, FS_EmptySet
  <2>4. ASSUME NEW j \in P, j \in down[i]
        PROVE  /\ Cardinality(down[j]) <= Cardinality(down[i])
               /\ Cardinality(down[j]) = Cardinality(down[i]) => i = j
    <3>1. down[j] \in SUBSET down[i]
      BY <2>4
    <3>2. /\ Cardinality(down[j]) <= Cardinality(down[i])
          /\ Cardinality(down[i]) = Cardinality(down[j]) => down[i] = down[j]
      BY <2>1, <3>1, FS_Subset
    <3> QED BY <2>4, <3>2
  <2> HIDE DEF n
  <2> QED BY <1>1, <2>1, <2>2, <2>3, <2>4
<1> HIDE DEF n
<1>3. rank \in Injection(P, 1 .. n)
  <2>1. rank \in [P -> 1 .. n]
    BY <1>2
  <2>2. ASSUME NEW i \in P, NEW j \in P, rank[i] = rank[j]
        PROVE  i = j
    BY <1>2, <2>2
  <2> QED BY <2>1, <2>2 DEF Injection, IsInjective
<1>4. \A k \in 1 .. n : \E i \in P : Cardinality(down[i]) = k
  <2>1. Cardinality(P) = Cardinality(1 .. n)
    BY <1>1 DEF n
  <2>2. rank \in Surjection(P, 1 .. n)
    BY <1>1, <1>3, <2>1, FS_Injection
  <2> QED BY <2>2 DEF Surjection
<1>5. \A k \in 1 .. n : pick[k] \in P /\ Cardinality(down[pick[k]]) = k
  BY <1>4 DEF ByRank, n
<1>6. pick \in [1 .. n -> P]
  BY <1>5 DEF ByRank, n
<1> HIDE DEF pick
<1>7. ASSUME NEW i \in P
      PROVE  \E k \in 1 .. n : pick[k] = i
  <2>1. Cardinality(down[i]) \in 1 .. n
    BY <1>2
  <2>2. /\ pick[Cardinality(down[i])] \in P
        /\ Cardinality(down[pick[Cardinality(down[i])]]) = Cardinality(down[i])
    BY <1>5, <2>1
  <2>3. pick[Cardinality(down[i])] = i
    BY <1>2, <2>2
  <2> QED BY <2>1, <2>3
<1>8. ASSUME NEW k \in 1 .. n, NEW m \in 1 .. n, k <= m
      PROVE  pick[k] \in down[pick[m]]
  <2>1. /\ pick[k] \in P /\ pick[m] \in P
        /\ Cardinality(down[pick[k]]) = k /\ Cardinality(down[pick[m]]) = m
    BY <1>5
  <2>2. CASE pick[m] \in down[pick[k]]
    <3>1. m <= k
      BY <1>2, <2>1, <2>2
    <3>2. k = m
      BY <1>1, <1>8, <3>1
    <3> QED BY <2>1, <3>2
  <2> QED BY <2>1, <2>2
<1>9. \A k, m \in 1 .. n : pick[k] = pick[m] => k = m
  BY <1>5
<1> QED BY <1>6, <1>7, <1>8, <1>9 DEF Enumerates, pick, n

(* Lists of whatever they hold.                                            *)
IsList(s) == s \in Seq(ToSet(s))

LEMMA ListProperties ==
  ASSUME NEW s, IsList(s)
  PROVE  /\ DOMAIN s = 1 .. Len(s) /\ Len(s) \in Nat
         /\ IsFiniteSet(DOMAIN s) /\ Cardinality(DOMAIN s) = Len(s)
         /\ (s = << >>) <=> (DOMAIN s = {})
<1>1. DOMAIN s = 1 .. Len(s) /\ Len(s) \in Nat
  BY LenProperties DEF IsList
<1>2. (s = << >>) <=> (Len(s) = 0)
  BY EmptySeq DEF IsList
<1> DEFINE n == Len(s)
<1> HIDE DEF n
<1>3. n \in Nat => /\ IsFiniteSet(1 .. n) /\ Cardinality(1 .. n) = n
                   /\ (n = 0) <=> (1 .. n = {})
  <2>1. n \in Nat => n \in Int /\ 1 \in Int
    OBVIOUS
  <2>2. n \in Nat => /\ IsFiniteSet(1 .. n)
                     /\ Cardinality(1 .. n) = IF 1 > n THEN 0 ELSE n - 1 + 1
    BY <2>1, FS_Interval
  <2> QED BY <2>2
<1> QED BY <1>1, <1>2, <1>3 DEF n

LEMMA FunctionIsList ==
  ASSUME NEW n \in Nat, NEW s, s = [i \in 1 .. n |-> s[i]]
  PROVE  IsList(s) /\ Len(s) = n /\ DOMAIN s = 1 .. n
<1>1. DOMAIN s = 1 .. n
  BY Zenon
<1>2. \A i \in 1 .. n : s[i] \in ToSet(s)
  BY <1>1 DEF ToSet
<1>3. s \in [1 .. n -> ToSet(s)]
  BY <1>2
<1>4. s \in Seq(ToSet(s))
  BY <1>3, SeqDef
<1>5. Len(s) \in Nat /\ DOMAIN s = 1 .. Len(s)
  BY <1>4, LenProperties
<1>6. \A k, m \in Nat : 1 .. k = 1 .. m => k = m
  <2> SUFFICES ASSUME NEW k \in Nat, NEW m \in Nat, 1 .. k = 1 .. m
               PROVE  k = m
    OBVIOUS
  <2>1. k # 0 => k \in 1 .. m
    OBVIOUS
  <2>2. m # 0 => m \in 1 .. k
    OBVIOUS
  <2> QED BY <2>1, <2>2
<1> QED BY <1>1, <1>4, <1>5, <1>6 DEF IsList

(***************************************************************************)
(* Lists made from other lists: at places, sorted.                         *)
(***************************************************************************)

(* made holds the entries of seq at these places, each once.                *)
Takes(made, seq, places) ==
  /\ IsList(made) /\ Len(made) = Cardinality(places)
  /\ \E pick : /\ Enumerates(Len(made), places, pick)
               /\ \A k \in 1 .. Len(made) : made[k] = seq[pick[k]]

UpToPlace(places) == [i \in places |-> {j \in places : j <= i}]

LEMMA PlacesOrder ==
  ASSUME NEW places \in SUBSET Nat
  PROVE  TotalOrder(places, UpToPlace(places))
<1>1. /\ UpToPlace(places) \in [places -> SUBSET places]
      /\ \A i, j \in places : j \in UpToPlace(places)[i] <=> j <= i
  BY DEF UpToPlace
<1>2. /\ \A i \in places : i <= i
      /\ \A i, j \in places : i <= j \/ j <= i
      /\ \A i, j \in places : i <= j /\ j <= i => i = j
      /\ \A h, i, j \in places : h <= i /\ i <= j => h <= j
  OBVIOUS
<1>3. \A i, j \in places : i \in UpToPlace(places)[j] =>
        UpToPlace(places)[i] \subseteq UpToPlace(places)[j]
  <2> SUFFICES ASSUME NEW i \in places, NEW j \in places,
                      i \in UpToPlace(places)[j], NEW h \in UpToPlace(places)[i]
               PROVE  h \in UpToPlace(places)[j]
    OBVIOUS
  <2>1. h \in places
    BY <1>1
  <2> QED BY <1>1, <1>2, <2>1
<1> HIDE DEF UpToPlace
<1> QED BY <1>1, <1>2, <1>3 DEF TotalOrder

LEMMA AtPlacesSound ==
  ASSUME NEW seq, NEW places \in SUBSET Nat, IsFiniteSet(places)
  PROVE  Takes(AtPlaces(seq, places), seq, places)
<1> DEFINE n == Cardinality(places)
           down == UpToPlace(places)
           pick == ByRank(places, down)
           made == AtPlaces(seq, places)
<1>1. n \in Nat
  BY FS_CardinalityType
<1>2. Enumerates(n, places, pick)
  BY PlacesOrder, RanksEnumerate
<1>3. \A i \in places : down[i] = {j \in places : j <= i}
  BY DEF UpToPlace
<1>4. made = [k \in 1 .. n |-> seq[pick[k]]]
  <2> DEFINE at(k) == CHOOSE i \in places :
                        Cardinality({j \in places : j <= i}) = k
  <2>1. ASSUME NEW k \in 1 .. n
        PROVE  pick[k] = at(k)
    <3> HIDE DEF down
    <3> QED BY <1>3 DEF ByRank
  <2>2. made = [k \in 1 .. n |-> seq[at(k)]]
    BY DEF AtPlaces
  <2> HIDE DEF pick, made, n, down, at
  <2> QED BY <2>1, <2>2
<1> HIDE DEF n, down, pick, made
<1>5. IsList(made) /\ Len(made) = n
  BY <1>1, <1>4, FunctionIsList
<1> QED BY <1>2, <1>4, <1>5 DEF Takes, made, n

(* Nothing is lost, made up or doubled.                                    *)
NamedOnce(seq) ==
  \A i, j \in DOMAIN seq : seq[i].name = seq[j].name => i = j

LEMMA TakesContents ==
  ASSUME NEW made, NEW seq, NEW places, Takes(made, seq, places)
  PROVE  /\ IsList(made) /\ DOMAIN made = 1 .. Len(made)
         /\ \A k \in DOMAIN made : \E i \in places : made[k] = seq[i]
         /\ \A i \in places : \E k \in DOMAIN made : made[k] = seq[i]
         /\ (\A i, j \in places : seq[i] = seq[j] => i = j) => IsInjective(made)
         /\ (\A i, j \in places : seq[i].name = seq[j].name => i = j)
              => NamedOnce(made)
<1>1. IsList(made) /\ DOMAIN made = 1 .. Len(made)
  BY ListProperties DEF Takes
<1>2. PICK pick : /\ Enumerates(Len(made), places, pick)
                  /\ \A k \in 1 .. Len(made) : made[k] = seq[pick[k]]
  BY DEF Takes
<1> DEFINE n == Len(made)
<1>3. /\ \A k \in 1 .. n : pick[k] \in places /\ made[k] = seq[pick[k]]
      /\ \A k, m \in 1 .. n : pick[k] = pick[m] => k = m
      /\ \A i \in places : \E k \in 1 .. n : pick[k] = i
  BY <1>2 DEF Enumerates
<1>4. DOMAIN made = 1 .. n
  BY <1>1
<1> HIDE DEF n
<1>5. \A k \in 1 .. n : \E i \in places : made[k] = seq[i]
  BY <1>3
<1>6. \A i \in places : \E k \in 1 .. n : made[k] = seq[i]
  BY <1>3
<1>7. ASSUME \A i, j \in places : seq[i] = seq[j] => i = j
      PROVE  IsInjective(made)
  <2>1. \A k, m \in 1 .. n : made[k] = made[m] => k = m
    BY <1>3, <1>7
  <2> QED BY <1>4, <2>1 DEF IsInjective
<1>8. ASSUME \A i, j \in places : seq[i].name = seq[j].name => i = j
      PROVE  NamedOnce(made)
  <2>1. \A k, m \in 1 .. n : made[k].name = made[m].name => k = m
    BY <1>3, <1>8
  <2> QED BY <1>4, <2>1 DEF NamedOnce
<1> QED BY <1>1, <1>4, <1>5, <1>6, <1>7, <1>8

(* Sorting only moves entries.                                             *)
LEMMA SortSound ==
  ASSUME NEW seq, IsList(seq), NEW key, \A i \in DOMAIN seq : key[i] \in Int
  PROVE  Takes(SortedByKey(key, seq), seq, DOMAIN seq)
<1> DEFINE P == DOMAIN seq
           n == Len(seq)
           notAfter(j, i) == \/ key[j] < key[i]
                             \/ key[j] = key[i] /\ j <= i
           down == [i \in P |-> {j \in P : notAfter(j, i)}]
           pick == ByRank(P, down)
           made == SortedByKey(key, seq)
           at(k) == CHOOSE i \in P : Cardinality({j \in P : notAfter(j, i)}) = k
<1>1. /\ P = 1 .. n /\ n \in Nat /\ IsFiniteSet(P) /\ Cardinality(P) = n
  BY ListProperties DEF IsList
<1>2. made = [k \in P |-> seq[at(k)]]
  BY DEF SortedByKey
<1>3. \A i \in P : key[i] \in Int
  OBVIOUS
<1> HIDE DEF P, n, made, at
<1>4. /\ \A i \in P : notAfter(i, i)
      /\ \A i, j \in P : notAfter(i, j) \/ notAfter(j, i)
      /\ \A i, j \in P : notAfter(i, j) /\ notAfter(j, i) => i = j
      /\ \A h, i, j \in P :
           notAfter(h, i) /\ notAfter(i, j) => notAfter(h, j)
  <2> SUFFICES ASSUME NEW h \in P, NEW i \in P, NEW j \in P
               PROVE  /\ notAfter(i, i)
                      /\ notAfter(i, j) \/ notAfter(j, i)
                      /\ notAfter(i, j) /\ notAfter(j, i) => i = j
                      /\ notAfter(h, i) /\ notAfter(i, j) => notAfter(h, j)
    BY Zenon
  <2>1. /\ key[h] \in Int /\ key[i] \in Int /\ key[j] \in Int
        /\ h \in Nat /\ i \in Nat /\ j \in Nat
    BY <1>1, <1>3
  <2> QED BY <2>1
<1> HIDE DEF notAfter
<1>5. TotalOrder(P, down)
  <2>1. down \in [P -> SUBSET P] /\ \A i, j \in P : j \in down[i] <=> notAfter(j, i)
    OBVIOUS
  <2> HIDE DEF down
  <2>2. ASSUME NEW i \in P, NEW j \in P, i \in down[j], NEW h \in down[i]
        PROVE  h \in down[j]
    <3>1. h \in P
      BY <2>1, <2>2
    <3> QED BY <1>4, <2>1, <2>2, <3>1
  <2>3. \A i, j \in P : i \in down[j] => down[i] \subseteq down[j]
    BY <2>2
  <2>4. /\ \A i \in P : i \in down[i]
        /\ \A i, j \in P : i \in down[j] \/ j \in down[i]
        /\ \A i, j \in P : i \in down[j] /\ j \in down[i] => i = j
    BY <1>4, <2>1
  <2> QED BY <2>1, <2>3, <2>4 DEF TotalOrder
<1>6. \A i \in P : down[i] = {j \in P : notAfter(j, i)}
  OBVIOUS
<1> HIDE DEF down
<1>7. Enumerates(n, P, pick)
  BY <1>1, <1>5, RanksEnumerate
<1>8. \A k \in 1 .. n : pick[k] = at(k)
  BY <1>1, <1>6 DEF ByRank, at
<1> HIDE DEF pick
<1>9. made = [k \in 1 .. n |-> seq[pick[k]]]
  BY <1>1, <1>2, <1>8
<1>10. IsList(made) /\ Len(made) = n
  BY <1>1, <1>9, FunctionIsList
<1> QED BY <1>1, <1>7, <1>9, <1>10 DEF Takes, made, P

(***************************************************************************)
(* Texts are lists: what is cut out of lists or put together from them is  *)
(* a list, and what a search in a list finds is a place in it.             *)
(***************************************************************************)
(* Sequences of a few entries, and those over any set, are lists.          *)
LEMMA ShortLists ==
  /\ IsList(<< >>)
  /\ \A x : IsList(<<x>>)
  /\ \A x, y : IsList(<<x, y>>)
  /\ \A S, s : s \in Seq(S) => IsList(s)
<1>1. ASSUME NEW S, NEW s \in Seq(S)
      PROVE  IsList(s)
  <2>1. DOMAIN s = 1 .. Len(s) /\ Len(s) \in Nat /\ s = [ i \in 1 .. Len(s) |-> s[i] ]
    BY LenProperties
  <2> QED BY <2>1, FunctionIsList
<1>2. << >> \in Seq({})
  OBVIOUS
<1>3. \A x : <<x>> \in Seq({x})
  OBVIOUS
<1>4. \A x, y : <<x, y>> \in Seq({x, y})
  OBVIOUS
<1> QED BY <1>1, <1>2, <1>3, <1>4

(* One list after another.                                                 *)
LEMMA JoinedList ==
  ASSUME NEW s, IsList(s), NEW t, IsList(t)
  PROVE  IsList(s \o t)
<1> DEFINE U == ToSet(s) \cup ToSet(t)
<1>1. s \in Seq(U) /\ t \in Seq(U)
  BY SeqMonotonic DEF IsList
<1>2. s \o t \in Seq(U)
  BY <1>1, ConcatProperties
<1> QED BY <1>2, ShortLists

(* A stretch of a list, wherever it starts and ends.                       *)
LEMMA PartOfList ==
  ASSUME NEW s, IsList(s), NEW m \in Int, NEW n \in Int
  PROVE  IsList(SubSeq(s, m, n))
<1> DEFINE U == ToSet(s) \cup { s[i] : i \in m .. n }
<1>1. s \in Seq(U)
  BY SeqMonotonic DEF IsList
<1>2. \A i \in m .. n : s[i] \in U
  OBVIOUS
<1>3. SubSeq(s, m, n) \in Seq(U)
  <2> HIDE DEF U
  <2> QED BY <1>1, <1>2, SubSeqProperties
<1> QED BY <1>3, ShortLists

(* A list without its first entry.                                         *)
LEMMA RestOfList ==
  ASSUME NEW s, IsList(s), s # << >>
  PROVE  IsList(Tail(s))
<1>1. Tail(s) \in Seq(ToSet(s))
  BY HeadTailProperties DEF IsList
<1> QED BY <1>1, ShortLists

(* Lists put one after another.                                            *)
FlatRun(state, lists, n) ==
  \A k \in 1 .. n : state[k] = IF k = 1 THEN lists[1] ELSE state[k - 1] \o lists[k]

(* There is such a run, whatever the lists are.                            *)
LEMMA FlatRunExists ==
  ASSUME NEW lists, NEW n \in Nat
  PROVE  \E state : state = [ k \in 1 .. n |-> state[k] ] /\ FlatRun(state, lists, n)
<1> DEFINE OnSteps1(state, m) == state = [ k \in 1 .. m |-> state[k] ]
           S == { m \in Nat : \E state : OnSteps1(state, m) /\ FlatRun(state, lists, m) }
<1>1. 0 \in S
  <2> DEFINE state == [ k \in 1 .. 0 |-> 0 ]
  <2>1. OnSteps1(state, 0) /\ FlatRun(state, lists, 0)
    BY DEF FlatRun
  <2> QED BY <2>1
<1>2. ASSUME NEW m \in 1 .. n, m - 1 \in S
      PROVE  m \in S
  <2>1. PICK before : OnSteps1(before, m - 1) /\ FlatRun(before, lists, m - 1)
    BY <1>2
  <2> DEFINE last == IF m = 1 THEN lists[1] ELSE before[m - 1] \o lists[m]
             state == [ k \in 1 .. m |-> IF k = m THEN last ELSE before[k] ]
  <2> HIDE DEF last
  <2>2. /\ OnSteps1(state, m)
        /\ \A k \in 1 .. m - 1 : state[k] = before[k]
        /\ state[m] = last
    OBVIOUS
  <2> HIDE DEF state, OnSteps1
  <2>3. ASSUME NEW k \in 1 .. m
        PROVE  state[k] = IF k = 1 THEN lists[1] ELSE state[k - 1] \o lists[k]
    <3>1. CASE k = m
      <4>1. m # 1 => m - 1 \in 1 .. m - 1
        OBVIOUS
      <4>2. m # 1 => state[m - 1] = before[m - 1]
        BY <2>2, <4>1
      <4> QED BY <2>2, <3>1, <4>2 DEF last
    <3>2. CASE k # m
      <4>1. k \in 1 .. m - 1 /\ (k # 1 => k - 1 \in 1 .. m - 1)
        BY <3>2
      <4>2. before[k] = IF k = 1 THEN lists[1] ELSE before[k - 1] \o lists[k]
        BY <2>1, <4>1 DEF FlatRun
      <4>3. state[k] = before[k] /\ (k # 1 => state[k - 1] = before[k - 1])
        BY <2>2, <4>1
      <4> QED BY <4>2, <4>3
    <3> QED BY <3>1, <3>2
  <2>4. FlatRun(state, lists, m)
    BY <2>3 DEF FlatRun
  <2> QED BY <2>2, <2>4
<1> HIDE DEF S
<1>3. n \in S
  <2>1. n \in 0 .. n
    OBVIOUS
  <2> QED BY <1>1, <1>2, <2>1, UpTo
<1> QED BY <1>3 DEF S

(* Lists put one after another are a list (FlattenSeq).                    *)
LEMMA FlatList ==
  ASSUME NEW lists, IsList(lists), \A k \in DOMAIN lists : IsList(lists[k])
  PROVE  IsList(FlattenSeq(lists))
<1> DEFINE n == Len(lists)
<1>1. n \in Nat /\ DOMAIN lists = 1 .. n
  BY ListProperties
<1>2. CASE n = 0
  <2>1. FlattenSeq(lists) = lists
    BY <1>2 DEF FlattenSeq
  <2> QED BY <2>1
<1>3. CASE n # 0
  <2> DEFINE Step(f) == [ k \in 1 .. n |-> IF k = 1 THEN lists[k] ELSE f[k - 1] \o lists[k] ]
             flat == CHOOSE f : f = Step(f)
  <2>1. FlattenSeq(lists) = flat[n]
    BY <1>3 DEF FlattenSeq
  <2> HIDE DEF n
  <2>2. PICK f : f = [ k \in 1 .. n |-> f[k] ] /\ FlatRun(f, lists, n)
    BY <1>1, FlatRunExists
  <2>3. ASSUME NEW k \in 1 .. n
        PROVE  f[k] = Step(f)[k]
    BY <2>2 DEF FlatRun
  <2>4. f = [ k \in 1 .. n |-> Step(f)[k] ]
    BY <2>2, <2>3
  <2>5. \E g : g = Step(g)
    BY <2>4
  <2>6. flat = Step(flat)
    BY <2>5
  <2> HIDE DEF flat
  <2>7. \A k \in 1 .. n : flat[k] = Step(flat)[k]
    BY <2>6
  <2> DEFINE S == { k \in 0 .. n : k = 0 \/ IsList(flat[k]) }
  <2>8. 0 \in S
    BY <1>1
  <2>9. ASSUME NEW k \in 1 .. n, k - 1 \in S
        PROVE  k \in S
    <3>1. IsList(lists[k])
      BY <1>1
    <3>2. flat[k] = IF k = 1 THEN lists[k] ELSE flat[k - 1] \o lists[k]
      BY <2>7
    <3>3. k # 1 => IsList(flat[k - 1])
      BY <2>9
    <3>4. IsList(flat[k])
      BY <3>1, <3>2, <3>3, JoinedList
    <3> QED BY <1>1, <3>4
  <2> HIDE DEF S
  <2>10. n \in S
    <3>1. n \in 0 .. n
      BY <1>1
    <3> QED BY <1>1, <2>8, <2>9, <3>1, UpTo
  <2>11. IsList(flat[n])
    BY <1>3, <2>10 DEF S, n
  <2> QED BY <2>1, <2>11 DEF n
<1> QED BY <1>2, <1>3

(* What SelectInSeq and its kind return.                                   *)
LEMMA PlaceFound ==
  /\ \A I \in SUBSET Nat : I # {} => Min(I) \in I
  /\ \A I \in SUBSET Nat : (IF I # {} THEN Min(I) ELSE 0) \in Nat
<1>1. ASSUME NEW I \in SUBSET Nat, I # {}
      PROVE  Min(I) \in I
  <2>1. \E x \in I : \A y \in I : x <= y
    BY <1>1, LeastExists
  <2> QED BY <2>1 DEF Min
<1> QED BY <1>1

(* What SelectLastInSeq returns.                                           *)
LEMMA LastPlaceFound ==
  ASSUME NEW n \in Nat, NEW I \in SUBSET (1 .. n)
  PROVE  (IF I # {} THEN Max(I) ELSE 0) \in Nat
<1>1. CASE I # {}
  <2> DEFINE T == { n - i : i \in I }
  <2>1. T \in SUBSET Nat /\ T # {}
    <3>1. \A i \in I : n - i \in Nat
      OBVIOUS
    <3> QED BY <1>1, <3>1
  <2>2. PICK t \in T : \A u \in T : t <= u
    <3> HIDE DEF T
    <3> QED BY <2>1, LeastExists
  <2>3. PICK x \in I : t = n - x
    BY <2>2
  <2>4. ASSUME NEW y \in I
        PROVE  x >= y
    <3>1. n - x <= n - y
      BY <2>2, <2>3
    <3>2. x \in Nat /\ y \in Nat
      OBVIOUS
    <3> QED BY <3>1, <3>2
  <2>5. Max(I) \in I
    BY <2>3, <2>4 DEF Max
  <2> HIDE DEF T
  <2>6. \A i \in I : i \in Nat
    OBVIOUS
  <2>7. Max(I) \in Nat
    BY <2>5, <2>6
  <2> QED BY <1>1, <2>7
<1>2. CASE I = {}
  BY <1>2
<1> QED BY <1>1, <1>2

(* The least of a set.                                                     *)
LEMMA MinIs ==
  ASSUME NEW I \in SUBSET Int, NEW k \in I, \A i \in I : k <= i
  PROVE  Min(I) = k
<1>1. \E x \in I : \A y \in I : x <= y
  OBVIOUS
<1>2. Min(I) \in I /\ \A y \in I : Min(I) <= y
  BY <1>1 DEF Min
<1>3. Min(I) \in Int /\ Min(I) <= k /\ k <= Min(I) /\ k \in Int
  BY <1>2
<1> HIDE DEF Min
<1> QED BY <1>3

(* The greatest of a set.                                                  *)
LEMMA MaxIs ==
  ASSUME NEW I \in SUBSET Int, NEW k \in I, \A i \in I : k >= i
  PROVE  Max(I) = k
<1>1. \E x \in I : \A y \in I : x >= y
  OBVIOUS
<1>2. Max(I) \in I /\ \A y \in I : Max(I) >= y
  BY <1>1 DEF Max
<1>3. Max(I) \in Int /\ Max(I) >= k /\ k >= Max(I) /\ k \in Int
  BY <1>2
<1> HIDE DEF Max
<1> QED BY <1>3

(* A text put together from a part for each piece of a text.               *)
LEMMA PartsPutTogether ==
  ASSUME NEW text, IsList(text), NEW parts, parts = [ i \in DOMAIN text |-> parts[i] ],
         \A i \in DOMAIN text : IsList(parts[i])
  PROVE  IsList(FlattenSeq(parts))
<1>1. DOMAIN text = 1 .. Len(text) /\ Len(text) \in Nat
  BY ListProperties
<1>2. parts = [ i \in 1 .. Len(text) |-> parts[i] ]
  BY <1>1
<1>3. IsList(parts) /\ DOMAIN parts = DOMAIN text
  BY <1>1, <1>2, FunctionIsList
<1> QED BY <1>3, FlatList

(* SetToSeq lists a finite set.                                            *)
LEMMA OrderedSet ==
  ASSUME NEW S, IsFiniteSet(S)
  PROVE  IsList(SetToSeq(S)) /\ \A k \in DOMAIN SetToSeq(S) : SetToSeq(S)[k] \in S
<1> DEFINE n == Cardinality(S)
<1>1. n \in Nat
  BY FS_CardinalityType
<1>2. \E f \in [ 1 .. n -> S ] : IsInjective(f)
  <2>1. PICK f : f \in Bijection(1 .. n, S)
    BY FS_CardinalityType DEF ExistsBijection
  <2>2. f \in [ 1 .. n -> S ] /\ IsInjective(f)
    BY <2>1 DEF Bijection, Injection
  <2> QED BY <2>2
<1>3. SetToSeq(S) \in [ 1 .. n -> S ]
  BY <1>2 DEF SetToSeq
<1> HIDE DEF n
<1>4. SetToSeq(S) \in Seq(S)
  BY <1>1, <1>3, SeqDef
<1> QED BY <1>3, <1>4, ShortLists
=============================================================================
