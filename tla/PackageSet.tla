----------------------------- MODULE PackageSet -----------------------------
(***************************************************************************)
(* A package set (packages/set.c): a hash table with open addressing and   *)
(* linear probing, whose buckets hold one package list for each name.      *)
(*                                                                         *)
(* The table grows when a new name fills it to seven tenths: all packages  *)
(* are merged again, bucket by bucket, into a larger table under the merge *)
(* rules the set has at that moment.  A bucket whose list becomes empty is *)
(* emptied, so << >> stands for a NULL bucket.                             *)
(*                                                                         *)
(* merge_list and merge_set are loops of merge_package calls; call holds   *)
(* what the running one has still to do.                                   *)
(***************************************************************************)
EXTENDS PackageMerge

CONSTANTS
  Hash,            (* lcfgutils_string_djbhash of each name               *)
  InitialBuckets,  (* LCFG_PKGSET_DEFAULT_SIZE                            *)
  RuleSets,        (* The combinations of merge rules the callers set     *)
  Sources,         (* The package sets that are merged into this one:     *)
                   (* each is the sequence of its lists                   *)
  MaxLength        (* Bound on the number of packages in the set          *)

Names == { p.name : p \in Packages }

ASSUME HashAssumption == \A n \in Names : Hash[n] \in Nat
ASSUME InitialBucketsAssumption == InitialBuckets \in Nat \ {0}
ASSUME RuleSetsAssumption == RuleSets \subseteq SUBSET MergeRules
ASSUME SourcesAssumption == Sources \subseteq Seq(Seq(Packages))

VARIABLES
  table,       (* packages: the list in each bucket                       *)
  entries,     (* number of buckets in use, as the set counts them        *)
  rules,       (* merge_rules, of the set and of every list in it         *)
  derivation,  (* the source files the derivation of each package names   *)
  call,        (* the lists a running merge_list or merge_set has to do   *)
  change,      (* LCFGChange of the last or running call                  *)
  exited,      (* exit(EXIT_FAILURE) was called                           *)
  holes        (* history: the buckets a removal has emptied since the    *)
               (* table was allocated                                     *)

vars == << table, entries, rules, derivation, call, change, exited, holes >>

(***************************************************************************)
(* Probing.                                                                *)
(***************************************************************************)
Buckets(t) == Cardinality(DOMAIN t)

Home(t, n) == Hash[n] % Buckets(t)

(* The two loops: from the home bucket to the end, then from the start.    *)
ProbedBefore(h, i, j) ==
  \/ h <= i /\ (i < j \/ j < h)
  \/ i < j /\ j < h

(* A probe ends at an empty bucket or at the list of the wanted name.      *)
Ends(t, n, i) == t[i] = << >> \/ t[i][1].name = n

(* The bucket where the probe for n ends, if there is one.                 *)
ProbeEnd(t, n) ==
  { i \in DOMAIN t :
      /\ Ends(t, n, i)
      /\ \A j \in DOMAIN t : ProbedBefore(Home(t, n), j, i) => ~Ends(t, n, j) }

(* lcfgpkgset_find_list.                                                   *)
FindList(t, n) ==
  IF ProbeEnd(t, n) = {} THEN << >>
  ELSE t[CHOOSE i \in ProbeEnd(t, n) : TRUE]

(***************************************************************************)
(* Merging one package.  A store is what a merge works on.                 *)
(***************************************************************************)

(* A variant of Counted that forgets the list that was emptied.            *)
CountedUp(n, before, after) ==
  IF before = << >> /\ after # << >> THEN n + 1 ELSE n

(* The entries when the list in a bucket goes from before to after.        *)
Counted(n, before, after) ==
  CASE before = << >> /\ after # << >> -> n + 1
    [] before # << >> /\ after = << >> -> n - 1
    [] OTHER                           -> n

(* The buckets that a removal has emptied, with this one.                  *)
HolesAfter(before, slot, old, new) ==
  IF old # << >> /\ new = << >> THEN before \cup {slot} ELSE before

(* lcfgpkgset_merge_package up to the resize.                              *)
Place(store, p) ==
  LET t    == store.table
      ends == ProbeEnd(t, p.name)
  IN IF ends = {} THEN [store EXCEPT !.change = "ERROR"]
     ELSE LET slot == CHOOSE i \in ends : TRUE
              new  == Merged(t[slot], rules, p)
          IN [ table |-> [t EXCEPT ![slot] = new],
               entries |-> Counted(store.entries, t[slot], new),
               derivation |->
                 DerivationAfter(t[slot], rules, p, store.derivation),
               change |-> ChangeOf(t[slot], rules, p),
               failed |-> store.failed,
               holes |-> HolesAfter(store.holes, slot, t[slot], new) ]

EmptyTable(size) == [ i \in 0 .. size - 1 |-> << >> ]

(* What is in the table, bucket by bucket.                                 *)
Stored(t) == FlattenSeq([ i \in 1 .. Buckets(t) |-> t[i - 1] ])

(* A package that was in the table is merged again; a failure ends the     *)
(* process.                                                                *)
Again(store, p) ==
  LET placed == Place(store, p)
  IN [ placed EXCEPT !.failed = @ \/ placed.change = "ERROR" ]

(* The loop over one of the old lists, by lcfgpkgset_merge_list.  Here and *)
(* below before is bound to the store so far, so that it is computed once. *)
WithList(store, list) ==
  LET upTo[k \in 0 .. Len(list)] ==
        IF k = 0 THEN store
        ELSE CHOOSE after \in { Again(before, list[k]) :
                                before \in { upTo[k - 1] } } : TRUE
  IN  upTo[Len(list)]

(* A variant of WithTable that starts at the second bucket.                *)
WithTableAfterFirst(store, old) ==
  LET upTo[i \in 0 .. Buckets(old)] ==
        IF i <= 1 THEN store
        ELSE CHOOSE after \in { WithList(before, old[i - 1]) :
                                before \in { upTo[i - 1] } } : TRUE
  IN  upTo[Buckets(old)]

(* The loop over the buckets of the old table.                             *)
WithTable(store, old) ==
  LET upTo[i \in 0 .. Buckets(old)] ==
        IF i = 0 THEN store
        ELSE CHOOSE after \in { WithList(before, old[i - 1]) :
                                before \in { upTo[i - 1] } } : TRUE
  IN  upTo[Buckets(old)]

(* A variant of Resized that leaves every list in its bucket.              *)
ResizedInPlace(store) ==
  LET wanted == 2 * store.entries + 1
      old    == store.table
  IN IF wanted <= Buckets(old) THEN store
     ELSE [ store EXCEPT !.table =
              [ i \in 0 .. wanted - 1 |->
                  IF i \in DOMAIN old THEN old[i] ELSE << >> ] ]

(* The table is too full for what is in it.                                *)
Grows(store) ==
  /\ 10 * store.entries >= 7 * Buckets(store.table)
  /\ 2 * store.entries + 1 > Buckets(store.table)

Emptied(store) ==
  [ store EXCEPT !.table = EmptyTable(2 * store.entries + 1),
                 !.entries = 0, !.holes = {} ]

(* A process that ends leaves the table as it was before.                  *)
Moved(store, new) ==
  IF new.failed THEN [ store EXCEPT !.failed = TRUE ]
  ELSE [ new EXCEPT !.change = store.change ]

(* lcfgpkgset_resize: at a load of 0.7 move to entries / 0.5 + 1 buckets.  *)
Resized(store) ==
  IF Grows(store) THEN Moved(store, WithTable(Emptied(store), store.table))
  ELSE store

(* Only a new entry can make the table grow.                               *)
MergedStore(store, p) ==
  LET placed == Place(store, p)
  IN IF placed.entries > store.entries THEN Resized(placed) ELSE placed

Store == [ table |-> table, entries |-> entries, derivation |-> derivation,
           change |-> change, failed |-> FALSE, holes |-> holes ]

(* The next state after p has been merged.                                 *)
Absorb(p) ==
  \E store \in { MergedStore(Store, p) } :
     /\ table' = store.table
     /\ entries' = store.entries
     /\ derivation' = store.derivation
     /\ exited' = store.failed
     /\ holes' = store.holes

(* The LCFGChange merging p returns.                                       *)
Outcome(p) == MergedStore(Store, p).change

(***************************************************************************)
(* The calls.                                                              *)
(***************************************************************************)
CallOn(kind, lists) ==
  [ kind |-> kind, lists |-> lists, inner |-> "NONE" ]

NoCall == CallOn("none", << >>)

Idle    == call = NoCall /\ ~exited
Running == call # NoCall /\ ~exited

(* Bound: the callers do not fill the set beyond MaxLength packages.       *)
RoomFor(n) == Len(Stored(table)) + n <= MaxLength

Init ==
  /\ table = EmptyTable(InitialBuckets)
  /\ entries = 0
  /\ rules \in RuleSets
  /\ derivation = [ p \in Packages |-> {p.file} ]
  /\ call = NoCall
  /\ change = "NONE"
  /\ exited = FALSE
  /\ holes = {}

MergePackage(p) ==
  /\ Idle /\ RoomFor(1)
  /\ Absorb(p)
  /\ change' = Outcome(p)
  /\ UNCHANGED << rules, call >>

(* lcfgpkgset_merge_list with one of the lists of a source.                *)
MergeList(list) ==
  /\ Idle /\ RoomFor(Len(list))
  /\ call' = CallOn("list", << list >>)
  /\ change' = "NONE"
  /\ UNCHANGED << table, entries, rules, derivation, exited, holes >>

(* lcfgpkgset_merge_set.                                                   *)
MergeSet(source) ==
  /\ Idle /\ RoomFor(Len(FlattenSeq(source)))
  /\ call' = CallOn("set", source)
  /\ change' = "NONE"
  /\ UNCHANGED << table, entries, rules, derivation, exited, holes >>

(* What the loop over a list makes of the result of one merge.             *)
Accumulate(sofar, one) ==
  CASE one = "ERROR" -> "ERROR"
    [] one = "NONE"  -> sofar
    [] OTHER         -> "MODIFIED"

(* One package of the list at the head of the running call.  An error ends *)
(* that list.                                                              *)
MergeStep ==
  /\ Running
  /\ call.lists # << >> /\ Head(call.lists) # << >> /\ call.inner # "ERROR"
  /\ LET p   == Head(Head(call.lists))
         one == Outcome(p)
     IN /\ Absorb(p)
        /\ call' = [ call EXCEPT !.lists[1] = Tail(@),
                                 !.inner = Accumulate(@, one) ]
  /\ UNCHANGED << rules, change >>

(* The end of a list.  merge_list returns its result as it is; merge_set   *)
(* takes note of a modification, never of an error, and goes on.           *)
EndList ==
  /\ Running
  /\ call.lists # << >>
  /\ Head(call.lists) = << >> \/ call.inner = "ERROR"
  /\ change' = IF call.kind = "list" THEN call.inner
               ELSE IF call.inner = "MODIFIED" THEN "MODIFIED"
               ELSE change
  /\ call' = [ call EXCEPT !.lists = Tail(@), !.inner = "NONE" ]
  /\ UNCHANGED << table, entries, rules, derivation, exited, holes >>

Return ==
  /\ Running
  /\ call.lists = << >>
  /\ call' = NoCall
  /\ UNCHANGED << table, entries, rules, derivation, change, exited, holes >>

SetMergeRules(r) ==
  /\ Idle
  /\ rules' = r
  /\ UNCHANGED << table, entries, derivation, call, change, exited, holes >>

(* lcfgpkgset_print sorts every list on the way.                           *)
SortForPrint ==
  /\ Idle
  /\ table' = [ i \in DOMAIN table |-> Sorted(table[i]) ]
  /\ UNCHANGED << entries, rules, derivation, call, change, exited, holes >>

Next ==
  \/ \E p \in Packages : MergePackage(p)
  \/ \E source \in Sources : source # << >> /\ MergeList(Head(source))
  \/ \E source \in Sources : MergeSet(source)
  \/ MergeStep
  \/ EndList
  \/ Return
  \/ \E r \in RuleSets : SetMergeRules(r)
  \/ SortForPrint

Spec == Init /\ [][Next]_vars

(***************************************************************************)
(* Properties.                                                             *)
(***************************************************************************)
CallType ==
  [ kind: {"none", "list", "set"}, lists: Seq(Seq(Packages)),
    inner: {"NONE", "MODIFIED", "ERROR"} ]

TypeOK ==
  /\ table \in [0 .. Buckets(table) - 1 -> Seq(Packages)]
  /\ entries \in Nat
  /\ rules \in RuleSets
  /\ derivation \in [Packages -> SUBSET Nat]
  /\ call \in CallType
  /\ change \in Changes
  /\ exited \in BOOLEAN
  /\ holes \subseteq DOMAIN table

(* A probe misses a list only where a removal has emptied a bucket before  *)
(* it: what ends the probe is that bucket, still empty or with a second    *)
(* list of the name.  Nothing else, no collision, growth or printing, hides *)
(* a list or starts a second one (lcfgpkgset_find_list and the probe of     *)
(* merge_package).                                                         *)
AllFindable ==
  \A i, j \in DOMAIN table :
    /\ table[i] # << >>
    /\ ProbedBefore(Home(table, table[i][1].name), j, i)
    /\ Ends(table, table[i][1].name, j)
    => j \in holes

(* The count that decides when the table grows is the number of buckets in *)
(* use, whichever way entries came and went.                               *)
EntriesExact ==
  entries = Cardinality({ i \in DOMAIN table : table[i] # << >> })

(* Between calls there is an empty bucket, so no merge is ever refused for *)
(* lack of space and every unsuccessful probe ends.                        *)
RoomLeft == ~exited => \E i \in DOMAIN table : table[i] = << >>

StoredPackages == UNION { ToSet(table[i]) : i \in DOMAIN table }

(* Growing ends the process (the exit in lcfgpkgset_resize) only where two *)
(* packages of one key were kept: under KEEP_ALL, or in two lists.         *)
ExitsForConflict ==
  exited => \E p, q \in StoredPackages : p # q /\ SameKey(p, q)

(* All lists are where a probe for their name ends.                        *)
AllFound ==
  \A i \in DOMAIN table :
    table[i] # << >> => i \in ProbeEnd(table, table[i][1].name)

(* As long as all lists are found, the set behaves as a map from names to  *)
(* lists: collisions and removals cannot be seen, and growth is that every *)
(* list is merged again, which ends the process if one package is refused. *)
Map == INSTANCE PackageMap
         WITH map <- [ n \in Names |-> FindList(table, n) ],
              ended <- exited

ImplementsMap ==
  Map!MapInit /\ [][AllFound /\ AllFound' => Map!MapNext]_(Map!mapVars)

(* The table is well typed and what hides a package in it is known         *)
(* (lcfgpkgset_merge_package, lcfgpkgset_resize).                          *)
WellFormed == TypeOK /\ AllFindable

(* Through removals, second lists and changes of the rules the entries are *)
(* counted right and leave a bucket free, so that the table grows in time  *)
(* and every probe ends; and growing ends the process only for a conflict  *)
(* (lcfgpkgset_merge_package, lcfgpkgset_resize).                          *)
CountsHold == EntriesExact /\ RoomLeft /\ ExitsForConflict
=============================================================================
