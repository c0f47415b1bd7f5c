---------------------------- MODULE ComponentSet ----------------------------
(***************************************************************************)
(* Component sets (resources/components/set.c): hash tables of a fixed     *)
(* number of buckets, with linear probing, that share reference counted    *)
(* components with each other and with the callers.                        *)
(*                                                                         *)
(* merge_components, transplant_components and the two loaders are loops;  *)
(* call holds the running one and each turn of its loop is a step.  The    *)
(* library is single threaded: no other call starts before it returns.     *)
(***************************************************************************)
EXTENDS Integers, FiniteSets

CONSTANTS
  Sets,         (* The LCFGComponentSet structures.                       *)
  Components,   (* The LCFGComponent structures.                          *)
  NoComponent,  (* NULL                                                   *)
  Name,         (* The name of each component.                            *)
  Hash,         (* lcfgutils_string_djbhash of each name.                 *)
  Buckets,      (* LCFG_COMPSET_DEFAULT_SIZE: a set never grows, as       *)
                (* lcfgcompset_resize is only called for a new set.       *)
  MaxRefs,      (* Bound on the references to a component a caller takes. *)
  MaxSetRefs    (* Bound on the references to a set.                      *)

Names == { Name[c] : c \in Components }
Slots == 0 .. Buckets - 1

ASSUME SetsAssumption == IsFiniteSet(Sets)
ASSUME ComponentsAssumption == NoComponent \notin Components
ASSUME HashAssumption == \A n \in Names : Hash[n] \in Nat
ASSUME BucketsAssumption == Buckets \in Nat \ {0}
ASSUME MaxRefsAssumption == MaxRefs \in Nat /\ MaxSetRefs \in Nat

VARIABLES
  slot,     (* components: what each bucket of each set points to         *)
  entries,  (* entries of each set                                        *)
  setRefs,  (* _refcount of each set, 0 when it is not allocated          *)
  refs,     (* _refcount of each component, 0 when it is not allocated    *)
  owned,    (* how many of the references to each component callers hold  *)
  content,  (* whose resources have been merged into each component       *)
  call      (* the running call; for a loop with its LCFGChange so far    *)

vars == << slot, entries, setRefs, refs, owned, content, call >>

(***************************************************************************)
(* Probing.                                                                *)
(***************************************************************************)
Home(n) == Hash[n] % Buckets

(* The two loops: from the home bucket to the end, then from the start.    *)
ProbedBefore(h, i, j) ==
  \/ h <= i /\ (i < j \/ j < h)
  \/ i < j /\ j < h

(* A probe for n stops at an empty bucket and at a component of that name. *)
Stops(s, n, i) == slot[s][i] # NoComponent => Name[slot[s][i]] = n

ProbeEnd(s, n, i) ==
  /\ Stops(s, n, i)
  /\ \A j \in Slots : ProbedBefore(Home(n), j, i) => ~Stops(s, n, j)

(* lcfgcompset_find_component finds c.                                     *)
Finds(s, n, c) ==
  \E i \in Slots : ProbeEnd(s, n, i) /\ slot[s][i] = c /\ c # NoComponent

Absent(s, n) == \A c \in Components : ~Finds(s, n, c)

IsEmpty(s) == entries[s] = 0

(***************************************************************************)
(* Pieces of the operations.                                               *)
(***************************************************************************)

(* c takes bucket i.                                                       *)
Put(s, c, i) ==
  /\ slot' = [ slot EXCEPT ![s][i] = c ]
  /\ entries' = IF slot[s][i] = NoComponent
                THEN [ entries EXCEPT ![s] = @ + 1 ] ELSE entries

(* The references when c takes bucket i, from r: one more for c, one less  *)
(* for what was there.                                                     *)
Recounted(s, c, i, r) ==
  LET old   == slot[s][i]
      taken == [ r EXCEPT ![c] = @ + 1 ]
  IN IF old = NoComponent THEN taken ELSE [ taken EXCEPT ![old] = @ - 1 ]

(* Two variants of Insert: one that takes any bucket that is free or has   *)
(* that name, and one that does not probe.                                 *)
InsertAnywhere(s, c, i, r) ==
  Stops(s, Name[c], i) /\ Put(s, c, i) /\ refs' = Recounted(s, c, i, r)

InsertAtHome(s, c, i, r) ==
  i = Home(Name[c]) /\ Put(s, c, i) /\ refs' = Recounted(s, c, i, r)

(* lcfgcompset_insert_component when the probe for the name of c ends at   *)
(* bucket i; r are the reference counts when it is called.                 *)
Insert(s, c, i, r) ==
  ProbeEnd(s, Name[c], i) /\ Put(s, c, i) /\ refs' = Recounted(s, c, i, r)

(* The probe has visited every bucket: the insertion is refused.           *)
NoSpace(s, c) == \A i \in Slots : ~Stops(s, Name[c], i)

(* A variant of Relinquish that frees the table but not its components.    *)
RelinquishTableOnly(s) ==
  /\ setRefs' = [ setRefs EXCEPT ![s] = @ - 1 ]
  /\ UNCHANGED refs
  /\ IF setRefs[s] = 1
     THEN /\ slot' = [ slot EXCEPT ![s] = [ i \in Slots |-> NoComponent ] ]
          /\ entries' = [ entries EXCEPT ![s] = 0 ]
     ELSE UNCHANGED << slot, entries >>

(* lcfgcompset_relinquish; the last one destroys the set, which releases   *)
(* every component in it.                                                  *)
Relinquish(s) ==
  /\ setRefs' = [ setRefs EXCEPT ![s] = @ - 1 ]
  /\ IF setRefs[s] = 1
     THEN /\ slot' = [ slot EXCEPT ![s] = [ i \in Slots |-> NoComponent ] ]
          /\ entries' = [ entries EXCEPT ![s] = 0 ]
          /\ refs' = [ c \in Components |->
               refs[c] - Cardinality({ i \in Slots : slot[s][i] = c }) ]
     ELSE UNCHANGED << slot, entries, refs >>

(* lcfgcomponent_new: any structure that is not allocated may be returned. *)
Allocate(c) ==
  /\ refs[c] = 0
  /\ content' = [ content EXCEPT ![c] = {c} ]

NoCall == [ kind |-> "none" ]
Idle == call = NoCall
Exists(s) == setRefs[s] > 0

Init ==
  /\ slot = [ s \in Sets |-> [ i \in Slots |-> NoComponent ] ]
  /\ entries = [ s \in Sets |-> 0 ]
  /\ setRefs = [ s \in Sets |-> 0 ]
  /\ refs = [ c \in Components |-> 0 ]
  /\ owned = [ c \in Components |-> 0 ]
  /\ content = [ c \in Components |-> {c} ]
  /\ call = NoCall

(***************************************************************************)
(* Components and sets in the hands of the callers.                        *)
(***************************************************************************)
NewComponent(c) ==
  /\ Idle
  /\ Allocate(c)
  /\ refs' = [ refs EXCEPT ![c] = 1 ]
  /\ owned' = [ owned EXCEPT ![c] = 1 ]
  /\ UNCHANGED << slot, entries, setRefs, call >>

(* A caller keeps what it found: find_component and acquire.               *)
TakeComponent(s, c) ==
  /\ Idle /\ Exists(s) /\ Finds(s, Name[c], c) /\ owned[c] < MaxRefs
  /\ refs' = [ refs EXCEPT ![c] = @ + 1 ]
  /\ owned' = [ owned EXCEPT ![c] = @ + 1 ]
  /\ UNCHANGED << slot, entries, setRefs, content, call >>

ReleaseComponent(c) ==
  /\ Idle /\ owned[c] > 0
  /\ refs' = [ refs EXCEPT ![c] = @ - 1 ]
  /\ owned' = [ owned EXCEPT ![c] = @ - 1 ]
  /\ UNCHANGED << slot, entries, setRefs, content, call >>

NewSet(s) ==
  /\ Idle /\ ~Exists(s)
  /\ setRefs' = [ setRefs EXCEPT ![s] = 1 ]
  /\ UNCHANGED << slot, entries, refs, owned, content, call >>

AcquireSet(s) ==
  /\ Idle /\ Exists(s) /\ setRefs[s] < MaxSetRefs
  /\ setRefs' = [ setRefs EXCEPT ![s] = @ + 1 ]
  /\ UNCHANGED << slot, entries, refs, owned, content, call >>

ReleaseSet(s) ==
  /\ Idle /\ Exists(s)
  /\ Relinquish(s)
  /\ UNCHANGED << owned, content, call >>

(***************************************************************************)
(* lcfgcompset_insert_component and lcfgcompset_find_or_create_component.  *)
(***************************************************************************)
InsertComponent(s, c) ==
  /\ Idle /\ Exists(s) /\ owned[c] > 0
  /\ \/ \E i \in Slots : Insert(s, c, i, refs)
     \/ NoSpace(s, c) /\ UNCHANGED << slot, entries, refs >>
  /\ UNCHANGED << setRefs, owned, content, call >>

(* The new component is released once the set has it: what is returned is  *)
(* the reference of the set.                                               *)
FindOrCreate(s, c) ==
  /\ Idle /\ Exists(s) /\ Absent(s, Name[c])
  /\ Allocate(c)
  /\ \/ \E i \in Slots : Insert(s, c, i, refs)
     \/ NoSpace(s, c) /\ UNCHANGED << slot, entries, refs >>
  /\ UNCHANGED << setRefs, owned, call >>

(***************************************************************************)
(* lcfgcompset_merge_components and lcfgcompset_transplant_components.     *)
(***************************************************************************)
StartCall(kind, into, from, takeNew) ==
  /\ Idle /\ Exists(into) /\ Exists(from)
  /\ call' = IF \/ IsEmpty(from)
                \/ kind = "merge" /\ IsEmpty(into) /\ ~takeNew
             THEN NoCall
             ELSE [ kind |-> kind, into |-> into, from |-> from,
                    takeNew |-> takeNew, next |-> 0, change |-> "NONE" ]
  /\ UNCHANGED << slot, entries, setRefs, refs, owned, content >>

MergeComponents(into, from, takeNew) == StartCall("merge", into, from, takeNew)
Transplant(into, from) == StartCall("transplant", into, from, TRUE)

Looping == call # NoCall /\ call.kind # "load"

(* The component in the bucket the loop is at.                             *)
AtBucket(c) ==
  /\ Looping /\ call.next < Buckets
  /\ slot[call.from][call.next] = c

(* The loop goes on unless the turn ended in an error.                     *)
Turn(rc) ==
  call' = IF rc = "ERROR" THEN NoCall
          ELSE [ call EXCEPT !.next = @ + 1,
                   !.change = IF rc = "NONE" THEN @ ELSE "MODIFIED" ]

(* A variant of SkipBucket that never takes a new component.               *)
SkipUnknown ==
  /\ \/ AtBucket(NoComponent)
     \/ \E c \in Components :
          AtBucket(c) /\ call.kind = "merge" /\ Absent(call.into, Name[c])
  /\ Turn("NONE")
  /\ UNCHANGED << slot, entries, setRefs, refs, owned, content >>

(* Nothing in the bucket, or a component the target does not have and is   *)
(* not to be given.                                                        *)
SkipBucket ==
  /\ \/ AtBucket(NoComponent)
     \/ \E c \in Components :
          /\ AtBucket(c)
          /\ call.kind = "merge" /\ ~call.takeNew /\ Absent(call.into, Name[c])
  /\ Turn("NONE")
  /\ UNCHANGED << slot, entries, setRefs, refs, owned, content >>

(* lcfgcomponent_merge_component on the component the target has.  It may  *)
(* fail half way, and return any result when it has changed the target     *)
(* (see NoneMeansUnchanged of MCComponentHistory); merging a component     *)
(* into itself does nothing.                                               *)
MergeInto(c, target) ==
  /\ AtBucket(c) /\ call.kind = "merge"
  /\ Finds(call.into, Name[c], target)
  /\ \E rc \in {"NONE", "MODIFIED", "ERROR"} :
       /\ Turn(rc)
       /\ IF c = target
          THEN rc = "NONE" /\ UNCHANGED content
          ELSE \/ rc # "MODIFIED" /\ UNCHANGED content
               \/ content' = [ content EXCEPT ![target] = @ \cup content[c] ]
  /\ UNCHANGED << slot, entries, setRefs, refs, owned >>

(* The component itself goes into the target: both sets now share it.      *)
ShareComponent(c) ==
  /\ AtBucket(c)
  /\ call.kind = "merge" => call.takeNew /\ Absent(call.into, Name[c])
  /\ \/ /\ \E i \in Slots : Insert(call.into, c, i, refs)
        /\ Turn("MODIFIED")
     \/ /\ NoSpace(call.into, c)
        /\ Turn("ERROR")
        /\ UNCHANGED << slot, entries, refs >>
  /\ UNCHANGED << setRefs, owned, content >>

ReturnFromLoop ==
  /\ Looping /\ call.next = Buckets
  /\ call' = NoCall
  /\ UNCHANGED << slot, entries, setRefs, refs, owned, content >>

(***************************************************************************)
(* lcfgcompset_from_status_dir and lcfgcompset_from_env: a new set is      *)
(* filled with new components; an error throws all of it away.             *)
(***************************************************************************)
StartLoad(s) ==
  /\ Idle /\ ~Exists(s)
  /\ setRefs' = [ setRefs EXCEPT ![s] = 1 ]
  /\ call' = [ kind |-> "load", into |-> s ]
  /\ UNCHANGED << slot, entries, refs, owned, content >>

Loading == call # NoCall /\ call.kind = "load"

LoadComponent(c) ==
  /\ Loading
  /\ Allocate(c)
  /\ \E i \in Slots : Insert(call.into, c, i, refs)
  /\ UNCHANGED << setRefs, owned, call >>

(* A component cannot be read, or there is no space for it.                *)
FailLoad ==
  /\ Loading
  /\ Relinquish(call.into)
  /\ call' = NoCall
  /\ UNCHANGED << owned, content >>

FinishLoad ==
  /\ Loading
  /\ call' = NoCall
  /\ UNCHANGED << slot, entries, setRefs, refs, owned, content >>

Next ==
  \/ \E c \in Components : NewComponent(c)
  \/ \E s \in Sets, c \in Components : TakeComponent(s, c)
  \/ \E c \in Components : ReleaseComponent(c)
  \/ \E s \in Sets : NewSet(s)
  \/ \E s \in Sets : AcquireSet(s)
  \/ \E s \in Sets : ReleaseSet(s)
  \/ \E s \in Sets, c \in Components : InsertComponent(s, c)
  \/ \E s \in Sets, c \in Components : FindOrCreate(s, c)
  \/ \E into, from \in Sets, new \in BOOLEAN : MergeComponents(into, from, new)
  \/ \E into, from \in Sets : Transplant(into, from)
  \/ SkipBucket
  \/ \E c, target \in Components : MergeInto(c, target)
  \/ \E c \in Components : ShareComponent(c)
  \/ ReturnFromLoop
  \/ \E s \in Sets : StartLoad(s)
  \/ \E c \in Components : LoadComponent(c)
  \/ FailLoad
  \/ FinishLoad

Spec == Init /\ [][Next]_vars

(***************************************************************************)
(* Properties.                                                             *)
(***************************************************************************)
LoopCall ==
  [ kind: {"merge", "transplant"}, into: Sets, from: Sets,
    takeNew: BOOLEAN, next: 0 .. Buckets, change: {"NONE", "MODIFIED"} ]
LoadCall == [ kind: {"load"}, into: Sets ]

TypeOK ==
  /\ slot \in [Sets -> [Slots -> Components \cup {NoComponent}]]
  /\ entries \in [Sets -> Nat]
  /\ setRefs \in [Sets -> Nat]
  /\ refs \in [Components -> Int]
  /\ owned \in [Components -> Nat]
  /\ content \in [Components -> SUBSET Components]
  /\ call \in {NoCall} \cup LoopCall \cup LoadCall

(* Every component in a set is found by looking up its name: the probe of  *)
(* lcfgcompset_find_component ends at the bucket where insert_component    *)
(* put it, whatever has been inserted, replaced and shared since.  So no   *)
(* name is in a set twice.                                                 *)
AllFindable ==
  \A s \in Sets, i \in Slots :
    slot[s][i] # NoComponent => ProbeEnd(s, Name[slot[s][i]], i)

(* The count behind lcfgcompset_is_empty, which cuts lookups and merges    *)
(* short, is the number of buckets in use.                                 *)
EntriesExact ==
  \A s \in Sets :
    entries[s] = Cardinality({ i \in Slots : slot[s][i] # NoComponent })

(* The reference count of a component is the number of callers and sets    *)
(* that hold it, through insertion, replacement, sharing between sets and  *)
(* the destruction of sets and of half loaded ones.  So nothing is freed   *)
(* that is still in a set, and nothing leaks.                              *)
RefsExact ==
  \A c \in Components :
    refs[c] = owned[c] + Cardinality({ s \in Sets : \E i \in Slots : slot[s][i] = c })

(* A running transplant, or merge that takes new components, has made sure *)
(* of every bucket behind it: the target set has that very component, or   *)
(* for a merge at least one of that name.  No later turn loses it again,   *)
(* not even where a set is merged into itself.  Loads have a new set that  *)
(* nobody else sees; what a load that fails releases is in RefsExact.      *)
NothingLeftBehind ==
  Looping /\ call.takeNew =>
    \A i \in Slots :
      i < call.next /\ slot[call.from][i] # NoComponent =>
        LET c == slot[call.from][i]
        IN IF call.kind = "transplant" THEN Finds(call.into, Name[c], c)
           ELSE ~Absent(call.into, Name[c])

(* The sets behave as maps from names to components: a lookup finds what   *)
(* was last inserted under a name, and collisions cannot be seen.          *)
Map == INSTANCE ComponentMap
         WITH holds <- [ s \in Sets |->
                          { c \in Components : Finds(s, Name[c], c) } ]

ImplementsMap == Map!MapSpec

(* The sets are well typed, count their entries right and find every       *)
(* component under its name (lcfgcompset_insert_component).                *)
WellFormed == TypeOK /\ AllFindable /\ EntriesExact
=============================================================================
