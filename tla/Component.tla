------------------------------ MODULE Component ------------------------------
(***************************************************************************)
(* Components (resources/components/component.c) and the reference counted *)
(* resource lists they hold (reslist.c), which clones and selections share *)
(* until one of them is modified: copy on write.                           *)
(*                                                                         *)
(* A resource is a record; the field struct is the identity of the C       *)
(* structure.  The hash table of a component is a function from the names  *)
(* of resources to lists: the table grows before it is full, so a probe    *)
(* for a name always ends at its bucket.  ComponentTable models the sizes. *)
(* lcfgcomponent_merge_component is a loop; call holds the running one.    *)
(***************************************************************************)
EXTENDS Integers, Sequences, SequencesExt, FiniteSets

CONSTANTS
  Components,   (* The LCFGComponent structures.                          *)
  Names,        (* The names of resources.                                *)
  Lists,        (* The LCFGResourceList structures.                       *)
  NoList,       (* NULL                                                   *)
  Resources,    (* The resource structures the callers may merge.         *)
  RuleSets,     (* The merge rules a caller may set.                      *)
  PrimaryKey,   (* The fields besides the name that identify a resource.  *)
  MaxLength     (* Bound on the length of a resource list.                *)

Resource ==
  [ name: Names, value: Nat, context: Nat, priority: Int, struct: Nat ]

ASSUME ResourcesAssumption == Resources \subseteq Resource
ASSUME NoListAssumption == NoList \notin Lists
ASSUME PrimaryKeyAssumption == PrimaryKey \subseteq {"context"}
ASSUME MaxLengthAssumption == MaxLength \in Nat
ASSUME FiniteAssumption == IsFiniteSet(Components) /\ IsFiniteSet(Names)
(* Memory never runs out: a list per name and component, and a copy.       *)
ASSUME ListsAssumption ==
  Cardinality(Lists) > Cardinality(Components) * Cardinality(Names)

VARIABLES
  live,       (* the components that are allocated                        *)
  rules,      (* merge_rules of each component                            *)
  table,      (* resources: the list each component has under each name   *)
  items,      (* the resources in each list                               *)
  listRules,  (* merge_rules of each list                                 *)
  listRefs,   (* _refcount of each list, 0 when it is not allocated       *)
  call        (* the running call                                         *)

vars == << live, rules, table, items, listRules, listRefs, call >>

(***************************************************************************)
(* Merging a resource into a list: lcfgreslist_merge_resource.             *)
(***************************************************************************)
SameKey(r, q) ==
  /\ r.name = q.name
  /\ "context" \in PrimaryKey => r.context = q.context

(* lcfgresource_equals: where lcfgresource_compare gets to the contexts it *)
(* compares the values a second time, so contexts are not compared.        *)
Identical(r, q) ==
  r.name = q.name /\ r.priority = q.priority /\ r.value = q.value

(* The position of the first resource that has the key of r, 0 if none.    *)
Position(list, r) ==
  LET hits == { i \in DOMAIN list : SameKey(list[i], r) }
  IN IF hits = {} THEN 0
     ELSE CHOOSE i \in hits : \A j \in hits : i <= j

(* What the rules of the list, in the order the code tries them, decide.   *)
PlanFor(list, rls, r) ==
  LET i   == Position(list, r)
      old == list[i]
  IN IF i = 0 THEN "append"
     ELSE IF old = r THEN "keep"
     ELSE IF "SQUASH_IDENTICAL" \in rls /\ Identical(old, r) THEN "replace"
     ELSE IF "KEEP_ALL" \in rls THEN "append"
     ELSE IF "REPLACE" \in rls THEN "replace"
     ELSE IF "USE_PRIORITY" \in rls /\ r.priority > old.priority
          THEN "replace"
     ELSE IF "USE_PRIORITY" \in rls /\ r.priority < old.priority
          THEN "keep"
     ELSE "conflict"

(* A variant of Merged that loses the resource that replaces another.      *)
MergedRemovingOnly(list, rls, r) ==
  LET plan == PlanFor(list, rls, r)
  IN IF plan = "replace" THEN RemoveAt(list, Position(list, r))
     ELSE IF plan = "append" THEN Append(list, r) ELSE list

(* The list afterwards.                                                    *)
Merged(list, rls, r) ==
  LET plan == PlanFor(list, rls, r)
      kept == IF plan = "replace" THEN RemoveAt(list, Position(list, r))
              ELSE list
  IN IF plan \in {"append", "replace"} THEN Append(kept, r) ELSE list

(* The LCFGChange it returns.                                              *)
ChangeOf(list, rls, r) ==
  LET plan == PlanFor(list, rls, r)
  IN IF plan = "append" THEN "ADDED"
     ELSE IF plan = "replace" THEN "REPLACED"
     ELSE IF plan = "keep" THEN "NONE"
     ELSE "ERROR"

(* lcfgreslist_merge_list: what it makes of the result of one resource.    *)
Accumulate(sofar, one) ==
  IF one = "ERROR" THEN "ERROR" ELSE IF one = "NONE" THEN sofar ELSE "MODIFIED"

(***************************************************************************)
(* Pieces of the operations.                                               *)
(***************************************************************************)
Has(c) == { n \in Names : table[c][n] # NoList }

IsFree(l) == l \in Lists /\ listRefs[l] = 0

(* A variant of IsShared that is off by one.                               *)
IsSharedByMore(l) == listRefs[l] > 2

(* lcfgreslist_is_shared                                                   *)
IsShared(l) == listRefs[l] > 1

(* A variant of NeedsCopy that writes to shared lists.                     *)
NeedsNoCopy(l) == l = NoList

(* A merge writes to a new list where there is none and to a copy of a     *)
(* list that is shared.                                                    *)
NeedsCopy(l) == l # NoList => IsShared(l)

(* What the new list starts with: lcfgcomponent_empty_list, lcfgreslist_   *)
(* clone.                                                                  *)
StartItems(l) == IF l = NoList THEN << >> ELSE items[l]
StartRules(c, l) == IF l = NoList THEN rules[c] ELSE listRules[l]

(* The references once those of the names ns of component c are released.  *)
Released(c, ns) ==
  [ l \in Lists |->
      listRefs[l] - Cardinality({ n \in ns : table[c][n] = l }) ]

(* A list nobody refers to is destroyed, and empty when it is reused.      *)
Surviving(contents, counts) ==
  [ l \in Lists |-> IF counts[l] = 0 THEN << >> ELSE contents[l] ]

NoCall == [ kind |-> "none" ]
Idle == call = NoCall

EmptyTable == [ n \in Names |-> NoList ]

Init ==
  /\ live = {}
  /\ rules = [ c \in Components |-> {} ]
  /\ table = [ c \in Components |-> EmptyTable ]
  /\ items = [ l \in Lists |-> << >> ]
  /\ listRules = [ l \in Lists |-> {} ]
  /\ listRefs = [ l \in Lists |-> 0 ]
  /\ call = NoCall

(***************************************************************************)
(* The operations.                                                         *)
(***************************************************************************)
New(c) ==
  /\ Idle /\ c \notin live
  /\ live' = live \cup {c}
  /\ rules' = [ rules EXCEPT ![c] = {} ]
  /\ UNCHANGED << table, items, listRules, listRefs, call >>

(* The new component takes the lists that c has under the names ns.        *)
Share(c, new, ns) ==
  /\ table' = [ table EXCEPT ![new] =
                  [ n \in Names |-> IF n \in ns THEN table[c][n] ELSE NoList ] ]
  /\ listRefs' = [ l \in Lists |->
       listRefs[l] + Cardinality({ n \in ns : table[c][n] = l }) ]

(* lcfgcomponent_clone and lcfgcomponent_select, which takes some of the   *)
(* names; a selection that fails leaves nothing behind.                    *)
Select(c, new, ns) ==
  /\ Idle /\ c \in live /\ new \notin live
  /\ live' = live \cup {new}
  /\ rules' = [ rules EXCEPT ![new] = rules[c] ]
  /\ Share(c, new, ns)
  /\ UNCHANGED << items, listRules, call >>

SetMergeRules(c, rls) ==
  /\ Idle /\ c \in live
  /\ rules' = [ rules EXCEPT ![c] = rls ]
  /\ listRules' = [ l \in Lists |->
       IF \E n \in Has(c) : table[c][n] = l THEN rls ELSE listRules[l] ]
  /\ UNCHANGED << live, table, items, listRefs, call >>

(* The list l of c under n is replaced by f, which is new.                 *)
Store(c, n, f, contents) ==
  LET counts == [ Released(c, {n}) EXCEPT ![f] = 1 ]
  IN /\ table' = [ table EXCEPT ![c][n] = f ]
     /\ listRefs' = counts
     /\ items' = Surviving(contents, counts)

(* lcfgcomponent_merge_resource.  If the merge is refused, or changes      *)
(* nothing, a new list is thrown away again.                               *)
MergeInPlace(c, r) ==
  LET l == table[c][r.name]
  IN /\ ~NeedsCopy(l)
     /\ items' = [ items EXCEPT ![l] = Merged(items[l], listRules[l], r) ]
     /\ UNCHANGED << table, listRules, listRefs >>

MergeCopying(c, r) ==
  LET l     == table[c][r.name]
      start == StartItems(l)
      rls   == StartRules(c, l)
  IN /\ NeedsCopy(l)
     /\ IF ChangeOf(start, rls, r) \in {"ERROR", "NONE"}
        THEN UNCHANGED << table, items, listRules, listRefs >>
        ELSE \E f \in Lists :
               /\ IsFree(f)
               /\ Store(c, r.name, f,
                        [ items EXCEPT ![f] = Merged(start, rls, r) ])
               /\ listRules' = [ listRules EXCEPT ![f] = rls ]

MergeResource(c, r) ==
  /\ Idle /\ c \in live
  /\ Len(StartItems(table[c][r.name])) < MaxLength
  /\ MergeInPlace(c, r) \/ MergeCopying(c, r)
  /\ UNCHANGED << live, rules, call >>

(* lcfgcomponent_merge_component: no step of it when there is nothing to   *)
(* merge or a component would be merged into itself.                       *)
MergeComponent(c1, c2) ==
  /\ Idle /\ c1 \in live /\ c2 \in live
  /\ c1 # c2 /\ Has(c2) # {}
  /\ \A n \in Has(c2) :
       Len(StartItems(table[c1][n])) + Len(items[table[c2][n]]) <= MaxLength
  /\ call' = [ kind |-> "merge", into |-> c1, from |-> c2, todo |-> Has(c2),
               name |-> "none", work |-> NoList, at |-> 0,
               one |-> "NONE", change |-> "NONE" ]
  /\ UNCHANGED << live, rules, table, items, listRules, listRefs >>

Merging == call.kind = "merge"
InList == Merging /\ call.at > 0

(* The next bucket of the second component: in the order of the hashes of  *)
(* the names, so any order.                                                *)
StartList(n) ==
  /\ Merging /\ call.at = 0 /\ call.change # "ERROR" /\ n \in call.todo
  /\ LET l == table[call.into][n]
         Work(w) == call' = [ call EXCEPT !.todo = @ \ {n}, !.name = n,
                                          !.work = w, !.at = 1, !.one = "NONE" ]
     IN \/ /\ ~NeedsCopy(l)
           /\ Work(l)
           /\ UNCHANGED << items, listRules, listRefs >>
        \/ /\ NeedsCopy(l)
           /\ \E f \in Lists :
                /\ IsFree(f) /\ Work(f)
                /\ items' = [ items EXCEPT ![f] = StartItems(l) ]
                /\ listRules' =
                     [ listRules EXCEPT ![f] = StartRules(call.into, l) ]
                /\ listRefs' = [ listRefs EXCEPT ![f] = 1 ]
  /\ UNCHANGED << live, rules, table >>

(* The list of the second component, and whether the loop over it is over. *)
Source == items[table[call.from][call.name]]
ListDone == call.one = "ERROR" \/ call.at > Len(Source)

MergeNext ==
  /\ InList /\ ~ListDone
  /\ LET w == call.work
         r == Source[call.at]
     IN /\ items' = [ items EXCEPT ![w] = Merged(items[w], listRules[w], r) ]
        /\ call' = [ call EXCEPT !.at = @ + 1,
             !.one = Accumulate(@, ChangeOf(items[w], listRules[w], r)) ]
  /\ UNCHANGED << live, rules, table, listRules, listRefs >>

(* The call has a list of its own.                                         *)
OwnsWork == InList /\ call.work # table[call.into][call.name]

(* A variant of EndList that stores the new list but keeps the reference   *)
(* to the old one.                                                         *)
EndListKeepingOld ==
  /\ InList /\ ListDone
  /\ table' = IF OwnsWork /\ call.one = "MODIFIED"
              THEN [ table EXCEPT ![call.into][call.name] = call.work ]
              ELSE table
  /\ call' = [ call EXCEPT !.at = 0, !.work = NoList, !.change = call.one ]
  /\ UNCHANGED << live, rules, items, listRules, listRefs >>

(* A list of its own is stored if it was modified, and thrown away if not. *)
(* The result of the call is that of the last list: it is overwritten.     *)
EndList ==
  /\ InList /\ ListDone
  /\ LET stored == OwnsWork /\ call.one = "MODIFIED"
         counts == IF stored THEN Released(call.into, {call.name})
                   ELSE IF OwnsWork THEN [ listRefs EXCEPT ![call.work] = 0 ]
                   ELSE listRefs
     IN /\ table' = IF stored
                    THEN [ table EXCEPT ![call.into][call.name] = call.work ]
                    ELSE table
        /\ listRefs' = counts
        /\ items' = Surviving(items, counts)
  /\ call' = [ call EXCEPT !.at = 0, !.work = NoList, !.change = call.one ]
  /\ UNCHANGED << live, rules, listRules >>

Done == Merging /\ call.at = 0 /\ (call.todo = {} \/ call.change = "ERROR")

Return ==
  /\ Done
  /\ call' = NoCall
  /\ UNCHANGED << live, rules, table, items, listRules, listRefs >>

Emptied(c) ==
  LET counts == Released(c, Names)
  IN /\ table' = [ table EXCEPT ![c] = EmptyTable ]
     /\ listRefs' = counts
     /\ items' = Surviving(items, counts)

RemoveAllResources(c) ==
  /\ Idle /\ c \in live
  /\ Emptied(c)
  /\ UNCHANGED << live, rules, listRules, call >>

(* lcfgcomponent_relinquish of the last reference.                         *)
Destroy(c) ==
  /\ Idle /\ c \in live
  /\ Emptied(c)
  /\ live' = live \ {c}
  /\ UNCHANGED << rules, listRules, call >>

Next ==
  \/ \E c \in Components :
       \/ New(c) \/ RemoveAllResources(c) \/ Destroy(c)
       \/ \E rls \in RuleSets : SetMergeRules(c, rls)
       \/ \E r \in Resources : MergeResource(c, r)
       \/ \E new \in Components, ns \in SUBSET Has(c) : Select(c, new, ns)
       \/ \E c2 \in Components : MergeComponent(c, c2)
  \/ \E n \in Names : StartList(n)
  \/ MergeNext \/ EndList \/ Return

Spec == Init /\ [][Next]_vars

(***************************************************************************)
(* Properties.                                                             *)
(***************************************************************************)
CallType ==
  \/ call = NoCall
  \/ /\ DOMAIN call = { "kind", "into", "from", "todo", "name", "work", "at",
                        "one", "change" }
     /\ call.kind = "merge"
     /\ call.into \in live /\ call.from \in live
     /\ call.into # call.from
     /\ call.todo \subseteq Has(call.from)
     /\ call.at \in 0 .. MaxLength + 1
     /\ call.at > 0 => call.name \in Has(call.from) /\ call.work \in Lists
     /\ call.at = 0 => call.work = NoList
     /\ call.one \in {"NONE", "MODIFIED", "ERROR"}
     /\ call.change \in {"NONE", "MODIFIED", "ERROR"}

(* Every variable has its type; a running merge works on two components    *)
(* that exist, and has a list to write to exactly while it is in a list    *)
(* (the locals of lcfgcomponent_merge_component).                          *)
TypeOK ==
  /\ live \subseteq Components
  /\ rules \in [Components -> RuleSets \cup {{}}]
  /\ table \in [Components -> [Names -> Lists \cup {NoList}]]
  /\ items \in [Lists -> Seq(Resources)]
  /\ \A l \in Lists : Len(items[l]) <= MaxLength
  /\ listRules \in [Lists -> RuleSets \cup {{}}]
  /\ listRefs \in [Lists -> Nat]
  /\ CallType

(* The reference count of every list is the number of buckets that point   *)
(* to it, and one more for the copy a running merge has not stored yet: no *)
(* list is freed too early, none is leaked and none that is shared is      *)
(* taken for one that is not (acquire and relinquish in set_bucket,        *)
(* insert_list and the two merges).                                        *)
RefsExact ==
  \A l \in Lists :
    listRefs[l] =
      Cardinality({ p \in Components \X Names : table[p[1]][p[2]] = l })
      + IF OwnsWork /\ call.work = l THEN 1 ELSE 0

(* The list in a bucket has a resource, and all its resources the name the *)
(* bucket is for: find_bucket compares the name of the first one only, and *)
(* probes past a list without any.                                         *)
FiledByName ==
  \A c \in Components : \A n \in Has(c) :
    LET list == items[table[c][n]]
    IN list # << >> /\ \A i \in DOMAIN list : list[i].name = n

(* The list a merge writes to is no other component's, and so not the one  *)
(* it reads from, which would grow or shrink under the loop                *)
(* (lcfgreslist_merge_list has no guard against merging a list with        *)
(* itself; the copies of merge_component are its only protection).         *)
WritesApart ==
  InList => \A c \in Components : \A n \in Names :
              table[c][n] = call.work => c = call.into /\ n = call.name

(* The resources a component holds under each name.                        *)
Held(c) == [ n \in Has(c) |-> items[table[c][n]] ]

(* The documentation of lcfgcomponent_clone: copy on write is there to     *)
(* "avoid unexpected 'action at a distance'".  No step changes what two    *)
(* components hold, and no step of a merge what any but its target holds.  *)
NoActionAtADistance ==
  [][ /\ \A c, d \in live \cap live' :
           c = d \/ Held(c)' = Held(c) \/ Held(d)' = Held(d)
      /\ Merging => \A c \in live \ {call.into} : Held(c)' = Held(c) ]_vars

(* The documentation of lcfgcomponent_merge_resource: SQUASH_IDENTICAL can *)
(* be combined with KEEP_ALL "to keep all resources which are not          *)
(* identical", where identical compares "name, value and context".  While  *)
(* a list has these rules no step drops a resource unless it has another   *)
(* with that value and context.                                            *)
DifferentContextsKept ==
  [][ \A c \in live \cap live' : \A n \in Has(c) :
        /\ listRules[table[c][n]] = {"KEEP_ALL", "SQUASH_IDENTICAL"}
        /\ table'[c][n] # NoList
        => \A r \in ToSet(items[table[c][n]]) :
             \E q \in ToSet(items'[table'[c][n]]) :
               q.value = r.value /\ q.context = r.context ]_vars

(* The components are well typed and each resource is in the list of its   *)
(* name, where a probe looks for it (lcfgcomponent_find_list).             *)
WellFormed == TypeOK /\ FiledByName
=============================================================================
