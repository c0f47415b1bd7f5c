---------------------------- MODULE PackageMerge ----------------------------
(***************************************************************************)
(* How one package is merged into a list of packages: the algorithm of     *)
(* lcfgpkglist_merge_package (packages/list.c) and the comparisons of      *)
(* packages/package.c it rests on, as pure operators.                      *)
(*                                                                         *)
(* A package is a record.  Names, architectures, versions (version,        *)
(* release and flags together) and contexts are numbered in the order the  *)
(* comparison functions of package.c give them.  The field file is the     *)
(* source file named in the derivation the package is created with, struct *)
(* the identity of the C structure: two records that differ only there are *)
(* two separate structures with the same contents.                         *)
(***************************************************************************)
EXTENDS Integers, Sequences, SequencesExt, FiniteSets

CONSTANTS
  Packages,    (* The package structures the callers may merge.           *)
  PrimaryKey   (* The fields besides the name that identify a package.    *)

(* The prefixes of package.c, spelled out: '+' '-' '?' '!' '~' '>'.        *)
PackagePrefixes == {"none", "add", "remove", "update", "pin", "any", "min"}

(* The LCFG_MERGE_RULE_* bits of common.h.                                 *)
MergeRules ==
  {"KEEP_ALL", "SQUASH_IDENTICAL", "USE_PRIORITY", "USE_PREFIX", "REPLACE"}

Package ==
  [ name: Nat, arch: Nat, version: Nat, context: Nat,
    prefix: PackagePrefixes, priority: Int, file: Nat, struct: Nat ]

ASSUME PackagesAssumption == Packages \subseteq Package
ASSUME PrimaryKeyAssumption == PrimaryKey \subseteq {"arch", "context"}

(***************************************************************************)
(* Comparing packages.                                                     *)
(***************************************************************************)

(* The conflict test: same name and, where they are part of the primary    *)
(* key, same architecture and same context.                                *)
SameKey(p, q) ==
  /\ p.name = q.name
  /\ "arch" \in PrimaryKey => p.arch = q.arch
  /\ "context" \in PrimaryKey => p.context = q.context

(* lcfgpackage_equals: prefix, priority and derivation are not compared.   *)
Identical(p, q) ==
  /\ p.name = q.name
  /\ p.arch = q.arch
  /\ p.version = q.version
  /\ p.context = q.context

(* lcfgpackage_compare: by name, architecture, then version.               *)
Before(p, q) ==
  \/ p.name < q.name
  \/ p.name = q.name /\ p.arch < q.arch
  \/ p.name = q.name /\ p.arch = q.arch /\ p.version < q.version

(***************************************************************************)
(* The decision.  A plan says whether the merge is accepted, whether the   *)
(* current entry is removed and whether the new package is appended.       *)
(***************************************************************************)
Reject  == {}
Keep    == {"accept"}
Add     == {"accept", "append"}
Discard == {"accept", "remove"}
Swap    == {"accept", "append", "remove"}

(* cur is the set holding the package found in the list, or is empty.      *)
Pinned(cur) == \E c \in cur : c.prefix = "pin"

(* A variant of PrefixPlan that removes a pinned entry.                    *)
PrefixPlanIgnoringPin(cur, p) ==
  CASE p.prefix = "remove"        -> Discard
    [] p.prefix \in {"add","pin"} -> Swap
    [] p.prefix = "any"    -> IF cur = {} THEN Add ELSE Keep
    [] p.prefix = "update" -> IF cur = {} THEN Keep ELSE Swap
    [] p.prefix = "min"    -> IF \A c \in cur : p.version > c.version
                              THEN Swap ELSE Keep

(* What the prefix of the new package asks for; a pinned entry refuses to  *)
(* be removed.                                                             *)
PrefixPlan(cur, p) ==
  LET wanted ==
        CASE p.prefix = "remove"        -> Discard
          [] p.prefix \in {"add","pin"} -> Swap
          [] p.prefix = "any"    -> IF cur = {} THEN Add ELSE Keep
          [] p.prefix = "update" -> IF cur = {} \/ Pinned(cur)
                                    THEN Keep ELSE Swap
          [] p.prefix = "min"    -> IF \A c \in cur : p.version > c.version
                                    THEN Swap ELSE Keep
  IN IF "remove" \in wanted /\ Pinned(cur) THEN Reject ELSE wanted

UsesPrefix(rules, p) == "USE_PREFIX" \in rules /\ p.prefix # "none"

(* A variant of PriorityPlan that keeps the first package.                 *)
PriorityPlanKeepingFirst(cur, p) ==
  IF \A c \in cur : p.priority = c.priority THEN Reject ELSE Keep

(* The higher priority wins; nothing decides between equal ones.           *)
PriorityPlan(cur, p) ==
  IF \A c \in cur : p.priority > c.priority THEN Swap
  ELSE IF \A c \in cur : p.priority < c.priority THEN Keep
  ELSE Reject

(* The rules in the order the code tries them.                             *)
MergePlan(rules, cur, p) ==
  IF cur = {p} THEN Keep
  ELSE IF UsesPrefix(rules, p) THEN PrefixPlan(cur, p)
  ELSE IF cur = {} THEN Add
  ELSE IF /\ "SQUASH_IDENTICAL" \in rules
          /\ \A c \in cur : Identical(c, p)
       THEN Swap
  ELSE IF "KEEP_ALL" \in rules THEN Add
  ELSE IF "REPLACE" \in rules THEN Swap
  ELSE IF "USE_PRIORITY" \in rules
       THEN PriorityPlan(cur, p)
  ELSE Reject

(***************************************************************************)
(* The merge itself.                                                       *)
(***************************************************************************)

(* The position of the entry that conflicts with p: the first one, 0 if    *)
(* there is none.                                                          *)
Position(list, p) ==
  LET hits == { i \in DOMAIN list : SameKey(list[i], p) }
  IN IF hits = {} THEN 0
     ELSE CHOOSE i \in hits : \A j \in hits : i <= j

Current(list, p) ==
  LET i == Position(list, p) IN IF i = 0 THEN {} ELSE {list[i]}

PlanFor(list, rules, p) == MergePlan(rules, Current(list, p), p)

(* A variant of Merged that never removes the entry a package replaces.    *)
MergedWithoutRemoval(list, rules, p) ==
  IF "append" \in PlanFor(list, rules, p) THEN Append(list, p) ELSE list

(* The list after the merge: the entry removed, the package appended at    *)
(* the tail, as the plan says.                                             *)
Merged(list, rules, p) ==
  LET plan == PlanFor(list, rules, p)
      i    == Position(list, p)
      kept == IF "remove" \in plan /\ i # 0 THEN RemoveAt(list, i) ELSE list
  IN IF "append" \in plan THEN Append(kept, p) ELSE kept

(* The LCFGChange the merge returns.                                       *)
ChangeOf(list, rules, p) ==
  LET plan    == PlanFor(list, rules, p)
      removes == "remove" \in plan /\ Position(list, p) # 0
      appends == "append" \in plan
  IN IF plan = Reject THEN "ERROR"
     ELSE IF removes /\ appends THEN "REPLACED"
     ELSE IF removes THEN "REMOVED"
     ELSE IF appends THEN "ADDED"
     ELSE "NONE"

(* A variant of DerivationAfter in which a replacement starts afresh.      *)
DerivationOfNewOnly(list, rules, p, derivation) == derivation

(* Only a replacement that a prefix asked for merges the derivation of the *)
(* old package into that of the new one (lcfgpackage_merge_derivation).    *)
DerivationAfter(list, rules, p, derivation) ==
  IF UsesPrefix(rules, p) /\ PlanFor(list, rules, p) = Swap
  THEN [ derivation EXCEPT
           ![p] = @ \cup UNION { derivation[c] : c \in Current(list, p) } ]
  ELSE derivation

(* lcfgpkglist_sort: a bubble sort, so stable.                             *)
Sorted(list) ==
  LET Rank(i) == Cardinality({ j \in DOMAIN list :
                    \/ Before(list[j], list[i])
                    \/ ~Before(list[i], list[j]) /\ j <= i })
  IN [ k \in DOMAIN list |-> list[CHOOSE i \in DOMAIN list : Rank(i) = k] ]

Changes == {"ERROR", "NONE", "MODIFIED", "ADDED", "REPLACED", "REMOVED"}
=============================================================================
