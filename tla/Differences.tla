---------------------------- MODULE Differences ----------------------------
(***************************************************************************)
(* The differences of two profiles (profile/diff.c, components/diff.c,     *)
(* resources/diff.c): first a quick look that names the components that    *)
(* differ, then for these the resources that were added, removed or        *)
(* modified, and the hold file that shows them for review.                 *)
(*                                                                         *)
(* A component maps the name of a resource to its list of resources, of    *)
(* which a difference sees the first; a profile maps the name of a         *)
(* component to the component.  Names are ordered by their place in        *)
(* CompNames and ResNames, as strcmp orders them.  The resources of a      *)
(* component are met in the order of its buckets, which can be any.        *)
(***************************************************************************)
EXTENDS ResourceFormat, ListPlaces

CONSTANTS
  CompNames,   (* the component names, in their order                      *)
  ResNames,    (* the resource names, in their order                       *)
  Prod,        (* the name "ng_prod"                                       *)
  Profiles,    (* the profiles there may be                                *)
  BucketOrders (* the orders in which a component has its resources        *)

(* A sequence that holds nothing twice.                                    *)
IsOrder(seq) == seq \in Seq(ToSet(seq)) /\ IsInjective(seq)

ASSUME DifferencesAssumption ==
  /\ IsOrder(CompNames) /\ IsOrder(ResNames)
  /\ \A order \in BucketOrders : IsOrder(order) /\ ToSet(order) = ToSet(ResNames)

(* A component has no empty list of resources: one that is emptied is      *)
(* taken out, and the code skips it wherever it could meet one.            *)
ASSUME ProfilesAssumption ==
  \A profile \in Profiles :
    /\ DOMAIN profile \subseteq ToSet(CompNames)
    /\ \A c \in DOMAIN profile : \E names \in SUBSET ToSet(ResNames) :
         profile[c] \in [ names -> Seq([ type : Types, value : {NULL} \cup Seq(STRING) ]) \ {<< >>} ]

NoResource == [ type |-> "none", value |-> NULL ]
NoNames == [ modified |-> << >>, added |-> << >>, removed |-> << >> ]
NotLooked == [ names |-> NoNames, change |-> "unknown" ]

VARIABLES
  old, new,   (* the two profiles                                          *)
  quick,      (* the answer of the quick look: [change, names]             *)
  diff,       (* the differences, a sequence of [name, type, items]        *)
  change,     (* the answer of lcfgprofile_diff                            *)
  hold        (* the text of the hold file                                 *)

vars == << old, new, quick, diff, change, hold >>

ComponentOf(profile, comp) == IF comp \in DOMAIN profile THEN profile[comp] ELSE << >>
ResourceOf(comp, name) == IF name \in DOMAIN comp THEN Head(comp[name]) ELSE NoResource

InOrder(order, names) == AtPlaces(order, { i \in DOMAIN order : order[i] \in names })

(* lcfgdiffcomponent_sort: a bubble sort by name, so stable.               *)
SortedBy(order, seq) ==
  SortedByKey([ i \in DOMAIN seq |-> CHOOSE p \in DOMAIN order : order[p] = seq[i].name ], seq)

-----------------------------------------------------------------------------
(* Resources                                                               *)

(* strtol on a value that may be no text.                                  *)
IntegerOf(text) == FoldLeft(LAMBDA n, d : 10 * n + (IF d = "7" THEN 7 ELSE 0), 0, OrEmpty(text))

(* lcfgresource_same_value: booleans by yes, integers by number.           *)
SameValue(res1, res2) ==
  IF res1.type = "boolean" /\ res2.type = "boolean"
    THEN (res1.value = <<"yes">>) = (res2.value = <<"yes">>)
  ELSE IF res1.type = "integer" /\ res2.type = "integer"
    THEN IntegerOf(res1.value) = IntegerOf(res2.value)
  ELSE OrEmpty(res1.value) = OrEmpty(res2.value)

(* The difference of two resources is the pair, its type is computed.      *)
ResourceType(item) ==
  CASE item.old # NoResource /\ item.new # NoResource ->
         IF SameValue(item.old, item.new) THEN "none" ELSE "modified"
    [] item.old # NoResource /\ item.new = NoResource -> "removed"
    [] item.old = NoResource /\ item.new # NoResource -> "added"
    [] OTHER -> "none"

ItemText(item, prefix, pending) ==
  LET type == ResourceType(item)
  IN  << IF type = "none" THEN "nochange" ELSE type, " ", "resource" >>
        \o (IF pending THEN << " ", "pending" >> ELSE << >>) \o << ": " >>
        \o (IF prefix = << >> THEN << >> ELSE prefix \o << "." >>) \o item.name
        \o (IF type = "added" /\ ~HasValue(item.new) THEN << " (null)" >> ELSE << >>)

(* The length lcfgdiffresource_to_string makes room for.                   *)
ItemTextLength(item, prefix, pending) ==
  LET type == ResourceType(item)
  IN  (CASE type = "added" -> 5 [] type = "removed" -> 7 [] OTHER -> 8)
        + 9 + (IF pending THEN 8 ELSE 0)
        + (IF prefix = << >> THEN 0 ELSE Size(prefix) + 1) + Size(item.name) + 2
        + (IF type = "added" /\ ~HasValue(item.new) THEN 7 ELSE 0)

Encoded(res) == IF HasValue(res) THEN EncValue(res.value) ELSE << >>

ShowsChange(item) == Encoded(item.old) # Encoded(item.new)

ItemHold(item, prefix) ==
  IF ~ShowsChange(item) THEN << >>
  ELSE prefix \o << "." >> \o item.name \o << ":", "LF" >>
         \o << " - " >> \o Encoded(item.old) \o << "LF" >>
         \o << " + " >> \o Encoded(item.new) \o << "LF" >>

(* The length lcfgdiffresource_to_hold makes room for.                     *)
ItemHoldLength(item, prefix) ==
  IF ~ShowsChange(item) THEN 0
  ELSE Size(prefix) + 1 + Size(item.name) + 2
         + Size(Encoded(item.old)) + 4 + Size(Encoded(item.new)) + 4

-----------------------------------------------------------------------------
(* Components                                                              *)

Item(name, comp1, comp2) ==
  [ name |-> name, old |-> ResourceOf(comp1, name), new |-> ResourceOf(comp2, name) ]

(* Variant: the second pass lists all resources of the new component.      *)
ItemsOfAll(comp1, comp2, order1, order2) ==
  LET changed == { n \in DOMAIN comp1 : \/ n \notin DOMAIN comp2
                                        \/ ~SameValue(Head(comp1[n]), Head(comp2[n])) }
      names == InOrder(order1, changed) \o InOrder(order2, DOMAIN comp2)
  IN  [ i \in DOMAIN names |-> Item(names[i], comp1, comp2) ]

(* Modified and removed resources in the order of the first component,     *)
(* then the added ones in that of the second.                              *)
ItemsOf(comp1, comp2, order1, order2) ==
  LET changed == { n \in DOMAIN comp1 : \/ n \notin DOMAIN comp2
                                        \/ ~SameValue(Head(comp1[n]), Head(comp2[n])) }
      names == InOrder(order1, changed) \o InOrder(order2, DOMAIN comp2 \ DOMAIN comp1)
  IN  [ i \in DOMAIN names |-> Item(names[i], comp1, comp2) ]

ComponentType(comp1, comp2, items) ==
  CASE comp1 = << >> /\ comp2 # << >> -> "added"
    [] comp1 # << >> /\ comp2 = << >> -> "removed"
    [] comp1 # << >> /\ comp2 # << >> /\ items # << >> -> "modified"
    [] OTHER -> "none"

ComponentDiff(name, comp1, comp2, order1, order2) ==
  LET items == ItemsOf(comp1, comp2, order1, order2)
  IN  [ name |-> name, type |-> ComponentType(comp1, comp2, items), items |-> items ]

SizeOf(comp) == FoldFunction(LAMBDA list, n : n + Len(list), 0, comp)

(* Variant: only the resources of the first component are looked up.       *)
QuickOneWay(comp1, comp2) ==
  IF \E n \in DOMAIN comp1 : \/ n \notin DOMAIN comp2
                             \/ ~SameValue(Head(comp1[n]), Head(comp2[n]))
    THEN "modified" ELSE "none"

QuickComponent(comp1, comp2) ==
  IF \/ SizeOf(comp1) # SizeOf(comp2)
     \/ \E n \in DOMAIN comp1 : \/ n \notin DOMAIN comp2
                                \/ ~SameValue(Head(comp1[n]), Head(comp2[n]))
     \/ \E n \in DOMAIN comp2 : n \notin DOMAIN comp1
    THEN "modified" ELSE "none"

(* Variant: a new component with a prod counts too.                        *)
WasProddedAtAll(compdiff) ==
  \E i \in DOMAIN compdiff.items :
    compdiff.items[i].name = Prod /\ HasValue(compdiff.items[i].new)

(* A prod counts only in a component that was there and stays.             *)
WasProdded(compdiff) ==
  /\ compdiff.type = "modified"
  /\ \E i \in DOMAIN compdiff.items :
       compdiff.items[i].name = Prod /\ HasValue(compdiff.items[i].new)

-----------------------------------------------------------------------------
(* Profiles                                                                *)

QuickNames(profile1, profile2) ==
  LET common == DOMAIN profile1 \intersect DOMAIN profile2
  IN  [ modified |-> InOrder(CompNames, { c \in common :
                       QuickComponent(profile1[c], profile2[c]) = "modified" }),
        added |-> InOrder(CompNames, DOMAIN profile2 \ DOMAIN profile1),
        removed |-> InOrder(CompNames, DOMAIN profile1 \ DOMAIN profile2) ]

QuickAnswer(names) ==
  [ names |-> names, change |-> IF names = NoNames THEN "none" ELSE "modified" ]

Compared(profile1, profile2, listed, order1, order2) ==
  [ i \in DOMAIN listed |->
      ComponentDiff(listed[i], ComponentOf(profile1, listed[i]),
                    ComponentOf(profile2, listed[i]), order1, order2) ]

(* The components that the quick look named, modified before added before  *)
(* removed; one with no difference after all is left out.                  *)
ProfileDiff(profile1, profile2, names, order1, order2) ==
  LET all == Compared(profile1, profile2, names.modified \o names.added \o names.removed,
                      order1, order2)
  IN  AtPlaces(all, { i \in DOMAIN all : all[i].type # "none" })

(* Variant: the components are sorted, their resources are not.            *)
SortComponentsOnly(compdiffs) == SortedBy(CompNames, compdiffs)

SortForHold(compdiffs) ==
  LET sorted == SortedBy(CompNames, compdiffs)
  IN  [ i \in DOMAIN sorted |->
          [ sorted[i] EXCEPT !.items = SortedBy(ResNames, @) ] ]

HoldText(compdiffs) ==
  FlattenSeq([ i \in DOMAIN compdiffs |->
    FlattenSeq([ k \in DOMAIN compdiffs[i].items |->
                   ItemHold(compdiffs[i].items[k], compdiffs[i].name) ]) ])

NamesForType(compdiffs, types) ==
  InOrder(CompNames, { compdiffs[i].name : i \in { k \in DOMAIN compdiffs : compdiffs[k].type \in types } })

-----------------------------------------------------------------------------
(* A client takes the profiles as they come                                *)

Init ==
  /\ old \in Profiles /\ new \in Profiles
  /\ quick = NotLooked /\ diff = << >> /\ change = "unknown" /\ hold = NULL

(* lcfgprofile_quickdiff.                                                  *)
QuickDiff ==
  /\ change = "unknown"
  /\ quick' = QuickAnswer(QuickNames(old, new))
  /\ UNCHANGED << old, new, diff, change, hold >>

(* lcfgprofile_diff, which takes the quick look itself.                    *)
TakeDiff(order1, order2) ==
  /\ change = "unknown"
  /\ \E answer \in { QuickAnswer(QuickNames(old, new)) } :
       /\ quick' = answer
       /\ change' = answer.change
       /\ diff' = IF answer.change = "none" THEN << >>
                  ELSE ProfileDiff(old, new, answer.names, order1, order2)
  /\ UNCHANGED << old, new, hold >>

(* lcfgdiffprofile_to_holdfile, which sorts the differences.               *)
WriteHold ==
  /\ change # "unknown" /\ hold = NULL
  /\ diff' = SortForHold(diff)
  /\ hold' = HoldText(diff')
  /\ UNCHANGED << old, new, quick, change >>

(* The next time, the new profile is the old one.                          *)
Adopt ==
  /\ hold # NULL
  /\ old' = new
  /\ quick' = NotLooked /\ diff' = << >> /\ change' = "unknown" /\ hold' = NULL
  /\ UNCHANGED new

Next ==
  \/ QuickDiff \/ WriteHold \/ Adopt
  \/ \E order1, order2 \in BucketOrders : TakeDiff(order1, order2)

Spec == Init /\ [][Next]_vars

-----------------------------------------------------------------------------
(* Properties                                                              *)

Changed(before, after) ==
  \/ (before = NoResource) # (after = NoResource)
  \/ before # NoResource /\ after # NoResource /\ ~SameValue(before, after)
Was(comp, name) == ResourceOf(ComponentOf(old, comp), name)
Is(comp, name) == ResourceOf(ComponentOf(new, comp), name)
Differs(comp) == \E name \in ToSet(ResNames) : Changed(Was(comp, name), Is(comp, name))

(* A component has an entry of its own, and only when something changed;   *)
(* an answer is one of the answers there are.                              *)
TypeOK ==
  /\ old \in Profiles /\ new \in Profiles
  /\ quick.change \in {"unknown", "none", "modified"} /\ change \in {"unknown", "none", "modified"}
  /\ \A i \in DOMAIN diff :
       /\ diff[i].name \in ToSet(CompNames) /\ diff[i].type \in {"added", "removed", "modified"}
       /\ \A k \in 1 .. i - 1 : diff[k].name # diff[i].name

(* What the difference says of a resource: how it is afterwards.           *)
Applied(comp, name) ==
  LET i == SelectInSeq(diff, LAMBDA d : d.name = comp)
      k == IF i = 0 THEN 0 ELSE SelectInSeq(diff[i].items, LAMBDA item : item.name = name)
  IN  IF k = 0 THEN Was(comp, name) ELSE diff[i].items[k].new

(* The differences turn the old profile into the new one, whatever the     *)
(* order of the buckets, name a resource once, and name none that did not  *)
(* change (lcfgprofile_diff, lcfgcomponent_diff).                          *)
DiffSound ==
  change # "unknown" =>
    /\ \A comp \in ToSet(CompNames), name \in ToSet(ResNames) :
         ~Changed(Applied(comp, name), Is(comp, name))
    /\ \A i \in DOMAIN diff : \A k \in DOMAIN diff[i].items :
         /\ ResourceType(diff[i].items[k]) # "none"
         /\ \A j \in 1 .. k - 1 : diff[i].items[j].name # diff[i].items[k].name

(* The quick look misses no component that changed, and names as modified  *)
(* only one whose first resources or whose number of resources changed     *)
(* (lcfgcompset_quickdiff, lcfgcomponent_quickdiff).                       *)
QuickHonest ==
  quick.change # "unknown" =>
    /\ \A comp \in ToSet(CompNames) : Differs(comp) =>
         \E list \in { quick.names.modified, quick.names.added, quick.names.removed } :
           comp \in ToSet(list)
    /\ \A comp \in ToSet(quick.names.modified) :
         Differs(comp) \/ SizeOf(old[comp]) # SizeOf(new[comp])

(* The components that a client asks for by lcfgdiffprofile_changed are    *)
(* those of which a resource changed, each under one kind of change.       *)
NamesExact ==
  change # "unknown" =>
    /\ NamesForType(diff, {"added", "removed", "modified"})
         = InOrder(CompNames, { c \in ToSet(CompNames) : Differs(c) })
    /\ \A t1, t2 \in {"added", "removed", "modified"} : t1 # t2 =>
         ToSet(NamesForType(diff, {t1})) \intersect ToSet(NamesForType(diff, {t2})) = {}

(* A component is prodded only if it runs already and still has resources  *)
(* (lcfgdiffcomponent_was_prodded).                                        *)
ProdsARunningComponent ==
  \A i \in DOMAIN diff : WasProdded(diff[i]) =>
    /\ ComponentOf(old, diff[i].name) # << >>
    /\ HasValue(Is(diff[i].name, Prod))
    /\ Changed(Was(diff[i].name, Prod), Is(diff[i].name, Prod))

(* The hold file depends on the two profiles only and not on the order in  *)
(* which a component has its resources, so the same change gives the same  *)
(* file and lcfgutils_file_update leaves it alone.                         *)
HoldCanonical ==
  hold # NULL =>
    hold = FlattenSeq([ i \in DOMAIN CompNames |-> FlattenSeq([ k \in DOMAIN ResNames |->
             IF Changed(Was(CompNames[i], ResNames[k]), Is(CompNames[i], ResNames[k]))
               THEN ItemHold(Item(ResNames[k], ComponentOf(old, CompNames[i]),
                                  ComponentOf(new, CompNames[i])), CompNames[i])
               ELSE << >> ]) ])

(* The room that is made is filled exactly, which the code asserts         *)
(* (lcfgdiffresource_to_string, lcfgdiffresource_to_hold).                 *)
LengthsAgree ==
  \A i \in DOMAIN diff : \A k \in DOMAIN diff[i].items :
    \E item \in { diff[i].items[k] } :
      /\ Size(ItemHold(item, diff[i].name)) = ItemHoldLength(item, diff[i].name)
      /\ \A prefix \in { << >>, diff[i].name }, pending \in BOOLEAN :
           Size(ItemText(item, prefix, pending)) = ItemTextLength(item, prefix, pending)

(* The difference is well typed, turns the old profile into the new one    *)
(* and is reported under the right names (lcfgprofile_diff).               *)
DiffExact == TypeOK /\ DiffSound /\ NamesExact

(* The hold file is the same whatever the order of the buckets, and every  *)
(* text fills the room that was made for it                                *)
(* (lcfgdiffprofile_to_holdfile, lcfgdiffresource_to_hold).                *)
HoldSound == HoldCanonical /\ LengthsAgree
=============================================================================
