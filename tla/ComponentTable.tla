--------------------------- MODULE ComponentTable ---------------------------
(***************************************************************************)
(* The sizes of the hash table of a component (resources/components/       *)
(* component.c): how many buckets the structure says it has, how many the  *)
(* array it points to was allocated with, and how many are in use.  Which  *)
(* names are stored, and the lists under them, are Component's.            *)
(***************************************************************************)
EXTENDS Integers

CONSTANTS
  Components,   (* The LCFGComponent structures.                          *)
  DefaultSize,  (* LCFG_COMP_DEFAULT_SIZE                                 *)
  MaxEntries,   (* Bound on the entries of a component.                   *)
  MaxCopied     (* Bound on the entries of a component that is cloned and *)
                (* on the names that are selected.                        *)

ASSUME DefaultSizeAssumption == DefaultSize \in Nat \ {0}
ASSUME BoundsAssumption == MaxEntries \in Nat /\ MaxCopied \in Nat

VARIABLES
  live,       (* the components that exist                                *)
  inUse,      (* entries of each component                                *)
  buckets,    (* buckets of each component                                *)
  allocated,  (* the length of the array resources points to              *)
  wanted      (* history: the names the present buckets of a component    *)
              (* were counted for by clone or select, 0 otherwise         *)

tableVars == << live, inUse, buckets, allocated, wanted >>

(* LCFG_COMP_LOAD_MAX is 0.7, LCFG_COMP_LOAD_INIT 0.5.                     *)
Overloaded(e, b) == 10 * e >= 7 * b
WantBuckets(e) == 2 * e + 1

(* A variant of NewSize that forgets to resize.                            *)
NewSizeUnchanged(e, b) == b

(* The buckets lcfgcomponent_resize wants for e entries in b buckets.      *)
NewSize(e, b) ==
  IF Overloaded(e, b) /\ WantBuckets(e) > b THEN WantBuckets(e) ELSE b

(* A variant of ArrayAfter that counts the buckets but keeps the array.    *)
ArrayKept(a, e, b) == a

(* The length of the array, so far a, after it: a new one only if there    *)
(* are to be more buckets.                                                 *)
ArrayAfter(a, e, b) == IF NewSize(e, b) > b THEN NewSize(e, b) ELSE a

(* The buckets clone and select set before they call lcfgcomponent_resize  *)
(* on the new component, which has no entries yet.                         *)
Presized(e) ==
  IF WantBuckets(e) > DefaultSize THEN WantBuckets(e) ELSE DefaultSize

TableInit ==
  /\ live = {}
  /\ inUse = [ c \in Components |-> 0 ]
  /\ buckets = [ c \in Components |-> DefaultSize ]
  /\ allocated = [ c \in Components |-> DefaultSize ]
  /\ wanted = [ c \in Components |-> 0 ]

New(c) ==
  /\ c \notin live
  /\ live' = live \cup {c}
  /\ inUse' = [ inUse EXCEPT ![c] = 0 ]
  /\ buckets' = [ buckets EXCEPT ![c] = DefaultSize ]
  /\ allocated' = [ allocated EXCEPT ![c] = DefaultSize ]
  /\ wanted' = [ wanted EXCEPT ![c] = 0 ]

(* A resource of a new name is merged: if there is a bucket for it.        *)
AddName(c) ==
  /\ c \in live /\ inUse[c] < MaxEntries
  /\ inUse[c] < buckets[c]
  /\ LET e == inUse[c] + 1
     IN /\ inUse' = [ inUse EXCEPT ![c] = e ]
        /\ buckets' = [ buckets EXCEPT ![c] = NewSize(e, @) ]
        /\ allocated' =
             [ allocated EXCEPT ![c] = ArrayAfter(@, e, buckets[c]) ]
        /\ wanted' = [ wanted EXCEPT
             ![c] = IF NewSize(e, buckets[c]) > buckets[c] THEN 0 ELSE @ ]
  /\ UNCHANGED live

RemoveAllResources(c) ==
  /\ c \in live
  /\ inUse' = [ inUse EXCEPT ![c] = 0 ]
  /\ UNCHANGED << live, buckets, allocated, wanted >>

(* A new component presized for w names is given e of them.                *)
Copy(new, w, e) ==
  /\ new \notin live
  /\ live' = live \cup {new}
  /\ inUse' = [ inUse EXCEPT ![new] = e ]
  /\ buckets' = [ buckets EXCEPT ![new] = NewSize(0, Presized(w)) ]
  /\ allocated' = [ allocated EXCEPT
       ![new] = ArrayAfter(DefaultSize, 0, Presized(w)) ]
  /\ wanted' = [ wanted EXCEPT ![new] = w ]

Clone(c, new) ==
  /\ c \in live /\ inUse[c] <= MaxCopied
  /\ Copy(new, inUse[c], inUse[c])

(* w names are wanted and e of them exist.  The resize after each of them  *)
(* is not needed (theorem PresizedSuffices of HashTables_proofs).         *)
Select(c, new, w, e) ==
  /\ c \in live /\ e <= inUse[c] /\ e <= w
  /\ Copy(new, w, e)

Destroy(c) ==
  /\ c \in live
  /\ live' = live \ {c}
  /\ UNCHANGED << inUse, buckets, allocated, wanted >>

TableNext ==
  \E c \in Components :
    \/ New(c) \/ AddName(c) \/ RemoveAllResources(c) \/ Destroy(c)
    \/ \E new \in Components :
         \/ Clone(c, new)
         \/ \E w \in 0 .. MaxCopied : \E e \in 0 .. w : Select(c, new, w, e)

TableSpec == TableInit /\ [][TableNext]_tableVars

(***************************************************************************)
(* Properties.                                                             *)
(***************************************************************************)

(* All sizes are numbers, and no component has lost its buckets.           *)
SizesOK ==
  /\ live \subseteq Components
  /\ inUse \in [Components -> Nat]
  /\ buckets \in [Components -> Nat \ {0}]
  /\ allocated \in [Components -> Nat \ {0}]
  /\ wanted \in [Components -> Nat]

(* There is a bucket for the next name, and a probe for a name that is not *)
(* there ends: "No free space for new entries in component" is never the   *)
(* result of a merge (the load factor of lcfgcomponent_resize, and the     *)
(* sizes of clone and select).                                             *)
HasRoom == \A c \in live : inUse[c] < buckets[c]

(* The array has a place for every bucket, except in a component that      *)
(* clone or select presized for more names than the default size is meant  *)
(* for, 57 of them with 113 buckets, and that has not grown since: both    *)
(* count the buckets, "increasing the size of the set of buckets in the    *)
(* clone before starting to merge resources", and then call                *)
(* lcfgcomponent_resize, which sees an empty table and leaves the array as *)
(* it was.  Such a component has the default array and more buckets than   *)
(* it has places, and the names merged next are stored by those buckets.   *)
ArrayShortOnlyWhenPresized ==
  \A c \in live :
    IF WantBuckets(wanted[c]) <= DefaultSize
    THEN allocated[c] = buckets[c]
    ELSE allocated[c] = DefaultSize /\ buckets[c] = WantBuckets(wanted[c])

(* The sizes are sizes, and a bucket is always left free, also in a copy,  *)
(* so that probes end (lcfgcomponent_resize).                              *)
SizesSound == SizesOK /\ HasRoom
=============================================================================
