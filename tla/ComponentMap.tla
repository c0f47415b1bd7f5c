---------------------------- MODULE ComponentMap ----------------------------
(***************************************************************************)
(* What the component sets promise: each set holds at most one component   *)
(* of a name, inserting a component replaces the one of its name and       *)
(* touches nothing else, and a set is emptied only as a whole.             *)
(***************************************************************************)
CONSTANTS
  Sets,         (* The component sets.                                    *)
  Components,   (* The components.                                        *)
  Name          (* The name of each component.                            *)

VARIABLE holds  (* The components a lookup by name finds in each set.     *)

MapInit == holds = [ s \in Sets |-> {} ]

Bind(s, c) ==
  holds' = [ holds EXCEPT ![s] = { d \in @ : Name[d] # Name[c] } \cup {c} ]

Clear(s) == holds' = [ holds EXCEPT ![s] = {} ]

MapNext ==
  \/ \E s \in Sets, c \in Components : Bind(s, c)
  \/ \E s \in Sets : Clear(s)

MapSpec == MapInit /\ [][MapNext]_holds
=============================================================================
