------------------------- MODULE MCComponentHistory -------------------------
(***************************************************************************)
(* Component with a history variable for what lcfgcomponent_merge_component*)
(* found when it was called.                                               *)
(***************************************************************************)
EXTENDS MCComponent

VARIABLE before    (* what each component held when no call was running   *)

mcvars == << vars, before >>

HeldByAll == [ c \in live |-> Held(c) ]

MCInit == Init /\ before = HeldByAll

MCNext ==
  /\ Next
  /\ before' = IF call'.kind = "none" THEN HeldByAll' ELSE before

MCSpec == MCInit /\ [][MCNext]_mcvars

(* lcfgcomponent_merge_component returns the "type of change", and the     *)
(* documentation of the merge it repeats says that LCFG_CHANGE_NONE means  *)
(* "the component is unchanged".  A call about to return it has left its   *)
(* target as it found it.                                                  *)
NoneMeansUnchanged ==
  Done /\ call.change = "NONE" => Held(call.into) = before[call.into]
=============================================================================
