--------------------------- MODULE MCContextFiles ---------------------------
(***************************************************************************)
(* Values for the constants of ContextFiles when TLC checks it.            *)
(***************************************************************************)
EXTENDS ContextFiles

CONSTANTS u1, u2, u3,     (* calls of lcfgcontext_update_pending *)
          A, B, on, off   (* names and values of contexts        *)

Set(n, v) == [ name |-> n, value |-> v ]

Assign(a, b, c) == { (u1 :> a) @@ (u2 :> b) @@ (u3 :> c) }

(* Updates of the same context, one of them with another context and a     *)
(* removal.                                                                *)
Conflicting ==
  Assign(<< Set(A, on) >>, << Set(B, on), Set(A, NoValue) >>, << Set(A, off) >>)

(* One call has nothing to do, and one is wrong half-way.                  *)
OddCalls ==
  Assign(<< Set(A, on) >>, <<>>, << Set(B, on), Malformed >>)

(* A pending file written by hand that says nothing and was never made     *)
(* active; one that says what the active file of an earlier activation     *)
(* says; and one that is not there, with an active file left.              *)
MixedDirectories ==
  { << [ lines |-> << Comment >>, mtime |-> 1 ], NoFile >>,
    << [ lines |-> << Comment, Set(A, on), Set(B, off) >>, mtime |-> 2 ],
       [ lines |-> << Set(A, on), Set(B, off) >>, mtime |-> 1 ] >>,
    << NoFile, [ lines |-> << Set(B, on) >>, mtime |-> 1 ] >> }

MixedWorkloads == Conflicting \cup OddCalls
=============================================================================
