---------------------------- MODULE MCFileUpdate ----------------------------
(* Two processes, two status files, a list and a database.  Two of the     *)
(* contents have one length.                                               *)
EXTENDS FileUpdate, TLC

MCContents == { <<"x", "end">>, <<"y", "end">>, <<"x", "y", "end">> }

Symmetry == Permutations(Writers) \cup Permutations(StatusFiles)
=============================================================================
