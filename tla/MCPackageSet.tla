---------------------------- MODULE MCPackageSet ----------------------------
(***************************************************************************)
(* Values for the constants of PackageSet when TLC checks it.              *)
(***************************************************************************)
EXTENDS PackageSet

Pkg(n, v, pfx, pri, s) ==
  [ name |-> n, arch |-> 1, version |-> v, context |-> pri + 1,
    prefix |-> pfx, priority |-> pri, file |-> v, struct |-> s ]

Plain(n, v) == Pkg(n, v, "none", 0, 1)

NameAndArch == {"arch"}

(* In a table of 2 buckets names 1 and 4, and 2 and 3, collide; in one of  *)
(* 5, names 1 and 2, and 3 and 4, with probes around the end; in one of 9, *)
(* none do.                                                                *)
Collide == << 4, 9, 3, 8 >>

(* Versions that conflict, one with a prefix, and the removal of a package *)
(* that collides with another.                                             *)
ConflictingPackages ==
  { Plain(n, 1) : n \in 1 .. 4 }
    \cup { Pkg(2, 2, "add", 1, 1), Pkg(1, 1, "remove", 0, 1) }

(* A set that removes one package and adds others, one of them in two      *)
(* versions.                                                               *)
ConflictingSources ==
  { << << Pkg(1, 1, "remove", 0, 1) >>,
       << Pkg(2, 2, "add", 1, 1), Plain(2, 1) >>, << Plain(3, 1) >> >> }

(* With prefixes that count and conflicts that are refused, or without     *)
(* either: what one set of rules has stored the other leaves out, or       *)
(* refuses, when the table grows.                                          *)
OpposedRules == { {"USE_PREFIX"}, {"KEEP_ALL"} }
=============================================================================
