--------------------------- MODULE MCPackageList ----------------------------
(***************************************************************************)
(* Values for the constants of PackageList when TLC checks it.             *)
(***************************************************************************)
EXTENDS PackageList

Pkg(a, v, pfx, pri, s) ==
  [ name |-> 1, arch |-> a, version |-> v, context |-> pri + 1,
    prefix |-> pfx, priority |-> pri,
    file |-> v, struct |-> s ]

(* One package with every prefix, two versions, two priorities and one     *)
(* instance for a second architecture.                                     *)
MixedPackages ==
  { Pkg(1, 1, "none", 0, 1), Pkg(1, 2, "none", 1, 1), Pkg(1, 1, "pin", 0, 1),
    Pkg(1, 2, "add", 0, 1), Pkg(1, 1, "remove", 0, 1),
    Pkg(1, 2, "min", 0, 1), Pkg(2, 1, "update", 0, 1), Pkg(2, 2, "any", 0, 1) }

NameAndArch == {"arch"}

NoKeepAll ==
  { {}, {"SQUASH_IDENTICAL"}, {"REPLACE"}, {"SQUASH_IDENTICAL", "USE_PREFIX"},
    {"USE_PREFIX"}, {"SQUASH_IDENTICAL", "USE_PRIORITY"} }
=============================================================================
