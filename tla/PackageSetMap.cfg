SPECIFICATION Spec
CONSTANTS
  Packages <- ConflictingPackages
  PrimaryKey <- NameAndArch
  Hash <- Collide
  InitialBuckets = 2
  RuleSets <- OpposedRules
  Sources <- ConflictingSources
  MaxLength = 5
INVARIANTS
  WellFormed
  CountsHold
PROPERTY ImplementsMap
\* The process may end while the table grows.
CHECK_DEADLOCK FALSE
