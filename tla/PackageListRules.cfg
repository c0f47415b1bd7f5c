SPECIFICATION Spec
CONSTANTS
  Packages <- MixedPackages
  PrimaryKey <- NameAndArch
  RuleSets <- NoKeepAll
  MaxLength = 3
  MaxMerge = 2
INVARIANTS
  WellFormed
PROPERTY PinnedVersionStays
PROPERTY NothingLost
