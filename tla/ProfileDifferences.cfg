SPECIFICATION Spec
CONSTANTS
  NULL = NULL
  CompNames <- Comps
  ResNames <- Resources
  Prod <- ProdName
  Profiles <- SomeProfiles
  BucketOrders <- TwoOrders
INVARIANTS
  DiffExact
  QuickHonest
  ProdsARunningComponent
  HoldSound
