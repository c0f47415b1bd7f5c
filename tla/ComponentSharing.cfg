SPECIFICATION Spec
CONSTANTS
  l1 = l1
  l2 = l2
  l3 = l3
  l4 = l4
  l5 = l5
  Components = {1, 2}
  Names = {"m", "n"}
  Lists = {l1, l2, l3, l4, l5}
  NoList = NoList
  Resources <- TwoNames
  RuleSets <- SomeRules
  PrimaryKey = {}
  MaxLength = 2
INVARIANTS
  WellFormed
  RefsExact
  WritesApart
PROPERTY NoActionAtADistance
SYMMETRY SymmetricLists
VIEW WithoutFreed
