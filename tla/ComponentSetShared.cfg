SPECIFICATION Spec
CONSTANTS
  a = a
  a2 = a2
  b = b
  d = d
  s1 = s1
  s2 = s2
  Sets = {s1, s2}
  Components = {a, a2, b, d}
  NoComponent = NoComponent
  Name <- ThreeNames
  Hash <- SameHash
  Buckets = 2
  MaxRefs = 1
  MaxSetRefs = 2
INVARIANTS
  WellFormed
  RefsExact
  NothingLeftBehind
PROPERTY ImplementsMap
SYMMETRY Alike
VIEW WithoutContent
