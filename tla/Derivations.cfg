SPECIFICATION Spec
CONSTANTS
  DrvCount = 6
  ListCount = 6
  Holders = {1, 2}
  Texts <- SomeTexts
  FileLines <- SomeFileLines
  HashOf <- SomeHashes
  InitialBuckets = 2
VIEW WithoutAddresses
INVARIANTS
  HeapSound
  MapHonest
PROPERTY
  ImplementsUnions
