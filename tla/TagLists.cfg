SPECIFICATION TagSpec
CONSTANTS
  NodeCount = 7
  TagCount = 3
  Lists = {1, 2, 3}
  Names = {1, 2}
  NoList = NoList
  TagInputs <- OneTag
  ListInputs <- SomeTags
  MaxTags = 3
  Spare = 3
INVARIANTS
  ListsSound
  MadeExact
PROPERTY ImplementsSequences
VIEW WithoutAddresses
CHECK_DEADLOCK FALSE
