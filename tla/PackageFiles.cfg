SPECIFICATION Spec
CONSTANTS
  NULL = NULL
  DefArch <- MCDefArch
  Specs <- MCSpecs
  Texts <- MCTexts
  ExtraFlags <- MCExtraFlags
  ExtraContexts <- MCExtraContexts
  Sources <- MCSources
  FilesAdded <- MCFilesAdded
  FileNames <- MCFileNames
  IncludedLines <- MCIncludedLines
  MaxPackages = 2
  MaxEdits = 2
INVARIANTS
  TextsFaithful
  FilesFaithful
  OrderSound
CHECK_DEADLOCK FALSE
