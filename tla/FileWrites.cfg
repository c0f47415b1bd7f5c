SPECIFICATION FileSpec
CONSTANTS
  None = None
  Writers = {w1, w2}
  StatusFiles = {s1, s2}
  ListFile = l1
  StoreFile = d1
  Contents <- MCContents
  MaxCalls = 3
  MaxFaults = 1
SYMMETRY Symmetry
CHECK_DEADLOCK FALSE
INVARIANTS
  FilesSound
  AnswersTrue
