SPECIFICATION TableSpec
CONSTANTS
  Components = {1, 2}
  DefaultSize = 5
  MaxEntries = 25
  MaxCopied = 4
INVARIANTS
  SizesSound
  ArrayShortOnlyWhenPresized
