\* The driver over directories that change while it reads them.
SPECIFICATION BSpec
CONSTANTS
  Keys <- MCKeys
  PrefixOf <- MCPrefixOf
  Options <- MCOptions
  Directories <- MCDirectories
  Threads = {t1, t2}
  Amounts <- MCAmounts
  Base = 2
  NULL = NULL
CHECK_DEADLOCK FALSE
INVARIANTS
  BTypeOK
  LoadedCells
  
  Comparable
  MemoryAtMost
  PrintedUnits
