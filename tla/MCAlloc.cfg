\* The memory that the threads of MyHTML count at the same time.
SPECIFICATION BSpec
CONSTANTS
  Keys <- MCKeys
  PrefixOf <- MCPrefixOf
  Options <- MCOptions
  Directories <- MCDirectories
  Threads = {t1, t2}
  Amounts <- MCAmounts
  Base = 2
  NULL = NULL
CHECK_DEADLOCK FALSE
INVARIANTS
  MemoryCounted
