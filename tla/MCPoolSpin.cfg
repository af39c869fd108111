SPECIFICATION Spec
CONSTANTS
  N = 1
  Spinlock = TRUE
  MergeForeign = FALSE
  Origin = 3
  Header = 1
  ChunksSize = 2
  MaxRows = 2
  Sizes <- SmallSizes
INVARIANTS MutualExclusion
