SPECIFICATION Spec
CONSTANTS
  N = 1
  Spinlock = FALSE
  MergeForeign = TRUE
  Origin = 3
  Header = 1
  ChunksSize = 2
  MaxRows = 2
  Sizes <- SmallSizes
INVARIANTS NodePrivate
