SPECIFICATION Spec
CONSTANTS
  N = 1
  Spinlock = FALSE
  MergeForeign = FALSE
  Origin = 3
  Header = 1
  ChunksSize = 2
  MaxRows = 2
  Sizes <- AllSizes
INVARIANTS TypeOK MutualExclusion ChunkExclusive RegionsApart SpareEmpty IndInv
