\* The cache of freed regions, in every order of calls.
SPECIFICATION CacheSpec
VIEW MCView
SYMMETRY MCSymmetry
CONSTANTS
  Values = {v1, v2, v3, v4, v5}
  Sizes <- MCSizes
  InitialSize = 3
  NULL = NULL
INVARIANTS
  CacheTypeOK
  PlacesConserved
  SortedChain
  InBounds
PROPERTIES
  Implements
