\* A dropped first newline before a CDATA section: the owner waits for ever.
CONSTANTS
  K = 1
  Trees = {t1}
  NULL = NULL
  NodesSize = 3
  Kinds <- CDataKinds
  MaxTokens = 2
  MaxParses = 1
  MaxChunks = 0
SPECIFICATION FairSpec
PROPERTIES
  ParseReturns
