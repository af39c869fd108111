\* A library use: two trees open at once.
CONSTANTS
  K = 1
  Trees = {t1, t2}
  NULL = NULL
  NodesSize = 2
  Kinds = {"text", "eof"}
  MaxTokens = 2
  MaxParses = 1
  MaxChunks = 0
SPECIFICATION FairSpec
INVARIANTS
  UnlinkExclusive
  EntryAlive
  IndInv
  PipeInv
PROPERTIES
  PipelineSpec
  Terminates
