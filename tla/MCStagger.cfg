\* Two batch threads and a second round: the stream worker waits for ever.
CONSTANTS
  K = 2
  Trees = {t1}
  NULL = NULL
  NodesSize = 2
  Kinds = {"text", "eof"}
  MaxTokens = 5
  MaxParses = 1
  MaxChunks = 0
SPECIFICATION FairSpec
PROPERTIES
  WaitReturns
