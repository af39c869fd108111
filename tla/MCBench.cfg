\* The benchmark's use: one tree, one batch thread; three tokens over two nodes, parsed twice, and its end.
CONSTANTS
  K = 1
  Trees = {t1}
  NULL = NULL
  NodesSize = 2
  Kinds <- BenchKinds
  MaxTokens = 3
  MaxParses = 2
  MaxChunks = 1
SPECIFICATION FairSpec
INVARIANTS
  TypeOK
  MutexDiscipline
  UnlinkExclusive
  EntryAlive
  RoundExclusive
  QuietWhenClosed
  TreeReadExclusive
PROPERTIES
  PipelineSpec
  Terminates
