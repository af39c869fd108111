\* Two batch threads, two trees: a stale WAIT report lets the owner free an entry in use.
CONSTANTS
  K = 2
  Trees = {t1, t2}
  NULL = NULL
  NodesSize = 3
  Kinds = {"eof"}
  MaxTokens = 1
  MaxParses = 1
  MaxChunks = 0
SPECIFICATION Spec
INVARIANTS
  EntryAlive
