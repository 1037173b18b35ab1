SPECIFICATION MainFairSpec
CONSTANTS
  Nodes = {n1, n2, n3}
  NULL = NULL
  NoEntry = NoEntry
  CallbackMayStop = FALSE
  MaxWrites = 4
  MaxCrashes = 1
  Rounds = 2
INVARIANT LeftoverFlushed
PROPERTIES Terminates BatchFlushed
