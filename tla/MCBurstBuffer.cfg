SPECIFICATION Spec
CONSTANTS
  Nodes = {n1, n2, n3, n4, n5}
  NULL = NULL
  NoEntry = NoEntry
  CallbackMayStop = TRUE
  MaxWrites = 6
  MaxCrashes = 2
SYMMETRY Perms
INVARIANTS IndInv NoWriteLost NoLeak TailIsLast NoDanglingRead DeliveredInOrder
PROPERTIES FreedAfterAccepted ImplementsDurableQueue
