SPECIFICATION MCSpec
CONSTANTS
  Threads = {t1, t2}
  Objects = {x, y}
  Empty = Empty
  Values = {Empty, v}
  Kinds <- AllKinds
  None = None
  window_size = 2
  Garbage = {0, 7}
  Heartbeat = {h1, h2, h3, h4}
  MaxTime = 3
SYMMETRY Perms
INVARIANTS IndInv NoCircularWait PhiFromLastIntervals
PROPERTY ImplementsAtomicCells
