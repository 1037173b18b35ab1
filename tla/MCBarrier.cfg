SPECIFICATION FairSpec
CONSTANTS
  t1 = t1
  t2 = t2
  t3 = t3
  t4 = t4
  Threads = {t1, t2, t3, t4}
  NThreads = 4
  WordSize = 8
  NoThread = NoThread
INVARIANTS NoLostWakeup NobodyLeavesEarly
PROPERTY ImplementsBarrier
