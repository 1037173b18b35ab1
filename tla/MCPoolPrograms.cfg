SPECIFICATION MCSpec
CONSTANTS
  Address = {a1, a2, a3, a4, a5, a6, a7}
  nullptr = nullptr
  MaxEnds = 2
  Key = {k1, k2, k3}
  k3 = k3
  N = 2
  hash <- MCHash
  Value = {v1, v2}
  Nothing = Nothing
  Place = {p1, p2, p3}
  Room = 3
  Programs = {"plain", "mutex", "local"}
  nthreads = 3
  Loops = 2
  MaxRuns = 2
INVARIANTS FreesOnlyLive LeakBounded NodesAreTheChain JoinedCounts RecoveryIsExact
PROPERTIES ImplementsMap RebuildImplementsMap ImplementsFifo
