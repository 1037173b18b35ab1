SPECIFICATION Spec
CONSTANTS
  Programs = {"mutex"}
  nthreads = 2
  Loops = 1
  MaxRuns = 1
INVARIANT CommitsAreKept
CHECK_DEADLOCK FALSE
