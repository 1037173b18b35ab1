SPECIFICATION Spec
CONSTANTS
  N = 3
  MaxRuns = 1
INVARIANT CounterIsBacked
CHECK_DEADLOCK FALSE
