SPECIFICATION Spec
CONSTANTS
  window_size = 3
  Garbage = {0, 7}
INVARIANT MeanIsTwo
CHECK_DEADLOCK FALSE
