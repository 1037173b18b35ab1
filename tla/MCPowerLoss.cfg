SPECIFICATION MCSpec
CONSTANTS
  slots = 5
  Inputs <- MCInputs
  Programs = {"publish", "tx"}
  Prices = {0, 1, 42, 100}
  NRecords = 3
  MaxRuns = 2
  Lengths = {0, 1, 5, 6}
  MaxBufLen = 8
INVARIANTS NamedVersionsPersisted WholeVersionSurvives PoolIsConsistent RecordsReadable ShownIsWhole
