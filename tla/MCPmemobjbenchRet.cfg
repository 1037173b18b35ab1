SPECIFICATION FairSpec
CONSTANTS
  Args <- ObjLines
INVARIANTS SuccessIsClean
