SPECIFICATION FairSpec
CONSTANTS
  Args <- UnevenLines
INVARIANTS SuccessCoversTotal
