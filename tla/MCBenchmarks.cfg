SPECIFICATION MCSpec
CONSTANTS
  Args <- StripedArgs
  Base = 2
  Word = 64
  MaxNumber = 66
INVARIANTS TimerBracketsIO NoBlockTwice SuccessCoversUnits AccessInBounds
  SuccessIsCleanUnshared FailureIsReal ConversionIsExact
PROPERTIES Terminates EndsInReport
