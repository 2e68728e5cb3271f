SPECIFICATION Spec
CONSTANTS
  Grid <- MCGrid
  Names <- MCNames
  Formulas <- MCFormulas
  Stored <- MCStored
  MaxDepths = {1, 2, 6}
  MaxRuns = 1
INVARIANT RecursionBounded
INVARIANT MemoCorrect
INVARIANT ReportTruthful
PROPERTY Terminates
CHECK_DEADLOCK FALSE
