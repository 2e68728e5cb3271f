SPECIFICATION Spec
CONSTANTS
  Cells <- MCCells
  Formulas <- MCFormulas
  Loaded <- MCLoaded
  Series <- MCSeries
  MaxDepths = {0, 3}
  MaxSteps = 3
INVARIANT StalePointsAreTracked
PROPERTY RequestsExactlyForStale
CHECK_DEADLOCK FALSE
