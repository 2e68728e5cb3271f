SPECIFICATION Spec
CONSTANTS
  Cases <- AllCases
  Given <- Arguments
  MaxCalls = 2
INVARIANT SavedShowsCalls UntouchedKept SavedWellFormed
CHECK_DEADLOCK FALSE
