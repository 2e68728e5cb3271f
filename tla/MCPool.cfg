SPECIFICATION FairSpec

CONSTANTS
  NumWorkers = 3
  Ranges <- SomeRanges
  Failing = {8, 9, 12}
  MaxCalls = 2

INVARIANT FnOutlivesTasks
PROPERTY LikeSequential
PROPERTY Terminates
