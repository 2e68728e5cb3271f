SPECIFICATION Spec
CONSTANTS
    Limit = 4
    RollbackOnFailure = TRUE
    Spellings = {"exact"}
    MaxEdits = 2
    MaxAmount = 2
INVARIANT TypeOK
INVARIANT ItemsFollowLines
INVARIANT CachesFresh
PROPERTY AllOrNothing
PROPERTY UsesAndAnchorsFollow
PROPERTY StaleIsRecalculated
CHECK_DEADLOCK FALSE
