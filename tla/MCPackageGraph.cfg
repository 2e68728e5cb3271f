SPECIFICATION Spec
CONSTANT MaxDamages = 2
INVARIANT LostIsReported
INVARIANT ValidShowsEverything
CHECK_DEADLOCK FALSE
