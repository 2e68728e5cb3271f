SPECIFICATION SpecLenient

CONSTANTS
  Words = {w1, w2, w3}
  Spellings = {lower, upper}
  HiddenStates = {hidden}
  DefNames = {d1}
  Ranges = {r1}
  Ids = {i1, i2, i3, i4, i5, i6}
  MaxTabs = 3
  MaxChartsheets = 1
  MaxNames = 1
  MaxSlicers = 1
  MaxKeyed = 1
  None = none

ACTION_CONSTRAINT KeyedInOrder

INVARIANT ActiveNeverHidden
INVARIANT FirstVisibleFresh
INVARIANT SourceTracksSheet
PROPERTY OrderComplete
PROPERTY ActiveFollowsTab
PROPERTY ReloadRestoresTabs
PROPERTY ScopesFollowOwners

SYMMETRY Symmetry
