SPECIFICATION Spec
CONSTANT Numerals <- MCNumerals
CONSTANT Files <- MCFiles
CONSTANT Grids <- MCGrids
CONSTANT SheetNames <- MCSheetNames
CONSTANT Additions <- MCAdditions
CONSTANT Edits <- MCEdits
CONSTANT Patches <- MCPatches
CONSTANT PivotCharts <- MCPivotCharts
CONSTANT MaxCalls = 2
INVARIANT SavedShowsModels
INVARIANT SharedCachesSave
INVARIANT SavedPackageIsClosed
CHECK_DEADLOCK FALSE
