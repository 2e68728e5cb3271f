\* Two sheets share the string table; a close may fail and a writer may be followed by another.
CONSTANTS
  a = a b = b c = c
  Date = Date
  NoFile = NoFile
  SheetNames = {"Data", "More"}
  Texts <- MCTexts
  Rows <- MCRows
  Lines = 2
  Columns = 2
  Modes = {"Disabled", "Hash", "BoundedLru"}
  Capacities = {0, 2}
  SpoolFaults = FALSE
  RepeatedNames = FALSE
  LateDateSystem = FALSE
  MaxSheets = 2
  MaxRows = 3
  MaxFaults = 1
  MaxWriters = 2
SPECIFICATION Spec
INVARIANTS SavedReadsBack
CHECK_DEADLOCK FALSE
