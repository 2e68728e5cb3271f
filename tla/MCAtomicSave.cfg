\* Two threads save to one path; the process may die and calls may fail.
CONSTANTS
  Savers = {s1, s2}
  Instants = {4}
  Mix <- MCMix
  Attempts = 2
  Chunks = 1
  NoFile = NoFile
  MaxSaves = 2
  MaxFaults = 2
  MaxCrashes = 2
SPECIFICATION Spec
INVARIANT NoStrays
PROPERTIES ReplacesAtomically SavesEnd
CHECK_DEADLOCK FALSE
