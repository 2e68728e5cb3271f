SPECIFICATION SpecOneKind

CONSTANTS
  Places = {here, there}
  Sizes = {small, large}
  Bytes = {red}
  Exts = {"png", "jpg"}
  Titles = {costs}
  Texts = {note}
  MaxRedrawn = 2
  Sources <- EditSources
  MaxAdded = 1
  MaxDrawings = 1
  MaxNumber = 1
  MaxId = 2
  None = none
  here = here
  there = there
  small = small
  large = large
  red = red
  blue = blue
  sales = sales
  costs = costs
  note = note
  none = none

INVARIANT SavedShowsObjects
INVARIANT UntouchedVerbatim
INVARIANT PackageWellFormed
CHECK_DEADLOCK FALSE
