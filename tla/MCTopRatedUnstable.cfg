SPECIFICATION Spec
CONSTANTS
  MapSize = 3
  Traces <- MCTraces
  Costs <- MCCosts
  MaxEntries = 3
  CalChances = 2
  Lists <- MCLists
  Unstable = TRUE
INVARIANT FavoritesCounted
CHECK_DEADLOCK FALSE
