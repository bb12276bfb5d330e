SPECIFICATION FairSpec
CONSTANTS
  MapSize = 3
  Traces <- MCTraces
  Costs <- MCCosts
  MaxEntries = 3
  CalChances = 2
  Lists <- MCLists
  Unstable = FALSE
INVARIANTS
  RefsCounted
  MiniKept
  CheapestWins
  FavoritesCover
  FavoritesCounted
PROPERTIES
  PendingServed
  
CHECK_DEADLOCK FALSE
