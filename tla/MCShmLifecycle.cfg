SPECIFICATION FairSpec
CONSTANTS
  Pids = {p1, p2, p3}
  MaxStarts = 3
INVARIANTS
  KeepsKey
  NoLeak
PROPERTIES
  Settles
  FindsFuzzer
CHECK_DEADLOCK FALSE
