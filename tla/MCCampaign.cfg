SPECIFICATION FairSpec
CONSTANTS
  e1 = e1
  e2 = e2
  Edges <- MCEdges
  Traces <- MCTraces
  FirstTrace <- MCFirst
  BackupLimit = 2
  SaidRounds = 1
  ExecLimit = 3
  MaxRounds = 3
INVARIANTS
  TypeOK
  NamesFresh
  NoRedundantEntry
  RoundsBounded
PROPERTIES
  RoundEnds
CHECK_DEADLOCK FALSE
