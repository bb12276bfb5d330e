SPECIFICATION FairSpec
CONSTANT MaxRuns = 4
INVARIANTS
  TypeOK
  InStep
  VerdictTrue
  LoneTracer
  NoneLeft
PROPERTIES
  RunEnds
  HandshakeEnds
  StopEnds
CHECK_DEADLOCK FALSE
