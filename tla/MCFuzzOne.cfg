SPECIFICATION Spec
CONSTANTS
  MaxAutoExtras = 3
  UseAutoExtras = 2
  MinAutoExtra = 2
  MaxAutoExtra = 3
  MaxDictFile = 4
  ByteBits = 4
  ArithMax = 2
  MaxDetExtras = 1
  MaxInsertLen = 5
  EffMapScale = 2
  EffMinLen = 3
  EffMaxPerc = 60
  Inputs <- MCInputs
  Interesting <- MCInteresting
  ExtraFiles <- MCExtras
  AutoFiles <- MCAutos
  MaxFile = 6
  BlkSmall = 1
  BlkMedium = 2
  BlkLarge = 2
  BlkXL = 2
  StackPow2 = 2
  HavocCyclesInit = 2
  HavocCycles = 1
  SpliceHavoc = 1
  HavocMin = 1
  BackupMin = 2
  HavocMaxMult = 1
  Percent = 2
  HavocDivs = {1}
  Scores = {0, 1, 2}
  SpliceCycles = 1
  TmoutLimit = 0
  S32Max = 15
  Lens = {1, 3, 4}
  TokenLens = {1, 2}
INVARIANTS
  StartsFromInput
  NothingLost
  InBounds
  HavocBounded
CHECK_DEADLOCK FALSE
