SPECIFICATION FairSpec
CONSTANTS
  Seeds = {s1, s2}
  Bytes <- MCBytes
  MaxRestarts = 1
INVARIANTS
  OneOwner
  ActsOnRequest
  BackupFilesWhole
PROPERTIES
  OwnAnswer
  NeverHangs
  RequestServed
  ImplementsService
CHECK_DEADLOCK FALSE
