SPECIFICATION FairSpec
CONSTANTS
  Seeds = {s1, s2}
  Bytes <- MCBytes
  MaxRestarts = 1
PROPERTY LeavesAfterFuzzer
CHECK_DEADLOCK FALSE
