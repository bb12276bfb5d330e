SPECIFICATION USpec
CONSTANTS
  FaultEdges = {e1}
  KeepUniqueHang = 2
  KeepUniqueCrash = 1
  Seeds = {"a", "b", "c"}
  FirstSeeds <- MCFirst
  MaxQueue = 3
  MaxStarts = 3
  Few = 2
  Many = 2
  Room = 2
  MaxTrain = 4
  Cover <- MCCover
  BackupFiles <- MCBackups
  WatchedStarts = 2
INVARIANTS
  EntriesKept
  Paired
  FaultsKept
  SyncSound
  TrainSound
CHECK_DEADLOCK FALSE
