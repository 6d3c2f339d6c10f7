SPECIFICATION FairSpec
CONSTANTS
  N = 2
  MaxPrio = 3
  AdminMaster = {1}
  InitConfigs <- MCConfigs
  Changes <- MCChanges
  QueueSize = 1
  MaxStarts = 3
  MaxRequests = 1
INVARIANTS
  TypeOK
  MasterAdvertises
  BackupWatches
  TimersBelong
PROPERTIES
  SomebodyIsMaster
  TwoMastersEnd
  HighestWins
CHECK_DEADLOCK FALSE
