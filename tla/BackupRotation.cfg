SPECIFICATION BackupSpec
CONSTANTS
  KeepN = 3
  MaxTicks = 7
INVARIANTS
  LatestBackupSurvives
  DepthHolds
CHECK_DEADLOCK FALSE
