SPECIFICATION FairSpec
CONSTANTS
  n1 = n1
  n2 = n2
  n3 = n3
  Node <- TwoNodes
  MinReplicas = 2
  MaxBatches = 1
  MaxInProgress = 1
  MaxBreaks = 0
  MaxCrashes = 1
  MaxRestarts = 1
  MaxClusterVersion = 3
  MaxFlushes = 0
  MaxMarkErrors = 1
  StateDuringSync = TRUE
  Overtaking = FALSE
  IngestDuringRecovery = FALSE
  InitialisedFirst = TRUE
CHECK_DEADLOCK FALSE
PROPERTIES RecoveryCompletes GroupSettles
