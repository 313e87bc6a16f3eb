SPECIFICATION MCSpec
CONSTANTS
  n1 = n1
  n2 = n2
  n3 = n3
  Node <- ThreeNodes
  MinReplicas = 2
  MaxBatches = 2
  MaxInProgress = 2
  MaxBreaks = 1
  MaxCrashes = 2
  MaxRestarts = 1
  MaxClusterVersion = 3
  MaxFlushes = 1
  MaxMarkErrors = 0
  StateDuringSync = FALSE
  Overtaking = FALSE
  IngestDuringRecovery = FALSE
  InitialisedFirst = TRUE
SYMMETRY Symmetric
CHECK_DEADLOCK FALSE
INVARIANTS  AckedSurvive AckedAppliedOnce
