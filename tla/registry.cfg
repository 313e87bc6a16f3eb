SPECIFICATION MCSpec
CONSTANTS
  NewTables <- WideTables
  SegmentTables <- Ranges
  LastLevel = 2
  MaxEntries = 2
  Versions = {1}
  MaxCommands = 3
  MaxQueued = 1
  MaxAttempts = 2
  MaxCrashes = 1
  MaxFlushes = 2
  Faults <- NoFaults
INVARIANTS SegmentsHoldTables RegistryValid  AnsweredSurvives
CHECK_DEADLOCK FALSE
