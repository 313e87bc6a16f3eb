SPECIFICATION MCSpec
CONSTANTS
  n1 = n1
  n2 = n2
  c1 = c1
  c2 = c2
  c3 = c3
  Node <- MCNode
  Completer <- MCCompleter
  Command <- MCCommand
  RequiredProcessorCount = 2
  LiveCounts <- MCOneEach
  MaxVersion = 3
  MaxClusterVersion = 1
  MaxSeqErrors = 1
  MaxStoreErrors = 1
  MaxFailovers = 1
  SkippedIDs <- MCSkippedIDs
SYMMETRY Symmetric
CHECK_DEADLOCK FALSE
INVARIANTS  RollbackIsRegistered ShutdownStoresSnapshot
PROPERTIES CompletesWhenAllReported CompletesInOrder
