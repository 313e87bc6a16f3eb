SPECIFICATION Spec
SYMMETRY SourceSymmetry
CONSTANTS
  Source = {s1, s2}
  Dest = {d1, d2}
  Batch = {1, 2}
  Rows <- MCRows
  MaxVersion = 1
  MaxFaults = 1
  Undeployed = {}
  Faults = {"change"}
INVARIANTS StoredExactlyOnce StoredWithinVersion NoVersionStuck
PROPERTIES ImplementsSnapshot
CHECK_DEADLOCK FALSE
