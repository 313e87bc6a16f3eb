CONSTANTS
  Cells <- ThreeVersions
  SourceSize = 3
  Sources = 2
  DeadVersions = {2}
  Expirable = {1}
  MaxEntries = 1
SPECIFICATION Spec
INVARIANTS TablesWellFormed ReadsPreserved OldVersionsDropped
