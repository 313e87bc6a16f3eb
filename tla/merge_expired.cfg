CONSTANTS
  Cells <- TwoKeys
  SourceSize = 2
  Sources = 2
  DeadVersions = {}
  Expirable = {1}
  MaxEntries = 1
SPECIFICATION Spec
INVARIANT OnlyExpiredRemoved
