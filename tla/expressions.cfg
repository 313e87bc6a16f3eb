SPECIFICATION Spec
CONSTANTS
  Leaves <- MCLeaves
  MaxInt = 7
  MaxScale = 2
  Uint64Len = 2
  MaxNum = 20
  MaxLen = 3
  Unchecked = {}
INVARIANTS    HeadersFound
CHECK_DEADLOCK FALSE
