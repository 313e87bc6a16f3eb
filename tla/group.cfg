SPECIFICATION FairSpec
CONSTANTS
  a = a
  b = b
  c = c
  None = None
  MemberID <- TwoMembers
  Protocols <- TwoLists
  JoinDelays = 1
  MaxJoins = 3
  MaxLate = 1
CHECK_DEADLOCK FALSE
INVARIANTS  OneLeaderPerGeneration
PROPERTIES JoinAnswered
