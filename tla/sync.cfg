SPECIFICATION Spec
CHECK_DEADLOCK FALSE
CONSTANTS
  SnMin = 1
  SnMax = 2
  StewardHash <- MCHash
  MinScore = 30
  MaxScore = 115
  Leaves = {1, 2, 3, 4}
  Founders = {1, 2, 3}
  GroupDefault = 100
  JoinerDefault = 90
  Prompt = TRUE
  RefreshAnyTime = FALSE
  Leavers = {3}
  EpochLimit = 4
  RoundLimit = 1
  VoteLimit = 1
INVARIANTS
  TypeOK
  StewardListsAgree
  NobodyBehind
PROPERTIES
  JoinerReadsSender
  StaleMemberCatchesUp
