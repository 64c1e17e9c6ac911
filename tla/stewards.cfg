SPECIFICATION Spec
CHECK_DEADLOCK FALSE
CONSTANTS
  SnMin = 2
  SnMax = 3
  StewardHash <- MCHash
  Ids = {1, 2, 3, 4}
  Epochs = {0, 1, 2, 3, 4, 5, 6}
  Rounds = {0, 1, 2}
INVARIANTS
  RegenerationReproduces
  LocalInstallCoversPool
  EachStewardServesOnce
  BackupIsAnotherSteward
  RetryReachesEveryProposer
