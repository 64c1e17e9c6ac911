SPECIFICATION Spec
CONSTANTS
  SnMin = 1
  SnMax = 2
  StewardHash <- MCHash
  Self = 1
  Ids = {1, 2}
  InitMembers = {1, 2}
  Changes <- BanOnly
  Emergencies <- EveryEmergency
  ForeignPools <- NoForeignPool
  ElectionRounds = {0}
  Offers <- PeerOffers
  SyncLists <- NoSync
  JoinWithoutList = FALSE
  FinalizeMayFail = TRUE
  FreezeDuration = 1
  CommitBatchWindow = 1
  RetryWindow = 1
  AutoCommitDelay <- Never
  MaxRounds = 2
  MaxRetries = 1
  BatchMax = 3
  AllowSubset = TRUE
  Horizon = 1
  RetryCycle = 2
  VoteLimit = 2
INVARIANTS
  RecoveryOnlyInFreezing
  RecoveryBelowStopLine
  PartialFreezeMatchesVotes
  QueuedOnce
  UrgentTargetQueued
  ReelectionHoldsWork
PROPERTIES
  WorkLeavesByCommit
