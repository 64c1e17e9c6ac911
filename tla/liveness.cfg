SPECIFICATION FairSpec
CONSTANTS
  SnMin = 1
  SnMax = 1
  StewardHash <- PeerFirstHash
  Self = 1
  Ids = {1, 2, 3}
  InitMembers = {1, 2}
  Changes <- JoinAndLeave
  Emergencies <- DeadlockOnly
  ForeignPools <- NoForeignPool
  ElectionRounds = {0}
  Offers <- NoOffers
  SyncLists <- NoSync
  JoinWithoutList = FALSE
  FinalizeMayFail = FALSE
  FreezeDuration = 1
  CommitBatchWindow = 1
  RetryWindow = 1
  AutoCommitDelay = 0
  MaxRounds = 2
  MaxRetries = 1
  BatchMax = 3
  AllowSubset = FALSE
  Horizon = 1
  RetryCycle = 6
  VoteLimit = 1
PROPERTIES
  FreezeEnds
  ReelectionEnds
