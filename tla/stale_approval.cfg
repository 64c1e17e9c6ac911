SPECIFICATION Spec
CONSTANTS
  SnMin = 1
  SnMax = 2
  StewardHash <- MCHash
  Self = 1
  Ids = {1, 2}
  InitMembers = {1, 2}
  Changes <- BanOnly
  Emergencies <- NoEmergency
  ForeignPools <- NoForeignPool
  ElectionRounds = {0}
  Offers <- NoOffers
  SyncLists <- NoSync
  JoinWithoutList = FALSE
  FinalizeMayFail = FALSE
  FreezeDuration = 1
  CommitBatchWindow = 1
  RetryWindow = 1
  AutoCommitDelay = 0
  MaxRounds = 2
  MaxRetries = 1
  BatchMax = 3
  AllowSubset = FALSE
  Horizon = 1
  RetryCycle = 2
  VoteLimit = 2
INVARIANTS
  ApprovedIsCommittable
