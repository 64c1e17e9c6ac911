SPECIFICATION Spec
CONSTANTS
  SnMin = 1
  SnMax = 2
  StewardHash <- MCHash
  Self = 1
  Ids = {1, 2, 3}
  InitMembers = {1, 2}
  Changes <- JoinAndLeave
  Emergencies <- NoEmergency
  ForeignPools <- SelfOnlyPool
  ElectionRounds = {0}
  Offers <- FullAndPartial
  SyncLists <- PeerSync
  JoinWithoutList = TRUE
  FinalizeMayFail = FALSE
  FreezeDuration = 2
  CommitBatchWindow = 1
  RetryWindow = 1
  AutoCommitDelay = 0
  MaxRounds = 1
  MaxRetries = 1
  BatchMax = 3
  AllowSubset = FALSE
  Horizon = 2
  RetryCycle = 6
  VoteLimit = 1
INVARIANTS
  TypeOK
  TimerMatchesPhase
  OwnCandidateIsPending
  RoundIsCurrent
  StashWaitsForApproval
  PendingCommitOnlyWhileFreezing
PROPERTIES
  MembershipIsVoted
  WorkLeavesByCommit
  RecoveryLandsWork
