SPECIFICATION Spec
CONSTANTS
  SnMin = 1
  SnMax = 2
  StewardHash <- MCHash
  Members = {1, 2, 3}
  Changes <- JoinAndLeave
  MayRecover = TRUE
  MayResend = TRUE
  LateCopies = FALSE
  Quiet = TRUE
  Delta = 1
  CommitBatchWindow = 2
  FreezeDuration = 3
  RetryWindow = 3
  AutoCommitDelay = 2
  BatchMax = 3
  AllowSubset = FALSE
  MintLimit = 2
  Horizon = 5
INVARIANTS
  TypeOK
  Agreement
  RoundsLand
  OnlyEjectedLeave
  VotesLandInTime
PROPERTIES
  ImplementsHistory
