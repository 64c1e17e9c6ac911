SPECIFICATION Spec
CONSTANTS
  Self = 0
  Founders <- Pair
  Joiners = {kc}
  ka = ka
  kb = kb
  kc = kc
  VotingDelay = 1
  ConsensusTimeout = 2
  TakeoverWindow = 1
  MaxAge = 1
  MaxSessions = 4
  ResolvedCapacity = 5
  ScoresMayFail = FALSE
  LeaveIdsRecur = FALSE
  Wanted <- SomeRequests
  OpenLimit = 2
  BusLimit = 2
  EpochLimit = 2
INVARIANTS
  TypeOK
  VotesAreDriven
  VoteIsComing
  OneOwnChangePerMember
PROPERTIES
  OwnProposalsAreDoable
  BufferIsServed
