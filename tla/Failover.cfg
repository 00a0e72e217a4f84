SPECIFICATION FairSpec
CONSTANTS
  Node = {1, 2, 3}
  None = None
  Start <- RingOfTwo
  Tables <- InRingOrder
  Assumed <- Assumptions
  MaxPhase = 20
  Asking = {1}
  MaxRounds <- OneRound
  MaxCrashes = 2
  MaxLost = 0
INVARIANTS
  LeaderKnowsItself
  OneLiveLeader
  HighestSurvivorLeads
  CandidateWaitsForTheLiving
  ElectionOnlyForTheLeader
  JoinKeepsRing
  LinksAgree
PROPERTIES
  LiveLeaderKept
  EventuallyLed
  EventuallyOneRing
CHECK_DEADLOCK FALSE
