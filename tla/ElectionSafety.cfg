SPECIFICATION FairSpec
CONSTANTS
  Node = {1, 2, 3}
  None = None
  Rings <- Ascending
  Newcomers = {}
  MaxPhase = 20
  Losable = {"LEADER_ANNOUNCEMENT", "LEADER_HEARTBEAT"}
  Earlier <- NoneEarlier
  MaxRounds <- OneRound
  MaxLost = 1
INVARIANTS
  ElectionInv
  TurnedProbeMetOnlySmaller
  LeaderIsHighest
  CandidateWaitsForSomething
PROPERTIES
  EventuallyOneLeader
  LeaderNeverDemoted
  ImplementsAgreement
CHECK_DEADLOCK FALSE
