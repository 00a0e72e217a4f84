SPECIFICATION Spec
CONSTANTS
  Node = {1, 2, 3}
  None = None
  Start <- RingOfThree
  Tables <- InRingOrder
  Assumed <- SlowDetection
  MaxPhase = 20
  Asking = {}
  MaxRounds <- OneRound
  MaxCrashes = 1
  MaxLost = 0
INVARIANTS
  CandidateWaitsForTheLiving
CHECK_DEADLOCK FALSE
