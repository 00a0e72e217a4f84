SPECIFICATION Spec
CONSTANTS
  Node = {1, 2, 3, 4}
  None = None
  Start <- RingOfFour
  Tables <- InRingOrder
  Assumed <- Assumptions
  MaxPhase = 20
  Asking = {}
  MaxRounds <- OneRound
  MaxCrashes = 1
  MaxLost = 0
INVARIANTS
  HighestSurvivorLeads
CHECK_DEADLOCK FALSE
