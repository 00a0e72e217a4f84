SPECIFICATION Spec
CONSTANTS
  Node = {1, 2, 3, 4, 5, 6, 7, 8, 9, 10, 11, 12}
  None = None
  Rings <- HighestOpposite
  Newcomers = {11}
  MaxPhase = 20
  Losable = {}
  Earlier <- NoneEarlier
  MaxRounds <- SecondOnly
  MaxLost = 0
INVARIANTS
  LeaderIsHighest
CHECK_DEADLOCK FALSE
