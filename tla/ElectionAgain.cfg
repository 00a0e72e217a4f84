SPECIFICATION Spec
CONSTANTS
  Node = {1, 2, 3, 4, 5, 6}
  None = None
  Rings <- SecondIsolated
  Newcomers = {6}
  MaxPhase = 2
  Losable = {}
  Earlier <- EitherDone
  MaxRounds <- LowestOnceOthersTwice
  MaxLost = 0
INVARIANTS
  CandidateWaitsForSomething
CHECK_DEADLOCK FALSE
