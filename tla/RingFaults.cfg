SPECIFICATION Spec
CONSTANTS
  Node = {"a", "b"}
  None = None
  Founded <- Nothing
  Tables <- AnyOrder
  Loops = {"stabilization", "liveness", "heartbeat"}
  MaxPingFailures = 3
  MaxLost = 1
  MaxCrashes = 1
INVARIANTS
  TypeOK
  NobodyIsItsOwnNeighbour
  EstablishedIsLinked
CHECK_DEADLOCK FALSE
