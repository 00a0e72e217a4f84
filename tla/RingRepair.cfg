SPECIFICATION FairSpec
CONSTANTS
  Node = {"a", "b", "c"}
  None = None
  Founded <- RingOfThree
  Tables <- AnyOrder
  Loops = {"stabilization", "liveness"}
  MaxPingFailures = 3
  MaxLost = 0
  MaxCrashes = 1
PROPERTIES
  EventuallyOneRing
CHECK_DEADLOCK FALSE
