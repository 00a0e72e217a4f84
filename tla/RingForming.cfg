SPECIFICATION CalmSpec
CONSTANTS
  Node = {"a", "b", "c"}
  None = None
  Founded <- Nothing
  Tables <- AnyOrder
  Loops = {"stabilization", "liveness"}
  MaxPingFailures = 3
  MaxLost = 0
  MaxCrashes = 0
PROPERTIES
  EventuallyEstablished
  EventuallyOneRing
CHECK_DEADLOCK FALSE
