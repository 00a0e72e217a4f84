SPECIFICATION ConsoleSpec
CONSTANTS
  Node = {a, b, c}
  MaxBuilt = 2
  MaxHeld = 2
SYMMETRY Symmetry
INVARIANTS
  NotReadyIsBuffered
CHECK_DEADLOCK FALSE
