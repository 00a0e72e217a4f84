SPECIFICATION Spec
CONSTANTS
  Node = {a, b, c}
  MaxBuilt = 3
  MaxHeld = 2
SYMMETRY Symmetry
INVARIANTS
  CausalInv
  CausalOrder
  NoDuplicateDelivery
  ClocksGiveAnOrder
PROPERTIES
  HeldLeavesByDelivery
  DrainAdvances
  ImplementsDelivery
CHECK_DEADLOCK FALSE
