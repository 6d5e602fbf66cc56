SPECIFICATION Spec
CONSTANTS
  Unit = 2
  Limit = 3
INVARIANTS
  PerInstanceIsSmallest
  MoreLoadNeverFewerInstances
  FactorsKeepMoving
CHECK_DEADLOCK FALSE
