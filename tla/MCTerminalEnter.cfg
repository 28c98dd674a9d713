CONSTANTS
  Width = 2
  Height = 2
  PoolSize = 6
  MaxKeys = 1
SPECIFICATION Spec
INVARIANT HandlesInput
CHECK_DEADLOCK FALSE
