CONSTANTS
  Maps <- MCMaps
  PhysPages = 16
  PageBytes = 1
  Wrap = 64
  IntPages = 6
  Starts = {0, 1, 3, 5, 8}
  Counts = {1, 2, 4}
SPECIFICATION Spec
INVARIANTS TypeOK HintInv HeldMarked OnlyConventional FreeMemLaw UsedMemLaw Conservation
PROPERTY ImplementsPool
CHECK_DEADLOCK FALSE
