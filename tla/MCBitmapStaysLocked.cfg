CONSTANTS
  Maps <- MCMaps
  PhysPages = 16
  PageBytes = 1
  Wrap = 64
  IntPages = 6
  Starts = {0}
  Counts = {1}
SPECIFICATION Spec
INVARIANT BitmapStaysLocked
CHECK_DEADLOCK FALSE
