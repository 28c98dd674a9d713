CONSTANTS
  FirmwareBases <- MCBases
  FirmwareMasks <- MCMasks
  MaxKeys = 2
SPECIFICATION Spec
INVARIANTS StopsOnlyBy
PROPERTY BytesRead
CHECK_DEADLOCK FALSE
