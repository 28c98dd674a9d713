CONSTANTS
  Maps <- MCMaps
  PhysPages = 96
  PageBytes = 4
  Wrap = 256
  IntPages = 128
  Fan = 8
  DirBase = 72
  DirSize = 12
  MaxFrame = 127
  FrameMod = 1024
  MemPages = 64
  Layouts <- MCLayouts
  PoolSizes = {3, 8, 24}
  MaxBytes = 24
  MaxPools = 5
SPECIFICATION Spec
INVARIANTS PoolsOwnTheirFrames IdentityKept GuardPages LostOnlyWhenFull
CHECK_DEADLOCK FALSE
