CONSTANTS
  Fan = 2
  DirBase = 1
  DirSize = 3
  MaxFrame = 26
  FrameMod = 64
  Virt = {0, 1, 2, 4, 8}
  Phys = {33, 50}
SPECIFICATION Spec
INVARIANT TablesInDirectory
CHECK_DEADLOCK FALSE
