CONSTANTS
  Fan = 2
  DirBase = 1
  DirSize = 16
  MaxFrame = 26
  FrameMod = 64
  Virt = {0, 1, 2, 4, 8}
  Phys = {33, 50}
SPECIFICATION Spec
INVARIANTS TypeOK TreeInv TableCount
PROPERTY ImplementsSpace
CHECK_DEADLOCK FALSE
