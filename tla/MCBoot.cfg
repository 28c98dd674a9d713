CONSTANTS
  MemPages = 10
  FirmwareUses <- MCFirmwareUses
  Segments <- MCSegments
  PoolPages = 2
  StackBytes = 7
  PageBytes = 4
  Fan = 8
SPECIFICATION Spec
INVARIANTS ExitRefused UsedPagesKept BitmapApart 
CHECK_DEADLOCK FALSE
