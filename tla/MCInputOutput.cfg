CONSTANTS
  Keys <- MCKeys
  Extended = {28, 72, 83}
  MaxBacklog = 1
  BehindBytes = {0, 65}
  Wrap = 2048
  Columns = 4
  Rows = 3
  Lengths <- MCLengths
  LengthWrap = 8
  PanicColumns = 3
  MaxStrings = 4
  FlagBytes <- MCFlags
  MoveBytes <- MCMoves
  PointerMax = 3
  MaxBytes = 9
  BufBytes = 44
  Unsigned <- MCUnsigned
  MinInt <- MCMinInt
  SignedInts <- MCSignedInts
  HexNumbers <- MCHex
  StackBytes = {0, 255}
  Doubles <- MCDoubles
  IntLimit = 100
  Words <- MCWords
  MaxCalls = 3
SPECIFICATION InputOutputSpec
INVARIANTS TypeOK ShiftTracks StoresWhatIsTyped LogReadable PanicLegible PacketsWhole ResultsKept
PROPERTY MovesAllOrNothing
CHECK_DEADLOCK FALSE
