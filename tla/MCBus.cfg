CONSTANTS
  e1 = e1
  e2 = e2
  e3 = e3
  Event <- MCEvent
  None = None
  Delays = {1, 2, 4}
  MaxTod = 5
  RamWords = 2
  RomWords = 1
  DataWords = 1
  Line = 2
  Dev = 2
  Field = 1
  BLOCKSIZE = 2
  Fixed <- MCFixed
  Value = {1}
  MaxStored = 2
  LastAddr = 3
  MaxSize = 2
  MaxFun = 3
  MaxObj = 1
  Page = 2
  Header = 1
  RamSize = 8
  MaxText = 3
  MaxData = 2
  Span = 32
  Geometries <- MCGeometries
  Sizes = {1, 2, 4, 16}
  MaxWritten = 2
  Letter = {"a", "1"}
  Names <- MCNames
  Leaf <- MCLeaf
  MaxItems = 2
SPECIFICATION MCSpec
INVARIANTS ReadsLastStored SearchExact FilesRead
PROPERTIES EventFires ImplementsSchedule SearchEnds
CHECK_DEADLOCK FALSE
