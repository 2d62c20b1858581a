CONSTANTS
  NCyl = 3
  p1 = p1
  v1 = v1
  v2 = v2
  Spot = {p1}
  Val = {v1, v2}
  Junk = Junk
  None = None
  ResetTime = 3
  CharTime = 2
  MaxInput = 2
  OpTimes = {1, 3}
  PollTime = 2
  MaxQueue = 2
  MaxWire = 2
  NBlocks = 2
  MaxPrinted = 3
SPECIFICATION MCSpec
INVARIANTS BufferCoherent BlocksAndCharacters IrqIffPending OneEventEach Listening
PROPERTIES ReadsSector ImplementsDevice OperationsEnd
