CONSTANTS
  SectNum = 3
  NCyl = 2
  SectTicks = 4
  DataTicks = 3
  SeekTime = 2
  DMATICKS = 1
  DISKRESETTIME = 1
  MaxTod = 30
SPECIFICATION Spec
INVARIANT OnSector
CHECK_DEADLOCK FALSE
