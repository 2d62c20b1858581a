CONSTANTS
  N = 1
  W = 4
  e1 = e1
  Event = {e1}
  Delays = {2}
  MaxSteps = 2
  IterCycles = {2}
  MaxSkipped = 2
  Edits = FALSE
  None = None
  Core = {c0}
  Asid = {0}
  Mode = {w}
  Name = {f}
  LastAddr = 2
  SymbolSize = 2
  MaxPoints = 3
  MaxId = 2
  Region = {r1, r2}
  MaxTrace = 2
  Length = 3
  Bad = {1}
  Changing = {2}
  Digits = {0, 1}
  MaxMachines = 2
  Pc = {0, 1, 3, 4, 5, 6, 7}
  BiosSize = 2
  BootBase = 3
  BootSize = 1
  RamBase = 4
  Floor = 7
  Functions <- MCFunctions
  Path = {p}
  MinTlb = 4
  MaxTlb = 8
  MinRam = 1
  MaxRam = 2
  DefaultRam = 1
  MaxCpus = 1
  Device <- MCDevice
  Document = {d1, d2, d3}
  MaxRecent = 2
  MaxSpeed = 1
  Cause = {breakpoint}
  Terminal = {0}
  MaxTod = 1
SPECIFICATION MCSpec
INVARIANTS OneTimer SkipAllowed ProbeFinds RowsTruth ShowsSelected CoreShown ConfigurationKept WindowFits
PROPERTIES ImplementsMachine OperationsComplete
