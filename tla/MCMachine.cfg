CONSTANTS
  N = 2
  W = 3
  e1 = e1
  Event = {e1}
  Delays = {2}
  MaxSteps = 1
  None = None
SPECIFICATION Spec
INVARIANTS IdleMeansNoIRQ
PROPERTIES NoSilentUnderflow
