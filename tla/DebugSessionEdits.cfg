CONSTANTS
  N = 1
  W = 4
  Event = {e1}
  Delays = {3}
  MaxSteps = 2
  IterCycles = {2}
  MaxSkipped = 2
  Edits = TRUE
  None = None
SPECIFICATION Spec
PROPERTIES SkipAssertion
