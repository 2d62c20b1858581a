CONSTANTS
  N = 2
  Source <- MCTwoTerminals
  Prio = {3, 15}
  Msg = {1}
  MaxFlight = 2
  None = None
SPECIFICATION MCSpec
INVARIANTS MaskMatchesState NoPhantomIRQ AckReaches OnePerOrigin
PROPERTIES OnlyResetLosesIRQ IpiArrives
