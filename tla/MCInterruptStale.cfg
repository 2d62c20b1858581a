CONSTANTS
  N = 2
  Source <- MCTwoTerminals
  Prio = {15}
  Msg = {1}
  MaxFlight = 0
  None = None
SPECIFICATION MCSpec
INVARIANTS AckClears
