CONSTANTS
  Size = 4
  VPN = {k, s, p}
  ASID = {a1, a2}
  Global = {k, s}
  Pinned = k
  ProgSize = 3
  Target = 1
  Kind = {"taken", "skipped", "alu", "load", "store", "mtc0", "wait"}
  Half = 3
  MemSize = 8
  Core = {c0, c1}
  Boot = c0
  Prog = {p, q}
  PCs = {2, 8, 9}
SPECIFICATION MCSpec
INVARIANTS OneMatch Coherent PinnedStays InOrder Precise ShownAsExecuted ResultsExact ProgramsResumed
