CONSTANTS
 Core = {c0,c1}
 Boot = c0
 Prog = {p}
 PCs = {2, 8, 9}
SPECIFICATION Spec
INVARIANTS BreaksPassedUp
