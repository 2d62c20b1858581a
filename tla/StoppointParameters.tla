------------------------ MODULE StoppointParameters ------------------------
(* The parameters of Stoppoints and what is assumed of them. *)
EXTENDS Integers

CONSTANTS
  Core,       \* the cores
  Asid,       \* address spaces; the greatest stands for physical addresses
  Mode,       \* access modes: executed, read, written
  Name,       \* names of symbols
  LastAddr,   \* ranges are chosen within 0..LastAddr
  SymbolSize, \* words of a symbol
  MaxPoints,  \* bound: stoppoints in the set
  MaxId       \* bound: identifiers given to stoppoints

ASSUME AsidAssumption == Asid \subseteq Nat /\ 0 \in Asid
ASSUME BoundsAssumption == LastAddr \in Nat /\ SymbolSize \in Nat \ {0} /\ MaxPoints \in Nat /\ MaxId \in Nat
=============================================================================
