----------------------- MODULE SymbolTableParameters -----------------------
(* The parameters of SymbolTable, which bound the files that are loaded. *)
EXTENDS Integers

CONSTANTS
  LastAddr, \* symbols start within 0..LastAddr
  MaxSize,  \* words of a symbol
  MaxFun,   \* functions
  MaxObj    \* objects

ASSUME FileAssumption == LastAddr \in Nat /\ MaxSize \in Nat /\ MaxFun \in Nat /\ MaxObj \in Nat
=============================================================================
