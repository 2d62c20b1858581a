------------------------------- MODULE MCMachine -------------------------------
(* A small instance of Machine: timers of W values, one operation. *)
EXTENDS Machine

CONSTANTS e1
==============================================================================
