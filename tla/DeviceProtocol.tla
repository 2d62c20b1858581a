---------------------------- MODULE DeviceProtocol ----------------------------
(***************************************************************************)
(* What every device register group promises its driver                    *)
(* (src/umps/device.cc): a command accepted by an idle device makes it     *)
(* busy, a busy device ignores commands, completes once and raises its     *)
(* interrupt, which stays up until the next command acknowledges it.       *)
(***************************************************************************)

VARIABLE phase   \* "idle", "busy", or "pending": done, interrupt not acknowledged

Init == phase = "idle"

(* A command is accepted; it acknowledges a pending interrupt. *)
Start == phase # "busy" /\ phase' = "busy"

(* A command is rejected at once: unknown, or its operands are. *)
Reject == phase # "busy" /\ phase' = "pending"

Acknowledge == phase # "busy" /\ phase' = "idle"

Complete == phase = "busy" /\ phase' = "pending"

Next == Start \/ Reject \/ Acknowledge \/ Complete

Spec == Init /\ [][Next]_phase
==============================================================================
