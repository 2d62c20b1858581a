------------------------------- MODULE Terminal -------------------------------
(***************************************************************************)
(* The terminal device (TerminalDevice in src/umps/device.cc): a receiver  *)
(* and a transmitter, independent for the driver, which share one callback *)
(* and one interrupt source.  An expired event does not say whose it is:   *)
(* CompleteDevOp decides by the completion times.  A receiver without      *)
(* input schedules itself again until something is typed.                  *)
(*                                                                         *)
(* Completion times are relative to the time of day.  The interrupt source *)
(* is one flag: routing and losing interrupts is InterruptController.      *)
(***************************************************************************)
EXTENDS Integers

CONSTANTS ResetTime,   \* TERMRESETTIME * clock rate
          CharTime,    \* RECVCHRTIME and TRANCHRTIME, which are equal, * clock rate
          MaxInput     \* bound on characters typed and not received

VARIABLES recv,        \* receiver:    [status, command, cTime, intPend]
          tran,        \* transmitter: the same
          unread,      \* characters in the receiver's buffer
          isWorking,   \* condition set by the user
          events,      \* [ticks to go -> CompleteDevOp callbacks due then]
          irq          \* the terminal's source is pending at the controller

vars == <<recv, tran, unread, isWorking, events, irq>>

Later == 0..(IF ResetTime < CharTime THEN CharTime ELSE ResetTime)

SubDevice(done, failed) ==
  [status : {"READY", "ILOPERR", "BUSY", done, failed},
   command : {"RESET", "ACK", "CHR", "other"},
   cTime : Later, intPend : BOOLEAN]

TypeOK == /\ recv \in SubDevice("RECVD", "RECVERR")
          /\ tran \in SubDevice("TRANSMD", "TRANERR")
          /\ unread \in 0..MaxInput
          /\ isWorking \in BOOLEAN
          /\ events \in [Later -> 0..2]
          /\ irq \in BOOLEAN

Idle == [status |-> "READY", command |-> "RESET", cTime |-> 0, intPend |-> FALSE]

Init == /\ recv = Idle /\ tran = Idle
        /\ unread = 0
        /\ isWorking = TRUE
        /\ events = [t \in Later |-> 0]
        /\ irq = FALSE

-----------------------------------------------------------------------------

scheduleIOEvent(t) == events' = [events EXCEPT ![t] = @ + 1]

(* Mutant: an acknowledgement does not look at the other half. *)
IntAckAlways(other) == irq' = FALSE

(* The source is acknowledged unless the other half still needs it. *)
IntAck(other) == irq' = (irq /\ other.intPend)

(* Commands come from a core or from the user, between two scans of the    *)
(* event queue.                                                            *)
Drained == events[0] = 0

Accept(c, t) == [status |-> "BUSY", command |-> c, cTime |-> t, intPend |-> FALSE]
Acked(sub) == [sub EXCEPT !.status = "READY", !.command = "ACK", !.intPend = FALSE]
Rejected(sub) == [sub EXCEPT !.status = "ILOPERR", !.command = "other", !.intPend = TRUE]

(* A command written to one half, sub, whose sibling is other. *)
Command(sub, other, new) ==
  /\ Drained
  /\ sub.status # "BUSY"
  /\ \/ /\ new = Accept("RESET", ResetTime)
        /\ scheduleIOEvent(ResetTime) /\ IntAck(other)
     \/ /\ new = Accept("CHR", CharTime)
        /\ scheduleIOEvent(CharTime) /\ IntAck(other)
     \/ new = Acked(sub) /\ IntAck(other) /\ UNCHANGED events
     \/ new = Rejected(sub) /\ irq' = TRUE /\ UNCHANGED events
  /\ UNCHANGED <<unread, isWorking>>

WriteRecvCommand == Command(recv, tran, recv') /\ UNCHANGED tran
WriteTranCommand == Command(tran, recv, tran') /\ UNCHANGED recv

Bit(b) == IF b THEN 1 ELSE 0

(* The callback is for the receiver if only that is busy, or if both are   *)
(* and the receiver is not due later.                                      *)
DoRecv == IF recv.status = "BUSY" /\ tran.status = "BUSY"
          THEN recv.cTime <= tran.cTime
          ELSE recv.status = "BUSY"

Finish(sub, status) == [sub EXCEPT !.status = status, !.intPend = TRUE]

(* The receiver completes: reset, a character or a simulated error. *)
CompleteRecv ==
  /\ events[0] > 0 /\ DoRecv
  /\ recv.command = "CHR" => unread > 0
  /\ IF recv.command = "RESET"
     THEN recv' = Finish(recv, "READY") /\ UNCHANGED unread
     ELSE IF isWorking
     THEN recv' = Finish(recv, "RECVD") /\ unread' = unread - 1
     ELSE recv' = Finish(recv, "RECVERR") /\ UNCHANGED unread
  /\ irq' = TRUE
  /\ events' = [events EXCEPT ![0] = @ - 1]
  /\ UNCHANGED <<tran, isWorking>>

(* Mutant: the receiver polls again at its old time. *)
PollRecvStale ==
  /\ events[0] > 0 /\ DoRecv
  /\ recv.command = "CHR" /\ unread = 0
  /\ events' = [events EXCEPT ![0] = @ - 1, ![CharTime] = @ + 1]
  /\ UNCHANGED <<recv, tran, unread, isWorking, irq>>

(* Nothing was typed: the receiver waits for another cycle. *)
PollRecv ==
  /\ events[0] > 0 /\ DoRecv
  /\ recv.command = "CHR" /\ unread = 0
  /\ recv' = [recv EXCEPT !.cTime = CharTime]
  /\ events' = [events EXCEPT ![0] = @ - 1, ![CharTime] = @ + 1]
  /\ UNCHANGED <<tran, unread, isWorking, irq>>

CompleteTran ==
  /\ events[0] > 0 /\ ~DoRecv
  /\ tran' = Finish(tran, IF tran.command = "RESET" THEN "READY"
                          ELSE IF isWorking THEN "TRANSMD" ELSE "TRANERR")
  /\ irq' = TRUE
  /\ events' = [events EXCEPT ![0] = @ - 1]
  /\ UNCHANGED <<recv, unread, isWorking>>

(* The user types a line, or toggles the condition of the device. *)
Input == /\ Drained
         /\ \E n \in 1..(MaxInput - unread) : unread' = unread + n
         /\ UNCHANGED <<recv, tran, isWorking, events, irq>>

SetCondition == /\ Drained
                /\ isWorking' = ~isWorking
                /\ UNCHANGED <<recv, tran, unread, events, irq>>

Closer(sub) == IF sub.status = "BUSY" /\ sub.cTime > 0 THEN [sub EXCEPT !.cTime = @ - 1] ELSE sub

Tick == /\ Drained
        /\ recv' = Closer(recv) /\ tran' = Closer(tran)
        /\ events' = [t \in Later |-> IF t + 1 \in Later THEN events[t+1] ELSE 0]
        /\ UNCHANGED <<unread, isWorking, irq>>

CompleteDevOp == CompleteRecv \/ PollRecv \/ CompleteTran

Next == \/ WriteRecvCommand \/ WriteTranCommand
        \/ CompleteDevOp
        \/ Input \/ SetCondition \/ Tick

Spec == Init /\ [][Next]_vars

(* Time goes on, and every scan of the event queue ends. *)
Fairness == WF_vars(Tick) /\ WF_vars(CompleteDevOp)

FairSpec == Spec /\ Fairness

-----------------------------------------------------------------------------

(* The shared source is pending exactly when one of the halves needs it:   *)
(* acknowledging one never clears the interrupt of the other, and the last *)
(* acknowledgement does clear it.                                          *)
IrqIffPending == irq <=> recv.intPend \/ tran.intPend

(* There is one callback for each busy half, due at its completion time,   *)
(* however often the receiver was rescheduled: no operation is left        *)
(* without its callback and no callback finds the device idle or completes *)
(* a half early.                                                           *)
OneEventEach ==
  \A t \in Later :
    events[t] = Bit(recv.status = "BUSY" /\ recv.cTime = t)
                + Bit(tran.status = "BUSY" /\ tran.cTime = t)

Phase(sub) == IF sub.status = "BUSY" THEN "busy"
              ELSE IF sub.intPend THEN "pending" ELSE "idle"

==============================================================================
