------------------------------- MODULE Printer -------------------------------
(***************************************************************************)
(* The printer (PrinterDevice in src/umps/device.cc).  The character to    *)
(* print stays in DATA0 until the operation completes: nothing else keeps  *)
(* it, so that a driver that writes the next character early must not      *)
(* change it.                                                              *)
(***************************************************************************)
EXTENDS Integers, Sequences

CONSTANTS Char,
          MaxPrinted   \* bound on the characters printed

VARIABLES status, op, data0, isWorking, irq,
          prntFile,    \* the log file
          confirmed,   \* characters the driver was told are printed (history)
          asked        \* character of the driver's last print command (history)

vars == <<status, op, data0, isWorking, irq, prntFile, confirmed, asked>>

TypeOK == /\ status \in {"READY", "ILOPERR", "BUSY", "PRNTERR"}
          /\ op \in {"RESET", "ACK", "PRNTCHR", "other"}
          /\ data0 \in Char /\ asked \in Char
          /\ isWorking \in BOOLEAN /\ irq \in BOOLEAN
          /\ prntFile \in Seq(Char) /\ confirmed \in Seq(Char)

Init == /\ status = "READY" /\ op = "RESET"
        /\ data0 \in Char /\ asked = data0
        /\ isWorking = TRUE /\ irq = FALSE
        /\ prntFile = <<>> /\ confirmed = <<>>

-----------------------------------------------------------------------------

Command(o, s) == /\ status # "BUSY"
                 /\ op' = o /\ status' = s /\ irq' = (s = "ILOPERR")
                 /\ UNCHANGED <<data0, isWorking, prntFile, confirmed>>

Reset == Command("RESET", "BUSY") /\ UNCHANGED asked

Ack == Command("ACK", "READY") /\ UNCHANGED asked

BadCommand == Command("other", "ILOPERR") /\ UNCHANGED asked

PrintChr == /\ Len(prntFile) < MaxPrinted
         /\ Command("PRNTCHR", "BUSY")
         /\ asked' = data0

(* The driver writes DATA0, which a busy printer ignores. *)
SetData == \E c \in Char :
  /\ data0' = IF status = "BUSY" THEN data0 ELSE c
  /\ UNCHANGED <<status, op, isWorking, irq, prntFile, confirmed, asked>>

WriteDevReg == Reset \/ Ack \/ BadCommand \/ PrintChr \/ SetData

Completes(o, s) == /\ status = "BUSY" /\ op = o
                   /\ status' = s /\ irq' = TRUE
                   /\ UNCHANGED <<op, data0, isWorking, asked>>

CompleteReset == Completes("RESET", "READY") /\ UNCHANGED <<prntFile, confirmed>>

CompletePrint == /\ isWorking
                 /\ Completes("PRNTCHR", "READY")
                 /\ prntFile' = Append(prntFile, data0)
                 /\ confirmed' = Append(confirmed, asked)

FailPrint == /\ ~isWorking
             /\ Completes("PRNTCHR", "PRNTERR")
             /\ UNCHANGED <<prntFile, confirmed>>

CompleteDevOp == CompleteReset \/ CompletePrint \/ FailPrint

SetCondition == /\ isWorking' = ~isWorking
                /\ UNCHANGED <<status, op, data0, irq, prntFile, confirmed, asked>>

Next == WriteDevReg \/ CompleteDevOp \/ SetCondition

Spec == Init /\ [][Next]_vars

(* The completion of an operation is an event, and events fire. *)
Fairness == WF_vars(CompleteDevOp)

FairSpec == Spec /\ Fairness

-----------------------------------------------------------------------------

phase == IF status = "BUSY" THEN "busy" ELSE IF irq THEN "pending" ELSE "idle"

(* The log holds exactly the characters whose commands were reported as    *)
(* done, as they were when the commands were given, however the driver     *)
(* prepares the next one meanwhile.                                        *)
PrintsAsked == prntFile = confirmed
==============================================================================
