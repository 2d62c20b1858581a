-------------------------------- MODULE Flash --------------------------------
(***************************************************************************)
(* The flash device (FlashDevice in src/umps/device.cc) with its buffer of *)
(* one block.  As in the disk drive a read of the block in the buffer does *)
(* not go to the image file, and a write fills the buffer when the command *)
(* is given and the image when it completes; there is nothing to seek, and *)
(* the block number stays in the COMMAND register until the operation ends.*)
(***************************************************************************)
EXTENDS Integers

CONSTANTS NBlocks,    \* blocks of the device
          Data        \* contents of a block

(* A transfer from memory that fails on the way leaves Torn in the buffer; *)
(* NoBlock is the MAXWORDVAL of an invalid buffer.                         *)
CONSTANTS Torn, NoBlock

VARIABLES status, op, block,   \* STATUS, and COMMAND taken apart
          blockBuf, flashBuf,  \* number and contents of the buffered block
          flashFile,           \* the image
          isWorking, irq,
          given,  \* history: contents the last write was to store, Torn if its transfer failed
          told    \* history: what the driver was told each block holds

vars == <<status, op, block, blockBuf, flashBuf, flashFile, isWorking, irq, given, told>>

Blocks == 0..NBlocks-1

TypeOK ==
  /\ status \in {"READY", "ILOPERR", "BUSY", "FREADERR", "FWRITERR", "FDMAERR"}
  /\ op \in {"RESET", "ACK", "FREADBLK", "FWRITEBLK", "other"}
  /\ block \in Nat
  /\ blockBuf \in Blocks \cup {NoBlock}
  /\ flashBuf \in Data \cup {Torn}
  /\ flashFile \in [Blocks -> Data \cup {Torn}]
  /\ isWorking \in BOOLEAN /\ irq \in BOOLEAN
  /\ given \in Data \cup {Torn}
  /\ told \in [Blocks -> Data \cup {Torn}]

Init == /\ status = "READY" /\ op = "RESET" /\ block = 0
        /\ blockBuf = NoBlock
        /\ flashBuf \in Data
        /\ flashFile \in [Blocks -> Data]
        /\ isWorking = TRUE /\ irq = FALSE
        /\ given \in Data /\ told = flashFile

-----------------------------------------------------------------------------

Command(o, b, s) == /\ status # "BUSY"
                    /\ op' = o /\ block' = b /\ status' = s
                    /\ irq' = (s \notin {"BUSY", "READY"})
                    /\ UNCHANGED <<flashFile, isWorking, told>>

(* Reset, acknowledgement, an unknown operation, a block out of range: the *)
(* buffer is left alone until a reset completes.                           *)
Reset == Command("RESET", 0, "BUSY") /\ UNCHANGED <<blockBuf, flashBuf, given>>

Ack == Command("ACK", 0, "READY") /\ UNCHANGED <<blockBuf, flashBuf, given>>

BadCommand == /\ \/ Command("other", 0, "ILOPERR")
                 \/ Command("FREADBLK", NBlocks, "FREADERR")
                 \/ Command("FWRITEBLK", NBlocks, "FWRITERR")
              /\ UNCHANGED <<blockBuf, flashBuf, given>>

Read == \E b \in Blocks :
  /\ Command("FREADBLK", b, "BUSY")
  /\ blockBuf' = IF blockBuf = b THEN b ELSE NoBlock
  /\ UNCHANGED <<flashBuf, given>>

(* Mutant: a transfer that fails leaves the buffer valid. *)
WriteKeepsBuffer == \E b \in Blocks, d \in Data :
  /\ Command("FWRITEBLK", b, "BUSY")
  /\ \/ blockBuf' = b /\ flashBuf' = d /\ given' = d
     \/ blockBuf' = blockBuf /\ flashBuf' \in {flashBuf, Torn} /\ given' = Torn

(* The transfer from memory may fail at its first word or later; the       *)
(* device goes on all the same.                                            *)
Write == \E b \in Blocks, d \in Data :
  /\ Command("FWRITEBLK", b, "BUSY")
  /\ \/ blockBuf' = b /\ flashBuf' = d /\ given' = d
     \/ blockBuf' = NoBlock /\ flashBuf' \in {flashBuf, Torn} /\ given' = Torn

WriteDevReg == Reset \/ Ack \/ BadCommand \/ Read \/ Write

Completes(o, results) == /\ status = "BUSY" /\ op = o
                         /\ status' \in results
                         /\ irq' = TRUE
                         /\ UNCHANGED <<op, block, isWorking, given>>

CompleteReset == /\ Completes("RESET", {"READY"})
                 /\ blockBuf' = NoBlock
                 /\ UNCHANGED <<flashBuf, flashFile, told>>

Fetched == IF blockBuf # NoBlock THEN flashBuf ELSE flashFile[block]

CompleteRead == /\ isWorking
                /\ Completes("FREADBLK", {"READY", "FDMAERR"})
                /\ blockBuf' = block
                /\ flashBuf' = Fetched
                /\ UNCHANGED <<flashFile, told>>

CompleteWrite == /\ isWorking
                 /\ Completes("FWRITEBLK", {"READY"})
                 /\ flashFile' = [flashFile EXCEPT ![block] = flashBuf]
                 /\ told' = [told EXCEPT ![block] = given]
                 /\ UNCHANGED <<blockBuf, flashBuf>>

(* The simulated error invalidates the buffer. *)
FailTransfer == /\ ~isWorking
                /\ \/ Completes("FREADBLK", {"FREADERR"})
                   \/ Completes("FWRITEBLK", {"FWRITERR"})
                /\ blockBuf' = NoBlock
                /\ UNCHANGED <<flashBuf, flashFile, told>>

CompleteDevOp == CompleteReset \/ CompleteRead \/ CompleteWrite \/ FailTransfer

(* The user makes the device fail, or work again, at any time. *)
SetCondition == /\ isWorking' = ~isWorking
                /\ UNCHANGED <<status, op, block, blockBuf, flashBuf, flashFile, irq, given, told>>

Next == WriteDevReg \/ CompleteDevOp \/ SetCondition

Spec == Init /\ [][Next]_vars

(* The completion of an operation is an event, and events fire. *)
Fairness == WF_vars(CompleteDevOp)

FairSpec == Spec /\ Fairness

-----------------------------------------------------------------------------

phase == IF status = "BUSY" THEN "busy" ELSE IF irq THEN "pending" ELSE "idle"

(* What the buffer claims to hold is what the image holds, or what the     *)
(* write in progress is about to put there, whatever failed in between; and*)
(* the image holds what the driver was told, but for a block written after *)
(* its transfer failed: then anything that was in the buffer is written    *)
(* with READY, and read from there on.                                     *)
FlashCoherent ==
  /\ blockBuf # NoBlock =>
       \/ flashBuf = flashFile[blockBuf]
       \/ status = "BUSY" /\ op = "FWRITEBLK" /\ blockBuf = block /\ flashBuf = given
  /\ \A b \in Blocks : told[b] # Torn => flashFile[b] = told[b]

(* A read that succeeds delivers the block it named: the buffer that Read  *)
(* left valid is of that very block when the completion looks at it.       *)
ReadsBlock ==
  status = "BUSY" /\ op = "FREADBLK" => Fetched = flashFile[block]
==============================================================================
