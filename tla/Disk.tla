--------------------------------- MODULE Disk ---------------------------------
(***************************************************************************)
(* The disk drive (DiskDevice in src/umps/device.cc) with its one-sector   *)
(* buffer.  A read whose sector is in the buffer does not go to the image  *)
(* file; a write fills the buffer from memory when the command is given    *)
(* and puts it on the image file when it completes.  The user may make the *)
(* drive fail its operations at any time.                                  *)
(*                                                                         *)
(* Sectors are pairs <<cylinder, spot>>, a spot standing for a head and a  *)
(* sector number.  The contents of a block are one value; a transfer from  *)
(* memory that fails on the way leaves Junk.  Operations take any time.    *)
(***************************************************************************)
EXTENDS Integers

CONSTANTS NCyl,     \* cylinders of the drive
          Spot,     \* pairs of head and sector number that exist
          Val,      \* contents of a block
          Junk, None

ASSUME CylAssumption == NCyl \in Nat \ {0}
ASSUME ValAssumption == Junk \notin Val
ASSUME NoneAssumption == None \notin (0..NCyl-1) \X Spot /\ None \notin Val \cup {Junk}

Cyl == 0..NCyl-1
Sector == Cyl \X Spot
Block == Val \cup {Junk}

VARIABLES status,     \* STATUS register
          command,    \* COMMAND register: [op, cyl, spot]
          currCyl,    \* cylinder the heads are on
          tag,        \* sector the buffer holds: cylBuf, headBuf and sectBuf; or None
          diskBuf,    \* the buffer
          medium,     \* [Sector -> Block], the image file
          isWorking,  \* condition set by the user
          irq,        \* the drive's source is pending at the controller
          given       \* contents the driver's last write command was to store
                      \* (not in the code: memory at that moment)

vars == <<status, command, currCyl, tag, diskBuf, medium, isWorking, irq, given>>

Status == {"READY", "ILOPERR", "BUSY", "DSEEKERR", "DREADERR", "DWRITERR", "DDMAERR"}
Op == {"RESET", "ACK", "DSEEKCYL", "DREADBLK", "DWRITEBLK", "other"}

TypeOK == /\ status \in Status
          /\ command \in [op : Op, cyl : Cyl, spot : Spot]
          /\ currCyl \in Cyl
          /\ tag \in Sector \cup {None}
          /\ diskBuf \in Block
          /\ medium \in [Sector -> Block]
          /\ isWorking \in BOOLEAN
          /\ irq \in BOOLEAN
          /\ given \in Val

Init == /\ status = "READY"
        /\ command \in [op : {"RESET"}, cyl : {0}, spot : Spot]
        /\ currCyl = 0
        /\ tag = None
        /\ diskBuf \in Val
        /\ medium \in [Sector -> Val]
        /\ isWorking = TRUE
        /\ irq = FALSE
        /\ given \in Val

-----------------------------------------------------------------------------

(* A command is accepted: its completion is an event.                      *)
Accept(cmd) == /\ command' = cmd
               /\ status' = "BUSY"
               /\ irq' = FALSE

(* A command is refused, with an interrupt at once. *)
Refuse(op, error) == /\ command' = [command EXCEPT !.op = op]
                     /\ status' = error
                     /\ irq' = TRUE

(* Mutant: the status is not looked at. *)
BusyTooFree == TRUE

Free == status # "BUSY"

Reset == /\ Free
         /\ Accept([command EXCEPT !.op = "RESET"])
         /\ UNCHANGED <<currCyl, tag, diskBuf, medium, isWorking, given>>

Ack == /\ Free
       /\ command' = [command EXCEPT !.op = "ACK"]
       /\ status' = "READY"
       /\ irq' = FALSE
       /\ UNCHANGED <<currCyl, tag, diskBuf, medium, isWorking, given>>

(* An unknown operation, or operands the drive does not have. *)
BadCommand == /\ Free
              /\ \/ Refuse("other", "ILOPERR")
                 \/ Refuse("DSEEKCYL", "DSEEKERR")
                 \/ Refuse("DREADBLK", "DREADERR")
                 \/ Refuse("DWRITEBLK", "DWRITERR")
              /\ UNCHANGED <<currCyl, tag, diskBuf, medium, isWorking, given>>

Seek == /\ Free
        /\ \E c \in Cyl : Accept([command EXCEPT !.op = "DSEEKCYL", !.cyl = c])
        /\ UNCHANGED <<currCyl, tag, diskBuf, medium, isWorking, given>>

(* Mutant: the cylinder of the buffer is not compared. *)
ReadBySpot == /\ Free
              /\ \E p \in Spot :
                   /\ Accept([command EXCEPT !.op = "DREADBLK", !.spot = p])
                   /\ tag' = IF tag # None /\ tag[2] = p THEN tag ELSE None
              /\ UNCHANGED <<currCyl, diskBuf, medium, isWorking, given>>

(* A read invalidates the buffer unless it holds that sector already. *)
Read == /\ Free
        /\ \E p \in Spot :
             /\ Accept([command EXCEPT !.op = "DREADBLK", !.spot = p])
             /\ tag' = IF tag = <<currCyl, p>> THEN tag ELSE None
        /\ UNCHANGED <<currCyl, diskBuf, medium, isWorking, given>>

(* A write takes the block from memory at once.  The transfer may fail at  *)
(* its first word or later; the drive goes on all the same.                *)
Write == /\ Free
         /\ \E p \in Spot, v \in Val :
              /\ Accept([command EXCEPT !.op = "DWRITEBLK", !.spot = p])
              /\ given' = v
              /\ \/ tag' = <<currCyl, p>> /\ diskBuf' = v
                 \/ tag' = None /\ diskBuf' \in {diskBuf, Junk}
         /\ UNCHANGED <<currCyl, medium, isWorking>>

Done(result) == /\ status' = result
                /\ irq' = TRUE
                /\ UNCHANGED <<command, isWorking, given>>

Completes(op) == status = "BUSY" /\ command.op = op

Target == <<currCyl, command.spot>>

(* A reset completes even if the drive does not work. *)
CompleteReset == /\ Completes("RESET")
                 /\ Done("READY")
                 /\ tag' = None
                 /\ UNCHANGED <<currCyl, diskBuf, medium>>

(* A seek that fails leaves the heads halfway. *)
CompleteSeek ==
  /\ Completes("DSEEKCYL")
  /\ IF isWorking
     THEN currCyl' = command.cyl /\ Done("READY")
     ELSE currCyl' = (command.cyl + currCyl) \div 2 /\ Done("DSEEKERR")
  /\ UNCHANGED <<tag, diskBuf, medium>>

(* What a read that works hands to memory: a valid buffer, or the image.   *)
Fetched == IF tag # None THEN diskBuf ELSE medium[Target]

(* The transfer to memory succeeds or fails; the buffer is valid then.     *)
CompleteRead ==
  /\ Completes("DREADBLK") /\ isWorking
  /\ \E result \in {"READY", "DDMAERR"} : Done(result)
  /\ tag' = Target
  /\ diskBuf' = Fetched
  /\ UNCHANGED <<currCyl, medium>>

CompleteWrite ==
  /\ Completes("DWRITEBLK") /\ isWorking
  /\ Done("READY")
  /\ medium' = [medium EXCEPT ![Target] = diskBuf]
  /\ UNCHANGED <<currCyl, tag, diskBuf>>

(* Mutant: the simulated error of a write is missing. *)
FailReadOnly ==
  /\ ~isWorking
  /\ Completes("DREADBLK") /\ Done("DREADERR")
  /\ tag' = None
  /\ UNCHANGED <<currCyl, diskBuf, medium>>

(* Mutant: a failed transfer does not invalidate the buffer. *)
FailKeepsTag ==
  /\ ~isWorking
  /\ \/ Completes("DREADBLK") /\ Done("DREADERR")
     \/ Completes("DWRITEBLK") /\ Done("DWRITERR")
  /\ UNCHANGED <<currCyl, tag, diskBuf, medium>>

(* The simulated error of a transfer invalidates the buffer. *)
FailTransfer ==
  /\ ~isWorking
  /\ \/ Completes("DREADBLK") /\ Done("DREADERR")
     \/ Completes("DWRITEBLK") /\ Done("DWRITERR")
  /\ tag' = None
  /\ UNCHANGED <<currCyl, diskBuf, medium>>

(* The user changes the condition of the drive, also in mid-operation. *)
SetCondition == /\ isWorking' = ~isWorking
                /\ UNCHANGED <<status, command, currCyl, tag, diskBuf, medium, irq, given>>

WriteDevReg == Reset \/ Ack \/ BadCommand \/ Seek \/ Read \/ Write

CompleteDevOp == \/ CompleteReset \/ CompleteSeek \/ CompleteRead \/ CompleteWrite
                 \/ FailTransfer

Next == WriteDevReg \/ CompleteDevOp \/ SetCondition

Spec == Init /\ [][Next]_vars

(* The completion of an operation is an event, and events fire. *)
Fairness == WF_vars(CompleteDevOp)

FairSpec == Spec /\ Fairness

-----------------------------------------------------------------------------

(* The buffer never lies: when it claims to hold a sector it holds what    *)
(* the image has there, or what the write in progress is about to put.     *)
BufferCoherent ==
  tag # None => \/ diskBuf = medium[tag]
                \/ Completes("DWRITEBLK") /\ tag = Target /\ diskBuf = given

(* A read that succeeds delivers the sector under the heads, from the      *)
(* buffer or from the image, whatever failed in between.                   *)
ReadsSector ==
  [][CompleteRead => Fetched = medium[Target]]_vars

phase == IF status = "BUSY" THEN "busy" ELSE IF irq THEN "pending" ELSE "idle"

(* Every operation ends. *)
OperationEnds == status = "BUSY" ~> status # "BUSY"

(* After a write that was reported successful the buffer is still valid.   *)
BufferValidAfterWrite ==
  [][CompleteWrite => tag' = Target /\ medium'[Target] = given]_vars
==============================================================================
