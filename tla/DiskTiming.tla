------------------------------- MODULE DiskTiming -------------------------------
(***************************************************************************)
(* When the operations of a disk drive end (DiskDevice::WriteDevReg in     *)
(* umps/device.cc): the time of a seek, of a reset, and of the way of a    *)
(* sector to the head of a disk that turns with the time of day. What the  *)
(* operations do is the subject of Disk, which lets them take any time.    *)
(***************************************************************************)
EXTENDS Integers

CONSTANTS
  SectNum, NCyl,   \* sectors of a track, cylinders
  SectTicks,       \* DiskDevice::sectTicks, ticks a sector takes to pass the head
  DataTicks,       \* those of them with data
  SeekTime,        \* ticks from a cylinder to the next
  DMATICKS, DISKRESETTIME,
  MaxTod           \* bound: the time of day stops before its low word wraps

VARIABLES
  tod,        \* SystemBus::getToDLO
  status,     \* READY or BUSY
  command,    \* the operation: [op, to], a sector or a cylinder
  currCyl,    \* cylinder the heads are on
  complTime   \* when the operation ends

vars == <<tod, status, command, currCyl, complTime>>

Sector == 0..SectNum-1

Distance(a, b) == IF a < b THEN b - a ELSE a - b

SectorAt(t) == (t \div SectTicks) % SectNum

(* Whole sectors that pass between the current one and the wanted one.     *)
Between(currSect, sect) ==
  IF sect > currSect THEN sect - currSect - 1 ELSE SectNum - 1 - (currSect - sect)

(* From t on, to the end of the data of a sector.                          *)
Turned(t, sect) == (t % SectTicks) + SectTicks * Between(SectorAt(t), sect) + DataTicks

(* Every step of the machine ticks the clock before its cores run.         *)
Init ==
  /\ tod = 1 /\ status = "READY" /\ currCyl = 0 /\ complTime = 0
  /\ command = [op |-> "RESET", to |-> 0]

scheduleIOEvent(op, to, timeOfs) ==
  /\ status = "READY"
  /\ status' = "BUSY" /\ command' = [op |-> op, to |-> to] /\ complTime' = tod + timeOfs
  /\ UNCHANGED <<tod, currCyl>>

RESET == scheduleIOEvent("RESET", 0, DISKRESETTIME + SeekTime * currCyl)

DSEEKCYL(cyl) == scheduleIOEvent("DSEEKCYL", cyl, SeekTime * Distance(currCyl, cyl) + 1)

DREADBLK(sect) == scheduleIOEvent("DREADBLK", sect, Turned(tod, sect) + DMATICKS)

(* The disk turns during the transfer from memory. *)
DWRITEBLK(sect) == scheduleIOEvent("DWRITEBLK", sect, DMATICKS + Turned(tod + DMATICKS, sect))

(* A read from the buffer, a write whose transfer from memory failed.      *)
NotFromDisk == scheduleIOEvent("DMA", 0, DMATICKS)

(* A seek that fails stops half-way. *)
CompleteDevOp ==
  /\ status = "BUSY" /\ tod = complTime
  /\ status' = "READY"
  /\ IF command.op = "DSEEKCYL" THEN currCyl' \in {command.to, (command.to + currCyl) \div 2}
     ELSE UNCHANGED currCyl
  /\ UNCHANGED <<tod, command, complTime>>

ClockTick ==
  /\ tod < MaxTod /\ (status = "BUSY" => tod < complTime)
  /\ tod' = tod + 1
  /\ UNCHANGED <<status, command, currCyl, complTime>>

Next ==
  \/ RESET \/ NotFromDisk \/ CompleteDevOp \/ ClockTick
  \/ \E cyl \in 0..NCyl-1 : DSEEKCYL(cyl)
  \/ \E sect \in Sector : DREADBLK(sect) \/ DWRITEBLK(sect)

Spec == Init /\ [][Next]_vars
-----------------------------------------------------------------------------
(* An operation on a sector takes the rest of the current sector, those in *)
(* between and the wanted one: its data begins when that sector reaches    *)
(* the head.                                                               *)
OnSector ==
  status = "BUSY" /\ command.op \in {"DREADBLK", "DWRITEBLK"} =>
    LET end == IF command.op = "DREADBLK" THEN complTime - DMATICKS ELSE complTime
    IN  (end - DataTicks) % (SectTicks * SectNum) = SectTicks * command.to
=============================================================================
