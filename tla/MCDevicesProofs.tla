---------------------------- MODULE MCDevicesProofs ----------------------------
(***************************************************************************)
(* Proofs about the devices of MCDevices, for every geometry, every set of *)
(* contents, all times and all bounds: first about each device, then about *)
(* MCSpec, of which the runs check small instances.                        *)
(***************************************************************************)
EXTENDS MCDevices, Sequences, TLAPS

-----------------------------------------------------------------------------
(* The disk drive.                                                         *)

(* The buffer in mid-transfer: what is being read or written is what it    *)
(* holds, if it holds anything.                                            *)
TransferInv ==
  Completes("DREADBLK") \/ Completes("DWRITEBLK") =>
    /\ tag \in {None, Target}
    /\ Completes("DWRITEBLK") /\ tag # None => diskBuf = given

IInv == /\ TypeOK
        /\ BufferCoherent
        /\ TransferInv

LEMMA InitIInv == Init => IInv
<1> SUFFICES ASSUME Init
             PROVE  IInv
  OBVIOUS
<1>1. 0 \in Cyl
  BY CylAssumption DEF Cyl
<1>2. command \in [op : Op, cyl : Cyl, spot : Spot]
  BY <1>1 DEF Init, Op
<1>3. medium \in [Sector -> Block] /\ diskBuf \in Block
  <2>1. diskBuf \in Val /\ medium \in [Sector -> Val]
    BY DEF Init
  <2>2. Val \subseteq Block
    BY DEF Block
  <2>3. QED
    BY <2>1, <2>2
<1>4. TypeOK
  BY <1>1, <1>2, <1>3 DEF Init, TypeOK, Status
<1>5. BufferCoherent /\ TransferInv
  BY DEF Init, BufferCoherent, TransferInv, Completes
<1>6. QED
  BY <1>4, <1>5 DEF IInv

(* The heads stay on the drive, halfway or not. *)
LEMMA Halfway == \A c, d \in Cyl : (c + d) \div 2 \in Cyl
  BY CylAssumption DEF Cyl

LEMMA TypeStep == TypeOK /\ Next => TypeOK'
<1> SUFFICES ASSUME TypeOK, Next
             PROVE  TypeOK'
  OBVIOUS
<1> USE DEF TypeOK, Status, Op, Block
<1>0. \A p \in Spot : <<currCyl, p>> \in Sector
  BY DEF Sector
<1>1. CASE Reset \/ Ack \/ BadCommand \/ Seek
  BY <1>1 DEF Reset, Ack, BadCommand, Seek, Accept, Refuse
<1>2. CASE Read \/ Write
  BY <1>2, <1>0 DEF Read, Write, Accept
<1>3. CASE CompleteReset \/ FailTransfer
  BY <1>3 DEF CompleteReset, FailTransfer, Done
<1>4. CASE CompleteSeek
  <2>1. command.cyl \in Cyl
    OBVIOUS
  <2>2. currCyl' \in Cyl
    BY <1>4, <2>1, Halfway DEF CompleteSeek
  <2>3. QED
    BY <1>4, <2>2 DEF CompleteSeek, Done
<1>5. Target \in Sector
  BY <1>0 DEF Target
<1>6. CASE CompleteRead
  BY <1>5, <1>6 DEF CompleteRead, Done, Fetched
<1>7. CASE CompleteWrite
  BY <1>5, <1>7 DEF CompleteWrite, Done
<1>8. CASE SetCondition
  BY <1>8 DEF SetCondition
<1>9. QED
  BY <1>1, <1>2, <1>3, <1>4, <1>6, <1>7, <1>8 DEF Next, WriteDevReg, CompleteDevOp

LEMMA BufferStep == IInv /\ Next => BufferCoherent' /\ TransferInv'
<1> SUFFICES ASSUME IInv, Next
             PROVE  BufferCoherent' /\ TransferInv'
  OBVIOUS
<1> USE DEF IInv, BufferCoherent, TransferInv, Completes, Target
<1>1. CASE WriteDevReg
  <2>1. /\ status # "BUSY"
        /\ UNCHANGED <<currCyl, medium>>
        /\ tag # None => diskBuf = medium[tag]
    BY <1>1 DEF WriteDevReg, Free, Reset, Ack, BadCommand, Seek, Read, Write
  <2>2. CASE Ack \/ BadCommand
    BY <2>1, <2>2 DEF Ack, BadCommand, Refuse
  <2>3. CASE Reset \/ Seek
    BY <2>1, <2>3 DEF Reset, Seek, Accept, TypeOK
  <2>4. CASE Read
    BY <2>1, <2>4 DEF Read, Accept, TypeOK
  <2>5. CASE Write
    BY <2>1, <2>5 DEF Write, Accept, TypeOK
  <2>6. QED
    BY <1>1, <2>2, <2>3, <2>4, <2>5 DEF WriteDevReg
<1>2. CASE CompleteReset \/ FailTransfer
  BY <1>2 DEF CompleteReset, FailTransfer, Done
<1>3. CASE CompleteSeek
  BY <1>3 DEF CompleteSeek, Done
<1>4. CASE CompleteRead
  BY <1>4 DEF CompleteRead, Done, Fetched
<1>5. CASE CompleteWrite
  <2>1. Target \in Sector /\ medium \in [Sector -> Block]
    BY DEF TypeOK, Sector
  <2>2. QED
    BY <1>5, <2>1 DEF CompleteWrite, Done
<1>6. CASE SetCondition
  BY <1>6 DEF SetCondition
<1>7. QED
  BY <1>1, <1>2, <1>3, <1>4, <1>5, <1>6 DEF Next, CompleteDevOp

LEMMA NextIInv == IInv /\ [Next]_vars => IInv'
<1>1. IInv /\ Next => IInv'
  BY TypeStep, BufferStep DEF IInv
<1>2. IInv /\ UNCHANGED vars => IInv'
  BY DEF IInv, vars, TypeOK, BufferCoherent, TransferInv, Completes, Target
<1>3. QED
  BY <1>1, <1>2

(* The inductive invariant. *)
THEOREM Invariant == Spec => []IInv
  BY InitIInv, NextIInv, PTL DEF Spec

(* The drive's state keeps its type: the heads stay on its cylinders, even *)
(* if a seek fails halfway (DiskDevice::CompleteDevOp).                    *)
THEOREM TypeCorrect == Spec => []TypeOK
  BY Invariant, PTL DEF IInv

(* The sector buffer never lies: after failed reads and writes, seeks that *)
(* stop halfway and resets it holds what the image has in the sector it    *)
(* claims, or what the write in progress puts there (cylBuf, headBuf and   *)
(* sectBuf of DiskDevice).                                                 *)
THEOREM BufferNeverLies == Spec => []BufferCoherent
  BY Invariant, PTL DEF IInv

(* A read that succeeds delivers the sector under the heads, though it may *)
(* take it from the buffer (DiskDevice::CompleteDevOp).                    *)
THEOREM ReadsDeliver == Spec => ReadsSector
<1>1. IInv => (CompleteRead => Fetched = medium[Target])
  BY DEF IInv, BufferCoherent, TransferInv, CompleteRead, Completes, Fetched
<1>2. IInv /\ [Next]_vars => [CompleteRead => Fetched = medium[Target]]_vars
  BY <1>1
<1>3. QED
  BY <1>2, Invariant, PTL DEF Spec, ReadsSector

-----------------------------------------------------------------------------

Device == INSTANCE DeviceProtocol

LEMMA DiskPhase == [Next]_vars => [Device!Next]_phase
<1> SUFFICES ASSUME [Next]_vars
             PROVE  Device!Next \/ UNCHANGED phase
  OBVIOUS
<1> USE DEF phase, Free, Accept, Refuse, Done, Completes,
            Device!Next, Device!Start, Device!Reject, Device!Acknowledge, Device!Complete
<1>1. CASE Reset \/ Seek \/ Read \/ Write
  BY <1>1 DEF Reset, Seek, Read, Write
<1>2. CASE Ack \/ BadCommand
  BY <1>2 DEF Ack, BadCommand
<1>3. CASE CompleteReset \/ CompleteSeek \/ FailTransfer
  BY <1>3 DEF CompleteReset, CompleteSeek, FailTransfer
<1>4. CASE CompleteRead \/ CompleteWrite
  BY <1>4 DEF CompleteRead, CompleteWrite
<1>5. CASE SetCondition \/ UNCHANGED vars
  BY <1>5 DEF SetCondition, vars
<1>6. QED
  BY <1>1, <1>2, <1>3, <1>4, <1>5 DEF Next, WriteDevReg, CompleteDevOp

(* A disk is a device for its driver: it ignores commands while it is busy,*)
(* completes each operation once and interrupts (DeviceProtocol).          *)
THEOREM DiskImplementsDevice == Spec => Device!Spec
<1>1. Init => Device!Init
  BY DEF Init, Device!Init, phase
<1>2. [Next]_vars => [Device!Next]_phase
  BY DiskPhase
<1>3. QED
  BY <1>1, <1>2, PTL DEF Spec, Device!Spec

-----------------------------------------------------------------------------
(* The flash device.                                                       *)

(* The buffer in mid-transfer, as in the disk drive; a write whose buffer  *)
(* is invalid is one whose transfer failed.                                *)
FTransferInv ==
  fStatus = "BUSY" /\ fOp \in {"FREADBLK", "FWRITEBLK"} =>
    /\ block \in F!Blocks
    /\ blockBuf \in {None, block}
    /\ fOp = "FWRITEBLK" => IF blockBuf # None THEN flashBuf = fGiven ELSE fGiven = Junk

FInv == F!TypeOK /\ F!FlashCoherent /\ FTransferInv

LEMMA InitFInv == F!Init => FInv
<1> SUFFICES ASSUME F!Init
             PROVE  FInv
  OBVIOUS
<1>1. flashFile \in [F!Blocks -> Val \cup {Junk}]
  BY DEF F!Init
<1>2. F!TypeOK
  BY <1>1 DEF F!Init, F!TypeOK
<1>3. QED
  BY <1>2 DEF F!Init, FInv, FTransferInv, F!FlashCoherent

LEMMA FTypeStep == FInv /\ F!Next => F!TypeOK'
<1> SUFFICES ASSUME FInv, F!Next
             PROVE  F!TypeOK'
  OBVIOUS
<1> USE FlashAssumption DEF FInv, F!TypeOK
<1>0. F!Blocks \subseteq Nat
  BY DEF F!Blocks
<1>1. CASE F!Reset \/ F!Ack \/ F!BadCommand
  <2>1. PICK o \in {"RESET", "ACK", "FREADBLK", "FWRITEBLK", "other"}, b \in Nat,
             s \in {"READY", "ILOPERR", "BUSY", "FREADERR", "FWRITERR"} : F!Command(o, b, s)
    BY <1>1 DEF F!Reset, F!Ack, F!BadCommand
  <2>2. UNCHANGED <<blockBuf, flashBuf, fGiven>>
    BY <1>1 DEF F!Reset, F!Ack, F!BadCommand
  <2>3. QED
    BY <2>1, <2>2 DEF F!Command
<1>3. CASE F!Read
  <2>1. PICK b \in F!Blocks : F!Command("FREADBLK", b, "BUSY")
                             /\ blockBuf' = IF blockBuf = b THEN b ELSE None
    BY <1>3 DEF F!Read
  <2>2. b \in Nat /\ blockBuf' \in F!Blocks \cup {None}
    BY <1>0, <2>1
  <2>3. UNCHANGED <<flashBuf, fGiven>>
    BY <1>3 DEF F!Read
  <2>4. QED
    BY <2>1, <2>2, <2>3 DEF F!Command
<1>4. CASE F!Write
  <2>1. PICK b \in F!Blocks, d \in Val :
          /\ F!Command("FWRITEBLK", b, "BUSY")
          /\ \/ blockBuf' = b /\ flashBuf' = d /\ fGiven' = d
             \/ blockBuf' = None /\ flashBuf' \in {flashBuf, Junk} /\ fGiven' = Junk
    BY <1>4 DEF F!Write
  <2>2. /\ b \in Nat /\ blockBuf' \in F!Blocks \cup {None}
        /\ flashBuf' \in Val \cup {Junk} /\ fGiven' \in Val \cup {Junk}
    BY <1>0, <2>1
  <2>3. QED
    BY <2>1, <2>2 DEF F!Command
<1>5. CASE F!CompleteReset \/ F!FailTransfer
  BY <1>5 DEF F!CompleteReset, F!FailTransfer, F!Completes
<1>6. CASE F!CompleteRead \/ F!CompleteWrite
  <2>1. block \in F!Blocks
    BY <1>6 DEF F!CompleteRead, F!CompleteWrite, F!Completes, FTransferInv
  <2>2. F!Fetched \in Val \cup {Junk}
    BY <2>1 DEF F!Fetched
  <2>3. QED
    BY <1>6, <2>1, <2>2 DEF F!CompleteRead, F!CompleteWrite, F!Completes
<1>7. CASE F!SetCondition
  BY <1>7 DEF F!SetCondition
<1>8. QED
  BY <1>1, <1>3, <1>4, <1>5, <1>6, <1>7 DEF F!Next, F!WriteDevReg, F!CompleteDevOp

LEMMA FBufferStep == FInv /\ F!Next => F!FlashCoherent' /\ FTransferInv'
<1> SUFFICES ASSUME FInv, F!Next
             PROVE  F!FlashCoherent' /\ FTransferInv'
  OBVIOUS
<1> USE FlashAssumption DEF FInv, F!FlashCoherent, FTransferInv
<1>1. CASE F!Reset \/ F!Ack \/ F!BadCommand
  BY <1>1 DEF F!Reset, F!Ack, F!BadCommand, F!Command
<1>2. CASE F!Read
  <2>1. PICK b \in F!Blocks : F!Command("FREADBLK", b, "BUSY")
                             /\ blockBuf' = IF blockBuf = b THEN b ELSE None
    BY <1>2 DEF F!Read
  <2>2. QED
    BY <1>2, <2>1 DEF F!Read, F!Command
<1>3. CASE F!Write
  <2>1. PICK b \in F!Blocks, d \in Val :
          /\ F!Command("FWRITEBLK", b, "BUSY")
          /\ \/ blockBuf' = b /\ flashBuf' = d /\ fGiven' = d
             \/ blockBuf' = None /\ flashBuf' \in {flashBuf, Junk} /\ fGiven' = Junk
    BY <1>3 DEF F!Write
  <2>2. UNCHANGED <<flashFile, told>> /\ fStatus' = "BUSY" /\ fOp' = "FWRITEBLK" /\ block' = b
    BY <2>1 DEF F!Command
  <2>3. None \notin F!Blocks
    BY DEF F!Blocks
  <2>4. QED
    BY <2>1, <2>2, <2>3
<1>4. CASE F!CompleteReset \/ F!FailTransfer
  BY <1>4 DEF F!CompleteReset, F!FailTransfer, F!Completes
<1>5. CASE F!CompleteRead
  BY <1>5 DEF F!CompleteRead, F!Completes, F!Fetched
<1>6. CASE F!CompleteWrite
  BY <1>6 DEF F!CompleteWrite, F!Completes, F!TypeOK
<1>7. CASE F!SetCondition
  BY <1>7 DEF F!SetCondition
<1>8. QED
  BY <1>1, <1>2, <1>3, <1>4, <1>5, <1>6, <1>7 DEF F!Next, F!WriteDevReg, F!CompleteDevOp

LEMMA FStutter == FInv /\ UNCHANGED fVars => FInv'
  BY DEF fVars, FInv, F!TypeOK, F!FlashCoherent, FTransferInv

LEMMA NextFInv == FInv /\ F!Next => FInv'
  BY FTypeStep, FBufferStep DEF FInv

(* A valid buffer is of the block that is being read. *)
LEMMA FReads == FInv => F!ReadsBlock
  BY DEF FInv, F!ReadsBlock, F!FlashCoherent, FTransferInv, F!Fetched

-----------------------------------------------------------------------------
(* The printer.                                                            *)

(* While a character is printed DATA0 holds the character asked for. *)
PInv == /\ P!TypeOK
        /\ P!PrintsAsked
        /\ pStatus = "BUSY" /\ pOp = "PRNTCHR" => data0 = asked

LEMMA InitPInv == P!Init => PInv
<1>1. ASSUME P!Init
      PROVE  prntFile \in Seq(Val) /\ confirmed \in Seq(Val)
  BY <1>1 DEF P!Init
<1>2. QED
  BY <1>1 DEF P!Init, PInv, P!TypeOK, P!PrintsAsked

LEMMA NextPInv == PInv /\ P!Next => PInv'
<1> SUFFICES ASSUME PInv, P!Next
             PROVE  PInv'
  OBVIOUS
<1> USE DEF PInv, P!TypeOK, P!PrintsAsked
<1>1. CASE P!Reset \/ P!Ack \/ P!BadCommand
  BY <1>1 DEF P!Reset, P!Ack, P!BadCommand, P!Command
<1>2. CASE P!PrintChr
  BY <1>2 DEF P!PrintChr, P!Command
<1>3. CASE P!SetData
  BY <1>3 DEF P!SetData
<1>4. CASE P!CompleteReset \/ P!FailPrint
  BY <1>4 DEF P!CompleteReset, P!FailPrint, P!Completes
<1>5. CASE P!CompletePrint
  <2>1. Append(prntFile, data0) \in Seq(Val) /\ Append(confirmed, asked) \in Seq(Val)
    OBVIOUS
  <2>2. QED
    BY <1>5, <2>1 DEF P!CompletePrint, P!Completes
<1>6. CASE P!SetCondition
  BY <1>6 DEF P!SetCondition
<1>7. QED
  BY <1>1, <1>2, <1>3, <1>4, <1>5, <1>6 DEF P!Next, P!WriteDevReg, P!CompleteDevOp

LEMMA PStutter == PInv /\ UNCHANGED pVars => PInv'
  BY DEF pVars, PInv, P!TypeOK, P!PrintsAsked

-----------------------------------------------------------------------------
(* The network interface.                                                  *)

LEMMA NLaterFacts ==
  /\ N!Later \subseteq Nat /\ 0 \in N!Later /\ OpTimes \subseteq N!Later /\ PollTime \in N!Later
  /\ \A t \in N!Later : t # 0 => t - 1 \in N!Later
  /\ \A t \in Nat : t + 1 \in N!Later => t \in N!Later
<1> DEFINE Times == OpTimes \cup {PollTime}
           longest == CHOOSE m \in Times : \A t \in Times : t <= m
<1>1. longest \in Times /\ \A t \in Times : t <= longest
  BY NetworkAssumption
<1>2. N!Later = 0..longest
  BY DEF N!Later
<1> HIDE DEF longest
<1>3. Times \subseteq Nat
  BY NetworkAssumption
<1>4. longest \in Nat /\ Times \subseteq 0..longest
  <2> HIDE DEF Times
  <2>1. longest \in Nat
    BY <1>1, <1>3
  <2>2. QED
    BY <1>1, <1>3, <2>1
<1>5. QED
  BY <1>2, <1>4

NInv == N!TypeOK /\ N!OneEventEach /\ N!Listening

LEMMA InitNInv == N!Init => NInv
<1> SUFFICES ASSUME N!Init
             PROVE  NInv
  OBVIOUS
<1> USE NetworkAssumption, NLaterFacts DEF N!Init
<1>1. N!TypeOK
  <2>1. nEvents \in [N!Later -> 0..2]
    OBVIOUS
  <2>2. 0 \in 0..MaxWire /\ 0 \in 0..MaxQueue
    OBVIOUS
  <2>3. QED
    BY <2>1, <2>2 DEF N!TypeOK, N!READY, N!ILOPERR, N!BUSY, N!DREADERR, N!DWRITERR, N!DDMAERR
<1>2. nEvents = N!Due(0, 0)
  BY DEF N!Due, N!Bit, N!Busy, N!READY, N!BUSY
<1>3. QED
  BY <1>1, <1>2 DEF NInv, N!OneEventEach, N!Listening

NCode == {N!READY, N!ILOPERR, N!DREADERR, N!DWRITERR, N!FDMAERR, N!DDMAERR}


(* The callbacks, seen tick by tick. *)
LEMMA NDueAt ==
  ASSUME NEW p \in N!Later, NEW o \in N!Later
  PROVE  /\ nEvents = N!Due(p, o) <=>
              /\ nEvents = [t \in N!Later |-> nEvents[t]]
              /\ \A t \in N!Later : nEvents[t] = (IF polling /\ t = p THEN 1 ELSE 0)
                                                + (IF N!Busy /\ t = o THEN 1 ELSE 0)
         /\ nEvents' = N!Due(p, o)' <=>
              /\ nEvents' = [t \in N!Later |-> nEvents'[t]]
              /\ \A t \in N!Later : nEvents'[t] = (IF polling' /\ t = p THEN 1 ELSE 0)
                                                 + (IF N!Busy' /\ t = o THEN 1 ELSE 0)
<1>1. /\ N!Due(p, o) = [t \in N!Later |-> (IF polling /\ t = p THEN 1 ELSE 0)
                                           + (IF N!Busy /\ t = o THEN 1 ELSE 0)]
      /\ N!Due(p, o)' = [t \in N!Later |-> (IF polling' /\ t = p THEN 1 ELSE 0)
                                            + (IF N!Busy' /\ t = o THEN 1 ELSE 0)]
  BY DEF N!Due, N!Bit
<1>2. QED
  BY <1>1

(* What an operation does that completes, as far as the invariant goes.    *)
LEMMA NOperationStep ==
  ASSUME NInv, NEW op, NEW code \in NCode, NEW rp, N!Operation(op, code, rp)
  PROVE  /\ \E p, o \in N!Later : nEvents' = N!Due(p, o)'
         /\ nStatus' = code /\ ~N!Busy'
         /\ toGo' = 0 /\ nIrq' = TRUE /\ polling' \in BOOLEAN
         /\ UNCHANGED <<nCommand, nWorking>>
         /\ polling => polling'
         /\ interrupts' /\ ~rp => polling'
         /\ polling' => polling \/ ~rp
<1> USE NLaterFacts DEF NInv, N!TypeOK
<1>1. nStatus' = code /\ toGo' = 0 /\ nIrq' = TRUE /\ UNCHANGED <<nCommand, nWorking>>
  BY DEF N!Operation
<1>2. ~N!Busy'
  BY <1>1 DEF N!Busy, NCode, N!READY, N!ILOPERR, N!BUSY, N!DREADERR, N!DWRITERR, N!FDMAERR, N!DDMAERR
<1>3. PICK p, o \in N!Later : nEvents = N!Due(p, o)
  BY DEF N!OneEventEach
<1>4. \A t \in N!Later : nEvents[t] = (IF polling /\ t = p THEN 1 ELSE 0)
                                   + (IF N!Busy /\ t = o THEN 1 ELSE 0)
  BY <1>3, NDueAt
<1>5. nEvents[0] > 0 /\ ~(polling /\ ~N!Busy)
  BY DEF N!Operation
<1>6. N!Busy /\ ((polling /\ p = 0) \/ o = 0)
  BY <1>4, <1>5
<1>7. CASE polling
  <2>1. polling' = polling /\ nEvents' = [nEvents EXCEPT ![0] = @ - 1]
    BY <1>7 DEF N!Operation, N!PollingDone
  <2>2. nEvents' = [t \in N!Later |-> nEvents'[t]]
    BY <2>1
  <2>3. CASE p = 0
    <3>1. \A t \in N!Later : nEvents'[t] = (IF polling' /\ t = o THEN 1 ELSE 0)
                                         + (IF N!Busy' /\ t = 0 THEN 1 ELSE 0)
      BY <1>2, <1>4, <1>6, <1>7, <2>1, <2>3
    <3>2. nEvents' = N!Due(o, 0)'
      BY <2>2, <3>1, NDueAt
    <3>3. QED
      BY <1>1, <1>2, <1>7, <2>1, <3>2
  <2>4. CASE o = 0
    <3>1. \A t \in N!Later : nEvents'[t] = (IF polling' /\ t = p THEN 1 ELSE 0)
                                         + (IF N!Busy' /\ t = 0 THEN 1 ELSE 0)
      BY <1>2, <1>4, <1>6, <1>7, <2>1, <2>4
    <3>2. nEvents' = N!Due(p, 0)'
      BY <2>2, <3>1, NDueAt
    <3>3. QED
      BY <1>1, <1>2, <1>7, <2>1, <3>2
  <2>5. QED
    BY <1>6, <2>3, <2>4
<1>8. CASE ~polling
  <2>1. o = 0
    BY <1>6, <1>8
  <2>2. CASE interrupts' /\ ~rp
    <3>1. polling' = TRUE /\ nEvents' = [nEvents EXCEPT ![0] = @ - 1, ![PollTime] = @ + 1]
      BY <1>8, <2>2 DEF N!Operation, N!PollAgain
    <3>2. nEvents' = [t \in N!Later |-> nEvents'[t]]
      BY <3>1
    <3>3. \A t \in N!Later : nEvents'[t] = (IF polling' /\ t = PollTime THEN 1 ELSE 0)
                                         + (IF N!Busy' /\ t = 0 THEN 1 ELSE 0)
      BY <1>2, <1>4, <1>6, <1>8, <2>1, <3>1
    <3>4. nEvents' = N!Due(PollTime, 0)'
      BY <3>2, <3>3, NDueAt
    <3>5. QED
      BY <1>1, <1>2, <1>8, <2>2, <3>1, <3>4
  <2>3. CASE ~(interrupts' /\ ~rp)
    <3>1. polling' = polling /\ nEvents' = [nEvents EXCEPT ![0] = @ - 1]
      BY <1>8, <2>3 DEF N!Operation, N!PollingDone
    <3>2. nEvents' = [t \in N!Later |-> nEvents'[t]]
      BY <3>1
    <3>3. \A t \in N!Later : nEvents'[t] = (IF polling' /\ t = 0 THEN 1 ELSE 0)
                                         + (IF N!Busy' /\ t = 0 THEN 1 ELSE 0)
      BY <1>2, <1>4, <1>6, <1>8, <2>1, <3>1
    <3>4. nEvents' = N!Due(0, 0)'
      BY <3>2, <3>3, NDueAt
    <3>5. QED
      BY <1>1, <1>2, <1>8, <2>3, <3>1, <3>4
  <2>4. QED
    BY <2>2, <2>3
<1>9. QED
  BY <1>7, <1>8

(* The type of everything but the callbacks. *)
NRegisters == /\ nStatus \in NCode \cup {N!BUSY}
              /\ readPending \in BOOLEAN
              /\ nCommand \in {"RESET", "ACK", "READCONF", "CONFIGURE", "READNET", "WRITENET", "other"}
              /\ toGo \in N!Later
              /\ polling \in BOOLEAN
              /\ interrupts \in BOOLEAN
              /\ nWorking \in BOOLEAN
              /\ wire \in 0..MaxWire
              /\ queue \in 0..MaxQueue
              /\ unheard \in BOOLEAN /\ nIrq \in BOOLEAN

LEMMA NRegistersType ==
  ASSUME NRegisters', NEW p \in N!Later, NEW o \in N!Later, nEvents' = N!Due(p, o)'
  PROVE  N!TypeOK'
<1>1. nEvents' \in [N!Later -> 0..2]
  BY NDueAt
<1>2. QED
  BY <1>1 DEF NRegisters, N!TypeOK, NCode, N!READY, N!ILOPERR, N!BUSY, N!DREADERR, N!DWRITERR,
              N!FDMAERR, N!DDMAERR

LEMMA NTypeRegisters == N!TypeOK => NRegisters
  BY DEF NRegisters, N!TypeOK, NCode, N!READY, N!ILOPERR, N!BUSY, N!DREADERR, N!DWRITERR,
         N!FDMAERR, N!DDMAERR

LEMMA NStartStep == NInv /\ N!StartOp => NInv'
<1> SUFFICES ASSUME NInv, N!StartOp
             PROVE  NInv'
  OBVIOUS
<1>1. PICK p, o \in N!Later : nEvents = N!Due(p, o)
  BY DEF NInv, N!OneEventEach
<1>2. PICK d \in OpTimes : toGo' = d /\ nEvents' = [nEvents EXCEPT ![d] = @ + 1]
  BY DEF N!StartOp
<1>3. d \in N!Later
  BY NLaterFacts
<1>4. /\ ~N!Busy /\ N!Busy' /\ nStatus' = N!BUSY /\ nIrq' = FALSE /\ unheard' = FALSE
      /\ nCommand' \in {"RESET", "READCONF", "CONFIGURE", "READNET", "WRITENET"}
      /\ UNCHANGED <<readPending, polling, interrupts, nWorking, wire, queue>>
  BY DEF N!StartOp, N!Busy, N!network
<1>5. NRegisters'
  BY <1>2, <1>3, <1>4, NTypeRegisters DEF NInv, NRegisters
<1>6. \A t \in N!Later : nEvents[t] = IF polling /\ t = p THEN 1 ELSE 0
  BY <1>1, <1>4, NDueAt
<1>7. \A t \in N!Later : nEvents'[t] = (IF polling' /\ t = p THEN 1 ELSE 0)
                                     + (IF N!Busy' /\ t = d THEN 1 ELSE 0)
  BY <1>2, <1>3, <1>4, <1>6 DEF NInv, N!TypeOK
<1>8. nEvents' = [t \in N!Later |-> nEvents'[t]]
  BY <1>2, <1>3 DEF NInv, N!TypeOK
<1>9. nEvents' = N!Due(p, d)'
  BY <1>3, <1>7, <1>8, NDueAt
<1>10. N!TypeOK'
  BY <1>3, <1>5, <1>9, NRegistersType
<1>11. QED
  BY <1>3, <1>4, <1>9, <1>10 DEF NInv, N!OneEventEach, N!Listening

LEMMA NCommandStep == NInv /\ (N!Ack \/ N!Refuse) => NInv'
<1> SUFFICES ASSUME NInv, N!Ack \/ N!Refuse
             PROVE  NInv'
  OBVIOUS
<1>1. PICK p, o \in N!Later : nEvents = N!Due(p, o)
  BY DEF NInv, N!OneEventEach
<1>2. /\ ~N!Busy /\ ~N!Busy' /\ nStatus' \in NCode /\ nIrq' \in BOOLEAN
      /\ nCommand' \in {"ACK", "WRITENET", "other"}
      /\ UNCHANGED <<readPending, toGo, polling, nEvents, interrupts, nWorking, wire, queue,
                     unheard>>
  <2>1. N!READY \in NCode /\ N!ILOPERR \in NCode /\ N!DDMAERR \in NCode /\ N!BUSY \notin NCode
    BY DEF NCode, N!READY, N!ILOPERR, N!BUSY, N!DREADERR, N!DWRITERR, N!FDMAERR, N!DDMAERR
  <2>2. CASE N!Ack
    BY <2>1, <2>2 DEF N!Ack, N!Busy, N!network
  <2>3. CASE N!Refuse
    BY <2>1, <2>3 DEF N!Refuse, N!Busy, N!network
  <2>4. QED
    BY <2>2, <2>3
<1>3. NRegisters'
  BY <1>2, NTypeRegisters DEF NInv, NRegisters
<1>4. nEvents' = N!Due(p, o)'
  BY <1>1, <1>2, NDueAt
<1>5. N!TypeOK'
  BY <1>3, <1>4, NRegistersType
<1>6. QED
  BY <1>2, <1>4, <1>5 DEF NInv, N!OneEventEach, N!Listening

LEMMA NPollStep == NInv /\ (N!PollFinds \/ N!PollNothing) => NInv'
<1> SUFFICES ASSUME NInv, N!PollFinds \/ N!PollNothing
             PROVE  NInv'
  OBVIOUS
<1> USE NLaterFacts
<1>1. PICK p, o \in N!Later : nEvents = N!Due(p, o)
  BY DEF NInv, N!OneEventEach
<1>2. nEvents[0] > 0 /\ polling /\ ~N!Busy /\ ~N!Busy'
  BY DEF N!PollFinds, N!PollNothing, N!IsPoll, N!Busy
<1>3. p = 0 /\ \A t \in N!Later : nEvents[t] = IF t = 0 THEN 1 ELSE 0
  BY <1>1, <1>2, NDueAt
<1>4. nEvents \in [N!Later -> 0..2]
  BY DEF NInv, N!TypeOK
<1>5. \E q, r \in N!Later : nEvents' = N!Due(q, r)'
  <2>1. CASE N!PollAgain /\ polling' = TRUE
    <3>1. nEvents' = [nEvents EXCEPT ![0] = @ - 1, ![PollTime] = @ + 1]
      BY <2>1 DEF N!PollAgain
    <3>2. nEvents' = [t \in N!Later |-> nEvents'[t]]
      BY <1>4, <3>1
    <3>3. \A t \in N!Later : nEvents'[t] = IF t = PollTime THEN 1 ELSE 0
      BY <1>3, <1>4, <3>1
    <3>4. nEvents' = N!Due(PollTime, 0)'
      BY <1>2, <2>1, <3>2, <3>3, NDueAt
    <3>5. QED
      BY <3>4
  <2>2. CASE N!PollingDone /\ polling' = FALSE
    <3>1. nEvents' = [nEvents EXCEPT ![0] = @ - 1]
      BY <2>2 DEF N!PollingDone
    <3>2. nEvents' = [t \in N!Later |-> nEvents'[t]]
      BY <1>4, <3>1
    <3>3. \A t \in N!Later : nEvents'[t] = 0
      BY <1>3, <1>4, <3>1
    <3>4. nEvents' = N!Due(0, 0)'
      BY <1>2, <2>2, <3>2, <3>3, NDueAt
    <3>5. QED
      BY <3>4
  <2>3. QED
    BY <2>1, <2>2 DEF N!PollFinds, N!PollNothing, NInv, N!TypeOK
<1>6. PICK q, r \in N!Later : nEvents' = N!Due(q, r)'
  BY <1>5
<1>7. N!Queued \in 0..MaxQueue
  BY NetworkAssumption DEF N!Queued, NInv, N!TypeOK
<1>8. NRegisters' /\ (interrupts' => polling' \/ readPending') /\ (polling' => ~readPending')
  <2>1. CASE N!PollFinds
    <3>1. /\ readPending' = TRUE /\ nIrq' = TRUE /\ polling' = FALSE
          /\ queue' = N!Queued /\ wire' = 0
          /\ UNCHANGED <<nStatus, nCommand, toGo, interrupts, nWorking, unheard>>
      BY <2>1 DEF N!PollFinds
    <3>2. 0 \in 0..MaxWire
      BY NetworkAssumption
    <3>3. QED
      BY <1>7, <3>1, <3>2, NTypeRegisters DEF NInv, NRegisters
  <2>2. CASE N!PollNothing
    <3>1. /\ polling' = interrupts /\ ~readPending
          /\ UNCHANGED <<nStatus, readPending, nCommand, toGo, interrupts, nWorking, wire, queue,
                         unheard, nIrq>>
      BY <2>2 DEF N!PollNothing, N!network
    <3>2. QED
      BY <3>1, NTypeRegisters DEF NInv, NRegisters
  <2>3. QED
    BY <2>1, <2>2
<1>9. N!TypeOK'
  BY <1>6, <1>8, NRegistersType
<1>10. QED
  BY <1>6, <1>8, <1>9 DEF NInv, N!OneEventEach, N!Listening

(* The invariant after the completion of an operation, from what the       *)
(* operation itself does to STATUS, the mode and the queue.                *)
LEMMA NCompletion ==
  ASSUME NInv, NEW op, NEW code \in NCode, NEW rp, N!Operation(op, code, rp),
         interrupts' \in BOOLEAN, readPending' \in BOOLEAN,
         wire' \in 0..MaxWire, queue' \in 0..MaxQueue, unheard' \in BOOLEAN,
         readPending' => rp /\ readPending,
         rp /\ ~polling => readPending' \/ (unheard' /\ queue' > 0)
  PROVE  NInv'
<1>1. PICK p, o \in N!Later : nEvents' = N!Due(p, o)'
  BY NOperationStep
<1>2. NRegisters'
  BY NOperationStep, NTypeRegisters, NLaterFacts DEF NInv, NRegisters
<1>3. N!TypeOK'
  BY <1>1, <1>2, NRegistersType
<1>4. N!OneEventEach'
  BY <1>1, NOperationStep DEF NInv, N!OneEventEach
<1>5. N!Listening'
  <2>1. (interrupts' /\ ~rp => polling') /\ (polling => polling')
    BY DEF N!Operation, NInv, N!TypeOK
  <2>2. QED
    BY <2>1 DEF N!Listening
<1>6. QED
  BY <1>3, <1>4, <1>5 DEF NInv

LEMMA NCompleteStep == NInv /\ N!CompleteOp => NInv'
<1> SUFFICES ASSUME NInv, N!CompleteOp
             PROVE  NInv'
  OBVIOUS
<1> USE DEF N!network
<1>1. /\ interrupts \in BOOLEAN /\ readPending \in BOOLEAN
      /\ wire \in 0..MaxWire /\ queue \in 0..MaxQueue /\ unheard \in BOOLEAN
      /\ polling \in BOOLEAN
  BY DEF NInv, N!TypeOK
<1>2. /\ N!READY \in NCode /\ N!FDMAERR \in NCode /\ N!DREADERR \in NCode /\ N!DWRITERR \in NCode
      /\ N!WithBit0(N!READY) \in NCode /\ N!WithBit0(N!FDMAERR) \in NCode
  BY DEF N!WithBit0, NCode, N!READY, N!ILOPERR, N!DREADERR, N!DWRITERR, N!FDMAERR, N!DDMAERR
<1>3. CASE N!CompleteReset \/ N!CompleteReadConf
  BY <1>1, <1>2, <1>3, NCompletion DEF N!CompleteReset, N!CompleteReadConf
<1>4. CASE N!CompleteConfigure
  BY <1>1, <1>2, <1>4, NCompletion DEF N!CompleteConfigure
<1>5. CASE N!CompleteReadNet
  <2> DEFINE more == N!Received + N!LeftOnWire
  <2>1. more \in Nat
    BY <1>1, NetworkAssumption DEF N!Received, N!Fetched, N!LeftOnWire, N!Queued
  <2>2. /\ interrupts' = interrupts /\ wire' = 0 /\ readPending' = FALSE
        /\ queue' = IF more <= MaxQueue THEN more ELSE MaxQueue
        /\ unheard' = (more > 0 /\ ~polling)
    BY <1>5 DEF N!CompleteReadNet
  <2>3. PICK code \in {N!READY, N!FDMAERR} :
           N!Operation("READNET", IF more > 0 THEN N!WithBit0(code) ELSE code, more > 0)
    BY <1>5 DEF N!CompleteReadNet
  <2>4. /\ (IF more > 0 THEN N!WithBit0(code) ELSE code) \in NCode
        /\ wire' \in 0..MaxWire /\ queue' \in 0..MaxQueue
    BY <1>2, <2>1, <2>2, NetworkAssumption
  <2>5. more > 0 => queue' > 0
    <3>1. MaxQueue > 0 \/ more = 0
      BY <1>1, NetworkAssumption DEF N!Received, N!Fetched, N!LeftOnWire, N!Queued
    <3>2. QED
      BY <2>1, <2>2, <3>1, NetworkAssumption
  <2> HIDE DEF more
  <2>6. QED
    BY <1>1, <2>2, <2>3, <2>4, <2>5, NCompletion
<1>6. CASE N!CompleteWriteNet
  BY <1>1, <1>2, <1>6, NCompletion DEF N!CompleteWriteNet
<1>7. CASE N!FailOperation
  BY <1>1, <1>2, <1>7, NCompletion DEF N!FailOperation
<1>8. QED
  BY <1>3, <1>4, <1>5, <1>6, <1>7 DEF N!CompleteOp

LEMMA NTickStep == NInv /\ N!Tick => NInv'
<1> SUFFICES ASSUME NInv, N!Tick
             PROVE  NInv'
  OBVIOUS
<1> DEFINE earlier(d) == IF d = 0 THEN 0 ELSE d - 1
<1>1. PICK p, o \in N!Later : nEvents = N!Due(p, o)
  BY DEF NInv, N!OneEventEach
<1>2. earlier(p) \in N!Later /\ earlier(o) \in N!Later
  BY NLaterFacts
<1>3. /\ nEvents[0] = 0
      /\ UNCHANGED <<nStatus, readPending, nCommand, polling, interrupts, nWorking, wire, queue,
                     unheard, nIrq>>
      /\ N!Busy' = N!Busy
      /\ nEvents' = [t \in N!Later |-> IF t + 1 \in N!Later THEN nEvents[t + 1] ELSE 0]
      /\ toGo' = IF N!Busy /\ toGo > 0 THEN toGo - 1 ELSE toGo
  BY DEF N!Tick, N!Drained, N!network, N!Busy
<1>4. \A t \in N!Later : nEvents[t] = (IF polling /\ t = p THEN 1 ELSE 0)
                                   + (IF N!Busy /\ t = o THEN 1 ELSE 0)
  BY <1>1, NDueAt
<1>5. (polling => p # 0) /\ (N!Busy => o # 0)
  BY <1>3, <1>4, NLaterFacts
<1>6. \A t \in N!Later : nEvents'[t] = (IF polling' /\ t = earlier(p) THEN 1 ELSE 0)
                                     + (IF N!Busy' /\ t = earlier(o) THEN 1 ELSE 0)
  <2> SUFFICES ASSUME NEW t \in N!Later
               PROVE  nEvents'[t] = (IF polling' /\ t = earlier(p) THEN 1 ELSE 0)
                                    + (IF N!Busy' /\ t = earlier(o) THEN 1 ELSE 0)
    OBVIOUS
  <2>1. t \in Nat /\ p \in Nat /\ o \in Nat
    BY NLaterFacts
  <2>2. nEvents'[t] = (IF polling /\ t + 1 = p THEN 1 ELSE 0) + (IF N!Busy /\ t + 1 = o THEN 1 ELSE 0)
    <3>1. CASE t + 1 \in N!Later
      BY <1>3, <1>4, <3>1
    <3>2. CASE t + 1 \notin N!Later
      <4>1. t + 1 # p /\ t + 1 # o /\ nEvents'[t] = 0
        BY <1>3, <3>2
      <4>2. QED
        BY <4>1
    <3>3. QED
      BY <3>1, <3>2
  <2>3. /\ polling => (t + 1 = p <=> t = earlier(p))
        /\ N!Busy => (t + 1 = o <=> t = earlier(o))
    BY <1>5, <2>1
  <2> HIDE DEF earlier
  <2>4. QED
    BY <1>3, <2>2, <2>3
<1>7. nEvents' = [t \in N!Later |-> nEvents'[t]]
  BY <1>3
<1>8. nEvents' = N!Due(earlier(p), earlier(o))'
  <2> HIDE DEF earlier
  <2>1. QED
    BY <1>2, <1>6, <1>7, NDueAt
<1>9. toGo' \in N!Later
  BY <1>3, NLaterFacts DEF NInv, N!TypeOK
<1>10. NRegisters'
  BY <1>3, <1>9, NTypeRegisters DEF NInv, NRegisters
<1>11. N!TypeOK'
  BY <1>2, <1>8, <1>10, NRegistersType
<1>12. QED
  BY <1>2, <1>3, <1>8, <1>11 DEF NInv, N!OneEventEach, N!Listening

LEMMA NStutter == NInv /\ UNCHANGED nVars => NInv'
  BY DEF nVars, NInv, N!TypeOK, N!OneEventEach, N!Due, N!Busy, N!Listening

LEMMA NextNInv == NInv /\ N!Next => NInv'
<1> SUFFICES ASSUME NInv, N!Next
             PROVE  NInv'
  OBVIOUS
<1>1. CASE N!Packet
  <2>1. /\ wire' \in 0..MaxWire
        /\ UNCHANGED <<nStatus, readPending, nCommand, toGo, polling, nEvents, interrupts, nWorking,
                       queue, unheard, nIrq>>
    BY <1>1, NetworkAssumption DEF N!Packet, N!device, NInv, N!TypeOK
  <2>2. QED
    BY <2>1 DEF NInv, N!TypeOK, N!OneEventEach, N!Due, N!Busy, N!Listening
<1>2. CASE N!SetCondition
  <2>1. /\ nWorking' \in BOOLEAN
        /\ UNCHANGED <<nStatus, readPending, nCommand, toGo, polling, nEvents, interrupts, wire,
                       queue, unheard, nIrq>>
    BY <1>2 DEF N!SetCondition, N!device, N!network
  <2>2. QED
    BY <2>1 DEF NInv, N!TypeOK, N!OneEventEach, N!Due, N!Busy, N!Listening
<1>3. QED
  BY <1>1, <1>2, NStartStep, NCommandStep, NPollStep, NCompleteStep, NTickStep
     DEF N!Next, N!CompleteDevOp

-----------------------------------------------------------------------------
(* The terminal, about which TerminalProofs says all there is to prove.    *)

TP == INSTANCE TerminalProofs WITH isWorking <- tWorking, events <- tEvents, irq <- tIrq

LEMMA SameInit == T!Init => TP!Init
  BY DEF T!Init, TP!Init, T!Idle, TP!Idle, T!Later, TP!Later

LEMMA SameNext == T!Next => TP!Next
<1>1. (T!WriteRecvCommand => TP!WriteRecvCommand) /\ (T!WriteTranCommand => TP!WriteTranCommand)
  BY DEF T!WriteRecvCommand, TP!WriteRecvCommand, T!WriteTranCommand, TP!WriteTranCommand,
      T!Command, TP!Command, T!Accept, TP!Accept, T!Acked, TP!Acked, T!Rejected, TP!Rejected,
      T!scheduleIOEvent, TP!scheduleIOEvent, T!IntAck, TP!IntAck, T!Drained, TP!Drained
<1>2. T!CompleteDevOp => TP!CompleteDevOp
  BY DEF T!CompleteDevOp, TP!CompleteDevOp, T!CompleteRecv, TP!CompleteRecv, T!PollRecv,
      TP!PollRecv, T!CompleteTran, TP!CompleteTran, T!Finish, TP!Finish, T!DoRecv, TP!DoRecv
<1>3. (T!Input => TP!Input) /\ (T!SetCondition => TP!SetCondition) /\ (T!Tick => TP!Tick)
  BY DEF T!Input, TP!Input, T!SetCondition, TP!SetCondition, T!Tick, TP!Tick, T!Drained, TP!Drained,
      T!Closer, TP!Closer, T!Later, TP!Later
<1>4. QED
  BY <1>1, <1>2, <1>3 DEF T!Next, TP!Next

LEMMA SameInvariants ==
  TP!IInv => T!TypeOK /\ T!IrqIffPending /\ T!OneEventEach
  BY DEF TP!IInv, T!TypeOK, TP!TypeOK, T!SubDevice, TP!SubDevice, T!Later, TP!Later, T!IrqIffPending,
      TP!IrqIffPending, T!OneEventEach, TP!OneEventEach, T!Bit, TP!Bit

LEMMA TTimes == TP!Times
  BY TerminalAssumption DEF TP!Times

LEMMA NextTInv == TP!IInv /\ T!Next => TP!IInv'
  BY TP!NextStep, TTimes, SameNext

LEMMA TStutter == TP!IInv /\ UNCHANGED tVars => TP!IInv'
<1>1. UNCHANGED tVars => UNCHANGED TP!vars
  BY DEF tVars, TP!vars
<1>2. QED
  BY <1>1, TP!NextStep, TTimes

-----------------------------------------------------------------------------
(* The devices together.                                                   *)

(* The invariants of all devices, of which the active one moves. *)
AllInv == IInv /\ FInv /\ PInv /\ NInv /\ TP!IInv

LEMMA InitAllInv == MCInit => AllInv
  BY InitIInv, InitFInv, InitPInv, InitNInv, TP!InitIInv, TTimes, SameInit DEF MCInit, AllInv

LEMMA NextAllInv == AllInv /\ [MCNext]_allVars => AllInv'
<1> SUFFICES ASSUME AllInv, [MCNext]_allVars
             PROVE  AllInv'
  OBVIOUS
<1> USE DEF AllInv
<1>1. IInv'
  <2>1. [Next]_vars
    BY DEF MCNext, allVars
  <2>2. QED
    BY <2>1, NextIInv
<1>2. FInv'
  <2>1. F!Next \/ UNCHANGED fVars
    BY DEF MCNext, allVars
  <2>2. QED
    BY <2>1, NextFInv, FStutter
<1>3. PInv'
  <2>1. P!Next \/ UNCHANGED pVars
    BY DEF MCNext, allVars
  <2>2. QED
    BY <2>1, NextPInv, PStutter
<1>4. NInv'
  <2>1. N!Next \/ UNCHANGED nVars
    BY DEF MCNext, allVars
  <2>2. QED
    BY <2>1, NextNInv, NStutter
<1>5. TP!IInv'
  <2>1. T!Next \/ UNCHANGED tVars
    BY DEF MCNext, allVars
  <2>2. QED
    BY <2>1, NextTInv, TStutter
<1>6. QED
  BY <1>1, <1>2, <1>3, <1>4, <1>5

(* The inductive invariant of the devices. *)
THEOREM DevicesInvariant == MCSpec => []AllInv
  BY InitAllInv, NextAllInv, PTL DEF MCSpec

(* What the flash device's buffer claims to hold the image holds, a read   *)
(* that succeeds delivers the block it named, and the image holds what the *)
(* driver was told, but for blocks written after their transfer had failed;*)
(* the printer's log holds the characters asked for, whatever the driver   *)
(* writes to DATA0 meanwhile (FlashDevice and PrinterDevice of device.cc). *)
THEOREM FlashAndPrinter == MCSpec => []BlocksAndCharacters
<1>1. AllInv => BlocksAndCharacters
  BY FReads DEF AllInv, FInv, PInv, BlocksAndCharacters
<1>2. QED
  BY <1>1, DevicesInvariant, PTL

(* The source the halves of a terminal share is pending exactly when one   *)
(* of them needs it (TerminalDevice::WriteDevReg); of the other devices    *)
(* nothing is said.                                                        *)
THEOREM SharedSource == MCSpec => []IrqIffPending
<1>1. AllInv => IrqIffPending
  BY SameInvariants DEF AllInv, IrqIffPending
<1>2. QED
  BY <1>1, DevicesInvariant, PTL

(* Terminal and network interface have exactly one callback for each busy  *)
(* half, for the operation and for the poll, although an expired event     *)
(* does not say whose it is (CompleteDevOp of both).                       *)
THEOREM CallbacksCounted == MCSpec => []OneEventEach
<1>1. AllInv => OneEventEach
  BY SameInvariants DEF AllInv, NInv, OneEventEach
<1>2. QED
  BY <1>1, DevicesInvariant, PTL

(* A network interface in interrupt mode polls, is busy or shows           *)
(* READPENDING; it is deaf only after a read that left packets in the      *)
(* queue, until the next operation starts (EthDevice::CompleteDevOp and    *)
(* its polls).                                                             *)
THEOREM NeverDeaf == MCSpec => []Listening
<1>1. AllInv => Listening
  BY DEF AllInv, NInv, Listening
<1>2. QED
  BY <1>1, DevicesInvariant, PTL

-----------------------------------------------------------------------------
(* All devices but the network interface are devices for their drivers.    *)

FDevice == INSTANCE DeviceProtocol WITH phase <- F!phase
PDevice == INSTANCE DeviceProtocol WITH phase <- P!phase

LEMMA FlashPhase == FInv /\ (F!Next \/ UNCHANGED fVars) => [FDevice!Next]_(F!phase)
<1> SUFFICES ASSUME FInv, F!Next \/ UNCHANGED fVars
             PROVE  FDevice!Next \/ UNCHANGED F!phase
  OBVIOUS
<1> USE DEF F!phase, F!Command, F!Completes, FDevice!Next, FDevice!Start, FDevice!Reject,
            FDevice!Acknowledge, FDevice!Complete
<1>1. CASE F!Reset \/ F!Read \/ F!Write
  BY <1>1 DEF F!Reset, F!Read, F!Write
<1>2. CASE F!Ack \/ F!BadCommand
  BY <1>2 DEF F!Ack, F!BadCommand
<1>3. CASE F!CompleteReset \/ F!FailTransfer
  BY <1>3 DEF F!CompleteReset, F!FailTransfer
<1>4. CASE F!CompleteRead \/ F!CompleteWrite
  BY <1>4 DEF F!CompleteRead, F!CompleteWrite
<1>5. CASE F!SetCondition \/ UNCHANGED fVars
  BY <1>5 DEF F!SetCondition, fVars
<1>6. QED
  BY <1>1, <1>2, <1>3, <1>4, <1>5 DEF F!Next, F!WriteDevReg, F!CompleteDevOp

LEMMA PrinterPhase == PInv /\ (P!Next \/ UNCHANGED pVars) => [PDevice!Next]_(P!phase)
<1> SUFFICES ASSUME PInv, P!Next \/ UNCHANGED pVars
             PROVE  PDevice!Next \/ UNCHANGED P!phase
  OBVIOUS
<1> USE DEF P!phase, P!Command, P!Completes, PDevice!Next, PDevice!Start, PDevice!Reject,
            PDevice!Acknowledge, PDevice!Complete
<1>1. CASE P!Reset \/ P!PrintChr \/ P!Ack \/ P!BadCommand
  BY <1>1 DEF P!Reset, P!PrintChr, P!Ack, P!BadCommand
<1>2. CASE P!SetData \/ P!SetCondition \/ UNCHANGED pVars
  BY <1>2 DEF P!SetData, P!SetCondition, pVars
<1>3. CASE P!CompleteReset \/ P!CompletePrint \/ P!FailPrint
  BY <1>3 DEF P!CompleteReset, P!CompletePrint, P!FailPrint
<1>4. QED
  BY <1>1, <1>2, <1>3 DEF P!Next, P!WriteDevReg, P!CompleteDevOp

(* Which device is active is decided at the beginning. *)
Devices == {"disk", "receiver", "transmitter", "network", "flash", "printer"}

LEMMA ActivePhase ==
  /\ active = "disk" => phaseOfActive = phase
  /\ active = "receiver" => phaseOfActive = T!Phase(recv)
  /\ active = "transmitter" => phaseOfActive = T!Phase(tran)
  /\ active = "flash" => phaseOfActive = F!phase
  /\ active = "printer" => phaseOfActive = P!phase
  /\ active = "network" => phaseOfActive = "idle"
  BY DEF phaseOfActive

LEMMA ActivePhaseNext ==
  /\ active' = "disk" => phaseOfActive' = phase'
  /\ active' = "receiver" => phaseOfActive' = T!Phase(recv)'
  /\ active' = "transmitter" => phaseOfActive' = T!Phase(tran)'
  /\ active' = "flash" => phaseOfActive' = F!phase'
  /\ active' = "printer" => phaseOfActive' = P!phase'
  /\ active' = "network" => phaseOfActive' = "idle"
  BY DEF phaseOfActive

LEMMA PhaseStep ==
  AllInv /\ active \in Devices /\ [MCNext]_allVars => [AnyDevice!Next]_phaseOfActive
<1> SUFFICES ASSUME AllInv, active \in Devices, [MCNext]_allVars
             PROVE  AnyDevice!Next \/ UNCHANGED phaseOfActive
  OBVIOUS
<1> USE ActivePhase, ActivePhaseNext
    DEF AllInv, AnyDevice!Next, AnyDevice!Start, AnyDevice!Reject, AnyDevice!Acknowledge, AnyDevice!Complete
<1>1. active' = active
  BY DEF MCNext, allVars
<1>2. CASE active = "disk"
  <2>1. [Device!Next]_phase
    BY DiskPhase DEF MCNext, allVars
  <2>2. QED
    BY <1>1, <1>2, <2>1
       DEF Device!Next, Device!Start, Device!Reject, Device!Acknowledge, Device!Complete
<1>3. CASE active = "flash"
  <2>1. [FDevice!Next]_(F!phase)
    BY FlashPhase DEF MCNext, allVars
  <2>2. QED
    BY <1>1, <1>3, <2>1
       DEF FDevice!Next, FDevice!Start, FDevice!Reject, FDevice!Acknowledge, FDevice!Complete
<1>4. CASE active = "printer"
  <2>1. [PDevice!Next]_(P!phase)
    BY PrinterPhase DEF MCNext, allVars
  <2>2. QED
    BY <1>1, <1>4, <2>1
       DEF PDevice!Next, PDevice!Start, PDevice!Reject, PDevice!Acknowledge, PDevice!Complete
<1>5. CASE active \in {"receiver", "transmitter"}
  <2>1. [TP!Next]_TP!vars
    BY SameNext DEF MCNext, allVars, tVars, TP!vars
  <2>2. [TP!Receiver!Next]_(TP!Phase(recv)) /\ [TP!Transmitter!Next]_(TP!Phase(tran))
    BY <2>1, TTimes, TP!StepPhases
  <2>3. QED
    BY <1>1, <1>5, <2>2
       DEF T!Phase, TP!Phase,
           TP!Receiver!Next, TP!Receiver!Start, TP!Receiver!Reject, TP!Receiver!Acknowledge,
           TP!Receiver!Complete, TP!Transmitter!Next, TP!Transmitter!Start,
           TP!Transmitter!Reject, TP!Transmitter!Acknowledge, TP!Transmitter!Complete
<1>6. CASE active = "network"
  BY <1>1, <1>6
<1>7. QED
  BY <1>2, <1>3, <1>4, <1>5, <1>6 DEF Devices

LEMMA PhaseInit == MCInit => active \in Devices /\ AnyDevice!Init
  BY ActivePhase DEF MCInit, Devices, AnyDevice!Init, Init, T!Init, F!Init, P!Init, phase, F!phase, P!phase,
                     T!Phase, T!Idle

(* Disk, flash, printer and both halves of a terminal are devices for      *)
(* their drivers: what they accept they complete once, with an interrupt   *)
(* that stays until it is acknowledged (WriteDevReg and CompleteDevOp).    *)
THEOREM DevicesImplementProtocol == MCSpec => ImplementsDevice
<1>1. active \in Devices /\ [MCNext]_allVars => (active \in Devices)'
  BY DEF MCNext, allVars
<1>2. QED
  BY PhaseInit, PhaseStep, <1>1, DevicesInvariant, PTL DEF MCSpec, ImplementsDevice, AnyDevice!Spec
===============================================================================
