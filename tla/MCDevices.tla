------------------------------ MODULE MCDevices ------------------------------
(***************************************************************************)
(* Small instances of the devices, of which a behaviour runs one: a disk   *)
(* drive, or a flash device, a printer, a network interface or a terminal. *)
(* The terminal is run for each of its halves.                             *)
(***************************************************************************)
EXTENDS Disk

CONSTANTS p1, v1, v2,
          ResetTime, CharTime, MaxInput,           \* of the terminal
          OpTimes, PollTime, MaxQueue, MaxWire,    \* of the network interface
          NBlocks,                                 \* of the flash device
          MaxPrinted                               \* of the printer

ASSUME FlashAssumption == NBlocks \in Nat /\ None \notin 0..NBlocks-1
ASSUME TerminalAssumption ==
         ResetTime \in Nat \ {0} /\ CharTime \in Nat \ {0} /\ MaxInput \in Nat
ASSUME NetworkAssumption ==
         /\ OpTimes \subseteq Nat /\ PollTime \in Nat
         /\ \E m \in OpTimes \cup {PollTime} : \A t \in OpTimes \cup {PollTime} : t <= m
         /\ MaxQueue \in Nat /\ MaxWire \in Nat

VARIABLES active,
          recv, tran, unread, tWorking, tEvents, tIrq,
          nStatus, readPending, nCommand, toGo, polling, nEvents, interrupts, nWorking,
          wire, queue, unheard, nIrq,
          fStatus, fOp, block, blockBuf, flashBuf, flashFile, fWorking, fIrq, fGiven, told,
          pStatus, pOp, data0, pWorking, pIrq, prntFile, confirmed, asked

T == INSTANCE Terminal WITH isWorking <- tWorking, events <- tEvents, irq <- tIrq
N == INSTANCE Ethernet WITH status <- nStatus, command <- nCommand, events <- nEvents,
                            isWorking <- nWorking, irq <- nIrq
F == INSTANCE Flash WITH status <- fStatus, op <- fOp, isWorking <- fWorking, irq <- fIrq,
                         given <- fGiven, Data <- Val, Torn <- Junk, NoBlock <- None
P == INSTANCE Printer WITH status <- pStatus, op <- pOp, isWorking <- pWorking, irq <- pIrq,
                           Char <- Val

tVars == <<recv, tran, unread, tWorking, tEvents, tIrq>>
nVars == <<nStatus, readPending, nCommand, toGo, polling, nEvents, interrupts, nWorking, wire,
           queue, unheard, nIrq>>
fVars == <<fStatus, fOp, block, blockBuf, flashBuf, flashFile, fWorking, fIrq, fGiven, told>>
pVars == <<pStatus, pOp, data0, pWorking, pIrq, prntFile, confirmed, asked>>
allVars == <<vars, active, tVars, nVars, fVars, pVars>>

(* A component that is not active starts in one of its initial states.     *)
MCInit == /\ active \in {"disk", "receiver", "transmitter", "network", "flash", "printer"}
          /\ Init /\ T!Init /\ N!Init /\ F!Init /\ P!Init
          /\ active # "disk" => diskBuf = v1 /\ given = v1 /\ medium = [s \in Sector |-> v1]
          /\ active # "flash" => flashBuf = v1 /\ fGiven = v1 /\ flashFile = [b \in F!Blocks |-> v1]
          /\ active # "printer" => data0 = v1

MCNext == \/ /\ active = "disk" /\ Next
             /\ UNCHANGED <<active, tVars, nVars, fVars, pVars>>
          \/ /\ active \in {"receiver", "transmitter"} /\ T!Next
             /\ UNCHANGED <<active, vars, nVars, fVars, pVars>>
          \/ /\ active = "network" /\ N!Next
             /\ UNCHANGED <<active, vars, tVars, fVars, pVars>>
          \/ /\ active = "flash" /\ F!Next
             /\ UNCHANGED <<active, vars, tVars, nVars, pVars>>
          \/ /\ active = "printer" /\ P!Next
             /\ UNCHANGED <<active, vars, tVars, nVars, fVars>>

MCSpec == /\ MCInit /\ [][MCNext]_allVars
          /\ Fairness /\ T!Fairness /\ N!Fairness /\ F!Fairness /\ P!Fairness

-----------------------------------------------------------------------------

(* Flash buffer and image and the printer's log hold what the driver was   *)
(* told they hold, but for blocks that were written after their transfer   *)
(* from memory failed.                                                     *)
BlocksAndCharacters ==
  /\ active = "flash" => F!TypeOK /\ F!FlashCoherent /\ F!ReadsBlock
  /\ active = "printer" => P!TypeOK /\ P!PrintsAsked

(* The interrupt source the halves of a terminal share is pending exactly  *)
(* when one of them needs it.                                              *)
IrqIffPending == active \in {"receiver", "transmitter"} => T!IrqIffPending

(* In a terminal and in a network interface, which do not know whose an    *)
(* expired event is, there is one callback for each operation.             *)
OneEventEach == /\ active \in {"receiver", "transmitter"} => T!TypeOK /\ T!OneEventEach
                /\ active = "network" => N!TypeOK /\ N!OneEventEach

(* A network interface in interrupt mode is deaf only where a read left    *)
(* packets in its queue and no operation was started since.                *)
Listening == active = "network" => N!Listening

phaseOfActive == CASE active = "disk" -> phase
                   [] active = "receiver" -> T!Phase(recv)
                   [] active = "transmitter" -> T!Phase(tran)
                   [] active = "flash" -> F!phase
                   [] active = "printer" -> P!phase
                   [] active = "network" -> "idle"

AnyDevice == INSTANCE DeviceProtocol WITH phase <- phaseOfActive

(* Disk, flash, printer and each half of a terminal are devices for their  *)
(* drivers: what they accept they complete once, and interrupt.            *)
ImplementsDevice == AnyDevice!Spec

Busy == IF active = "network" THEN N!Busy ELSE phaseOfActive = "busy"

(* Whatever polls intervene, an operation that was started ends; that of a *)
(* receiver once something is typed.                                       *)
OperationsEnd == Busy /\ (active = "receiver" => unread > 0) ~> ~Busy
==============================================================================
