------------------------------- MODULE Ethernet -------------------------------
(***************************************************************************)
(* The network interface (EthDevice in src/umps/device.cc) with its packet *)
(* queue (netinterface and netblockq in src/umps/vde_network.cc).  In      *)
(* interrupt mode the device polls the network between operations and      *)
(* shows waiting packets in the READPENDING bit of STATUS.  Operations and *)
(* polls have the same callback.                                           *)
(*                                                                         *)
(* A packet is counted, its contents left out; completion times are        *)
(* relative to the time of day.                                            *)
(***************************************************************************)
EXTENDS Integers

CONSTANTS OpTimes,    \* duration of operations, times the clock rate
          PollTime,   \* POLLNETTIME, times the clock rate
          MaxQueue,   \* MAXNETQUEUE
          MaxWire     \* bound on packets the network holds for the device

(* Codes of the STATUS register. *)
READY == 1
ILOPERR == 2
BUSY == 3
DREADERR == 5
DWRITERR == 6
FDMAERR == 6
DDMAERR == 7

VARIABLES status,      \* STATUS without its bit READPENDING
          readPending, \* that bit
          command,     \* operation in the COMMAND register
          toGo,        \* ticks to complTime while busy
          polling,     \* a poll is scheduled
          events,      \* [ticks to go -> CompleteDevOp callbacks due then]
          interrupts,  \* bit INTERRUPT of the interface's mode
          isWorking,
          wire,        \* packets in the socket
          queue,       \* packets in the netblockq
          unheard,     \* history: the last read left packets, and no poll was outstanding
          irq          \* the source is pending at the controller

device == <<status, readPending, command, toGo, polling>>
network == <<wire, queue, unheard>>
vars == <<status, readPending, command, toGo, polling, events, interrupts, isWorking, wire,
          queue, unheard, irq>>

Later == 0..(CHOOSE m \in OpTimes \cup {PollTime} : \A t \in OpTimes \cup {PollTime} : t <= m)

TypeOK == /\ status \in {READY, ILOPERR, BUSY, DREADERR, DWRITERR, DDMAERR}
          /\ readPending \in BOOLEAN
          /\ command \in {"RESET", "ACK", "READCONF", "CONFIGURE", "READNET", "WRITENET", "other"}
          /\ toGo \in Later
          /\ polling \in BOOLEAN
          /\ events \in [Later -> 0..2]
          /\ interrupts \in BOOLEAN
          /\ isWorking \in BOOLEAN
          /\ wire \in 0..MaxWire
          /\ queue \in 0..MaxQueue
          /\ unheard \in BOOLEAN /\ irq \in BOOLEAN

(* The interface is built promiscuous and without interrupts. *)
Init == /\ status = READY /\ readPending = FALSE
        /\ command = "RESET"
        /\ toGo = 0
        /\ polling = FALSE
        /\ events = [t \in Later |-> 0]
        /\ interrupts = FALSE
        /\ isWorking = TRUE
        /\ wire = 0 /\ queue = 0
        /\ unheard = FALSE /\ irq = FALSE

-----------------------------------------------------------------------------

Drained == events[0] = 0
Busy == status = BUSY

(* An operation starts; READPENDING stays as it is. *)
StartOp == /\ Drained /\ ~Busy
           /\ \E op \in {"RESET", "READCONF", "CONFIGURE", "READNET", "WRITENET"} :
                command' = op
           /\ status' = BUSY
           /\ \E t \in OpTimes : toGo' = t /\ events' = [events EXCEPT ![t] = @ + 1]
           /\ irq' = FALSE /\ unheard' = FALSE
           /\ UNCHANGED <<readPending, polling, interrupts, isWorking, wire, queue>>

Ack == /\ Drained /\ ~Busy
       /\ command' = "ACK" /\ status' = READY
       /\ irq' = FALSE
       /\ UNCHANGED <<readPending, toGo, polling, events, interrupts, isWorking, network>>

(* A packet that cannot be fetched from memory, or an unknown command. *)
Refuse == /\ Drained /\ ~Busy
          /\ \/ command' = "WRITENET" /\ status' = DDMAERR
             \/ command' = "other" /\ status' = ILOPERR
          /\ irq' = TRUE
          /\ UNCHANGED <<readPending, toGo, polling, events, interrupts, isWorking, network>>

(* netinterface::polling: what is in the socket goes to the queue, or is   *)
(* dropped when that is full.                                              *)
Queued == IF queue + wire <= MaxQueue THEN queue + wire ELSE MaxQueue

PollingDone == events' = [events EXCEPT ![0] = @ - 1]
PollAgain == events' = [events EXCEPT ![0] = @ - 1, ![PollTime] = @ + 1]

IsPoll == events[0] > 0 /\ polling /\ ~Busy

(* No poll is outstanding when READPENDING is set (see OneEventEach): the  *)
(* branch that would end the polling then is never taken.                  *)
PollFinds == /\ IsPoll /\ ~readPending /\ Queued > 0
             /\ queue' = Queued /\ wire' = 0
             /\ readPending' = TRUE /\ irq' = TRUE
             /\ polling' = FALSE /\ PollingDone
             /\ UNCHANGED <<status, command, toGo, interrupts, isWorking, unheard>>

(* Mutant: a poll that finds nothing is the last. *)
PollNothingGivesUp == /\ IsPoll /\ ~readPending /\ Queued = 0
                      /\ polling' = FALSE
                      /\ PollingDone
                      /\ UNCHANGED <<status, readPending, command, toGo, interrupts, isWorking,
                                     network, irq>>

PollNothing == /\ IsPoll /\ ~readPending /\ Queued = 0
               /\ polling' = interrupts
               /\ IF interrupts THEN PollAgain ELSE PollingDone
               /\ UNCHANGED <<status, readPending, command, toGo, interrupts, isWorking,
                              network, irq>>

(* Any other callback completes the operation, with a code and, in rp,     *)
(* what it takes for a pending read: the next poll is scheduled unless one *)
(* is or rp is set.                                                        *)
Operation(op, code, rp) ==
  /\ events[0] > 0 /\ ~(polling /\ ~Busy)
  /\ command = op
  /\ status' = code
  /\ irq' = TRUE
  /\ toGo' = 0
  /\ IF interrupts' /\ ~polling /\ ~rp
     THEN polling' = TRUE /\ PollAgain
     ELSE UNCHANGED polling /\ PollingDone
  /\ UNCHANGED <<command, isWorking>>

CompleteReset == /\ UNCHANGED <<readPending, interrupts, network>>
                 /\ Operation("RESET", READY, readPending)

CompleteReadConf == /\ UNCHANGED <<readPending, interrupts, network>>
                    /\ Operation("READCONF", READY, readPending)

CompleteConfigure == /\ interrupts' \in BOOLEAN
                     /\ Operation("CONFIGURE", READY, readPending)
                     /\ UNCHANGED <<readPending, network>>

(* readdata looks at the socket only when the queue is empty. *)
Fetched == IF queue > 0 THEN queue ELSE Queued
LeftOnWire == IF queue > 0 THEN wire ELSE 0
Received == IF Fetched > 0 THEN Fetched - 1 ELSE 0

(* The number OR 1. *)
WithBit0(code) == code + 1 - (code % 2)

(* A packet is read if there is one; then polling() is asked whether there *)
(* are more.  Its answer, 1, is ORed to STATUS in place of READPENDING.    *)
CompleteReadNet ==
  /\ isWorking
  /\ UNCHANGED interrupts
  /\ LET more == Received + LeftOnWire
     IN /\ queue' = (IF more <= MaxQueue THEN more ELSE MaxQueue)
        /\ wire' = 0
        /\ unheard' = (more > 0 /\ ~polling)
        /\ \E code \in (IF Fetched > 0 THEN {READY, FDMAERR} ELSE {READY}) :
             Operation("READNET", IF more > 0 THEN WithBit0(code) ELSE code, more > 0)
  /\ readPending' = FALSE

CompleteWriteNet ==
  /\ isWorking
  /\ UNCHANGED <<readPending, interrupts, network>>
  /\ \E code \in {READY, DWRITERR} : Operation("WRITENET", code, readPending)

FailOperation ==
  /\ ~isWorking
  /\ UNCHANGED <<readPending, interrupts, network>>
  /\ \/ Operation("READNET", DREADERR, readPending)
     \/ Operation("WRITENET", DWRITERR, readPending)

(* A packet comes in from the network; the user toggles the condition. *)
Packet == /\ wire < MaxWire
          /\ wire' = wire + 1
          /\ UNCHANGED <<device, events, interrupts, isWorking, queue, unheard, irq>>

SetCondition == /\ Drained
                /\ isWorking' = ~isWorking
                /\ UNCHANGED <<device, events, interrupts, network, irq>>

Tick == /\ Drained
        /\ toGo' = IF Busy /\ toGo > 0 THEN toGo - 1 ELSE toGo
        /\ events' = [t \in Later |-> IF t + 1 \in Later THEN events[t+1] ELSE 0]
        /\ UNCHANGED <<status, readPending, command, polling, interrupts, isWorking, network, irq>>

CompleteOp == \/ CompleteReset \/ CompleteReadConf \/ CompleteConfigure
              \/ CompleteReadNet \/ CompleteWriteNet \/ FailOperation

CompleteDevOp == PollFinds \/ PollNothing \/ CompleteOp

Next == StartOp \/ Ack \/ Refuse \/ CompleteDevOp \/ Packet \/ SetCondition \/ Tick

Spec == Init /\ [][Next]_vars

Fairness == WF_vars(Tick) /\ WF_vars(CompleteDevOp)

FairSpec == Spec /\ Fairness

-----------------------------------------------------------------------------

Bit(b) == IF b THEN 1 ELSE 0

(* Callbacks due if the poll ends at p and the operation at o. *)
Due(p, o) == [t \in Later |-> Bit(polling /\ t = p) + Bit(Busy /\ t = o)]

(* A callback is outstanding for the poll and one for the operation, never *)
(* more and never fewer, although each may be taken for the other; none is *)
(* for a poll while READPENDING is set.                                    *)
OneEventEach == /\ \E p, o \in Later : events = Due(p, o)
                /\ polling => ~readPending

(* In interrupt mode the device polls, is busy or shows READPENDING. It is *)
(* deaf in one case alone: a read has left packets in the queue, told of   *)
(* them only in the wrong bit, and no operation was started since. The one *)
(* that is polls again, unless it is a read that leaves packets in turn.   *)
Listening == interrupts /\ ~polling /\ ~Busy /\ ~readPending => unheard /\ queue > 0

(* Whatever a poll intervenes, an operation that was started ends. *)
OperationEnds == Busy ~> ~Busy

(* A read that leaves packets waiting says so in READPENDING. *)
ReadShowsPending == [][CompleteReadNet => readPending' = (queue' > 0)]_vars
==============================================================================
