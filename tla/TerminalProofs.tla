---------------------------- MODULE TerminalProofs ----------------------------
(***************************************************************************)
(* Proofs about Terminal, for any positive times of its operations and any *)
(* bound on the input.                                                     *)
(***************************************************************************)
EXTENDS Terminal, TLAPS

Times == ResetTime \in Nat \ {0} /\ CharTime \in Nat \ {0} /\ MaxInput \in Nat

(* A half that works shows no interrupt. *)
Quiet(sub) == sub.status = "BUSY" => ~ sub.intPend /\ sub.command \in {"RESET", "CHR"}

IInv == TypeOK /\ IrqIffPending /\ OneEventEach /\ Quiet(recv) /\ Quiet(tran)

LEMMA LaterFacts ==
  ASSUME Times
  PROVE  /\ 0 \in Later /\ ResetTime \in Later /\ CharTime \in Later
         /\ Later \subseteq Nat
         /\ \A t \in Later : t > 0 => t - 1 \in Later
         /\ \A t \in Nat : t + 1 \in Later => t \in Later
  BY DEF Times, Later

LEMMA InitIInv == Times /\ Init => IInv
<1> SUFFICES ASSUME Times, Init
             PROVE  IInv
  OBVIOUS
<1>1. TypeOK
  <2>1. Idle \in SubDevice("RECVD", "RECVERR") /\ Idle \in SubDevice("TRANSMD", "TRANERR")
    BY LaterFacts DEF Idle, SubDevice
  <2>2. 0 \in 0..MaxInput /\ [t \in Later |-> 0] \in [Later -> 0..2]
    BY DEF Times
  <2>3. QED
    BY <2>1, <2>2 DEF Init, TypeOK
<1>2. QED
  BY <1>1 DEF Init, IInv, IrqIffPending, OneEventEach, Quiet, Idle, Bit

(* A command leaves the half it is given to busy with an event of its own, *)
(* or done with its interrupt shown, or idle.                              *)
LEMMA CommandStep ==
  ASSUME Times, NEW sub, NEW other, NEW new, NEW done, NEW failed, NEW od, NEW of,
         sub \in SubDevice(done, failed), other \in SubDevice(od, of),
         events \in [Later -> 0..2], irq \in BOOLEAN,
         irq <=> sub.intPend \/ other.intPend, Quiet(sub),
         \A t \in Later : events[t] = Bit(sub.status = "BUSY" /\ sub.cTime = t)
                                      + Bit(other.status = "BUSY" /\ other.cTime = t),
         Command(sub, other, new)
  PROVE  /\ new \in SubDevice(done, failed) /\ Quiet(new)
         /\ irq' \in BOOLEAN /\ (irq' <=> new.intPend \/ other.intPend)
         /\ events' \in [Later -> 0..2]
         /\ \A t \in Later : events'[t] = Bit(new.status = "BUSY" /\ new.cTime = t)
                                          + Bit(other.status = "BUSY" /\ other.cTime = t)
<1> USE LaterFacts
<1>11. /\ sub.intPend \in BOOLEAN /\ other.intPend \in BOOLEAN
       /\ \A T \in Later : /\ Accept("RESET", T) \in SubDevice(done, failed)
                           /\ Accept("CHR", T) \in SubDevice(done, failed)
       /\ Acked(sub) \in SubDevice(done, failed) /\ Rejected(sub) \in SubDevice(done, failed)
  BY DEF SubDevice, Accept, Acked, Rejected
<1>12. \/ /\ new \in {Accept("RESET", ResetTime), Accept("CHR", CharTime), Acked(sub)}
          /\ irq' = (irq /\ other.intPend)
       \/ new = Rejected(sub) /\ irq' = TRUE
  BY DEF Command, IntAck
<1>13. new \in SubDevice(done, failed)
  BY <1>11, <1>12
<1>14. /\ Acked(sub).intPend = FALSE /\ Acked(sub).status = "READY"
       /\ Rejected(sub).intPend = TRUE /\ Rejected(sub).status = "ILOPERR"
       /\ \A c, T : Accept(c, T).intPend = FALSE /\ Accept(c, T).command = c
  BY DEF Accept, Acked, Rejected, SubDevice
<1>15. Quiet(new)
  BY <1>12, <1>14 DEF Quiet
<1>16. irq' \in BOOLEAN /\ (irq' <=> new.intPend \/ other.intPend)
  <2>1. CASE new = Rejected(sub) /\ irq' = TRUE
    BY <1>14, <2>1
  <2>2. CASE new.intPend = FALSE /\ irq' = (irq /\ other.intPend)
    <3>1. CASE other.intPend = TRUE
      <4>1. irq = TRUE
        BY <1>11, <3>1
      <4>2. irq' = TRUE
        BY <2>2, <3>1, <4>1
      <4>3. QED
        BY <2>2, <3>1, <4>2
    <3>2. CASE other.intPend = FALSE
      <4>1. irq' = FALSE
        BY <2>2, <3>2
      <4>2. QED
        BY <2>2, <3>2, <4>1
    <3>3. QED
      BY <1>11, <3>1, <3>2
  <2>3. CASE new \in {Accept("RESET", ResetTime), Accept("CHR", CharTime), Acked(sub)}
             /\ irq' = (irq /\ other.intPend)
    <3>1. new.intPend = FALSE
      BY <1>14, <2>3
    <3>2. QED
      BY <2>2, <2>3, <3>1
  <2>4. QED
    BY <1>12, <2>1, <2>3
<1>1. /\ new \in SubDevice(done, failed) /\ Quiet(new)
      /\ irq' \in BOOLEAN /\ (irq' <=> new.intPend \/ other.intPend)
  BY <1>13, <1>15, <1>16
<1>2. sub.status # "BUSY" /\ \A t \in Later : events[t] = Bit(other.status = "BUSY" /\ other.cTime = t)
  BY DEF Command, Bit
<1>3. ASSUME NEW T \in {ResetTime, CharTime}, NEW c, new = Accept(c, T), scheduleIOEvent(T)
      PROVE  \A t \in Later : events'[t] = Bit(new.status = "BUSY" /\ new.cTime = t)
                                           + Bit(other.status = "BUSY" /\ other.cTime = t)
  <2>1. new.status = "BUSY" /\ new.cTime = T
    BY <1>3 DEF Accept
  <2>2. \A t \in Later : events'[t] = IF t = T THEN events[t] + 1 ELSE events[t]
    BY <1>3 DEF scheduleIOEvent
  <2>3. QED
    BY <1>2, <2>1, <2>2 DEF Bit
<1>4. ASSUME new.status # "BUSY", events' = events
      PROVE  \A t \in Later : events'[t] = Bit(new.status = "BUSY" /\ new.cTime = t)
                                           + Bit(other.status = "BUSY" /\ other.cTime = t)
  BY <1>2, <1>4 DEF Bit
<1>5. \A t \in Later : events'[t] = Bit(new.status = "BUSY" /\ new.cTime = t)
                                    + Bit(other.status = "BUSY" /\ other.cTime = t)
  <2>1. CASE events' = events
    <3>1. \A T \in Later : ~ scheduleIOEvent(T)
      BY <2>1 DEF scheduleIOEvent
    <3>2. new = Acked(sub) \/ new = Rejected(sub)
      BY <3>1 DEF Command
    <3>3. new.status # "BUSY"
      BY <3>2 DEF Acked, Rejected, SubDevice
    <3>4. QED
      BY <2>1, <3>3, <1>4
  <2>2. CASE events' # events
    BY <2>2, <1>3 DEF Command
  <2>3. QED
    BY <2>1, <2>2
<1>6. \E t \in Later : events' = events \/ events' = [events EXCEPT ![t] = @ + 1]
  BY DEF Command, scheduleIOEvent
<1>7. events' \in [Later -> 0..2]
  <2>1. \A t \in Later : events'[t] \in 0..2
    BY <1>5 DEF Bit
  <2>2. DOMAIN events' = Later /\ events' = [t \in Later |-> events'[t]]
    BY <1>6
  <2>3. QED
    BY <2>1, <2>2
<1>8. QED
  BY <1>1, <1>5, <1>7

LEMMA CommandsStep ==
  ASSUME Times, IInv, WriteRecvCommand \/ WriteTranCommand
  PROVE  IInv'
<1> USE DEF IInv, TypeOK, IrqIffPending, OneEventEach
<1>1. unread' = unread /\ isWorking' = isWorking
  BY DEF WriteRecvCommand, WriteTranCommand, Command
<1>2. CASE WriteRecvCommand
  <2>1. Command(recv, tran, recv') /\ tran' = tran
    BY <1>2 DEF WriteRecvCommand
  <2>2. /\ recv' \in SubDevice("RECVD", "RECVERR") /\ Quiet(recv')
        /\ irq' \in BOOLEAN /\ (irq' <=> recv'.intPend \/ tran.intPend)
        /\ events' \in [Later -> 0..2]
        /\ \A t \in Later : events'[t] = Bit(recv'.status = "BUSY" /\ recv'.cTime = t)
                                         + Bit(tran.status = "BUSY" /\ tran.cTime = t)
    BY <2>1, CommandStep
  <2>3. QED
    BY <1>1, <2>1, <2>2 DEF Quiet
<1>3. CASE WriteTranCommand
  <2>1. Command(tran, recv, tran') /\ recv' = recv
    BY <1>3 DEF WriteTranCommand
  <2>2. \A t \in Later : events[t] = Bit(tran.status = "BUSY" /\ tran.cTime = t)
                                     + Bit(recv.status = "BUSY" /\ recv.cTime = t)
    BY DEF Bit
  <2>3. /\ tran' \in SubDevice("TRANSMD", "TRANERR") /\ Quiet(tran')
        /\ irq' \in BOOLEAN /\ (irq' <=> tran'.intPend \/ recv.intPend)
        /\ events' \in [Later -> 0..2]
        /\ \A t \in Later : events'[t] = Bit(tran'.status = "BUSY" /\ tran'.cTime = t)
                                         + Bit(recv.status = "BUSY" /\ recv.cTime = t)
    BY <2>1, <2>2, CommandStep
  <2>4. \A t \in Later : events'[t] = Bit(recv.status = "BUSY" /\ recv.cTime = t)
                                      + Bit(tran'.status = "BUSY" /\ tran'.cTime = t)
    BY <2>3 DEF Bit
  <2>5. QED
    BY <1>1, <2>1, <2>3, <2>4 DEF Quiet
<1>4. QED
  BY <1>2, <1>3

(* What a callback does to the half it completes: its event and its time   *)
(* both go.                                                                *)
LEMMA CompleteRecvStep ==
  ASSUME Times, IInv, CompleteRecv
  PROVE  IInv'
<1> USE LaterFacts DEF IInv, TypeOK
<1>1. recv.status = "BUSY" /\ recv.cTime = 0
  <2>1. recv.status = "BUSY"
    BY DEF CompleteRecv, DoRecv
  <2>2. events[0] > 0 /\ (tran.status = "BUSY" => recv.cTime <= tran.cTime)
    BY <2>1 DEF CompleteRecv, DoRecv
  <2>3. events[0] = Bit(recv.status = "BUSY" /\ recv.cTime = 0)
                    + Bit(tran.status = "BUSY" /\ tran.cTime = 0)
    BY DEF OneEventEach
  <2>4. recv.cTime \in Nat /\ tran.cTime \in Nat
    BY DEF SubDevice
  <2>5. QED
    BY <2>1, <2>2, <2>3, <2>4 DEF Bit
<1>2. /\ recv'.status \in {"READY", "RECVD", "RECVERR"} /\ recv'.intPend = TRUE
      /\ recv' \in SubDevice("RECVD", "RECVERR")
  BY DEF CompleteRecv, Finish, SubDevice
<1>3. irq' = TRUE /\ tran' = tran /\ isWorking' = isWorking
  BY DEF CompleteRecv
<1>4. unread' \in 0..MaxInput
  <2>1. CASE unread' = unread
    BY <2>1
  <2>2. CASE unread' = unread - 1 /\ unread > 0
    BY <2>2 DEF Times
  <2>3. QED
    BY <2>1, <2>2, <1>1 DEF CompleteRecv, Quiet
<1>5. /\ events' = [events EXCEPT ![0] = @ - 1]
      /\ \A t \in Later : events'[t] = IF t = 0 THEN events[t] - 1 ELSE events[t]
  BY DEF CompleteRecv
<1>6. OneEventEach'
  BY <1>1, <1>2, <1>3, <1>5 DEF OneEventEach, Bit
<1>7. events' \in [Later -> 0..2]
  <2>1. \A t \in Later : events'[t] \in 0..2
    BY <1>6 DEF OneEventEach, Bit
  <2>2. events' = [t \in Later |-> events'[t]]
    BY <1>5
  <2>3. QED
    BY <2>1, <2>2
<1>8. IrqIffPending' /\ Quiet(recv') /\ Quiet(tran')
  BY <1>2, <1>3 DEF IrqIffPending, Quiet
<1>9. QED
  BY <1>2, <1>3, <1>4, <1>6, <1>7, <1>8 DEF Quiet

LEMMA PollRecvStep ==
  ASSUME Times, IInv, PollRecv
  PROVE  IInv'
<1> USE LaterFacts DEF IInv, TypeOK
<1>1. recv.status = "BUSY" /\ recv.cTime = 0
  <2>1. recv.status = "BUSY"
    BY DEF PollRecv, DoRecv
  <2>2. events[0] > 0 /\ (tran.status = "BUSY" => recv.cTime <= tran.cTime)
    BY <2>1 DEF PollRecv, DoRecv
  <2>3. events[0] = Bit(recv.status = "BUSY" /\ recv.cTime = 0)
                    + Bit(tran.status = "BUSY" /\ tran.cTime = 0)
    BY DEF OneEventEach
  <2>4. recv.cTime \in Nat /\ tran.cTime \in Nat
    BY DEF SubDevice
  <2>5. QED
    BY <2>1, <2>2, <2>3, <2>4 DEF Bit
<1>2. /\ recv' \in SubDevice("RECVD", "RECVERR") /\ recv'.status = "BUSY"
      /\ recv'.cTime = CharTime /\ recv'.intPend = recv.intPend /\ recv'.command = recv.command
  BY <1>1 DEF PollRecv, SubDevice
<1>3. irq' = irq /\ tran' = tran /\ isWorking' = isWorking /\ unread' = unread
  BY DEF PollRecv
<1>4. CharTime # 0
  BY DEF Times
<1>5. /\ events' = [events EXCEPT ![0] = @ - 1, ![CharTime] = @ + 1]
      /\ \A t \in Later : events'[t] = IF t = 0 THEN events[t] - 1
                                       ELSE IF t = CharTime THEN events[t] + 1 ELSE events[t]
  BY <1>4 DEF PollRecv
<1>6. OneEventEach'
  BY <1>1, <1>2, <1>3, <1>4, <1>5 DEF OneEventEach, Bit
<1>7. events' \in [Later -> 0..2]
  <2>1. \A t \in Later : events'[t] \in 0..2
    BY <1>6 DEF OneEventEach, Bit
  <2>2. events' = [t \in Later |-> events'[t]]
    BY <1>5
  <2>3. QED
    BY <2>1, <2>2
<1>8. IrqIffPending' /\ Quiet(recv)' /\ Quiet(tran)'
  BY <1>1, <1>2, <1>3 DEF IrqIffPending, Quiet
<1>9. QED
  BY <1>2, <1>3, <1>6, <1>7, <1>8

LEMMA CompleteTranStep ==
  ASSUME Times, IInv, CompleteTran
  PROVE  IInv'
<1> USE LaterFacts DEF IInv, TypeOK
<1>1. tran.status = "BUSY" /\ tran.cTime = 0
  <2>1. events[0] = Bit(recv.status = "BUSY" /\ recv.cTime = 0)
                    + Bit(tran.status = "BUSY" /\ tran.cTime = 0)
    BY DEF OneEventEach
  <2>2. recv.cTime \in Nat /\ tran.cTime \in Nat /\ events[0] > 0
    BY DEF SubDevice, CompleteTran
  <2>3. recv.status = "BUSY" => tran.status = "BUSY" /\ tran.cTime < recv.cTime
    BY <2>2 DEF CompleteTran, DoRecv
  <2>4. QED
    BY <2>1, <2>2, <2>3 DEF Bit
<1>2. /\ tran'.status \in {"READY", "TRANSMD", "TRANERR"} /\ tran'.intPend = TRUE
      /\ tran' \in SubDevice("TRANSMD", "TRANERR")
  BY DEF CompleteTran, Finish, SubDevice
<1>3. irq' = TRUE /\ recv' = recv /\ isWorking' = isWorking /\ unread' = unread
  BY DEF CompleteTran
<1>5. /\ events' = [events EXCEPT ![0] = @ - 1]
      /\ \A t \in Later : events'[t] = IF t = 0 THEN events[t] - 1 ELSE events[t]
  BY DEF CompleteTran
<1>6. OneEventEach'
  BY <1>1, <1>2, <1>3, <1>5 DEF OneEventEach, Bit
<1>7. events' \in [Later -> 0..2]
  <2>1. \A t \in Later : events'[t] \in 0..2
    BY <1>6 DEF OneEventEach, Bit
  <2>2. events' = [t \in Later |-> events'[t]]
    BY <1>5
  <2>3. QED
    BY <2>1, <2>2
<1>8. IrqIffPending' /\ Quiet(recv)' /\ Quiet(tran)'
  BY <1>2, <1>3 DEF IrqIffPending, Quiet
<1>9. QED
  BY <1>2, <1>3, <1>6, <1>7, <1>8

(* Time brings every completion and its event nearer together. *)
LEMMA TickStep ==
  ASSUME Times, IInv, Tick
  PROVE  IInv'
<1> USE LaterFacts DEF IInv, TypeOK
<1>1. \A done, failed : \A sub \in SubDevice(done, failed) : Closer(sub) \in SubDevice(done, failed)
  BY DEF SubDevice, Closer
<1>2. /\ recv' \in SubDevice("RECVD", "RECVERR") /\ tran' \in SubDevice("TRANSMD", "TRANERR")
      /\ unread' = unread /\ isWorking' = isWorking /\ irq' = irq
  BY <1>1 DEF Tick
<1>3. /\ recv'.status = recv.status /\ recv'.command = recv.command /\ recv'.intPend = recv.intPend
      /\ tran'.status = tran.status /\ tran'.command = tran.command /\ tran'.intPend = tran.intPend
  BY DEF Tick, Closer, SubDevice
<1>4. events' = [t \in Later |-> IF t + 1 \in Later THEN events[t+1] ELSE 0]
  BY DEF Tick
<1>5. recv.cTime \in Later /\ tran.cTime \in Later
  BY DEF SubDevice
<1>6. /\ recv.status = "BUSY" => recv.cTime > 0 /\ recv'.cTime = recv.cTime - 1
      /\ tran.status = "BUSY" => tran.cTime > 0 /\ tran'.cTime = tran.cTime - 1
  <2>1. events[0] = 0
    BY DEF Tick, Drained
  <2>2. ~ (recv.status = "BUSY" /\ recv.cTime = 0) /\ ~ (tran.status = "BUSY" /\ tran.cTime = 0)
    BY <2>1 DEF OneEventEach, Bit
  <2>3. QED
    BY <1>5, <2>2 DEF Tick, Closer, SubDevice
<1>7. OneEventEach'
  <2>1. ASSUME NEW t \in Later, t + 1 \in Later
        PROVE  events'[t] = Bit(recv'.status = "BUSY" /\ recv'.cTime = t)
                            + Bit(tran'.status = "BUSY" /\ tran'.cTime = t)
    BY <1>3, <1>4, <1>5, <1>6, <2>1 DEF OneEventEach, Bit
  <2>2. ASSUME NEW t \in Later, t + 1 \notin Later
        PROVE  events'[t] = Bit(recv'.status = "BUSY" /\ recv'.cTime = t)
                            + Bit(tran'.status = "BUSY" /\ tran'.cTime = t)
    BY <1>3, <1>4, <1>5, <1>6, <2>2 DEF Bit
  <2>3. QED
    BY <2>1, <2>2 DEF OneEventEach
<1>8. events' \in [Later -> 0..2]
  BY <1>4
<1>9. IrqIffPending' /\ Quiet(recv)' /\ Quiet(tran)'
  BY <1>2, <1>3 DEF IrqIffPending, Quiet
<1>10. QED
  BY <1>2, <1>7, <1>8, <1>9

LEMMA NextStep == Times /\ IInv /\ [Next]_vars => IInv'
<1> SUFFICES ASSUME Times, IInv, [Next]_vars
             PROVE  IInv'
  OBVIOUS
<1>1. CASE Input \/ SetCondition
  <2>1. unread' \in 0..MaxInput /\ isWorking' \in BOOLEAN
    <3>1. CASE Input
      BY <3>1 DEF Input, IInv, TypeOK, Times
    <3>2. CASE SetCondition
      <4>1. isWorking' \in BOOLEAN
        BY <3>2 DEF SetCondition
      <4>2. QED
        BY <3>2, <4>1 DEF SetCondition, IInv, TypeOK
    <3>3. QED
      BY <1>1, <3>1, <3>2
  <2>2. recv' = recv /\ tran' = tran /\ events' = events /\ irq' = irq
    BY <1>1 DEF Input, SetCondition
  <2>3. QED
    BY <2>1, <2>2 DEF IInv, TypeOK, IrqIffPending, OneEventEach, Quiet
<1>2. CASE UNCHANGED vars
  BY <1>2 DEF vars, IInv, TypeOK, IrqIffPending, OneEventEach, Quiet
<1>3. QED
  BY <1>1, <1>2, CommandsStep, CompleteRecvStep, PollRecvStep, CompleteTranStep, TickStep
     DEF Next, CompleteDevOp

-----------------------------------------------------------------------------
(* The inductive invariant. *)
THEOREM Invariant ==
  ASSUME Times
  PROVE  Spec => []IInv
<1>1. Times /\ Init => IInv
  BY InitIInv
<1>2. Times /\ IInv /\ [Next]_vars => IInv'
  BY NextStep
<1>3. QED
  BY <1>1, <1>2, PTL DEF Spec

(* The types: both halves complete with the statuses of their own.         *)
THEOREM TypeCorrect ==
  ASSUME Times
  PROVE  Spec => []TypeOK
  BY Invariant, PTL DEF IInv

(* The halves share their interrupt without stealing it from one another.  *)
THEOREM SharedInterruptExact ==
  ASSUME Times
  PROVE  Spec => []IrqIffPending
  BY Invariant, PTL DEF IInv

(* The shared callback, which guesses whose event expired from the         *)
(* completion times, always finds the half whose event it is.              *)
THEOREM CallbackFindsItsHalf ==
  ASSUME Times
  PROVE  Spec => []OneEventEach
  BY Invariant, PTL DEF IInv

(* Each half keeps the promise of a device, whatever the other does.       *)
Receiver == INSTANCE DeviceProtocol WITH phase <- Phase(recv)
Transmitter == INSTANCE DeviceProtocol WITH phase <- Phase(tran)

LEMMA CommandPhase ==
  ASSUME NEW sub, NEW other, NEW new, NEW done, NEW failed,
         sub \in SubDevice(done, failed), Command(sub, other, new)
  PROVE  Phase(sub) # "busy" /\ Phase(new) \in {"busy", "pending", "idle"}
  BY DEF Command, Phase

LEMMA FinishPhase ==
  ASSUME NEW sub, NEW done, NEW failed, NEW s, sub \in SubDevice(done, failed),
         sub.status = "BUSY", s # "BUSY"
  PROVE  Phase(sub) = "busy" /\ Phase(Finish(sub, s)) = "pending"
  BY DEF SubDevice, Finish, Phase

LEMMA StepPhases ==
  ASSUME Times, IInv, [Next]_vars
  PROVE  [Receiver!Next]_(Phase(recv)) /\ [Transmitter!Next]_(Phase(tran))
<1> USE DEF IInv, TypeOK, Receiver!Next, Receiver!Start, Receiver!Reject, Receiver!Acknowledge,
            Receiver!Complete, Transmitter!Next, Transmitter!Start, Transmitter!Reject,
            Transmitter!Acknowledge, Transmitter!Complete
<1>1. CASE WriteRecvCommand
  BY <1>1, CommandPhase DEF WriteRecvCommand
<1>2. CASE WriteTranCommand
  BY <1>2, CommandPhase DEF WriteTranCommand
<1>3. CASE CompleteRecv
  <2>1. recv.status = "BUSY" /\ tran' = tran
    BY <1>3 DEF CompleteRecv, DoRecv
  <2>2. PICK s \in {"READY", "RECVD", "RECVERR"} : recv' = Finish(recv, s)
    BY <1>3 DEF CompleteRecv
  <2>3. Phase(recv) = "busy" /\ Phase(recv') = "pending"
    BY <2>1, <2>2, FinishPhase
  <2>4. QED
    BY <2>1, <2>3
<1>4. CASE PollRecv
  <2>1. recv.status = "BUSY" /\ recv'.status = "BUSY" /\ tran' = tran
    BY <1>4 DEF PollRecv, DoRecv, SubDevice
  <2>2. QED
    BY <2>1 DEF Phase
<1>5. CASE CompleteTran
  <2>1. tran.status = "BUSY" /\ recv' = recv
    <3>1. events[0] > 0 /\ events[0] = Bit(recv.status = "BUSY" /\ recv.cTime = 0)
                                      + Bit(tran.status = "BUSY" /\ tran.cTime = 0)
      BY <1>5, LaterFacts DEF CompleteTran, OneEventEach
    <3>2. QED
      BY <1>5, <3>1 DEF CompleteTran, DoRecv, Bit
  <2>2. PICK s \in {"READY", "TRANSMD", "TRANERR"} : tran' = Finish(tran, s)
    BY <1>5 DEF CompleteTran
  <2>3. Phase(tran) = "busy" /\ Phase(tran') = "pending"
    BY <2>1, <2>2, FinishPhase
  <2>4. QED
    BY <2>1, <2>3
<1>6. CASE Input \/ SetCondition \/ UNCHANGED vars
  BY <1>6 DEF Input, SetCondition, vars
<1>7. CASE Tick
  <2>1. /\ recv'.status = recv.status /\ recv'.intPend = recv.intPend
        /\ tran'.status = tran.status /\ tran'.intPend = tran.intPend
    BY <1>7 DEF Tick, Closer, SubDevice
  <2>2. QED
    BY <2>1 DEF Phase
<1>8. QED
  BY <1>1, <1>2, <1>3, <1>4, <1>5, <1>6, <1>7 DEF Next, CompleteDevOp

(* Both halves implement the protocol of a device at the same time.        *)
THEOREM HalvesImplementDevice ==
  ASSUME Times
  PROVE  Spec => Receiver!Spec /\ Transmitter!Spec
<1>1. Init => Receiver!Init /\ Transmitter!Init
  BY DEF Init, Idle, Receiver!Init, Transmitter!Init, Phase
<1>2. Times /\ IInv /\ [Next]_vars => [Receiver!Next]_(Phase(recv)) /\ [Transmitter!Next]_(Phase(tran))
  BY StepPhases
<1>3. QED
  BY Invariant, <1>1, <1>2, PTL DEF Spec, Receiver!Spec, Transmitter!Spec
===============================================================================
