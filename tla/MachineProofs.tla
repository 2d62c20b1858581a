----------------------------- MODULE MachineProofs -----------------------------
(***************************************************************************)
(* Proofs about Machine, for every number of cores, every width of the     *)
(* timers and every set of events.                                         *)
(***************************************************************************)
EXTENDS Machine, TLAPS

(* The inductive invariant: no two of its parts need each other but for    *)
(* the types.                                                              *)
IInv == /\ TypeOK
        /\ IdleMeansNoIRQ
        /\ NothingOverdue

(* Arithmetic modulo W stays within a word, and a decrement that does not  *)
(* wrap is one.                                                            *)
LEMMA Word ==
  /\ \A x \in Int : x % W \in 0..W-1
  /\ \A x \in 0..W-1 : x % W = x
  BY WAssumption

LEMMA CoreFacts == 0 \in Cpu /\ \A c \in Cpu : c # N - 1 => c + 1 \in Cpu
  BY NAssumption DEF Cpu

LEMMA InitIInv == Init => IInv
<1> SUFFICES ASSUME Init
             PROVE  IInv
  OBVIOUS
<1>1. W - 1 \in 0..W-1 /\ 0 \in 0..W-1 /\ 0 \in 0..MaxSteps
  BY WAssumption, MaxStepsAssumption
<1>2. TypeOK
  BY <1>1, CoreFacts DEF Init, TypeOK
<1>3. QED
  BY <1>2, NoneAssumption DEF Init, IInv, IdleMeansNoIRQ, NothingOverdue

-----------------------------------------------------------------------------

(* Types and the interrupts of idle cores, when a line is raised at a core *)
(* or lost.                                                                *)
LEMMA InterruptSafe ==
  ASSUME TypeOK, IdleMeansNoIRQ, NEW l \in Lines, Interrupt(l)
  PROVE  /\ ip' \in [Cpu -> SUBSET Lines]
         /\ power' \in [Cpu -> {"halted", "running", "idle"}]
         /\ IdleMeansNoIRQ'
<1>1. CASE UNCHANGED <<ip, power>>
  BY <1>1 DEF TypeOK, IdleMeansNoIRQ
<1>2. ASSUME NEW c \in Cpu, AssertIRQ(l, c)
      PROVE  /\ ip' \in [Cpu -> SUBSET Lines]
             /\ power' \in [Cpu -> {"halted", "running", "idle"}]
             /\ IdleMeansNoIRQ'
  <2>1. /\ ip' = [ip EXCEPT ![c] = @ \cup {l}]
        /\ power' = [power EXCEPT ![c] = IF @ = "idle" THEN "running" ELSE @]
    BY <1>2 DEF AssertIRQ
  <2>2. \A b \in Cpu : b # c => ip'[b] = ip[b] /\ power'[b] = power[b]
    BY <2>1 DEF TypeOK
  <2>3. power'[c] # "idle"
    BY <2>1 DEF TypeOK
  <2>4. IdleMeansNoIRQ'
    BY <2>2, <2>3 DEF IdleMeansNoIRQ
  <2>5. QED
    BY <2>1, <2>4 DEF TypeOK
<1>3. QED
  BY <1>1, <1>2 DEF Interrupt

(* What the timer of a core leaves at the start of its cycle has its type, *)
(* and a core that stays asleep has nothing raised.                        *)
LEMMA TimerSafe ==
  ASSUME TypeOK, IdleMeansNoIRQ, NEW c \in Cpu
  PROVE  /\ Ticked(c) \in 0..W-1
         /\ Raised(c) \in SUBSET Lines
         /\ Asleep(c) => Raised(c) = {}
<1>1. cpuTimer[c] \in 0..W-1 /\ ip[c] \in SUBSET Lines
  BY DEF TypeOK
<1>2. Ticked(c) \in 0..W-1
  BY <1>1, Word DEF Ticked
<1>3. Raised(c) \in SUBSET Lines
  BY <1>1 DEF Raised, Lines
<1>4. Asleep(c) => Raised(c) = {}
  BY DEF Asleep, Raised, IdleMeansNoIRQ
<1>5. QED
  BY <1>2, <1>3, <1>4

LEMMA NextCoreSafe ==
  ASSUME TypeOK, NEW c \in Cpu, Turn(c), NextCore(c)
  PROVE  /\ cur' \in Cpu
         /\ at' \in {"test", "cores"}
  BY CoreFacts DEF Turn, NextCore, TypeOK

-----------------------------------------------------------------------------

(* One lemma for each kind of step of the loop. *)
LEMMA ClockTickIInv == IInv /\ ClockTick => IInv'
<1> SUFFICES ASSUME IInv, ClockTick
             PROVE  IInv'
  OBVIOUS
<1> USE DEF IInv
<1>1. /\ ip' \in [Cpu -> SUBSET Lines]
      /\ power' \in [Cpu -> {"halted", "running", "idle"}]
      /\ IdleMeansNoIRQ'
  <2>1. CASE Interrupt(IL_TIMER)
    BY <2>1, InterruptSafe DEF Lines
  <2>2. CASE UNCHANGED <<ip, power>>
    BY <2>2 DEF TypeOK, IdleMeansNoIRQ
  <2>3. QED
    BY <2>1, <2>2 DEF ClockTick
<1>2. timer' \in 0..W-1
  <2>1. timer - 1 \in Int
    BY DEF TypeOK
  <2>2. QED
    BY <2>1, Word DEF ClockTick
<1>3. left' \in 0..MaxSteps
  BY MaxStepsAssumption DEF ClockTick, GoOn, TypeOK
<1>4. due' \in [Event -> Int \cup {None}]
  BY DEF ClockTick, TypeOK
<1>5. /\ at' = "events" /\ UNCHANGED <<te, cpuTimer, halted, stopRequested, pauseRequested, cur>>
      /\ timerLoaded' \in BOOLEAN
  BY DEF ClockTick
<1>6. TypeOK'
  BY <1>1, <1>2, <1>3, <1>4, <1>5 DEF TypeOK
<1>7. QED
  BY <1>1, <1>5, <1>6 DEF NothingOverdue

LEMMA StepIInv == \A n \in 1..MaxSteps : IInv /\ step(n) => IInv'
<1> SUFFICES ASSUME NEW n \in 1..MaxSteps, IInv, step(n)
             PROVE  IInv'
  OBVIOUS
<1>1. n \in 0..MaxSteps
  BY MaxStepsAssumption
<1>2. QED
  BY <1>1 DEF IInv, step, clocks, cores, TypeOK, IdleMeansNoIRQ, NothingOverdue

LEMMA LoopIInv == IInv /\ (StepReturns \/ EventsDone) => IInv'
<1>1. IInv /\ StepReturns => IInv'
  BY DEF IInv, StepReturns, clocks, cores, TypeOK, IdleMeansNoIRQ, NothingOverdue
<1>2. IInv /\ EventsDone => IInv'
  <2> SUFFICES ASSUME IInv, EventsDone
               PROVE  IInv'
    OBVIOUS
  <2>1. TypeOK' /\ IdleMeansNoIRQ'
    BY CoreFacts DEF IInv, EventsDone, clocks, cores, TypeOK, IdleMeansNoIRQ
  <2>2. NothingOverdue'
    <3> SUFFICES ASSUME NEW e \in Event, due'[e] # None
                 PROVE  due'[e] > 0
      BY DEF NothingOverdue
    <3>1. due'[e] = due[e] /\ due[e] \in Int /\ ~(due[e] <= 0)
      BY DEF EventsDone, clocks, Due, IInv, TypeOK
    <3>2. QED
      BY <3>1
  <2>3. QED
    BY <2>1, <2>2 DEF IInv
<1>3. QED
  BY <1>1, <1>2

LEMMA FireEventIInv == \A e \in Event : IInv /\ FireEvent(e) => IInv'
<1> SUFFICES ASSUME NEW e \in Event, IInv, FireEvent(e)
             PROVE  IInv'
  OBVIOUS
<1> USE DEF IInv
<1>1. due' \in [Event -> Int \cup {None}]
  BY DelaysAssumption DEF FireEvent, TypeOK
<1>2. /\ UNCHANGED <<timer, stopRequested, pauseRequested, left, at, cur>> /\ at = "events"
      /\ timerLoaded' \in BOOLEAN
  BY DEF FireEvent, loop
<1>3. /\ ip' \in [Cpu -> SUBSET Lines]
      /\ power' \in [Cpu -> {"halted", "running", "idle"}]
      /\ IdleMeansNoIRQ'
      /\ te' \in [Cpu -> BOOLEAN]
      /\ cpuTimer' \in [Cpu -> 0..W-1]
      /\ halted' \in BOOLEAN
  <2>1. CASE Interrupt(IL_DEV) /\ UNCHANGED <<te, cpuTimer, halted>>
    BY <2>1, InterruptSafe DEF Lines, TypeOK
  <2>2. ASSUME NEW c \in Cpu, Reset(c), UNCHANGED halted
        PROVE  <1>3!:
    <3>1. 0 \in 0..W-1
      BY WAssumption
    <3>2. QED
      BY <2>2, <3>1 DEF Reset, TypeOK, IdleMeansNoIRQ
  <2>3. ASSUME NEW c \in Cpu, power' = [power EXCEPT ![c] = "halted"],
               UNCHANGED <<te, cpuTimer, ip, halted>>
        PROVE  <1>3!:
    BY <2>3 DEF TypeOK, IdleMeansNoIRQ
  <2>4. CASE halted' = TRUE /\ UNCHANGED cores
    BY <2>4 DEF cores, TypeOK, IdleMeansNoIRQ
  <2>5. QED
    BY <2>1, <2>2, <2>3, <2>4 DEF FireEvent
<1>4. TypeOK'
  BY <1>1, <1>2, <1>3 DEF TypeOK
<1>5. NothingOverdue'
  BY <1>2 DEF NothingOverdue
<1>6. QED
  BY <1>3, <1>4, <1>5

-----------------------------------------------------------------------------

(* The cycle of a core: one lemma for what every instruction has in common,*)
(* then one for each.                                                      *)
LEMMA CycleIdleIInv == \A c \in Cpu : IInv /\ CycleIdle(c) => IInv'
<1> SUFFICES ASSUME NEW c \in Cpu, IInv, CycleIdle(c)
             PROVE  IInv'
  OBVIOUS
<1> USE DEF IInv
<1>1. /\ UNCHANGED <<timer, due, power, te, halted, stopRequested, pauseRequested, left>>
      /\ timerLoaded' \in BOOLEAN
  BY DEF CycleIdle, clocks
<1>2. cur' \in Cpu /\ at' \in {"test", "cores"} /\ at # "events"
  BY NextCoreSafe DEF CycleIdle, Turn
<1>3. /\ ip' \in [Cpu -> SUBSET Lines]
      /\ cpuTimer' \in [Cpu -> 0..W-1]
      /\ IdleMeansNoIRQ'
  <2>1. CASE UNCHANGED <<ip, cpuTimer>>
    BY <2>1, <1>1 DEF TypeOK, IdleMeansNoIRQ
  <2>2. CASE /\ Asleep(c)
             /\ ip' = [ip EXCEPT ![c] = Raised(c)]
             /\ cpuTimer' = [cpuTimer EXCEPT ![c] = Ticked(c)]
    BY <2>2, <1>1, TimerSafe DEF TypeOK, IdleMeansNoIRQ
  <2>3. QED
    BY <2>1, <2>2 DEF CycleIdle
<1>4. TypeOK'
  BY <1>1, <1>2, <1>3 DEF TypeOK
<1>5. NothingOverdue'
  BY <1>1, <1>2 DEF NothingOverdue
<1>6. QED
  BY <1>3, <1>4, <1>5

(* The load completed in a cycle keeps the types, and changes the core     *)
(* whose cycle it is alone.                                                *)
LEMMA LoadSafe ==
  ASSUME TypeOK, IdleMeansNoIRQ, NEW c \in Cpu, completeLoad(c)
  PROVE  /\ te' \in [Cpu -> BOOLEAN]
         /\ cpuTimer' \in [Cpu -> 0..W-1]
         /\ \A b \in Cpu \ {c} : cpuTimer'[b] = cpuTimer[b]
         /\ cpuTimer'[c] = Ticked(c) \/ timerLoaded'
         /\ timerLoaded' \in BOOLEAN
         /\ Raised(c) \ Lowered \in SUBSET Lines
         /\ timerLoaded' \/ Raised(c) \ Lowered = Raised(c)
<1>1. \E b \in BOOLEAN : te' = [te EXCEPT ![c] = b]
  BY DEF completeLoad
<1>2. /\ timerLoaded' \in BOOLEAN
      /\ \E v \in 0..W-1 : cpuTimer' = [cpuTimer EXCEPT ![c] = v] /\ (v = Ticked(c) \/ timerLoaded')
  BY TimerSafe DEF completeLoad
<1>3. Raised(c) \in SUBSET Lines
  BY TimerSafe
<1>4. te' \in [Cpu -> BOOLEAN]
  BY <1>1 DEF TypeOK
<1>5. /\ Raised(c) \ Lowered \in SUBSET Lines
      /\ timerLoaded' \/ Raised(c) \ Lowered = Raised(c)
  BY <1>3 DEF Lowered
<1>6. QED
  BY <1>2, <1>4, <1>5 DEF TypeOK

LEMMA ExecWaitIInv == \A c \in Cpu : IInv /\ ExecWait(c) => IInv'
<1> SUFFICES ASSUME NEW c \in Cpu, IInv, ExecWait(c)
             PROVE  IInv'
  OBVIOUS
<1> USE DEF IInv
<1>1. UNCHANGED <<timer, due, halted, stopRequested, left>>
  BY DEF ExecWait, clocks
<1>2. cur' \in Cpu /\ at' \in {"test", "cores"} /\ at # "events"
  BY NextCoreSafe DEF ExecWait, Turn
<1>3. ip' = [ip EXCEPT ![c] = Raised(c) \ Lowered]
  BY DEF ExecWait
<1>4. \/ Raised(c) = {} /\ power' = [power EXCEPT ![c] = "idle"] /\ pauseRequested' = TRUE
      \/ power' = [power EXCEPT ![c] = "running"] /\ UNCHANGED pauseRequested
  BY DEF ExecWait
<1>5. /\ te' \in [Cpu -> BOOLEAN] /\ cpuTimer' \in [Cpu -> 0..W-1] /\ timerLoaded' \in BOOLEAN
      /\ Raised(c) \ Lowered \in SUBSET Lines
  BY LoadSafe DEF ExecWait
<1>6. TypeOK'
  BY <1>1, <1>2, <1>3, <1>4, <1>5 DEF TypeOK
<1>7. IdleMeansNoIRQ'
  BY <1>3, <1>4, <1>5 DEF TypeOK, IdleMeansNoIRQ
<1>8. NothingOverdue'
  BY <1>1, <1>2 DEF NothingOverdue
<1>9. QED
  BY <1>6, <1>7, <1>8

(* An instruction keeps the invariant if it leaves its core awake, wakes   *)
(* at most another, and raises a line at no core that it leaves asleep.    *)
LEMMA ExecIInv ==
  ASSUME NEW c \in Cpu, IInv, Exec(c),
         timer' \in 0..W-1,
         due' = due \/ \E e \in Event, d \in Delays : due' = [due EXCEPT ![e] = d],
         te' \in [Cpu -> BOOLEAN],
         cpuTimer' \in [Cpu -> 0..W-1],
         timerLoaded' \in BOOLEAN,
         ip' \in [Cpu -> SUBSET Lines],
         power' \in [Cpu -> {"halted", "running", "idle"}],
         power'[c] = "running",
         \A b \in Cpu \ {c} : power'[b] = "idle" => power[b] = "idle" /\ ip'[b] \subseteq ip[b]
  PROVE  IInv'
<1> USE DEF IInv
<1>1. /\ UNCHANGED <<halted, pauseRequested, left>>
      /\ stopRequested' \in BOOLEAN
  BY DEF Exec, TypeOK
<1>2. cur' \in Cpu /\ at' \in {"test", "cores"} /\ at # "events"
  BY NextCoreSafe DEF Exec, Turn
<1>3. /\ due' \in [Event -> Int \cup {None}]
      /\ \A e \in Event : due'[e] # None => due'[e] > 0
  BY <1>2, DelaysAssumption DEF TypeOK, NothingOverdue
<1>4. TypeOK'
  BY <1>1, <1>2, <1>3 DEF TypeOK
<1>5. IdleMeansNoIRQ'
  BY DEF IdleMeansNoIRQ
<1>6. NothingOverdue'
  BY <1>3 DEF NothingOverdue
<1>7. QED
  BY <1>4, <1>5, <1>6

LEMMA ExecPlainIInv == \A c \in Cpu : IInv /\ ExecPlain(c) => IInv'
<1> SUFFICES ASSUME NEW c \in Cpu, IInv, ExecPlain(c)
             PROVE  IInv'
  OBVIOUS
<1>1. /\ Exec(c) /\ completeLoad(c) /\ UNCHANGED <<timer, due>>
      /\ power' = [power EXCEPT ![c] = "running"]
      /\ ip' = [ip EXCEPT ![c] = Raised(c) \ Lowered]
  BY DEF ExecPlain, clocks
<1>2. TypeOK /\ IdleMeansNoIRQ
  BY DEF IInv
<1>3. /\ te' \in [Cpu -> BOOLEAN] /\ cpuTimer' \in [Cpu -> 0..W-1] /\ timerLoaded' \in BOOLEAN
      /\ Raised(c) \ Lowered \in SUBSET Lines
  BY <1>1, <1>2, LoadSafe
<1>4. /\ ip' \in [Cpu -> SUBSET Lines]
      /\ power' \in [Cpu -> {"halted", "running", "idle"}] /\ power'[c] = "running"
      /\ \A b \in Cpu \ {c} : power'[b] = power[b] /\ ip'[b] = ip[b]
  BY <1>1, <1>2, <1>3 DEF TypeOK
<1>5. timer' \in 0..W-1
  BY <1>1, <1>2 DEF TypeOK
<1>6. QED
  BY <1>1, <1>3, <1>4, <1>5, ExecIInv

LEMMA AcknowledgeSafe ==
  ASSUME TypeOK, IdleMeansNoIRQ, NEW c \in Cpu, NEW l \in Lines, Acknowledge(l, c), completeLoad(c)
  PROVE  /\ ip' \in [Cpu -> SUBSET Lines]
         /\ \A b \in Cpu \ {c} : ip'[b] \subseteq ip[b]
         /\ timerLoaded' \/ Raised(c) \subseteq ip'[c] \cup {l}
<1>1. PICK t \in Cpu \cup {None} :
        ip' = [b \in Cpu |-> (IF b = c THEN Raised(c) \ Lowered ELSE ip[b])
                             \ (IF b = t THEN {l} ELSE {})]
  BY DEF Acknowledge
<1>2. Raised(c) \ Lowered \in SUBSET Lines /\ (timerLoaded' \/ Raised(c) \ Lowered = Raised(c))
  BY LoadSafe
<1>3. QED
  BY <1>1, <1>2 DEF TypeOK

LEMMA ExecWriteTimerIInv == \A c \in Cpu : IInv /\ ExecWriteTimer(c) => IInv'
<1> SUFFICES ASSUME NEW c \in Cpu, IInv, ExecWriteTimer(c)
             PROVE  IInv'
  OBVIOUS
<1>1. /\ Exec(c) /\ power' = [power EXCEPT ![c] = "running"] /\ UNCHANGED due
      /\ timer' \in 0..W-1
      /\ completeLoad(c)
      /\ Acknowledge(IL_TIMER, c)
  BY DEF ExecWriteTimer
<1>2. TypeOK /\ IdleMeansNoIRQ /\ IL_TIMER \in Lines
  BY DEF IInv, Lines
<1>3. ip' \in [Cpu -> SUBSET Lines] /\ \A b \in Cpu \ {c} : ip'[b] \subseteq ip[b]
  BY <1>1, <1>2, AcknowledgeSafe
<1>4. te' \in [Cpu -> BOOLEAN] /\ cpuTimer' \in [Cpu -> 0..W-1] /\ timerLoaded' \in BOOLEAN
  BY <1>1, <1>2, LoadSafe
<1>5. /\ power' \in [Cpu -> {"halted", "running", "idle"}] /\ power'[c] = "running"
      /\ \A b \in Cpu \ {c} : power'[b] = power[b]
  BY <1>1, <1>2 DEF TypeOK
<1>6. QED
  BY <1>1, <1>3, <1>4, <1>5, ExecIInv

LEMMA ExecCommandIInv == \A c \in Cpu : IInv /\ ExecCommand(c) => IInv'
<1> SUFFICES ASSUME NEW c \in Cpu, IInv, ExecCommand(c)
             PROVE  IInv'
  OBVIOUS
<1>1. /\ Exec(c) /\ UNCHANGED timer /\ completeLoad(c)
      /\ due' = due \/ \E e \in Event, d \in Delays : due' = [due EXCEPT ![e] = d]
  BY DEF ExecCommand
<1>2. TypeOK /\ IdleMeansNoIRQ /\ IL_DEV \in Lines
  BY DEF IInv, Lines
<1>3. /\ timer' \in 0..W-1 /\ te' \in [Cpu -> BOOLEAN] /\ cpuTimer' \in [Cpu -> 0..W-1]
      /\ timerLoaded' \in BOOLEAN
  BY <1>1, <1>2, LoadSafe DEF TypeOK
<1>4. CASE RaiseNow(c)
  <2>1. PICK t \in Cpu :
          /\ ip' = [b \in Cpu |-> (IF b = c THEN Raised(c) \ Lowered ELSE ip[b])
                                  \cup (IF b = t THEN {IL_DEV} ELSE {})]
          /\ power' = [b \in Cpu |-> IF b = c \/ (b = t /\ power[b] = "idle")
                                     THEN "running" ELSE power[b]]
    BY <1>4 DEF RaiseNow
  <2>2. Raised(c) \ Lowered \in SUBSET Lines
    BY <1>1, <1>2, LoadSafe
  <2>3. ip' \in [Cpu -> SUBSET Lines]
    BY <1>2, <2>1, <2>2 DEF TypeOK
  <2>4. power' \in [Cpu -> {"halted", "running", "idle"}] /\ power'[c] = "running"
    BY <1>2, <2>1 DEF TypeOK
  <2>5. \A b \in Cpu \ {c} : power'[b] = "idle" => power[b] = "idle" /\ ip'[b] \subseteq ip[b]
    BY <2>1
  <2>6. QED
    BY <1>1, <1>3, <2>3, <2>4, <2>5, ExecIInv
<1>5. CASE Acknowledge(IL_DEV, c) /\ power' = [power EXCEPT ![c] = "running"]
  <2>1. ip' \in [Cpu -> SUBSET Lines] /\ \A b \in Cpu \ {c} : ip'[b] \subseteq ip[b]
    BY <1>1, <1>2, <1>5, AcknowledgeSafe
  <2>2. /\ power' \in [Cpu -> {"halted", "running", "idle"}] /\ power'[c] = "running"
        /\ \A b \in Cpu \ {c} : power'[b] = power[b]
    BY <1>2, <1>5 DEF TypeOK
  <2>3. QED
    BY <1>1, <1>3, <2>1, <2>2, ExecIInv
<1>6. QED
  BY <1>4, <1>5 DEF ExecCommand

-----------------------------------------------------------------------------

(* What the client does: a skip that idleCycles allows reaches no deadline.*)
LEMMA SkipIInv == \A n \in 1..W-1 : IInv /\ CanSkip(n) /\ skip(n) => IInv'
<1> SUFFICES ASSUME NEW n \in 1..W-1, IInv, CanSkip(n), skip(n)
             PROVE  IInv'
  OBVIOUS
<1> USE DEF IInv
<1>1. /\ UNCHANGED <<power, te, ip, halted, stopRequested, pauseRequested, left, at, cur>>
      /\ timerLoaded' \in BOOLEAN
  BY DEF skip, loop
<1>2. timer' \in 0..W-1
  <2>1. timer - n \in Int
    BY WAssumption DEF TypeOK
  <2>2. QED
    BY <2>1, Word DEF skip
<1>3. cpuTimer' \in [Cpu -> 0..W-1]
  <2>1. \A c \in Cpu : cpuTimer[c] - n \in Int /\ cpuTimer[c] \in 0..W-1
    BY WAssumption DEF TypeOK
  <2>2. \A c \in Cpu : (cpuTimer[c] - n) % W \in 0..W-1
    BY <2>1, Word
  <2>3. QED
    BY <2>1, <2>2 DEF skip
<1>4. \A e \in Event : /\ due'[e] \in Int \cup {None}
                       /\ due'[e] # None => due'[e] > 0
  <2> TAKE e \in Event
  <2>1. due'[e] = IF due[e] = None THEN None ELSE due[e] - n
    BY DEF skip
  <2>2. due[e] # None => n <= due[e] - 1
    BY WAssumption DEF CanSkip, BusIdle
  <2>3. due[e] \in Int \cup {None} /\ n \in Int
    BY WAssumption DEF TypeOK
  <2>4. QED
    BY <2>1, <2>2, <2>3
<1>5. due' \in [Event -> Int \cup {None}]
  BY <1>4 DEF skip
<1>6. TypeOK'
  BY <1>1, <1>2, <1>3, <1>5 DEF TypeOK
<1>7. IdleMeansNoIRQ' /\ NothingOverdue'
  BY <1>1, <1>4 DEF IdleMeansNoIRQ, NothingOverdue
<1>8. QED
  BY <1>6, <1>7

LEMMA SetTimerIInv == IInv /\ SetTimer => IInv'
<1> SUFFICES ASSUME IInv, SetTimer
             PROVE  IInv'
  OBVIOUS
<1>1. /\ UNCHANGED <<due, power, te, ip, halted, stopRequested, pauseRequested, left, at, cur>>
      /\ timerLoaded' \in BOOLEAN
  BY DEF SetTimer, loop
<1>2. timer' \in 0..W-1 /\ cpuTimer' \in [Cpu -> 0..W-1]
  BY DEF SetTimer, IInv, TypeOK
<1>3. QED
  BY <1>1, <1>2 DEF IInv, TypeOK, IdleMeansNoIRQ, NothingOverdue

LEMMA PowerOnIInv == IInv /\ PowerOn => IInv'
<1> SUFFICES ASSUME IInv, PowerOn
             PROVE  IInv'
  OBVIOUS
<1>1. W - 1 \in 0..W-1 /\ 0 \in 0..W-1 /\ 0 \in 0..MaxSteps
  BY WAssumption, MaxStepsAssumption
<1>2. TypeOK'
  BY <1>1 DEF PowerOn, IInv, TypeOK
<1>3. QED
  BY <1>2, NoneAssumption DEF PowerOn, IInv, IdleMeansNoIRQ, NothingOverdue

LEMMA NextIInv == IInv /\ [Next]_machine => IInv'
<1> SUFFICES ASSUME IInv, [Next]_machine
             PROVE  IInv'
  OBVIOUS
<1>1. CASE UNCHANGED machine
  BY <1>1 DEF machine, IInv, TypeOK, IdleMeansNoIRQ, NothingOverdue
<1>2. CASE Run
  <2>1. ASSUME NEW c \in Cpu, Cycle(c)
        PROVE  IInv'
    BY <2>1, CycleIdleIInv, ExecWaitIInv, ExecPlainIInv, ExecWriteTimerIInv, ExecCommandIInv
    DEF Cycle
  <2>2. QED
    BY <1>2, <2>1, ClockTickIInv, LoopIInv, FireEventIInv DEF Run
<1>3. CASE Client
  BY <1>3, StepIInv, SkipIInv, SetTimerIInv, PowerOnIInv DEF Client
<1>4. QED
  BY <1>1, <1>2, <1>3 DEF Next

(* The inductive invariant. *)
THEOREM Invariant == Spec => []IInv
<1>1. QED
  BY InitIInv, NextIInv, PTL DEF Spec

(* The machine's state keeps its type: timers wrap, a core's index never   *)
(* leaves the range of cores, and step never counts below zero.            *)
THEOREM TypeCorrect == Spec => []TypeOK
  BY Invariant, PTL DEF IInv

(* No wakeup is lost: a core that waits for an interrupt has none pending, *)
(* though devices and other cores raise them within the tick in which it   *)
(* executes WAIT (Processor::suspend, Processor::AssertIRQ).               *)
THEOREM NoLostWakeup == Spec => []IdleMeansNoIRQ
  BY Invariant, PTL DEF IInv

(* No event is late between two ticks, whatever was skipped                *)
(* (SystemBus::ClockTick, SystemBus::IdleCycles).                          *)
THEOREM NoLateEvent == Spec => []NothingOverdue
  BY Invariant, PTL DEF IInv

-----------------------------------------------------------------------------

(* A cycle in which the local timer of its core grows was that of its      *)
(* underflow, whose interrupt is raised.                                   *)
LEMMA TickGrows ==
  ASSUME TypeOK, NEW c \in Cpu, Ticked(c) > cpuTimer[c]
  PROVE  te[c] /\ cpuTimer[c] = 0 /\ IL_CPUTIMER \in Raised(c)
<1>1. cpuTimer[c] \in 0..W-1
  BY DEF TypeOK
<1>2. te[c]
  BY <1>1 DEF Ticked
<1>3. CASE cpuTimer[c] # 0
  <2>1. cpuTimer[c] - 1 \in 0..W-1
    BY <1>1, <1>3, WAssumption
  <2>2. Ticked(c) = cpuTimer[c] - 1
    BY <1>2, <2>1, Word DEF Ticked
  <2>3. QED
    BY <1>1, <2>2
<1>4. QED
  BY <1>2, <1>3 DEF Raised

(* NoSilentUnderflow of one step. *)
Silent(c) == \/ (Turn(c) /\ timerLoaded') \/ SetTimer
             \/ cpuTimer[c] = 0 /\ IL_CPUTIMER \in ip'[c] /\ power'[c] = "running"

LEMMA LocalTimer ==
  ASSUME IInv, Next, NEW c \in Cpu, cpuTimer'[c] > cpuTimer[c]
  PROVE  Silent(c)
<1> USE DEF Silent
<1>0. /\ TypeOK /\ IdleMeansNoIRQ
      /\ \A b \in Cpu : cpuTimer[b] \in 0..W-1
      /\ Ticked(c) \in 0..W-1 /\ Raised(c) \in SUBSET Lines
  BY TimerSafe DEF IInv, TypeOK
<1>1. CASE UNCHANGED cpuTimer
  BY <1>0, <1>1
<1>2. ASSUME NEW e \in Event, FireEvent(e)
      PROVE  Silent(c)
  BY <1>0, <1>2 DEF FireEvent, Reset, cores, TypeOK
<1>3. ASSUME NEW b \in Cpu, Cycle(b)
      PROVE  Silent(c)
  <2>1. CASE completeLoad(b) /\ Turn(b)
    <3>1. b = c
      BY <1>0, <2>1, LoadSafe
    <3>2. CASE timerLoaded'
      BY <2>1, <3>1, <3>2
    <3>3. CASE ~timerLoaded'
      <4>1. te[c] /\ cpuTimer[c] = 0 /\ IL_CPUTIMER \in Raised(c)
        <5>1. cpuTimer'[c] = Ticked(c)
          BY <1>0, <2>1, <3>1, <3>3, LoadSafe
        <5>2. QED
          BY <1>0, <5>1, TickGrows
      <4>2. Raised(c) \ Lowered = Raised(c)
        BY <3>3 DEF Lowered
      <4>3. CASE ExecWait(c)
        BY <1>0, <4>1, <4>2, <4>3 DEF ExecWait, TypeOK
      <4>4. CASE ExecPlain(c)
        BY <1>0, <4>1, <4>2, <4>4 DEF ExecPlain, TypeOK
      <4>5. ASSUME NEW l \in {IL_TIMER, IL_DEV}, Acknowledge(l, c),
                   power' = [power EXCEPT ![c] = "running"]
            PROVE  Silent(c)
        <5>1. Raised(c) \subseteq ip'[c] \cup {l} /\ l # IL_CPUTIMER
          BY <1>0, <2>1, <3>1, <3>3, <4>5, AcknowledgeSafe DEF Lines, IL_TIMER, IL_DEV, IL_CPUTIMER
        <5>2. QED
          BY <1>0, <4>1, <4>5, <5>1 DEF TypeOK
      <4>6. CASE RaiseNow(c)
        BY <4>1, <4>2, <4>6 DEF RaiseNow
      <4>7. ~CycleIdle(c)
        BY <1>0, <4>1 DEF CycleIdle, Asleep, TypeOK
      <4>8. QED
        BY <1>3, <3>1, <4>3, <4>4, <4>5, <4>6, <4>7 DEF Cycle, ExecWriteTimer, ExecCommand
    <3>4. QED
      BY <3>2, <3>3
  <2>2. CASE CycleIdle(b)
    <3>1. CASE cpuTimer' = [cpuTimer EXCEPT ![b] = Ticked(b)] /\ Asleep(b)
      <4>1. b = c /\ cpuTimer'[c] = Ticked(c)
        BY <1>0, <3>1 DEF TypeOK
      <4>2. te[c] /\ cpuTimer[c] = 0
        BY <1>0, <4>1, TickGrows
      <4>3. QED
        BY <3>1, <4>1, <4>2 DEF Asleep
    <3>2. QED
      BY <1>1, <2>2, <3>1 DEF CycleIdle
  <2>3. QED
    BY <1>3, <2>1, <2>2 DEF Cycle, ExecWait, ExecPlain, ExecWriteTimer, ExecCommand, Exec
<1>4. ASSUME NEW n \in 1..W-1, CanSkip(n), skip(n)
      PROVE  Silent(c)
  <2>1. CASE power[c] # "halted" /\ te[c]
    <3>1. n <= cpuTimer[c] /\ n \in Int /\ n > 0
      BY <1>4, <2>1, WAssumption DEF CanSkip, CpuIdle
    <3>2. cpuTimer[c] - n \in 0..W-1
      BY <1>0, <3>1, WAssumption
    <3>3. cpuTimer'[c] = cpuTimer[c] - n
      BY <1>4, <2>1, <3>2, Word DEF skip
    <3>4. QED
      BY <1>0, <3>1, <3>3
  <2>2. QED
    BY <1>0, <1>4, <2>1 DEF skip
<1>5. CASE PowerOn
  BY <1>0, <1>5 DEF PowerOn
<1>6. QED
  BY <1>1, <1>2, <1>3, <1>4, <1>5
  DEF Next, Run, Client, ClockTick, StepReturns, EventsDone, step, cores

LEMMA IntervalTimer ==
  ASSUME IInv, Next, timer' > timer
  PROVE  \/ PowerOn \/ SetTimer
         \/ \E c \in Cpu : ExecWriteTimer(c)
         \/ timer = 0 /\ Interrupt(IL_TIMER)
<1>0. timer \in 0..W-1
  BY DEF IInv, TypeOK
<1>1. CASE UNCHANGED timer
  BY <1>0, <1>1
<1>2. CASE ClockTick
  <2>1. CASE timer # 0
    <3>1. timer - 1 \in 0..W-1
      BY <1>0, <2>1, WAssumption
    <3>2. timer' = timer - 1
      BY <1>2, <3>1, Word DEF ClockTick
    <3>3. QED
      BY <1>0, <3>2
  <2>2. QED
    BY <1>2, <2>1 DEF ClockTick
<1>3. ASSUME NEW n \in 1..W-1, CanSkip(n), skip(n)
      PROVE  FALSE
  <2>1. n <= timer /\ n \in Int /\ n > 0
    BY <1>3, WAssumption DEF CanSkip, BusIdle
  <2>2. timer - n \in 0..W-1
    BY <1>0, <2>1, WAssumption
  <2>3. timer' = timer - n
    BY <1>3, <2>2, Word DEF skip
  <2>4. QED
    BY <1>0, <2>1, <2>3
<1>4. ASSUME NEW c \in Cpu, Cycle(c), ~ExecWriteTimer(c)
      PROVE  UNCHANGED timer
  BY <1>4 DEF Cycle, CycleIdle, ExecWait, ExecPlain, ExecCommand, clocks
<1>5. ASSUME StepReturns \/ EventsDone \/ (\E e \in Event : FireEvent(e))
                \/ \E n \in 1..MaxSteps : step(n)
      PROVE  UNCHANGED timer
  BY <1>5 DEF StepReturns, EventsDone, FireEvent, step, clocks
<1>6. QED
  BY <1>1, <1>2, <1>3, <1>4, <1>5 DEF Next, Run, Client

(* No timer passes zero silently, in a tick or in a skip: an interval timer*)
(* that grows was written, or raised its interrupt; a local timer that     *)
(* grows was loaded in that cycle, be it of WAIT or of a store, or left    *)
(* its interrupt pending at its core, awake (SystemBus::ClockTick,         *)
(* Processor::Cycle, Processor::completeLoad, Machine::skip).              *)
THEOREM UnderflowsRaise == Spec => NoSilentUnderflow
<1>1. ASSUME IInv, [Next]_machine
      PROVE  [/\ timer' > timer => \/ PowerOn \/ SetTimer
                                   \/ \E c \in Cpu : ExecWriteTimer(c)
                                   \/ timer = 0 /\ Interrupt(IL_TIMER)
              /\ \A c \in Cpu : cpuTimer'[c] > cpuTimer[c] =>
                   \/ (Turn(c) /\ timerLoaded') \/ SetTimer
                   \/ cpuTimer[c] = 0 /\ IL_CPUTIMER \in ip'[c] /\ power'[c] = "running"]_machine
  <2>1. CASE Next
    <3>1. timer' > timer => \/ PowerOn \/ SetTimer
                            \/ \E c \in Cpu : ExecWriteTimer(c)
                            \/ timer = 0 /\ Interrupt(IL_TIMER)
      BY <1>1, <2>1, IntervalTimer
    <3>2. \A c \in Cpu : cpuTimer'[c] > cpuTimer[c] => Silent(c)
      BY <1>1, <2>1, LocalTimer
    <3>3. QED
      BY <3>1, <3>2 DEF Silent
  <2>2. QED
    BY <1>1, <2>1
<1>2. QED
  BY <1>1, Invariant, PTL DEF Spec, NoSilentUnderflow
================================================================================
