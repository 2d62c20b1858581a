-------------------------------- MODULE Machine --------------------------------
(***************************************************************************)
(* The machine loop (src/umps/machine.cc) with what it drives: the clock   *)
(* and interval timer of the bus (src/umps/systembus.cc) and the power     *)
(* state, local timer and interrupt inputs of each core                    *)
(* (src/umps/processor.cc).                                                *)
(*                                                                         *)
(* A tick advances the bus, then every core in turn.  When every core is   *)
(* halted or waits for an interrupt the client may skip, in one call, the  *)
(* ticks in which nothing can happen.  An instruction is chosen among      *)
(* those that touch this state, an event among the callbacks that do; the  *)
(* queue itself is EventQueue, the routing InterruptController.            *)
(***************************************************************************)
EXTENDS Integers, FiniteSets

CONSTANTS N,         \* number of cores
          W,         \* timers count modulo W: 2^32
          Event,     \* operations that may be scheduled
          Delays,    \* ticks an operation may take
          MaxSteps,  \* ticks of one call of step
          None

ASSUME NAssumption == N \in Nat \ {0}
ASSUME WAssumption == W \in Nat \ {0, 1}
ASSUME DelaysAssumption == Delays \subseteq Nat \ {0}
ASSUME MaxStepsAssumption == MaxSteps \in Nat \ {0}
ASSUME NoneAssumption == None \notin Int

IL_CPUTIMER == 1
IL_TIMER == 2
IL_DEV == 3          \* any of the device lines

Lines == {IL_CPUTIMER, IL_TIMER, IL_DEV}
Cpu == 0..N-1

VARIABLES timer,     \* interval timer
          due,       \* [Event -> ticks until its deadline, None if not queued]
          power,     \* [Cpu -> status of the core]
          te,        \* [Cpu -> local timer enabled, bit TE of STATUS]
          cpuTimer,  \* [Cpu -> local timer]
          ip,        \* [Cpu -> lines set in CAUSE.IP]
          halted,    \* the machine was powered off by the guest
          stopRequested, pauseRequested,
          left,      \* iterations left in the running call of step
          at,        \* where step is in its loop, or "rest" outside it
          cur,       \* core whose cycle is next while at = "cores"
          timerLoaded     \* history: the last step was a cycle in which the program
                     \* set the local timer of its core

clocks == <<timer, due>>
cores == <<power, te, cpuTimer, ip>>
loop == <<stopRequested, pauseRequested, left, at, cur>>
machine == <<timer, due, power, te, cpuTimer, ip, halted, stopRequested, pauseRequested,
             left, at, cur, timerLoaded>>

TypeOK == /\ timer \in 0..W-1
          /\ due \in [Event -> Int \cup {None}]
          /\ power \in [Cpu -> {"halted", "running", "idle"}]
          /\ te \in [Cpu -> BOOLEAN]
          /\ cpuTimer \in [Cpu -> 0..W-1]
          /\ ip \in [Cpu -> SUBSET Lines]
          /\ halted \in BOOLEAN
          /\ stopRequested \in BOOLEAN /\ pauseRequested \in BOOLEAN
          /\ left \in 0..MaxSteps
          /\ at \in {"rest", "test", "events", "cores"}
          /\ cur \in Cpu
          /\ timerLoaded \in BOOLEAN

(* A machine just built: core 0 is reset, the others are halted. *)
Init == /\ timer = W - 1
        /\ due = [e \in Event |-> None]
        /\ power = [c \in Cpu |-> IF c = 0 THEN "running" ELSE "halted"]
        /\ te = [c \in Cpu |-> FALSE]
        /\ cpuTimer = [c \in Cpu |-> 0]
        /\ ip = [c \in Cpu |-> {}]
        /\ halted = FALSE
        /\ stopRequested = FALSE /\ pauseRequested = FALSE
        /\ left = 0
        /\ at = "rest" /\ cur = 0
        /\ timerLoaded = FALSE

-----------------------------------------------------------------------------

(* Mutant: an interrupt does not wake the core. *)
AssertIRQSleeping(l, c) ==
  /\ ip' = [ip EXCEPT ![c] = @ \cup {l}]
  /\ UNCHANGED power

(* Processor::AssertIRQ: an interrupt, masked or not, wakes an idle core.  *)
AssertIRQ(l, c) ==
  /\ ip' = [ip EXCEPT ![c] = @ \cup {l}]
  /\ power' = [power EXCEPT ![c] = IF @ = "idle" THEN "running" ELSE @]

(* The interrupt controller delivers l to a core, or loses it. *)
Interrupt(l) == \/ \E c \in Cpu : AssertIRQ(l, c)
                \/ UNCHANGED <<ip, power>>

(* The client asks for n ticks. *)
step(n) ==
  /\ at = "rest"
  /\ stopRequested' = FALSE /\ pauseRequested' = FALSE
  /\ left' = n
  /\ at' = "test"
  /\ timerLoaded' = FALSE
  /\ UNCHANGED <<clocks, cores, halted, cur>>

GoOn == ~halted /\ left > 0 /\ ~stopRequested /\ ~pauseRequested

StepReturns ==
  /\ at = "test" /\ ~GoOn
  /\ at' = "rest"
  /\ timerLoaded' = FALSE
  /\ UNCHANGED <<clocks, cores, halted, stopRequested, pauseRequested, left, cur>>

(* SystemBus::ClockTick up to its scan of the event queue. *)
ClockTick ==
  /\ at = "test" /\ GoOn
  /\ left' = left - 1
  /\ timer' = (timer - 1) % W
  /\ due' = [e \in Event |-> IF due[e] = None THEN None ELSE due[e] - 1]
  /\ IF timer = 0 THEN Interrupt(IL_TIMER) ELSE UNCHANGED <<ip, power>>
  /\ at' = "events"
  /\ timerLoaded' = FALSE
  /\ UNCHANGED <<te, cpuTimer, halted, stopRequested, pauseRequested, cur>>

Due(e) == due[e] # None /\ due[e] <= 0

(* Processor::Reset, which leaves the controller's pending lines alone. *)
Reset(c) ==
  /\ power' = [power EXCEPT ![c] = "running"]
  /\ te' = [te EXCEPT ![c] = FALSE]
  /\ cpuTimer' = [cpuTimer EXCEPT ![c] = 0]
  /\ ip' = [ip EXCEPT ![c] = {}]

(* A callback: a device completes, and perhaps starts over; a core is      *)
(* reset or halted; the machine is powered off.                            *)
FireEvent(e) ==
  /\ at = "events" /\ Due(e)
  /\ \E d \in Delays \cup {None} : due' = [due EXCEPT ![e] = d]
  /\ \/ Interrupt(IL_DEV) /\ UNCHANGED <<te, cpuTimer, halted>>
     \/ \E c \in Cpu : Reset(c) /\ UNCHANGED halted
     \/ \E c \in Cpu : /\ power' = [power EXCEPT ![c] = "halted"]
                       /\ UNCHANGED <<te, cpuTimer, ip, halted>>
     \/ halted' = TRUE /\ UNCHANGED cores
  /\ timerLoaded' = FALSE
  /\ UNCHANGED <<timer, loop>>

EventsDone ==
  /\ at = "events" /\ \A e \in Event : ~Due(e)
  /\ at' = "cores" /\ cur' = 0
  /\ timerLoaded' = FALSE
  /\ UNCHANGED <<clocks, cores, halted, stopRequested, pauseRequested, left>>

Turn(c) == at = "cores" /\ cur = c

NextCore(c) == IF c = N - 1 THEN at' = "test" /\ cur' = 0
                             ELSE cur' = c + 1 /\ UNCHANGED at

(* The local timer of core c at the start of its cycle: what it leaves in  *)
(* the timer and in CAUSE.IP, which wakes the core if it is idle.          *)
Ticked(c) == IF te[c] THEN (cpuTimer[c] - 1) % W ELSE cpuTimer[c]
Raised(c) == IF ~te[c] THEN ip[c] \ {IL_CPUTIMER}
             ELSE IF cpuTimer[c] = 0 THEN ip[c] \cup {IL_CPUTIMER} ELSE ip[c]
Asleep(c) == power[c] = "idle" /\ ~(te[c] /\ cpuTimer[c] = 0)

(* A core that is halted, or stays idle, executes nothing.                 *)
CycleIdle(c) ==
  /\ Turn(c)
  /\ \/ power[c] = "halted" /\ UNCHANGED <<ip, cpuTimer>>
     \/ /\ Asleep(c)
        /\ ip' = [ip EXCEPT ![c] = Raised(c)]
        /\ cpuTimer' = [cpuTimer EXCEPT ![c] = Ticked(c)]
  /\ NextCore(c)
  /\ timerLoaded' = FALSE
  /\ UNCHANGED <<clocks, power, te, halted, stopRequested, pauseRequested, left>>

Awake(c) == power[c] # "halted" /\ ~Asleep(c)

(* Processor::completeLoad: the cycle of an instruction completes the load *)
(* that the one before left pending, perhaps the MTC0 of STATUS with its   *)
(* bit TE, or that of the local timer, which acknowledges the interrupt    *)
(* (Lowered).                                                              *)
completeLoad(c) ==
  /\ \E b \in BOOLEAN : te' = [te EXCEPT ![c] = b]
  /\ \/ /\ timerLoaded' = FALSE
        /\ cpuTimer' = [cpuTimer EXCEPT ![c] = Ticked(c)]
     \/ /\ timerLoaded' = TRUE
        /\ \E v \in 0..W-1 : cpuTimer' = [cpuTimer EXCEPT ![c] = v]

(* No more than one, unless the cycle ends in an exception (an interrupt,  *)
(* a fetch that fails), which completes the load of its own MTC0 as well.  *)
OneLoad == timerLoaded' => UNCHANGED te

Lowered == IF timerLoaded' THEN {IL_CPUTIMER} ELSE {}

(* The instruction WAIT: the core becomes idle unless a line is pending,   *)
(* and the machine is asked to pause so that the client sees it is idle;   *)
(* the pending load is completed after that.                               *)
ExecWait(c) ==
  /\ Turn(c) /\ Awake(c)
  /\ completeLoad(c) /\ OneLoad
  /\ ip' = [ip EXCEPT ![c] = Raised(c) \ Lowered]
  /\ IF Raised(c) = {}
     THEN power' = [power EXCEPT ![c] = "idle"] /\ pauseRequested' = TRUE
     ELSE power' = [power EXCEPT ![c] = "running"] /\ UNCHANGED pauseRequested
  /\ NextCore(c)
  /\ UNCHANGED <<clocks, halted, stopRequested, left>>

(* Any other instruction of core c.  It may stop the machine: exception,   *)
(* breakpoint or suspect.                                                  *)
Exec(c) ==
  /\ Turn(c) /\ Awake(c)
  /\ stopRequested' \in {stopRequested, TRUE}
  /\ NextCore(c)
  /\ UNCHANGED <<halted, pauseRequested, left>>

(* ... one that touches nothing outside its core, or an exception ...      *)
ExecPlain(c) ==
  /\ Exec(c)
  /\ completeLoad(c)
  /\ power' = [power EXCEPT ![c] = "running"]
  /\ ip' = [ip EXCEPT ![c] = Raised(c) \ Lowered]
  /\ UNCHANGED clocks

(* ... a write of the interval timer, which acknowledges its interrupt     *)
(* wherever it was delivered, if it was ...                                *)
Acknowledge(l, c) ==
  \E t \in Cpu \cup {None} :
    ip' = [b \in Cpu |-> (IF b = c THEN Raised(c) \ Lowered ELSE ip[b])
                         \ (IF b = t THEN {l} ELSE {})]

ExecWriteTimer(c) ==
  /\ Exec(c)
  /\ completeLoad(c) /\ OneLoad
  /\ \E v \in 0..W-1 : timer' = v
  /\ Acknowledge(IL_TIMER, c)
  /\ power' = [power EXCEPT ![c] = "running"]
  /\ UNCHANGED due

(* ... or a write to a register of a device or controller, which schedules *)
(* an operation, acknowledges one, or is rejected with an interrupt, which *)
(* may wake another core in the middle of the tick.                        *)
RaiseNow(c) ==
  \E t \in Cpu :
    /\ ip' = [b \in Cpu |-> (IF b = c THEN Raised(c) \ Lowered ELSE ip[b])
                            \cup (IF b = t THEN {IL_DEV} ELSE {})]
    /\ power' = [b \in Cpu |-> IF b = c \/ (b = t /\ power[b] = "idle")
                               THEN "running" ELSE power[b]]

ExecCommand(c) ==
  /\ Exec(c)
  /\ completeLoad(c) /\ OneLoad
  /\ \/ \E e \in Event, d \in Delays : due[e] = None /\ due' = [due EXCEPT ![e] = d]
     \/ UNCHANGED due
  /\ \/ RaiseNow(c)
     \/ Acknowledge(IL_DEV, c) /\ power' = [power EXCEPT ![c] = "running"]
  /\ UNCHANGED timer

Cycle(c) == \/ CycleIdle(c) \/ ExecWait(c) \/ ExecPlain(c)
            \/ ExecWriteTimer(c) \/ ExecCommand(c)

(* Mutant: the tick of the underflow is skipped too. *)
BusIdleToUnderflow(n) == /\ n <= timer + 1
                         /\ \A e \in Event : due[e] # None /\ n > 0 => n <= due[e] - 1

(* SystemBus::IdleCycles: the interval timer does not underflow and no     *)
(* deadline is reached within n ticks.                                     *)
BusIdle(n) == /\ n <= timer
              /\ \A e \in Event : due[e] # None /\ n > 0 => n <= due[e] - 1

(* Processor::IdleCycles. *)
CpuIdle(c, n) == \/ power[c] = "halted"
                 \/ power[c] = "idle" /\ (te[c] => n <= cpuTimer[c])
                 \/ n = 0

CanSkip(n) == BusIdle(n) /\ \A c \in Cpu : CpuIdle(c, n)

(* Machine::idleCycles: the most ticks that can be skipped. *)
IdleCycles(n) == /\ n \in 0..W-1
                 /\ CanSkip(n)
                 /\ \A m \in 0..W-1 : CanSkip(m) => m <= n

(* Machine::skip, with Skip of the bus and of the cores. *)
skip(n) ==
  /\ at = "rest"
  /\ timer' = (timer - n) % W
  /\ due' = [e \in Event |-> IF due[e] = None THEN None ELSE due[e] - n]
  /\ cpuTimer' = [c \in Cpu |-> IF power[c] # "halted" /\ te[c]
                                THEN (cpuTimer[c] - n) % W ELSE cpuTimer[c]]
  /\ timerLoaded' = FALSE
  /\ UNCHANGED <<power, te, ip, halted, loop>>

(* SystemBus::setTimer and Processor::setCP0Reg: the client sets the       *)
(* interval timer, or the local timer of a core, without more ado.         *)
SetTimer ==
  /\ at = "rest"
  /\ \/ timer' \in 0..W-1 /\ UNCHANGED cpuTimer
     \/ /\ \E c \in Cpu, v \in 0..W-1 : cpuTimer' = [cpuTimer EXCEPT ![c] = v]
        /\ UNCHANGED timer
  /\ timerLoaded' = FALSE
  /\ UNCHANGED <<due, power, te, ip, halted, loop>>

(* A new machine replaces this one. *)
PowerOn ==
  /\ at = "rest"
  /\ timer' = W - 1
  /\ due' = [e \in Event |-> None]
  /\ power' = [c \in Cpu |-> IF c = 0 THEN "running" ELSE "halted"]
  /\ te' = [c \in Cpu |-> FALSE]
  /\ cpuTimer' = [c \in Cpu |-> 0]
  /\ ip' = [c \in Cpu |-> {}]
  /\ halted' = FALSE
  /\ stopRequested' = FALSE /\ pauseRequested' = FALSE
  /\ left' = 0
  /\ timerLoaded' = FALSE
  /\ UNCHANGED <<at, cur>>

(* One step of the loop inside step. *)
Run == \/ ClockTick \/ StepReturns \/ EventsDone
       \/ \E e \in Event : FireEvent(e)
       \/ \E c \in Cpu : Cycle(c)

(* What a client may ask: never a skip beyond idleCycles. *)
Client == \/ \E n \in 1..MaxSteps : step(n)
          \/ \E n \in 1..W-1 : CanSkip(n) /\ skip(n)
          \/ SetTimer \/ PowerOn

Next == Run \/ Client

Spec == Init /\ [][Next]_machine

-----------------------------------------------------------------------------

(* An idle core has no interrupt pending: none is lost between the test of *)
(* CAUSE.IP by WAIT and the core falling asleep.                           *)
IdleMeansNoIRQ == \A c \in Cpu : power[c] = "idle" => ip[c] = {}

(* No event is late: outside the scan of the queue every deadline is ahead.*)
NothingOverdue ==
  at # "events" => \A e \in Event : due[e] # None => due[e] > 0

(* No timer passes zero silently, in a tick or in a skip.  The interval    *)
(* timer grows only by a write of the guest or the client, in a new        *)
(* machine, or at the tick that raises its interrupt; a local timer that   *)
(* grows though neither the client nor the program set it (a load of the   *)
(* timer may end in the cycle of any instruction, WAIT and stores too)     *)
(* leaves its interrupt pending at its core, which is awake.               *)
NoSilentUnderflow ==
  [][/\ timer' > timer => \/ PowerOn \/ SetTimer
                          \/ \E c \in Cpu : ExecWriteTimer(c)
                          \/ timer = 0 /\ Interrupt(IL_TIMER)
     /\ \A c \in Cpu : cpuTimer'[c] > cpuTimer[c] =>
          \/ (Turn(c) /\ timerLoaded') \/ SetTimer
          \/ cpuTimer[c] = 0 /\ IL_CPUTIMER \in ip'[c] /\ power'[c] = "running"]_machine
==============================================================================
