----------------------------- MODULE DebugSession -----------------------------
(***************************************************************************)
(* The debug session of the graphical front end                            *)
(* (src/frontends/qmps/debug_session.cc): it powers the machine on and     *)
(* off, and drives it from two timers of the toolkit, one that runs a      *)
(* batch of ticks and one that skips ticks while the machine is idle.      *)
(*                                                                         *)
(* The toolkit calls one handler at a time.  A handler that runs the       *)
(* machine lasts several steps here, those of Machine::step; the others    *)
(* are one step each.                                                      *)
(***************************************************************************)
EXTENDS Integers, FiniteSets

CONSTANTS N, W, Event, Delays, MaxSteps, None,   \* as in Machine
          IterCycles,   \* ticks of a batch, one number for each speed
          MaxSkipped,   \* ticks skipped at once
          Edits         \* whether the user edits registers of a machine that is
                        \* not stopped

ASSUME MachineAssumption ==   \* the assumptions of Machine
  /\ N \in Nat \ {0} /\ W \in Nat \ {0, 1}
  /\ Delays \subseteq Nat \ {0} /\ MaxSteps \in Nat \ {0}
  /\ None \notin Int
ASSUME IterCyclesAssumption == IterCycles \subseteq 1..MaxSteps
ASSUME MaxSkippedAssumption == MaxSkipped \in Nat \ {0}
ASSUME EditsAssumption == Edits \in BOOLEAN

VARIABLES timer, due, power, te, cpuTimer, ip, halted,
          stopRequested, pauseRequested, left, at, cur, timerLoaded,   \* as in Machine
          status,      \* MachineStatus
          timerOn,     \* the timer that calls runIteration is active
          idleOn,      \* the timer that calls skip is active
          idleSteps,   \* ticks still to be skipped
          handler      \* handler waiting for Machine::step to return

M == INSTANCE Machine

machine == <<timer, due, power, te, cpuTimer, ip, halted, stopRequested, pauseRequested,
             left, at, cur, timerLoaded>>
session == <<status, timerOn, idleOn, idleSteps, handler>>
vars == <<timer, due, power, te, cpuTimer, ip, halted, stopRequested, pauseRequested,
          left, at, cur, timerLoaded, status, timerOn, idleOn, idleSteps, handler>>

TypeOK == /\ M!TypeOK
          /\ status \in {"halted", "stopped", "running"}
          /\ timerOn \in BOOLEAN /\ idleOn \in BOOLEAN
          /\ idleSteps \in 0..W-1
          /\ handler \in {"none", "step", "runContIteration"}

Init == /\ M!Init
        /\ status = "halted"
        /\ timerOn = FALSE /\ idleOn = FALSE
        /\ idleSteps = 0
        /\ handler = "none"

-----------------------------------------------------------------------------

Ready == handler = "none"

isStarted == status # "halted"

(* halt(): the machine is discarded. *)
Halt == /\ status' = "halted"
        /\ timerOn' = FALSE /\ idleOn' = FALSE
        /\ UNCHANGED idleSteps

startMachine ==
  /\ Ready /\ ~isStarted
  /\ M!PowerOn
  /\ status' = "stopped"
  /\ UNCHANGED <<timerOn, idleOn, idleSteps, handler>>

onHaltMachine ==
  /\ Ready /\ isStarted
  /\ Halt
  /\ UNCHANGED <<machine, handler>>

(* Mutant: stop() forgets the idle timer. *)
StopRunTimer == /\ timerOn' = (timerOn /\ status # "running")
                /\ UNCHANGED idleOn

(* stop(), whose timers are already stopped when the machine is. *)
StopTimers == /\ timerOn' = (timerOn /\ status # "running")
              /\ idleOn' = (idleOn /\ status # "running")

(* The machine is stopped and replaced by a new one, or by none when the   *)
(* configuration has become invalid.                                       *)
onResetMachine ==
  /\ Ready /\ isStarted
  /\ StopTimers
  /\ \/ M!PowerOn /\ status' = "stopped"
     \/ UNCHANGED machine /\ status' = "halted"
  /\ UNCHANGED <<idleSteps, handler>>

onContinue ==
  /\ Ready /\ status = "stopped"
  /\ status' = "running"
  /\ timerOn' = TRUE
  /\ UNCHANGED <<machine, idleOn, idleSteps, handler>>

stop ==
  /\ Ready /\ status = "running"
  /\ StopTimers
  /\ status' = "stopped"
  /\ UNCHANGED <<machine, idleSteps, handler>>

onStep ==
  /\ Ready /\ status = "stopped"
  /\ M!step(1)
  /\ status' = "running"
  /\ handler' = "step"
  /\ UNCHANGED <<timerOn, idleOn, idleSteps>>

(* The single step is done: the session halts with the machine, or stops.  *)
StepDone ==
  /\ handler = "step" /\ at = "rest"
  /\ IF halted THEN Halt
     ELSE status' = "stopped" /\ UNCHANGED <<timerOn, idleOn, idleSteps>>
  /\ handler' = "none"
  /\ UNCHANGED machine

(* runContIteration: an idle machine goes to low-power mode, another runs  *)
(* a batch of ticks.                                                       *)
EnterLowPower ==
  /\ Ready /\ timerOn
  /\ \E n \in 1..W-1 : M!IdleCycles(n) /\ idleSteps' = n
  /\ timerOn' = FALSE
  /\ idleOn' = TRUE
  /\ UNCHANGED <<machine, status, handler>>

RunBatch ==
  /\ Ready /\ timerOn
  /\ M!IdleCycles(0)
  /\ idleSteps' = 0
  /\ \E n \in IterCycles : M!step(n)
  /\ handler' = "runContIteration"
  /\ UNCHANGED <<status, timerOn, idleOn>>

(* Mutant: a breakpoint stops the session but not its timer. *)
BatchDoneTimerLeft ==
  /\ handler = "runContIteration" /\ at = "rest"
  /\ \/ halted /\ Halt
     \/ /\ ~halted
        /\ status' = IF stopRequested THEN "stopped" ELSE status
        /\ UNCHANGED <<timerOn, idleOn, idleSteps>>
  /\ handler' = "none"
  /\ UNCHANGED machine

BatchDone ==
  /\ handler = "runContIteration" /\ at = "rest"
  /\ \/ halted /\ Halt
     \/ /\ ~halted /\ stopRequested
        /\ status' = "stopped"
        /\ timerOn' = FALSE
        /\ UNCHANGED <<idleOn, idleSteps>>
     \/ /\ ~halted /\ ~stopRequested
        /\ UNCHANGED <<status, timerOn, idleOn, idleSteps>>
  /\ handler' = "none"
  /\ UNCHANGED machine

(* Mutant: a full chunk is skipped although less is left. *)
SkippedChunk == MaxSkipped

Skipped == IF idleSteps <= MaxSkipped THEN idleSteps ELSE MaxSkipped

(* Mutant: the ticking is not resumed. *)
skipAndStall ==
  /\ Ready /\ idleOn
  /\ M!skip(Skipped)
  /\ idleSteps' = idleSteps - Skipped
  /\ idleOn' = (idleSteps # Skipped)
  /\ UNCHANGED <<status, timerOn, handler>>

(* skip(): back to ticking once every idle step is skipped. *)
skip ==
  /\ Ready /\ idleOn
  /\ M!skip(Skipped)
  /\ idleSteps' = idleSteps - Skipped
  /\ IF idleSteps = Skipped
     THEN idleOn' = FALSE /\ timerOn' = TRUE
     ELSE UNCHANGED <<idleOn, timerOn>>
  /\ UNCHANGED <<status, handler>>

(* The user edits the interval timer or the local timer of a core in the   *)
(* register view, which is editable whatever the status; a careful user    *)
(* (~Edits) does so only while the machine is stopped.                     *)
EditRegister ==
  /\ Ready /\ isStarted
  /\ status = "stopped" \/ Edits
  /\ M!SetTimer
  /\ UNCHANGED session

(* Machine::step running on behalf of a handler. *)
RunMachine == ~Ready /\ M!Run /\ UNCHANGED session

User == \/ startMachine \/ onHaltMachine \/ onResetMachine \/ onContinue \/ stop
        \/ onStep \/ EditRegister

Timers == EnterLowPower \/ RunBatch \/ skip

Next == User \/ Timers \/ RunMachine \/ StepDone \/ BatchDone

Spec == Init /\ [][Next]_vars

(* Active timers do expire, and a handler that was called runs to its end. *)
Fairness == WF_vars(Timers) /\ WF_vars(RunMachine) /\ WF_vars(StepDone) /\ WF_vars(BatchDone)

FairSpec == Spec /\ Fairness

-----------------------------------------------------------------------------

(* A session that runs waits for exactly one of its timers, another one    *)
(* for neither: it neither stalls nor skips ticks between batches.         *)
OneTimer == Ready => /\ status = "running" <=> timerOn \/ idleOn
                     /\ ~(timerOn /\ idleOn)

(* Whatever was stopped, stepped, continued or reset since idleSteps was   *)
(* computed, skip finds a machine that is idle for as many ticks.          *)
SkipAllowed == idleOn => /\ 0 < idleSteps
                         /\ M!CanSkip(idleSteps)

(* What Processor::Skip asserts of every core that is not halted. *)
SkipAssertion ==
  [][skip => \A c \in 0..N-1 : power[c] # "halted" =>
       power[c] = "idle" /\ (te[c] => Skipped <= cpuTimer[c])]_vars

(* The session asks of the machine only what a client may ask, and what it *)
(* makes of it is a behaviour of Machine.                                  *)
ImplementsMachine == M!Spec

(* A running session makes time go on: in low-power mode or not, what was  *)
(* scheduled comes to its deadline unless the session is stopped.          *)
OperationsComplete ==
  \A e \in Event :
    status = "running" /\ due[e] # None
      ~> status # "running" \/ (due[e] # None /\ due[e] <= 0)
==============================================================================
