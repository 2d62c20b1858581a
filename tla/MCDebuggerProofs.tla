--------------------------- MODULE MCDebuggerProofs ---------------------------
(***************************************************************************)
(* Proofs about the debugger, for every value of the constants: its        *)
(* session, for every machine, speed and chunk of skipped ticks; then each *)
(* of its other parts, in the order of MCDebugger, by an inductive         *)
(* invariant of the part; at the end of each part, what holds of MCSpec.   *)
(* What needs the user's care, that registers are edited only while the    *)
(* machine is stopped, is proved from ~Edits.                              *)
(***************************************************************************)
EXTENDS MCDebugger, SequenceTheorems, TLAPS

(* The machine of the session, with what is proved of it. *)
MP == INSTANCE MachineProofs

(* The stoppoints, with what is proved of them. *)
PP == INSTANCE StoppointsProofs WITH status <- pStatus

LEMMA SameMachine == /\ M!Next <=> MP!Next
                     /\ M!machine = machine /\ MP!machine = machine
<1>1. M!Next <=> MP!Next
  BY
  DEF M!IL_CPUTIMER, MP!IL_CPUTIMER, M!IL_TIMER, MP!IL_TIMER, M!IL_DEV,
      MP!IL_DEV, M!Lines, MP!Lines, M!Cpu, MP!Cpu, M!clocks, MP!clocks,
      M!cores, MP!cores, M!loop, MP!loop, M!machine, MP!machine,
      M!AssertIRQ, MP!AssertIRQ, M!Interrupt, MP!Interrupt, M!step, MP!step,
      M!GoOn, MP!GoOn, M!StepReturns, MP!StepReturns, M!ClockTick,
      MP!ClockTick, M!Due, MP!Due, M!Reset, MP!Reset, M!FireEvent,
      MP!FireEvent, M!EventsDone, MP!EventsDone, M!Turn, MP!Turn,
      M!NextCore, MP!NextCore, M!Ticked, MP!Ticked, M!Raised, MP!Raised,
      M!Asleep, MP!Asleep, M!CycleIdle, MP!CycleIdle, M!Awake, MP!Awake,
      M!ExecWait, MP!ExecWait, M!Exec, MP!Exec, M!ExecPlain, MP!ExecPlain,
      M!completeLoad, MP!completeLoad, M!OneLoad, MP!OneLoad,
      M!Lowered, MP!Lowered, M!Acknowledge, MP!Acknowledge, M!ExecWriteTimer,
      MP!ExecWriteTimer, M!RaiseNow, MP!RaiseNow, M!ExecCommand,
      MP!ExecCommand, M!Cycle, MP!Cycle, M!BusIdle, MP!BusIdle, M!CpuIdle,
      MP!CpuIdle, M!CanSkip, MP!CanSkip, M!IdleCycles, MP!IdleCycles,
      M!skip, MP!skip, M!SetTimer, MP!SetTimer, M!PowerOn, MP!PowerOn,
      M!Run, MP!Run, M!Client, MP!Client, M!Next, MP!Next
<1>2. QED
  BY <1>1 DEF M!machine, MP!machine, machine

LEMMA MachineStep == MP!IInv /\ [M!Next]_machine => MP!IInv'
  BY SameMachine, MP!NextIInv, MachineAssumption DEF MP!machine, machine

LEMMA MachineInit == M!Init => MP!IInv
<1>1. M!Init => MP!Init
  BY DEF M!Init, MP!Init, M!Cpu, MP!Cpu
<1>2. QED
  BY <1>1, MP!InitIInv, MachineAssumption

-----------------------------------------------------------------------------

(* The invariant of the session's own state: while a handler waits for the *)
(* machine, the timer that called it, if one did, is active and no other.  *)
SessionInv ==
  /\ status \in {"halted", "stopped", "running"}
  /\ timerOn \in BOOLEAN /\ idleOn \in BOOLEAN
  /\ idleSteps \in 0..W-1
  /\ handler \in {"none", "step", "runContIteration"}
  /\ OneTimer
  /\ ~Ready => /\ status = "running"
               /\ ~idleOn
               /\ (timerOn <=> handler = "runContIteration")

LEMMA InitSession == Init => SessionInv
<1>1. 0 \in 0..W-1
  BY MachineAssumption
<1>2. QED
  BY <1>1 DEF Init, SessionInv, OneTimer, Ready

(* A chunk is a part of what is to be skipped, and something unless that   *)
(* is nothing.                                                             *)
LEMMA Chunk ==
  ASSUME SessionInv
  PROVE  /\ Skipped \in Nat
         /\ Skipped <= idleSteps
         /\ idleSteps > 0 => Skipped > 0
  BY MaxSkippedAssumption, MachineAssumption DEF Skipped, SessionInv

LEMMA NextSession == SessionInv /\ [Next]_vars => SessionInv'
<1> SUFFICES ASSUME SessionInv, [Next]_vars
             PROVE  SessionInv'
  OBVIOUS
<1> USE DEF SessionInv, OneTimer, Ready
<1>1. CASE UNCHANGED vars
  BY <1>1 DEF vars
<1>2. CASE User
  <2>1. CASE startMachine
    BY <2>1 DEF startMachine, isStarted
  <2>2. CASE onHaltMachine
    BY <2>2 DEF onHaltMachine, Halt
  <2>3. CASE onResetMachine
    BY <2>3 DEF onResetMachine, StopTimers, isStarted
  <2>4. CASE onContinue
    BY <2>4 DEF onContinue
  <2>5. CASE stop
    BY <2>5 DEF stop, StopTimers
  <2>6. CASE onStep
    BY <2>6 DEF onStep
  <2>7. CASE EditRegister
    BY <2>7 DEF EditRegister, session
  <2>8. QED
    BY <1>2, <2>1, <2>2, <2>3, <2>4, <2>5, <2>6, <2>7 DEF User
<1>3. CASE EnterLowPower
  <2>1. 1..W-1 \subseteq 0..W-1
    BY MachineAssumption
  <2>2. QED
    BY <1>3, <2>1 DEF EnterLowPower
<1>4. CASE RunBatch
  BY <1>4, MachineAssumption DEF RunBatch
<1>5. CASE skip
  <2>1. idleSteps' \in 0..W-1
    BY <1>5, Chunk, MachineAssumption DEF skip
  <2>2. /\ handler = "none" /\ idleOn /\ ~timerOn /\ status = "running"
        /\ UNCHANGED <<status, handler>>
    BY <1>5 DEF skip
  <2>3. CASE idleOn' = FALSE /\ timerOn' = TRUE
    BY <2>1, <2>2, <2>3
  <2>4. CASE UNCHANGED <<idleOn, timerOn>>
    BY <2>1, <2>2, <2>4
  <2>5. (idleOn' = FALSE /\ timerOn' = TRUE) \/ UNCHANGED <<idleOn, timerOn>>
    BY <1>5 DEF skip
  <2>6. QED
    BY <2>3, <2>4, <2>5
<1>6. CASE RunMachine
  BY <1>6 DEF RunMachine, session
<1>7. CASE StepDone
  BY <1>7 DEF StepDone, Halt
<1>8. CASE BatchDone
  <2>1. /\ ~idleOn /\ timerOn = TRUE /\ status = "running"
        /\ handler' = "none"
    BY <1>8 DEF BatchDone
  <2>2. CASE Halt
    BY <2>1, <2>2 DEF Halt
  <2>3. CASE status' = "stopped" /\ timerOn' = FALSE /\ UNCHANGED <<idleOn, idleSteps>>
    BY <2>1, <2>3
  <2>4. CASE UNCHANGED <<status, timerOn, idleOn, idleSteps>>
    BY <2>1, <2>4
  <2>5. QED
    BY <1>8, <2>2, <2>3, <2>4 DEF BatchDone
<1>9. QED
  BY <1>1, <1>2, <1>3, <1>4, <1>5, <1>6, <1>7, <1>8 DEF Next, Timers

(* What the session's part of the invariant says holds under every edit.   *)
THEOREM SessionInvariant == Spec => []SessionInv
  BY InitSession, NextSession, PTL DEF Spec

(* A session that runs waits for exactly one of its two timers, another one*)
(* for neither, whatever the user does and in whichever order breakpoints, *)
(* stops, steps, resets and power-offs come (DebugSession::stop, halt,     *)
(* runContIteration, skip).                                                *)
THEOREM OneTimerAlways == Spec => []OneTimer
  BY SessionInvariant, PTL DEF SessionInv

-----------------------------------------------------------------------------

(* What can be skipped at once can be skipped in parts. *)
LEMMA SkipLess ==
  ASSUME MP!TypeOK, NEW n \in 0..W-1, NEW k \in 1..n, M!CanSkip(n)
  PROVE  M!CanSkip(k)
<1>1. /\ k \in Int /\ n \in Int /\ 0 < k /\ k <= n
      /\ timer \in Int
      /\ \A e \in Event : due[e] # None => due[e] \in Int
      /\ \A c \in M!Cpu : cpuTimer[c] \in Int
  BY MachineAssumption DEF MP!TypeOK, MP!Cpu, M!Cpu
<1>2. M!BusIdle(k)
  BY <1>1 DEF M!CanSkip, M!BusIdle
<1>3. \A c \in M!Cpu : M!CpuIdle(c, k)
  BY <1>1 DEF M!CanSkip, M!CpuIdle
<1>4. QED
  BY <1>2, <1>3 DEF M!CanSkip

-----------------------------------------------------------------------------

(* The invariant of the session and its machine. *)
IInv == /\ SessionInv
        /\ MP!IInv
        /\ SkipAllowed

(* What the session asks of the machine is what a client may ask. *)
LEMMA Simulates ==
  ASSUME ~Edits, IInv, [Next]_vars
  PROVE  [M!Next]_machine
<1>1. CASE UNCHANGED machine
  BY <1>1
<1>2. CASE startMachine \/ onResetMachine
  BY <1>1, <1>2 DEF startMachine, onResetMachine, M!Next, M!Client
<1>3. CASE onStep
  <2>1. 1 \in 1..MaxSteps
    BY MachineAssumption
  <2>2. QED
    BY <1>3, <2>1 DEF onStep, M!Next, M!Client
<1>4. CASE RunBatch
  BY <1>4, IterCyclesAssumption DEF RunBatch, M!Next, M!Client
<1>5. CASE skip
  <2>1. idleSteps \in 0..W-1 /\ 0 < idleSteps /\ M!CanSkip(idleSteps)
    BY <1>5 DEF skip, IInv, SessionInv, SkipAllowed
  <2>2. Skipped \in 1..idleSteps /\ Skipped \in 1..W-1
    BY <2>1, Chunk, MachineAssumption DEF IInv
  <2>3. M!CanSkip(Skipped)
    BY <2>1, <2>2, SkipLess DEF IInv, MP!IInv
  <2>4. QED
    BY <1>5, <2>2, <2>3 DEF skip, M!Next, M!Client
<1>6. CASE EditRegister
  BY <1>6 DEF EditRegister, M!Next, M!Client
<1>7. CASE RunMachine
  BY <1>7 DEF RunMachine, M!Next
<1>8. QED
  BY <1>1, <1>2, <1>3, <1>4, <1>5, <1>6, <1>7
  DEF Next, User, Timers, onHaltMachine, onContinue, stop, EnterLowPower, StepDone, BatchDone,
      vars, machine

(* What is left after a skip can still be skipped. *)
LEMMA SkipRest ==
  ASSUME MP!TypeOK, NEW n \in 0..W-1, NEW k \in 1..n, k # n, M!CanSkip(n), M!skip(k)
  PROVE  M!CanSkip(n - k)'
<1>1. /\ k \in Int /\ n \in Int /\ 0 < k /\ k < n /\ n <= W - 1 /\ W \in Nat
      /\ timer \in 0..W-1
      /\ due \in [Event -> Int \cup {None}]
      /\ cpuTimer \in [M!Cpu -> 0..W-1]
  BY MachineAssumption DEF MP!TypeOK, MP!Cpu, M!Cpu
<1>2. \A x \in 0..W-1 : x % W = x
  BY MachineAssumption
<1>3. M!BusIdle(n - k)'
  <2>1. n <= timer
    BY DEF M!CanSkip, M!BusIdle
  <2>2. timer' = timer - k
    BY <1>1, <1>2, <2>1 DEF M!skip
  <2>3. ASSUME NEW e \in Event, due'[e] # None
        PROVE  n - k <= due'[e] - 1
    <3>1. due[e] # None /\ due'[e] = due[e] - k
      BY <2>3 DEF M!skip
    <3>2. due[e] \in Int /\ n <= due[e] - 1
      BY <1>1, <3>1 DEF M!CanSkip, M!BusIdle
    <3>3. QED
      BY <1>1, <3>1, <3>2
  <2>4. QED
    BY <1>1, <2>1, <2>2, <2>3 DEF M!BusIdle
<1>4. ASSUME NEW c \in M!Cpu
      PROVE  M!CpuIdle(c, n - k)'
  <2>1. power'[c] = power[c] /\ te'[c] = te[c]
    BY DEF M!skip
  <2>2. power[c] = "halted" \/ (power[c] = "idle" /\ (te[c] => n <= cpuTimer[c]))
    BY <1>1 DEF M!CanSkip, M!CpuIdle
  <2>3. CASE power[c] # "halted" /\ te[c]
    <3>1. cpuTimer[c] - k \in 0..W-1
      BY <1>1, <2>2, <2>3
    <3>2. cpuTimer'[c] = cpuTimer[c] - k
      BY <1>2, <2>3, <3>1 DEF M!skip
    <3>3. QED
      BY <1>1, <2>1, <2>2, <2>3, <3>2 DEF M!CpuIdle
  <2>4. QED
    BY <2>1, <2>2, <2>3 DEF M!CpuIdle
<1>5. QED
  BY <1>3, <1>4 DEF M!CanSkip, M!Cpu

LEMMA NextSkipAllowed ==
  ASSUME ~Edits, IInv, [Next]_vars
  PROVE  SkipAllowed'
<1> USE DEF IInv, SessionInv, OneTimer, Ready
<1>1. CASE UNCHANGED <<machine, idleOn, idleSteps>>
  BY <1>1 DEF machine, SkipAllowed, M!CanSkip, M!BusIdle, M!CpuIdle, M!Cpu
<1>2. CASE ~idleOn'
  BY <1>2 DEF SkipAllowed
<1>3. CASE EnterLowPower
  <2>1. PICK n \in 1..W-1 : M!IdleCycles(n) /\ idleSteps' = n
    BY <1>3 DEF EnterLowPower
  <2>2. n > 0 /\ M!CanSkip(n) /\ UNCHANGED machine
    BY <1>3, <2>1, MachineAssumption DEF EnterLowPower, M!IdleCycles
  <2>3. M!CanSkip(n)'
    BY <2>2 DEF machine, M!CanSkip, M!BusIdle, M!CpuIdle, M!Cpu
  <2>4. QED
    BY <2>1, <2>2, <2>3 DEF SkipAllowed
<1>4. CASE skip /\ idleSteps # Skipped
  <2>1. idleSteps \in 0..W-1 /\ 0 < idleSteps /\ M!CanSkip(idleSteps)
    BY <1>4 DEF skip, SkipAllowed
  <2>2. PICK n \in 0..W-1, k \in 0..W-1 : n = idleSteps /\ k = Skipped /\ k \in 1..n
    BY <2>1, Chunk, MachineAssumption
  <2>3. k # n /\ M!skip(k) /\ idleSteps' = n - k
    BY <1>4, <2>2 DEF skip
  <2>4. M!CanSkip(n - k)'
    BY <2>1, <2>2, <2>3, SkipRest DEF MP!IInv
  <2>5. idleSteps' > 0 /\ M!CanSkip(idleSteps)'
    BY <2>2, <2>3, <2>4, MachineAssumption
  <2>6. QED
    BY <2>5 DEF SkipAllowed
<1>5. CASE skip /\ idleSteps = Skipped
  BY <1>2, <1>5 DEF skip
<1>6. CASE User
  <2>1. ~idleOn' \/ UNCHANGED <<machine, idleOn, idleSteps>>
    <3>1. CASE startMachine \/ onHaltMachine
      BY <3>1 DEF startMachine, onHaltMachine, Halt, isStarted
    <3>2. CASE onResetMachine \/ stop
      BY <3>2 DEF onResetMachine, stop, StopTimers, isStarted
    <3>3. CASE onContinue \/ onStep
      BY <3>3 DEF onContinue, onStep
    <3>4. CASE EditRegister
      BY <3>4 DEF EditRegister, session
    <3>5. QED
      BY <1>6, <3>1, <3>2, <3>3, <3>4 DEF User
  <2>2. QED
    BY <1>1, <1>2, <2>1
<1>7. CASE RunBatch \/ RunMachine
  <2>1. ~idleOn'
    BY <1>7 DEF RunBatch, RunMachine, session
  <2>2. QED
    BY <1>2, <2>1
<1>8. CASE StepDone \/ BatchDone
  <2>1. ~idleOn'
    BY <1>8 DEF StepDone, BatchDone, Halt
  <2>2. QED
    BY <1>2, <2>1
<1>9. QED
  BY <1>1, <1>3, <1>4, <1>5, <1>6, <1>7, <1>8 DEF Next, Timers, vars, machine

-----------------------------------------------------------------------------

LEMMA InitIInv == Init => IInv
  BY InitSession, MachineInit DEF Init, IInv, SkipAllowed

LEMMA NextIInv == ~Edits /\ IInv /\ [Next]_vars => IInv'
<1> SUFFICES ASSUME ~Edits, IInv, [Next]_vars
             PROVE  IInv'
  OBVIOUS
<1>1. SessionInv'
  BY NextSession DEF IInv
<1>2. MP!IInv'
  BY Simulates, MachineStep DEF IInv
<1>3. SkipAllowed'
  BY NextSkipAllowed
<1>4. QED
  BY <1>1, <1>2, <1>3 DEF IInv

(* The inductive invariant. *)
THEOREM Invariant == ~Edits => (Spec => []IInv)
<1>1. CASE Edits = FALSE
  <2>1. IInv /\ [Next]_vars => IInv'
    BY <1>1, NextIInv
  <2>2. QED
    BY <2>1, InitIInv, PTL DEF Spec
<1>2. QED
  BY <1>1, EditsAssumption

(* If registers are edited only while the machine is stopped, the ticks    *)
(* still to be skipped are ticks the machine has idle, whatever was        *)
(* stopped, stepped, continued or reset since they were counted            *)
(* (DebugSession::skip, Processor::Skip).                                  *)
THEOREM SkipsIdleTicks == ~Edits => (Spec => []SkipAllowed)
<1>1. IInv => SkipAllowed
  BY DEF IInv
<1>2. QED
  BY <1>1, Invariant, PTL

(* ... and what the session makes of the machine, from power-on through    *)
(* batches, single steps and low-power mode, is a behaviour of Machine.    *)
THEOREM SessionImplementsMachine == ~Edits => (Spec => ImplementsMachine)
<1>1. Init => M!Init
  BY DEF Init
<1>2. CASE Edits = FALSE
  <2>1. IInv /\ [Next]_vars => [M!Next]_M!machine
    BY <1>2, Simulates, SameMachine DEF M!machine, machine
  <2>2. Spec => []IInv
    BY <1>2, Invariant
  <2>3. QED
    BY <1>1, <2>1, <2>2, PTL DEF Spec, ImplementsMachine, M!Spec
<1>3. QED
  BY <1>2, EditsAssumption
-----------------------------------------------------------------------------
(* The debugger as a whole: a component keeps its invariant while it is    *)
(* the one that runs, and nothing else touches its state.                  *)

LEMMA OneRuns == [MCNext]_allVars => active' = active
  BY DEF MCNext, allVars

(* The session. *)
LEMMA SessionRuns == MCInit /\ [][MCNext]_allVars => Spec
<1>1. MCInit => Init
  BY DEF MCInit
<1>2. [MCNext]_allVars => [Next]_vars
  BY DEF MCNext, allVars
<1>3. QED
  BY <1>1, <1>2, PTL DEF Spec

-----------------------------------------------------------------------------
(* Stoppoints. *)
LEMMA SameStoppoints ==
  /\ P!Init => PP!Init
  /\ [P!Next]_pVars => [PP!Next]_PP!vars
<1>1. P!Init => PP!Init
  BY DEF P!Init, PP!Init, P!Off, PP!Off
<1>2. P!Next => PP!Next
  BY
  DEF
      P!Address, PP!Address, P!Range, PP!Range, P!Ranges, PP!Ranges,
      P!Modes, PP!Modes, P!NoPoint, PP!NoPoint, P!Key, PP!Key, P!Off,
      PP!Off, P!KeyOf, PP!KeyOf, P!Before, PP!Before, P!Overlaps,
      PP!Overlaps, P!Contains, PP!Contains, P!Matches, PP!Matches,
      P!CanInsert, PP!CanInsert, P!nextId, PP!nextId, P!New, PP!New,
      P!Without, PP!Without, P!PointOf, PP!PointOf, P!Least, PP!Least,
      P!Greatest, PP!Greatest, P!Candidate, PP!Candidate, P!Probe, PP!Probe,
      P!Tables, PP!Tables, P!Owner, PP!Owner, P!Lookup, PP!Lookup,
      P!Relocated, PP!Relocated, P!Keeps, PP!Keeps, P!Relocations,
      PP!Relocations, P!MapOf, PP!MapOf, P!RowsOf, PP!RowsOf,
      P!initializeMachine, PP!initializeMachine, P!halt, PP!halt,
      P!onMachineConfigChanged, PP!onMachineConfigChanged, P!Add, PP!Add,
      P!Remove, PP!Remove, P!SetEnabled, PP!SetEnabled, P!setAccessMode,
      PP!setAccessMode, P!Run, PP!Run, P!HandleAccess, PP!HandleAccess,
      P!Stop, PP!Stop, P!Next, PP!Next
<1>3. QED
  BY <1>1, <1>2 DEF PP!vars, pVars

PointsInv == active = "stoppoints" => PP!IInv /\ PP!RowsInv

LEMMA InitPoints == MCInit => PointsInv
  BY SameStoppoints, PP!InitStoppoints, AsidAssumption, BoundsAssumption DEF MCInit, PointsInv

LEMMA NextPoints == PointsInv /\ [MCNext]_allVars => PointsInv'
<1> SUFFICES ASSUME PointsInv, [MCNext]_allVars, active' = "stoppoints"
             PROVE  PP!IInv' /\ PP!RowsInv'
  BY DEF PointsInv
<1>1. active = "stoppoints"
  BY OneRuns
<1>2. [P!Next]_pVars
  BY <1>1 DEF MCNext, allVars
<1>3. [PP!Next]_PP!vars
  BY <1>2, SameStoppoints
<1>4. QED
  BY <1>1, <1>3, PP!NextIInv, PP!NextRows, AsidAssumption, BoundsAssumption DEF PointsInv

(* StoppointSet::Add, Remove and relocateStoppoints keep the ranges apart, *)
(* and StoppointSet::Probe finds every access that an enabled stoppoint is *)
(* about, though it looks at one range only.                               *)
THEOREM StoppointsAreFound == MCSpec => []ProbeFinds
<1>1. PointsInv => ProbeFinds
  <2> SUFFICES ASSUME PointsInv, active = "stoppoints"
               PROVE  P!Distinct /\ P!ProbeFindsHere
    BY DEF ProbeFinds
  <2>1. PP!Distinct /\ PP!ProbeFinds
    BY PP!InvariantMeans, AsidAssumption, BoundsAssumption DEF PointsInv
  <2>2. P!Distinct
    BY <2>1 DEF P!Distinct, PP!Distinct, P!Overlaps, PP!Overlaps
  <2>3. ASSUME NEW i \in DOMAIN points, NEW a \in Asid, NEW m \in Mode,
               NEW x \in points[i].range.start..points[i].range.end, P!Matches(points[i], a, x, m)
        PROVE  P!Probe(a, x, m) = points[i].id
    <3>1. points[i].range.start \in Nat
      BY PP!PointFacts, PP!RangeFacts, AsidAssumption, BoundsAssumption DEF PointsInv, PP!IInv, PP!Good
    <3>2. x \in Nat
      BY <3>1
    <3>3. PP!Matches(points[i], a, x, m)
      BY <2>3 DEF P!Matches, PP!Matches, P!Contains, PP!Contains
    <3>4. PP!Probe(a, x, m) = points[i].id
      BY <2>1, <3>2, <3>3 DEF PP!ProbeFinds
    <3>5. PP!Probe(a, x, m) = P!Probe(a, x, m)
      BY DEF P!Probe, PP!Probe, P!NoPoint, PP!NoPoint, P!Candidate, PP!Candidate, P!Before, PP!Before,
             P!Greatest, PP!Greatest, P!Least, PP!Least, P!Matches, PP!Matches, P!Contains, PP!Contains,
             P!PointOf, PP!PointOf
    <3>6. QED
      BY <3>4, <3>5
  <2>4. QED
    BY <2>2, <2>3 DEF P!ProbeFindsHere
<1>2. QED
  BY <1>1, InitPoints, NextPoints, PTL DEF MCSpec

(* The list of stoppoints shows, by row, the range of the stoppoint and    *)
(* exactly the cores that hit it since the machine last ran.               *)
THEOREM StoppointListIsTrue == MCSpec => []RowsTruth
<1>1. PointsInv => RowsTruth
  BY DEF PointsInv, PP!RowsInv, PP!RowsTruth, P!RowsTruth, RowsTruth
<1>2. QED
  BY <1>1, InitPoints, NextPoints, PTL DEF MCSpec

-----------------------------------------------------------------------------
(* The browser of traced regions.                                         *)
Traces == [id : V!Id, region : Region]

(* A list of traced regions, what marks the rows and the widgets.          *)
Ordered(ts) ==
  /\ ts \in Seq(Traces)
  /\ \A i, j \in 1..Len(ts) : i < j => ts[i].id < ts[j].id
  /\ \A i, j \in 1..Len(ts) : i # j => ts[i].region # ts[j].region

(* The widget of a row shows its region, unless the row is marked or CAS   *)
(* wrote it.                                                               *)
RowOk(p, marked, vm, mem, un) ==
  p.id \in DOMAIN vm /\ vm[p.id].widget # None =>
    /\ vm[p.id].widget.region = p.region
    /\ marked = TRUE \/ vm[p.id].widget.shown = mem[p.region] \/ p.region \in un

Widgets(ts, vm) ==
  /\ DOMAIN vm \subseteq V!Id
  /\ \A k \in DOMAIN vm : vm[k] \in V!View
  /\ \A k \in DOMAIN vm : vm[k].widget # None => \E i \in 1..Len(ts) : ts[i].id = k

Browsed(ts, ds, vm, mem, un) ==
  /\ Ordered(ts) /\ Widgets(ts, vm)
  /\ ds \in Seq(BOOLEAN) /\ Len(ds) = Len(ts)
  /\ \A i \in 1..Len(ts) : RowOk(ts[i], ds[i], vm, mem, un)

(* The row that is selected has its widget on top; while the machine is    *)
(* stopped it is the region as it is.                                      *)
OnTop(p, vm, t) == t = p.id /\ t \in DOMAIN vm /\ vm[t].widget # None
Seen(p, vm, mem, un) == vm[p.id].widget.shown = mem[p.region] \/ p.region \in un

(* An entry of the map whose widget shows the region of a row as it is;    *)
(* marks that differ in one row at most.                                   *)
Shows(v, p, mem) == v.widget \in V!Widget /\ v.widget.region = p.region /\ v.widget.shown = mem[p.region]
SameBut(ds, es, i) ==
  ds \in Seq(BOOLEAN) /\ es \in Seq(BOOLEAN) /\ Len(es) = Len(ds) /\ \A j \in 1..Len(ds) : j # i => es[j] = ds[j]

BrowserInv ==
  /\ vStatus \in {"halted", "stopped", "running"} /\ memory \in [Region -> BOOLEAN]
  /\ unseen \subseteq Region /\ top \in V!Id \cup {None}
  /\ selected \in Nat
  /\ vStatus = "halted" => /\ Ordered(traces) /\ selected = 0 /\ dirty = <<>>
                          /\ DOMAIN viewMap \subseteq V!Id
                          /\ \A k \in DOMAIN viewMap : viewMap[k] \in V!View /\ viewMap[k].widget = None
  /\ vStatus # "halted" => Browsed(traces, dirty, viewMap, memory, unseen)
  /\ selected # 0 => /\ selected \in 1..Len(traces)
                     /\ OnTop(traces[selected], viewMap, top)
                     /\ vStatus = "stopped" => Seen(traces[selected], viewMap, memory, unseen)

LEMMA BrowserMeans == BrowserInv => V!TypeOK /\ V!ShowsSelected
<1> SUFFICES ASSUME BrowserInv
             PROVE  V!TypeOK /\ V!ShowsSelected
  OBVIOUS
<1>1. V!TypeOK
  <2>1. traces \in Seq(Traces) /\ dirty \in Seq(BOOLEAN)
    <3>1. CASE vStatus = "halted"
      <4>1. traces \in Seq(Traces) /\ dirty = <<>>
        BY <3>1 DEF BrowserInv, Ordered
      <4>2. QED
        BY <4>1
    <3>2. CASE vStatus # "halted"
      BY <3>2 DEF BrowserInv, Browsed, Ordered
    <3>3. QED
      BY <3>1, <3>2
  <2>2. DOMAIN viewMap \subseteq V!Id /\ \A k \in DOMAIN viewMap : viewMap[k] \in V!View
    BY DEF BrowserInv, Browsed, Widgets
  <2>3. selected \in 0..Len(traces)
    BY <2>1 DEF BrowserInv
  <2>4. QED
    BY <2>1, <2>2, <2>3 DEF BrowserInv, V!TypeOK, Traces
<1>2. ASSUME vStatus = "stopped", selected # 0
      PROVE  LET p == traces[selected]
                 w == viewMap[top].widget
             IN  /\ Len(dirty) = Len(traces)
                 /\ top = p.id /\ top \in DOMAIN viewMap /\ w # None
                 /\ w.region = p.region
                 /\ w.shown = memory[p.region] \/ p.region \in unseen
  BY <1>2 DEF BrowserInv, Browsed, RowOk, OnTop, Seen
<1>3. QED
  BY <1>1, <1>2 DEF V!ShowsSelected

LEMMA InitBrowser == V!Init => BrowserInv
<1> SUFFICES ASSUME V!Init
             PROVE  BrowserInv
  OBVIOUS
<1>1. DOMAIN viewMap = {} /\ Len(traces) = 0 /\ traces \in Seq(Traces)
  BY DEF V!Init
<1>2. Ordered(traces)
  BY <1>1 DEF Ordered
<1>3. memory \in [Region -> BOOLEAN]
  BY DEF V!Init
<1>4. QED
  BY <1>1, <1>2, <1>3 DEF V!Init, BrowserInv

LEMMA RowOf ==
  ASSUME NEW ts \in Seq(Traces), NEW i \in 1..Len(ts)
  PROVE  ts[i] \in Traces /\ ts[i].id \in V!Id /\ ts[i].region \in Region
<1>1. ts[i] \in Traces
  OBVIOUS
<1>2. QED
  BY <1>1 DEF Traces

(* A fresh widget is one, with its region as it is.                        *)
LEMMA FreshWidget ==
  ASSUME memory \in [Region -> BOOLEAN], NEW r \in Region
  PROVE  /\ V!Fresh(r) \in V!Widget /\ V!Fresh(r) # None
         /\ V!Fresh(r).region = r /\ V!Fresh(r).shown = memory[r]
<1>1. V!Fresh(r) \in V!Widget
  BY DEF V!Fresh, V!Widget
<1>2. QED
  BY <1>1, BrowserAssumption DEF V!Fresh

(* A row that is no longer marked leaves the others as they are.           *)
LEMMA UnmarkStep ==
  ASSUME NEW ds \in Seq(BOOLEAN), NEW i \in 1..Len(ds), NEW es,
         es = ds \/ es = [ds EXCEPT ![i] = FALSE]
  PROVE  SameBut(ds, es, i)
<1>1. CASE es = ds
  BY <1>1 DEF SameBut
<1>2. CASE es = [ds EXCEPT ![i] = FALSE]
  <2>1. PICK e \in BOOLEAN : e = FALSE
    OBVIOUS
  <2>2. es = [ds EXCEPT ![i] = e]
    BY <1>2, <2>1
  <2>3. es \in Seq(BOOLEAN) /\ Len(es) = Len(ds) /\ \A j \in 1..Len(ds) : es[j] = IF j = i THEN e ELSE ds[j]
    BY <2>2, ExceptSeq
  <2>4. QED
    BY <2>3 DEF SameBut
<1>3. QED
  BY <1>1, <1>2

(* A fresh widget for row i leaves the other rows as they are.             *)
LEMMA PutStep ==
  ASSUME NEW ts, NEW ds, NEW vm, NEW mem, NEW un, Browsed(ts, ds, vm, mem, un),
         mem \in [Region -> BOOLEAN],
         NEW i \in 1..Len(ts), NEW v \in V!View, Shows(v, ts[i], mem), NEW es, SameBut(ds, es, i)
  PROVE  /\ Browsed(ts, es, V!Put(vm, ts[i].id, v), mem, un \ {ts[i].region})
         /\ OnTop(ts[i], V!Put(vm, ts[i].id, v), ts[i].id)
         /\ Seen(ts[i], V!Put(vm, ts[i].id, v), mem, un \ {ts[i].region})
<1> DEFINE vn == V!Put(vm, ts[i].id, v)
<1>1. ts \in Seq(Traces) /\ ts[i] \in Traces /\ ts[i].id \in V!Id /\ ts[i].region \in Region
  <2>1. ts \in Seq(Traces)
    BY DEF Browsed, Ordered
  <2>2. QED
    BY <2>1, RowOf
<1> DEFINE k == ts[i].id
<1>2. DOMAIN vn = DOMAIN vm \cup {k} /\ vn[k] = v /\ \A j \in DOMAIN vm : j # k => vn[j] = vm[j]
  BY DEF V!Put
<1>3. v.widget # None /\ v.widget.region = ts[i].region /\ v.widget.shown = mem[ts[i].region]
  BY BrowserAssumption DEF Shows
<1>5. es \in Seq(BOOLEAN) /\ Len(es) = Len(ts) /\ \A j \in 1..Len(ts) : j # i => es[j] = ds[j]
  BY DEF SameBut, Browsed
<1> HIDE DEF vn
<1>4. Widgets(ts, vn)
  BY <1>1, <1>2, <1>3 DEF Browsed, Widgets
<1>6. \A j \in 1..Len(ts) : j # i => ts[j].id # k /\ ts[j].region # ts[i].region
  <2> SUFFICES ASSUME NEW j \in 1..Len(ts), j # i
               PROVE  ts[j].id # k /\ ts[j].region # ts[i].region
    OBVIOUS
  <2>1. ts[j].id \in V!Id /\ ts[i].id \in V!Id
    BY <1>1, RowOf
  <2>2. ts[j].id \in Int /\ ts[i].id \in Int
    BY <2>1, BrowserAssumption DEF V!Id
  <2>3. Len(ts) \in Nat
    BY <1>1
  <2>4. i < j \/ j < i
    BY <2>3
  <2>5. QED
    BY <2>2, <2>4 DEF Browsed, Ordered
<1>7. \A j \in 1..Len(ts) : RowOk(ts[j], es[j], vn, mem, un \ {ts[i].region})
  <2> SUFFICES ASSUME NEW j \in 1..Len(ts)
               PROVE  RowOk(ts[j], es[j], vn, mem, un \ {ts[i].region})
    OBVIOUS
  <2>1. CASE j = i
    BY <1>2, <1>3, <2>1 DEF RowOk
  <2>2. CASE j # i
    <3>1. RowOk(ts[j], ds[j], vm, mem, un)
      BY DEF Browsed
    <3>2. QED
      BY <1>2, <1>5, <1>6, <2>2, <3>1 DEF RowOk
  <2>3. QED
    BY <2>1, <2>2
<1>8. QED
  BY <1>2, <1>3, <1>4, <1>5, <1>7 DEF Browsed, OnTop, Seen, vn

LEMMA SelectStep ==
  ASSUME NEW ts, NEW ds, NEW vm, Browsed(ts, ds, vm, memory, unseen), memory \in [Region -> BOOLEAN],
         unseen \subseteq Region, NEW i \in 1..Len(ts), V!Select(i, ts, ds, vm)
  PROVE  /\ Browsed(ts, dirty', viewMap', memory, unseen')
         /\ selected' = i /\ unseen' \subseteq Region /\ top' \in V!Id
         /\ OnTop(ts[i], viewMap', top')
         /\ Seen(ts[i], viewMap', memory, unseen')
<1> DEFINE p == ts[i]
           known == p.id \in DOMAIN vm
           alive == known /\ vm[p.id].widget # None
           ty == IF known THEN vm[p.id].type ELSE "hex"
           r == IF alive THEN vm[p.id].widget.region ELSE p.region
<1>1. ts \in Seq(Traces) /\ p \in Traces /\ p.id \in V!Id /\ p.region \in Region
  <2>1. ts \in Seq(Traces)
    BY DEF Browsed, Ordered
  <2>2. QED
    BY <2>1, RowOf
<1>2. RowOk(p, ds[i], vm, memory, unseen)
  BY DEF Browsed
<1>3. selected' = i /\ top' = p.id
  BY DEF V!Select
<1>4. CASE alive /\ ~ds[i]
  <2>1. viewMap' = vm /\ dirty' = ds /\ unseen' = unseen
    BY <1>4 DEF V!Select
  <2>2. QED
    BY <1>1, <1>2, <1>3, <1>4, <2>1 DEF RowOk, OnTop, Seen
<1>5. CASE ~(alive /\ ~ds[i])
  <2>1. r = p.region
    BY <1>2 DEF RowOk
  <2>2. /\ viewMap' = V!Put(vm, p.id, [type |-> ty, widget |-> V!Fresh(r)])
        /\ dirty' = ds \/ dirty' = [ds EXCEPT ![i] = FALSE]
        /\ unseen' = unseen \ {p.region}
    BY <1>5, Zenon DEF V!Select
  <2>3. ty \in V!Type
    BY DEF Browsed, Widgets, V!View, V!Type
  <2>4. V!Fresh(r) \in V!Widget /\ V!Fresh(r).region = p.region /\ V!Fresh(r).shown = memory[p.region]
    BY <1>1, <2>1, FreshWidget
  <2> HIDE DEF ty, r
  <2>5. /\ Browsed(ts, dirty', viewMap', memory, unseen \ {p.region})
        /\ OnTop(p, viewMap', p.id) /\ Seen(p, viewMap', memory, unseen \ {p.region})
    <3>1. PICK v \in V!View : Shows(v, ts[i], memory) /\ viewMap' = V!Put(vm, ts[i].id, v)
      <4> DEFINE v == [type |-> ty, widget |-> V!Fresh(r)]
      <4>1. v \in V!View /\ v.widget = V!Fresh(r)
        BY <2>3, <2>4 DEF V!View
      <4>2. viewMap' = V!Put(vm, ts[i].id, v)
        BY <2>2
      <4> HIDE DEF v
      <4>3. QED
        BY <2>4, <4>1, <4>2 DEF Shows
    <3>2. PICK vn : vn = viewMap'
      OBVIOUS
    <3>3. PICK es : es = dirty'
      OBVIOUS
    <3>4. PICK mem : mem = memory
      OBVIOUS
    <3>5. PICK un : un = unseen
      OBVIOUS
    <3> HIDE DEF p
    <3>9. ds \in Seq(BOOLEAN) /\ Len(ds) = Len(ts)
      BY DEF Browsed
    <3>10. SameBut(ds, es, i)
      BY <2>2, <3>3, <3>9, UnmarkStep
    <3>6. vn = V!Put(vm, ts[i].id, v)
          /\ Browsed(ts, ds, vm, mem, un) /\ mem \in [Region -> BOOLEAN] /\ Shows(v, ts[i], mem)
      BY <2>2, <3>1, <3>2, <3>3, <3>4, <3>5
    <3>7. /\ Browsed(ts, es, V!Put(vm, ts[i].id, v), mem, un \ {ts[i].region})
          /\ OnTop(ts[i], V!Put(vm, ts[i].id, v), ts[i].id)
          /\ Seen(ts[i], V!Put(vm, ts[i].id, v), mem, un \ {ts[i].region})
      BY <3>1, <3>6, <3>10, PutStep
    <3>8. QED
      BY <3>2, <3>3, <3>4, <3>5, <3>6, <3>7 DEF p
  <2>6. QED
    BY <1>1, <1>3, <2>2, <2>5
<1>6. QED
  BY <1>4, <1>5

(* A function on 1..n is a sequence.                                       *)
LEMMA FunctionIsSeq ==
  ASSUME NEW A, NEW n \in Nat, NEW f \in [1..n -> A]
  PROVE  f \in Seq(A) /\ Len(f) = n /\ DOMAIN f = 1..n
  BY SeqDef

(* A list without a row.                                                   *)
LEMMA WithoutRow ==
  ASSUME NEW A, NEW s \in Seq(A), NEW i \in 1..Len(s)
  PROVE  /\ V!Without(s, i) \in Seq(A) /\ Len(V!Without(s, i)) = Len(s) - 1
         /\ \A j \in 1..Len(s)-1 : V!Without(s, i)[j] = s[IF j < i THEN j ELSE j + 1]
<1>1. Len(s) \in Nat /\ Len(s) - 1 \in Nat
  OBVIOUS
<1>2. \A j \in 1..Len(s)-1 : (IF j < i THEN j ELSE j + 1) \in 1..Len(s)
  BY <1>1
<1>3. V!Without(s, i) = [j \in 1..Len(s)-1 |-> s[IF j < i THEN j ELSE j + 1]]
  BY DEF V!Without
<1>4. \A j \in 1..Len(s) : s[j] \in A
  OBVIOUS
<1>5. V!Without(s, i) \in [1..Len(s)-1 -> A]
  BY <1>2, <1>3, <1>4
<1>6. QED
  BY <1>1, <1>3, <1>5, FunctionIsSeq

LEMMA RemoveRow ==
  ASSUME NEW ts, NEW ds, NEW vm, NEW mem, NEW un, Browsed(ts, ds, vm, mem, un), NEW s \in 1..Len(ts)
  PROVE  Browsed(V!Without(ts, s), V!Without(ds, s), V!Del(vm, ts[s].id), mem, un)
<1> DEFINE rs == V!Without(ts, s)
           es == V!Without(ds, s)
           k == ts[s].id
           vn == V!Del(vm, k)
           from(j) == IF j < s THEN j ELSE j + 1
<1>1. ts \in Seq(Traces) /\ ds \in Seq(BOOLEAN) /\ Len(ds) = Len(ts) /\ Len(ts) \in Nat
  BY DEF Browsed, Ordered
<1>2. rs \in Seq(Traces) /\ Len(rs) = Len(ts) - 1 /\ \A j \in 1..Len(rs) : rs[j] = ts[from(j)]
  BY <1>1, WithoutRow
<1>3. es \in Seq(BOOLEAN) /\ Len(es) = Len(rs) /\ \A j \in 1..Len(rs) : es[j] = ds[from(j)]
  <2>1. s \in 1..Len(ds)
    BY <1>1
  <2>2. es \in Seq(BOOLEAN) /\ Len(es) = Len(ds) - 1 /\ \A j \in 1..Len(ds)-1 : es[j] = ds[from(j)]
    BY <1>1, <2>1, WithoutRow
  <2>3. QED
    BY <1>1, <1>2, <2>2
<1>4. DOMAIN vn = DOMAIN vm \ {k} /\ \A j \in DOMAIN vn : vn[j] = vm[j]
  BY DEF V!Del
<1>5. \A j \in 1..Len(rs) : from(j) \in 1..Len(ts) /\ from(j) # s
  BY <1>1, <1>2
<1>6. \A i, j \in 1..Len(rs) : (i < j => from(i) < from(j)) /\ (i # j => from(i) # from(j))
  BY <1>1, <1>2
<1>7. \A i \in 1..Len(ts) : i # s => \E j \in 1..Len(rs) : from(j) = i
  <2> SUFFICES ASSUME NEW i \in 1..Len(ts), i # s
               PROVE  \E j \in 1..Len(rs) : from(j) = i
    OBVIOUS
  <2>1. CASE i < s
    BY <1>1, <1>2, <2>1
  <2>2. CASE i > s
    <3>1. i - 1 \in 1..Len(rs) /\ from(i - 1) = i
      BY <1>1, <1>2, <2>2
    <3>2. QED
      BY <3>1
  <2>3. QED
    BY <1>1, <2>1, <2>2
<1> HIDE DEF rs, es, vn, from
<1>8. Ordered(rs)
  BY <1>2, <1>5, <1>6 DEF Browsed, Ordered
<1>9. Widgets(rs, vn)
  <2>1. \A j \in DOMAIN vn : vn[j].widget # None => \E i \in 1..Len(rs) : rs[i].id = j
    <3> SUFFICES ASSUME NEW j \in DOMAIN vn, vn[j].widget # None
                 PROVE  \E i \in 1..Len(rs) : rs[i].id = j
      OBVIOUS
    <3>1. j \in DOMAIN vm /\ j # k /\ vm[j].widget # None
      BY <1>4
    <3>2. PICK i \in 1..Len(ts) : ts[i].id = j
      BY <3>1 DEF Browsed, Widgets
    <3>3. PICK n \in 1..Len(rs) : from(n) = i
      BY <1>7, <3>1, <3>2
    <3>4. QED
      BY <1>2, <3>2, <3>3
  <2>2. QED
    BY <1>4, <2>1 DEF Browsed, Widgets
<1>10. \A j \in 1..Len(rs) : RowOk(rs[j], es[j], vn, mem, un)
  <2> SUFFICES ASSUME NEW j \in 1..Len(rs)
               PROVE  RowOk(rs[j], es[j], vn, mem, un)
    OBVIOUS
  <2>1. RowOk(ts[from(j)], ds[from(j)], vm, mem, un)
    BY <1>5 DEF Browsed
  <2>2. RowOk(rs[j], es[j], vm, mem, un)
    BY <1>2, <1>3, <2>1
  <2>3. QED
    BY <1>4, <2>2 DEF RowOk
<1>11. Browsed(rs, es, vn, mem, un)
  BY <1>3, <1>8, <1>9, <1>10 DEF Browsed
<1>12. QED
  BY <1>11 DEF rs, es, vn

(* The identifier given to a new row is above those of the others.         *)
LEMMA NextId ==
  ASSUME Ordered(traces)
  PROVE  V!nextId \in Nat /\ \A i \in 1..Len(traces) : traces[i].id < V!nextId
<1>1. traces \in Seq(Traces) /\ Len(traces) \in Nat /\ DOMAIN traces = 1..Len(traces)
  BY DEF Ordered
<1>2. \A i \in 1..Len(traces) : traces[i].id \in 0..MaxTrace-1
  BY <1>1, RowOf DEF V!Id
<1> DEFINE B(n) == /\ \A i \in DOMAIN traces : traces[i].id < n
                   /\ n = 0 \/ \E i \in DOMAIN traces : traces[i].id + 1 = n
<1>3. \E n \in 0..MaxTrace : B(n)
  <2>1. CASE Len(traces) = 0
    <3>1. B(0)
      BY <1>1, <2>1
    <3>2. QED
      BY <3>1, BrowserAssumption
  <2>2. CASE Len(traces) # 0
    <3>0. PICK l \in Nat : l = Len(traces)
      BY <1>1
    <3>1. l \in 1..Len(traces) /\ \A i \in 1..l : i # l => i < l
      BY <2>2, <3>0
    <3>5. \A i \in 1..l : traces[i].id \in 0..MaxTrace-1
      BY <1>2, <3>0
    <3>2. \A i \in 1..l : traces[i].id <= traces[l].id
      <4> SUFFICES ASSUME NEW i \in 1..l
                   PROVE  traces[i].id <= traces[l].id
        OBVIOUS
      <4>1. CASE i = l
        BY <3>1, <3>5, <4>1
      <4>2. CASE i # l
        BY <3>0, <3>1, <3>5, <4>2 DEF Ordered
      <4>3. QED
        BY <4>1, <4>2
    <3>3. traces[l].id + 1 \in 0..MaxTrace /\ B(traces[l].id + 1)
      <4>1. l \in 1..l /\ traces[l].id \in 0..MaxTrace-1
        BY <3>0, <3>1, <3>5
      <4>2. traces[l].id + 1 \in 0..MaxTrace
        BY <4>1, BrowserAssumption
      <4>3. \A i \in 1..l : traces[i].id < traces[l].id + 1
        BY <3>2, <3>5, <4>1
      <4>4. DOMAIN traces = 1..l
        BY <1>1, <3>0
      <4>5. QED
        BY <4>1, <4>2, <4>3, <4>4
    <3>4. QED
      BY <3>3
  <2>3. QED
    BY <2>1, <2>2
<1>4. V!nextId = CHOOSE n \in 0..MaxTrace : B(n)
  BY DEF V!nextId
<1> HIDE DEF B
<1>5. V!nextId \in 0..MaxTrace /\ B(V!nextId)
  BY <1>3, <1>4
<1>6. QED
  BY <1>1, <1>5 DEF B

(* Two rows are marked alike.                                              *)
Alike(ds, i, es, j) == ds[i] = es[j]

LEMMA AppendRow ==
  ASSUME NEW A, NEW s \in Seq(A), NEW e \in A
  PROVE  /\ Append(s, e) \in Seq(A) /\ Len(Append(s, e)) = Len(s) + 1
         /\ \A i \in 1..Len(s) : Alike(Append(s, e), i, s, i)
  BY AppendProperties DEF Alike

LEMMA AddRow ==
  ASSUME Browsed(traces, dirty, viewMap, memory, unseen), V!nextId < MaxTrace, NEW r \in Region,
         \A i \in DOMAIN traces : traces[i].region # r,
         NEW ts, ts = Append(traces, [id |-> V!nextId, region |-> r]),
         NEW b \in BOOLEAN, NEW ds, ds = Append(dirty, b)
  PROVE  /\ Browsed(ts, ds, viewMap, memory, unseen)
         /\ Len(ts) = Len(traces) + 1 /\ \A i \in 1..Len(traces) : ts[i] = traces[i]
<1> DEFINE p == [id |-> V!nextId, region |-> r]
           l == Len(traces)
<1>1. traces \in Seq(Traces) /\ l \in Nat /\ dirty \in Seq(BOOLEAN) /\ Len(dirty) = l /\ Ordered(traces)
      /\ DOMAIN traces = 1..l
  BY DEF Browsed, Ordered
<1>2. V!nextId \in Nat /\ \A i \in 1..l : traces[i].id < V!nextId
  BY <1>1, NextId
<1>3. p \in Traces /\ p.id = V!nextId /\ p.region = r
  BY <1>2, BrowserAssumption DEF Traces, V!Id
<1> HIDE DEF p
<1>4. ts \in Seq(Traces) /\ Len(ts) = l + 1 /\ ts[l + 1] = p /\ \A i \in 1..l : ts[i] = traces[i]
  BY <1>1, <1>3 DEF p
<1>7. ds \in Seq(BOOLEAN) /\ Len(ds) = l + 1 /\ \A i \in 1..l : Alike(ds, i, dirty, i)
  BY <1>1, AppendRow
<1>8. Ordered(ts)
  <2>1. \A i, j \in 1..Len(ts) : i < j => ts[i].id < ts[j].id
    BY <1>1, <1>2, <1>3, <1>4 DEF Ordered
  <2>2. \A i, j \in 1..Len(ts) : i # j => ts[i].region # ts[j].region
    BY <1>1, <1>3, <1>4 DEF Ordered
  <2>3. QED
    BY <1>4, <2>1, <2>2 DEF Ordered
<1>9. Widgets(ts, viewMap)
  <2>1. \A i \in 1..l : i \in 1..Len(ts)
    BY <1>1, <1>4
  <2>2. QED
    BY <1>4, <2>1 DEF Browsed, Widgets
<1>10. \A i \in 1..Len(ts) : RowOk(ts[i], ds[i], viewMap, memory, unseen)
  <2> SUFFICES ASSUME NEW i \in 1..Len(ts)
               PROVE  RowOk(ts[i], ds[i], viewMap, memory, unseen)
    OBVIOUS
  <2>1. CASE i \in 1..l
    <3>1. RowOk(traces[i], dirty[i], viewMap, memory, unseen)
      BY <2>1 DEF Browsed
    <3>2. ds[i] = dirty[i]
      BY <1>7, <2>1, Zenon DEF Alike
    <3>3. ts[i] = traces[i]
      BY <1>4, <2>1
    <3>4. QED
      BY <3>1, <3>2, <3>3, Zenon
  <2>2. CASE i = l + 1
    <3>1. p.id \in DOMAIN viewMap => viewMap[p.id].widget = None
      <4> SUFFICES ASSUME p.id \in DOMAIN viewMap, viewMap[p.id].widget # None
                   PROVE  FALSE
        OBVIOUS
      <4>1. PICK j \in 1..l : traces[j].id = p.id
        BY DEF Browsed, Widgets
      <4>2. p.id < p.id /\ p.id \in Nat
        BY <1>2, <1>3, <4>1
      <4>3. QED
        BY <4>2
    <3>2. QED
      BY <1>4, <2>2, <3>1 DEF RowOk
  <2>3. QED
    BY <1>1, <1>4, <2>1, <2>2
<1>11. QED
  BY <1>4, <1>7, <1>8, <1>9, <1>10 DEF Browsed

(* What an operation leaves to the invariant once a row was selected.      *)
LEMMA Selected ==
  ASSUME vStatus' = vStatus, vStatus' # "halted", memory' = memory, memory \in [Region -> BOOLEAN],
         Browsed(traces', dirty', viewMap', memory, unseen'),
         NEW i \in 1..Len(traces'), selected' = i, unseen' \subseteq Region, top' \in V!Id,
         OnTop(traces'[i], viewMap', top'), Seen(traces'[i], viewMap', memory, unseen'),
         vStatus \in {"halted", "stopped", "running"}
  PROVE  BrowserInv'
<1>1. selected' \in Nat
  OBVIOUS
<1>2. QED
  BY <1>1 DEF BrowserInv

LEMMA SelectedRow ==
  ASSUME vStatus' = vStatus, vStatus # "halted", UNCHANGED memory, memory \in [Region -> BOOLEAN],
         unseen \subseteq Region, vStatus \in {"halted", "stopped", "running"},
         NEW ds, NEW vm, Browsed(traces', ds, vm, memory, unseen),
         NEW i \in 1..Len(traces'), V!Select(i, traces', ds, vm)
  PROVE  BrowserInv'
<1>1. PICK ts : ts = traces'
  OBVIOUS
<1>2. Browsed(ts, ds, vm, memory, unseen) /\ i \in 1..Len(ts) /\ V!Select(i, ts, ds, vm)
  BY <1>1
<1>3. /\ Browsed(ts, dirty', viewMap', memory, unseen')
      /\ selected' = i /\ unseen' \subseteq Region /\ top' \in V!Id
      /\ OnTop(ts[i], viewMap', top')
      /\ Seen(ts[i], viewMap', memory, unseen')
  BY <1>2, SelectStep
<1>4. QED
  BY <1>1, <1>3, Selected

LEMMA AddedRow ==
  ASSUME BrowserInv, NEW r \in Region, V!AddTracepoint(r)
  PROVE  BrowserInv'
<1>1. /\ Browsed(traces, dirty, viewMap, memory, unseen) /\ vStatus = "stopped"
      /\ memory \in [Region -> BOOLEAN] /\ unseen \subseteq Region
  BY DEF BrowserInv, V!AddTracepoint
<1>2. PICK b \in BOOLEAN : b = FALSE
  OBVIOUS
<1>3. PICK ts : ts = Append(traces, [id |-> V!nextId, region |-> r])
  OBVIOUS
<1>4. PICK ds : ds = Append(dirty, b)
  OBVIOUS
<1>5. /\ Browsed(ts, ds, viewMap, memory, unseen)
      /\ Len(ts) = Len(traces) + 1 /\ \A i \in 1..Len(traces) : ts[i] = traces[i]
  BY <1>1, <1>3, <1>4, AddRow DEF V!AddTracepoint
<1>6. traces' = ts /\ vStatus' = vStatus /\ UNCHANGED memory
  BY <1>3 DEF V!AddTracepoint
<1>7. Len(traces) \in Nat
  BY <1>1 DEF Browsed, Ordered
<1>8. CASE selected = 0
  <2>1. V!Select(1, traces', ds, viewMap)
    BY <1>2, <1>4, <1>8, Zenon DEF V!AddTracepoint
  <2>2. 1 \in 1..Len(traces')
    BY <1>5, <1>6, <1>7
  <2>3. QED
    BY <1>1, <1>5, <1>6, <2>1, <2>2, SelectedRow
<1>9. CASE selected # 0
  <2>1. dirty' = ds /\ UNCHANGED <<viewMap, top, selected, unseen>>
    BY <1>2, <1>4, <1>9, Zenon DEF V!AddTracepoint
  <2>2. selected \in 1..Len(traces) /\ OnTop(traces[selected], viewMap, top)
        /\ Seen(traces[selected], viewMap, memory, unseen) /\ top \in V!Id \cup {None} /\ selected \in Nat
    BY <1>1, <1>9 DEF BrowserInv
  <2>3. selected \in 1..Len(ts) /\ ts[selected] = traces[selected]
    BY <1>5, <1>7, <2>2
  <2>4. QED
    BY <1>1, <1>5, <1>6, <2>1, <2>2, <2>3 DEF BrowserInv
<1>10. QED
  BY <1>8, <1>9

LEMMA RemovedRow ==
  ASSUME BrowserInv, V!removeTracepoint
  PROVE  BrowserInv'
<1> DEFINE vm   == V!Del(viewMap, traces[selected].id)
           rest == V!Without(dirty, selected)
<1>1. /\ Browsed(traces, dirty, viewMap, memory, unseen) /\ vStatus = "stopped"
      /\ memory \in [Region -> BOOLEAN] /\ unseen \subseteq Region /\ selected \in 1..Len(traces)
  BY DEF BrowserInv, V!removeTracepoint
<1>2. traces' = V!Without(traces, selected) /\ vStatus' = vStatus /\ UNCHANGED memory
  BY DEF V!removeTracepoint
<1>3. Browsed(traces', rest, vm, memory, unseen)
  BY <1>1, <1>2, RemoveRow
<1>4. traces \in Seq(Traces) /\ Len(traces') = Len(traces) - 1 /\ Len(traces) \in Nat
      /\ traces' \in Seq(Traces)
  <2>1. traces \in Seq(Traces)
    BY <1>1 DEF Browsed, Ordered
  <2>2. QED
    BY <1>1, <1>2, <2>1, WithoutRow
<1> HIDE DEF vm, rest
<1>5. CASE traces' = <<>>
  <2>1. dirty' = rest /\ viewMap' = vm /\ top' = None /\ selected' = 0 /\ UNCHANGED unseen
    BY <1>5 DEF V!removeTracepoint, vm, rest
  <2>2. QED
    BY <1>1, <1>2, <1>3, <2>1 DEF BrowserInv
<1>6. CASE traces' # <<>>
  <2>1. V!Select(IF selected < Len(traces) THEN selected ELSE selected - 1, traces', rest, vm)
    BY <1>6 DEF V!removeTracepoint, vm, rest
  <2>2. Len(traces') # 0
    BY <1>4, <1>6, EmptySeq
  <2>3. PICK i \in 1..Len(traces') : i = IF selected < Len(traces) THEN selected ELSE selected - 1
    BY <1>1, <1>4, <2>2
  <2>4. V!Select(i, traces', rest, vm)
    BY <2>1, <2>3
  <2>5. QED
    BY <1>1, <1>2, <1>3, <2>4, SelectedRow
<1>7. QED
  BY <1>5, <1>6

LEMMA ChosenRow ==
  ASSUME BrowserInv, NEW i \in DOMAIN traces, V!SelectRow(i)
  PROVE  BrowserInv'
<1>1. /\ Browsed(traces, dirty, viewMap, memory, unseen) /\ vStatus # "halted"
      /\ memory \in [Region -> BOOLEAN] /\ unseen \subseteq Region /\ traces' = traces
      /\ vStatus' = vStatus /\ UNCHANGED memory
  BY DEF BrowserInv, V!SelectRow
<1>2. traces \in Seq(Traces)
  BY <1>1 DEF Browsed, Ordered
<1>3. i \in 1..Len(traces')
  BY <1>1, <1>2
<1>4. V!Select(i, traces', dirty, viewMap) /\ Browsed(traces', dirty, viewMap, memory, unseen)
  BY <1>1 DEF V!SelectRow
<1>5. vStatus \in {"halted", "stopped", "running"}
  BY DEF BrowserInv
<1>6. QED
  BY <1>1, <1>3, <1>4, <1>5, SelectedRow

LEMMA RetypedRow ==
  ASSUME BrowserInv, NEW t \in V!Type, V!onDelegateTypeChanged(t)
  PROVE  BrowserInv'
<1>1. /\ Browsed(traces, dirty, viewMap, memory, unseen) /\ vStatus # "halted"
      /\ memory \in [Region -> BOOLEAN] /\ unseen \subseteq Region /\ UNCHANGED <<traces, dirty, selected>>
      /\ vStatus' = vStatus /\ UNCHANGED memory /\ selected \in 1..Len(traces)
      /\ OnTop(traces[selected], viewMap, top) /\ vStatus \in {"halted", "stopped", "running"}
  BY DEF BrowserInv, V!onDelegateTypeChanged
<1>2. traces \in Seq(Traces) /\ dirty \in Seq(BOOLEAN)
  BY <1>1 DEF Browsed, Ordered
<1> DEFINE p == traces[selected]
<1>3. p.id \in V!Id /\ p.region \in Region
  BY <1>1, <1>2, RowOf
<1>4. PICK v \in V!View : v = [type |-> t, widget |-> V!Fresh(p.region)] /\ Shows(v, p, memory)
  <2>1. V!Fresh(p.region) \in V!Widget /\ V!Fresh(p.region).region = p.region /\ V!Fresh(p.region).shown = memory[p.region]
    BY <1>1, <1>3, FreshWidget
  <2> DEFINE v == [type |-> t, widget |-> V!Fresh(p.region)]
  <2>2. v \in V!View /\ v.widget = V!Fresh(p.region)
    BY <2>1 DEF V!View
  <2>3. Shows(v, p, memory)
    BY <2>1, <2>2 DEF Shows
  <2>4. QED
    BY <2>2, <2>3
<1>5. viewMap' = V!Put(viewMap, p.id, v) /\ unseen' = unseen \ {p.region} /\ top' = p.id
  <2>1. viewMap' = [viewMap EXCEPT ![p.id] = v] /\ unseen' = unseen \ {p.region} /\ top' = p.id
    BY <1>4 DEF V!onDelegateTypeChanged
  <2>2. p.id \in DOMAIN viewMap
    BY <1>1 DEF OnTop
  <2>3. QED
    BY <2>1, <2>2 DEF V!Put
<1>6. SameBut(dirty, dirty, selected)
  BY <1>2 DEF SameBut
<1>7. /\ Browsed(traces, dirty, V!Put(viewMap, traces[selected].id, v), memory, unseen \ {traces[selected].region})
      /\ OnTop(traces[selected], V!Put(viewMap, traces[selected].id, v), traces[selected].id)
      /\ Seen(traces[selected], V!Put(viewMap, traces[selected].id, v), memory, unseen \ {traces[selected].region})
  BY <1>1, <1>4, <1>6, PutStep
<1>8. /\ Browsed(traces', dirty', viewMap', memory, unseen') /\ selected \in 1..Len(traces')
      /\ OnTop(traces'[selected], viewMap', top') /\ Seen(traces'[selected], viewMap', memory, unseen')
      /\ selected' = selected /\ unseen' \subseteq Region /\ top' \in V!Id
  BY <1>1, <1>3, <1>5, <1>7
<1>9. QED
  BY <1>1, <1>8, Selected

(* The row that is selected is refreshed if it is marked.                  *)
LEMMA RefreshedRow ==
  ASSUME BrowserInv, V!Refresh
  PROVE  BrowserInv'
<1>1. /\ Browsed(traces, dirty, viewMap, memory, unseen) /\ vStatus # "halted"
      /\ memory \in [Region -> BOOLEAN] /\ unseen \subseteq Region /\ UNCHANGED <<traces, top, selected, memory>>
      /\ vStatus' \in {"running", "stopped"} /\ selected \in Nat /\ top \in V!Id \cup {None}
  BY DEF BrowserInv, V!Refresh
<1>2. traces \in Seq(Traces) /\ dirty \in Seq(BOOLEAN) /\ Len(dirty) = Len(traces)
  BY <1>1 DEF Browsed, Ordered
<1>3. CASE selected = 0
  <2>1. UNCHANGED <<dirty, viewMap, unseen>>
    BY <1>3 DEF V!Refresh, V!refreshView
  <2>2. QED
    BY <1>1, <1>3, <2>1 DEF BrowserInv
<1>4. CASE selected # 0
  <2> DEFINE p == traces[selected]
  <2>1. selected \in 1..Len(traces) /\ OnTop(p, viewMap, top) /\ p.id \in V!Id /\ p.region \in Region
    <3>1. selected \in 1..Len(traces) /\ OnTop(p, viewMap, top)
      BY <1>4 DEF BrowserInv
    <3>2. QED
      BY <1>2, <3>1, RowOf
  <2>2. viewMap[p.id].widget.region = p.region /\ viewMap[p.id].widget # None /\ top = p.id /\ p.id \in DOMAIN viewMap
    BY <1>1, <2>1 DEF Browsed, RowOk, OnTop
  <2>3. CASE ~dirty[selected]
    <3>1. UNCHANGED <<dirty, viewMap, unseen>>
      BY <2>3 DEF V!Refresh, V!refreshView
    <3>2. RowOk(p, dirty[selected], viewMap, memory, unseen)
      BY <1>1, <2>1 DEF Browsed
    <3>3. Seen(p, viewMap, memory, unseen)
      BY <2>2, <2>3, <3>2 DEF RowOk, Seen
    <3>4. QED
      BY <1>1, <2>1, <3>1, <3>3 DEF BrowserInv
  <2>4. CASE dirty[selected]
    <3>1. /\ dirty' = [dirty EXCEPT ![selected] = FALSE]
          /\ viewMap' = [viewMap EXCEPT ![p.id].widget = V!Fresh(@.region)]
          /\ unseen' = unseen \ {p.region}
      BY <1>4, <2>2, <2>4 DEF V!Refresh, V!refreshView
    <3>2. PICK v \in V!View : viewMap' = V!Put(viewMap, p.id, v) /\ Shows(v, p, memory)
      <4>1. V!Fresh(p.region) \in V!Widget /\ V!Fresh(p.region).region = p.region /\ V!Fresh(p.region).shown = memory[p.region]
        BY <1>1, <2>1, FreshWidget
      <4> DEFINE v == [viewMap[p.id] EXCEPT !.widget = V!Fresh(p.region)]
      <4>2. viewMap[p.id] \in V!View
        BY <1>1, <2>2 DEF Browsed, Widgets
      <4>3. v \in V!View /\ v.widget = V!Fresh(p.region)
        BY <4>1, <4>2 DEF V!View
      <4>4. viewMap' = [viewMap EXCEPT ![p.id] = v]
        BY <2>2, <3>1
      <4> HIDE DEF v
      <4>5. viewMap' = V!Put(viewMap, p.id, v)
        BY <2>2, <4>4 DEF V!Put
      <4>6. QED
        BY <4>1, <4>3, <4>5 DEF Shows
    <3>3. SameBut(dirty, dirty', selected)
      BY <1>2, <2>1, <3>1, UnmarkStep
    <3>4. PICK es : es = dirty'
      OBVIOUS
    <3>5. /\ Browsed(traces, es, V!Put(viewMap, traces[selected].id, v), memory, unseen \ {traces[selected].region})
          /\ OnTop(traces[selected], V!Put(viewMap, traces[selected].id, v), traces[selected].id)
          /\ Seen(traces[selected], V!Put(viewMap, traces[selected].id, v), memory, unseen \ {traces[selected].region})
      BY <1>1, <2>1, <3>2, <3>3, <3>4, PutStep
    <3>6. /\ Browsed(traces, dirty', viewMap', memory, unseen')
          /\ OnTop(traces[selected], viewMap', top) /\ Seen(traces[selected], viewMap', memory, unseen')
          /\ unseen' \subseteq Region
      BY <1>1, <2>2, <3>1, <3>2, <3>4, <3>5
    <3>7. QED
      BY <1>1, <2>1, <3>6 DEF BrowserInv
  <2>5. QED
    BY <2>3, <2>4
<1>5. QED
  BY <1>3, <1>4

LEMMA WrittenRegion ==
  ASSUME BrowserInv, NEW r \in Region, V!Write(r)
  PROVE  BrowserInv'
<1>1. /\ Browsed(traces, dirty, viewMap, memory, unseen) /\ vStatus = "running" /\ vStatus' = vStatus
      /\ memory \in [Region -> BOOLEAN] /\ UNCHANGED <<traces, viewMap, top, selected, unseen>>
      /\ memory' = [memory EXCEPT ![r] = ~@]
      /\ dirty' = [i \in DOMAIN dirty |-> dirty[i] \/ traces[i].region = r]
  BY DEF BrowserInv, V!Write
<1>2. traces \in Seq(Traces) /\ dirty \in Seq(BOOLEAN) /\ Len(dirty) = Len(traces) /\ Len(traces) \in Nat
  BY <1>1 DEF Browsed, Ordered
<1>3. DOMAIN dirty = 1..Len(traces)
  BY <1>2
<1>4. dirty' \in Seq(BOOLEAN) /\ Len(dirty') = Len(traces)
  <2>1. dirty' \in [1..Len(traces) -> BOOLEAN]
    BY <1>1, <1>3, Zenon
  <2>2. QED
    BY <1>2, <2>1, FunctionIsSeq
<1>5. memory' \in [Region -> BOOLEAN] /\ \A q \in Region : q # r => memory'[q] = memory[q]
  BY <1>1
<1>6. \A i \in 1..Len(traces) : RowOk(traces[i], dirty'[i], viewMap, memory', unseen)
  <2> SUFFICES ASSUME NEW i \in 1..Len(traces)
               PROVE  RowOk(traces[i], dirty'[i], viewMap, memory', unseen)
    OBVIOUS
  <2>1. RowOk(traces[i], dirty[i], viewMap, memory, unseen)
    BY <1>1 DEF Browsed
  <2>2. dirty'[i] = (dirty[i] \/ traces[i].region = r)
    BY <1>1, <1>3
  <2>3. traces[i].region \in Region
    BY <1>2, RowOf
  <2>4. CASE traces[i].region = r
    <3>1. dirty'[i] = TRUE
      BY <2>2, <2>4, Zenon
    <3>2. QED
      BY <2>1, <3>1 DEF RowOk
  <2>5. CASE traces[i].region # r
    <3>1. dirty[i] = TRUE => dirty'[i] = TRUE
      BY <2>2, Zenon
    <3>2. memory'[traces[i].region] = memory[traces[i].region]
      BY <1>5, <2>3, <2>5
    <3>3. QED
      BY <2>1, <3>1, <3>2 DEF RowOk
  <2>6. QED
    BY <2>4, <2>5
<1>7. Browsed(traces, dirty', viewMap, memory', unseen)
  BY <1>1, <1>4, <1>6 DEF Browsed
<1>8. QED
  BY <1>1, <1>5, <1>7 DEF BrowserInv

LEMMA UnseenWrite ==
  ASSUME BrowserInv, NEW r \in Region, V!CompareAndSet(r)
  PROVE  BrowserInv'
<1>1. /\ Browsed(traces, dirty, viewMap, memory, unseen) /\ vStatus = "running" /\ vStatus' = vStatus
      /\ memory \in [Region -> BOOLEAN] /\ UNCHANGED <<traces, dirty, viewMap, top, selected>>
      /\ memory' = [memory EXCEPT ![r] = ~@] /\ unseen' = unseen \cup {r} /\ unseen \subseteq Region
  BY DEF BrowserInv, V!CompareAndSet
<1>2. traces \in Seq(Traces)
  BY <1>1 DEF Browsed, Ordered
<1>5. memory' \in [Region -> BOOLEAN] /\ \A q \in Region : q # r => memory'[q] = memory[q]
  BY <1>1
<1>6. \A i \in 1..Len(traces) : RowOk(traces[i], dirty[i], viewMap, memory', unseen')
  <2> SUFFICES ASSUME NEW i \in 1..Len(traces)
               PROVE  RowOk(traces[i], dirty[i], viewMap, memory', unseen')
    OBVIOUS
  <2>1. RowOk(traces[i], dirty[i], viewMap, memory, unseen)
    BY <1>1 DEF Browsed
  <2>2. traces[i].region \in Region
    BY <1>2, RowOf
  <2>3. QED
    BY <1>1, <1>5, <2>1, <2>2 DEF RowOk
<1>7. Browsed(traces, dirty, viewMap, memory', unseen')
  BY <1>1, <1>6 DEF Browsed
<1>8. QED
  BY <1>1, <1>5, <1>7 DEF BrowserInv

(* The regions that a program moved keep their order.                      *)
InTurn(from, to) == \A j, k \in DOMAIN from : j < k => from[j] < from[k] /\ to[from[j]] # to[from[k]]
Moved(from, to)  == [k \in DOMAIN from |-> [traces[from[k]] EXCEPT !.region = to[from[k]]]]

LEMMA MovedRows ==
  ASSUME Ordered(traces), NEW n \in 0..Len(traces), NEW from \in [1..n -> DOMAIN traces],
         NEW to \in [DOMAIN traces -> Region],
         InTurn(from, to), NEW ts, ts = Moved(from, to)
  PROVE  Ordered(ts) /\ Len(ts) = n /\ DOMAIN ts = 1..n
<1>1. traces \in Seq(Traces) /\ Len(traces) \in Nat /\ DOMAIN traces = 1..Len(traces) /\ n \in Nat
  BY DEF Ordered
<1>2. DOMAIN from = 1..n /\ \A k \in 1..n : from[k] \in 1..Len(traces)
  BY <1>1
<1>3. \A k \in 1..n : ts[k] \in Traces /\ ts[k].id = traces[from[k]].id /\ ts[k].region = to[from[k]]
  <2> SUFFICES ASSUME NEW k \in 1..n
               PROVE  ts[k] \in Traces /\ ts[k].id = traces[from[k]].id /\ ts[k].region = to[from[k]]
    OBVIOUS
  <2>1. traces[from[k]] \in Traces /\ to[from[k]] \in Region
    BY <1>1, <1>2
  <2>2. ts[k] = [traces[from[k]] EXCEPT !.region = to[from[k]]]
    BY <1>2 DEF Moved
  <2>3. QED
    BY <2>1, <2>2 DEF Traces
<1>4. ts \in [1..n -> Traces]
  <2>1. DOMAIN ts = 1..n
    BY <1>2 DEF Moved
  <2>2. ts = [k \in 1..n |-> ts[k]]
    BY <1>2 DEF Moved
  <2>3. QED
    BY <1>3, <2>1, <2>2
<1>5. ts \in Seq(Traces) /\ Len(ts) = n /\ DOMAIN ts = 1..n
  BY <1>1, <1>4, FunctionIsSeq
<1>6. \A j, k \in 1..n : j < k => ts[j].id < ts[k].id /\ ts[j].region # ts[k].region
  <2> SUFFICES ASSUME NEW j \in 1..n, NEW k \in 1..n, j < k
               PROVE  ts[j].id < ts[k].id /\ ts[j].region # ts[k].region
    OBVIOUS
  <2>1. from[j] < from[k] /\ to[from[j]] # to[from[k]] /\ from[j] \in 1..Len(traces) /\ from[k] \in 1..Len(traces)
    BY <1>2 DEF InTurn
  <2>2. traces[from[j]].id < traces[from[k]].id
    BY <2>1 DEF Ordered
  <2>3. QED
    BY <1>3, <2>1, <2>2
<1>7. \A j, k \in 1..n : j # k => ts[j].region # ts[k].region
  <2> SUFFICES ASSUME NEW j \in 1..n, NEW k \in 1..n, j # k
               PROVE  ts[j].region # ts[k].region
    OBVIOUS
  <2>1. j < k \/ k < j
    BY <1>1
  <2>2. QED
    BY <1>6, <2>1
<1>8. QED
  BY <1>5, <1>6, <1>7 DEF Ordered

(* No widget is left.                                                      *)
NoWidgets(vm) == DOMAIN vm \subseteq V!Id /\ \A k \in DOMAIN vm : vm[k] \in V!View /\ vm[k].widget = None

LEMMA AllDeleted ==
  ASSUME BrowserInv
  PROVE  NoWidgets(V!Deleted) /\ DOMAIN V!Deleted = DOMAIN viewMap
<1>1. DOMAIN viewMap \subseteq V!Id /\ \A k \in DOMAIN viewMap : viewMap[k] \in V!View
  BY DEF BrowserInv, Browsed, Widgets
<1>2. DOMAIN V!Deleted = DOMAIN viewMap /\ \A k \in DOMAIN viewMap : V!Deleted[k] = [viewMap[k] EXCEPT !.widget = None]
  BY DEF V!Deleted
<1>3. \A k \in DOMAIN viewMap : V!Deleted[k] \in V!View /\ V!Deleted[k].widget = None
  BY <1>1, <1>2 DEF V!View
<1>4. QED
  BY <1>1, <1>2, <1>3 DEF NoWidgets

LEMMA StartedBrowser ==
  ASSUME BrowserInv, V!onMachineStarted
  PROVE  BrowserInv'
<1>1. PICK from \in UNION {[1..n -> DOMAIN traces] : n \in 0..Len(traces)} : \E to \in [DOMAIN traces -> Region] :
        /\ \A j, k \in DOMAIN from : j < k => from[j] < from[k] /\ to[from[j]] # to[from[k]]
        /\ traces' = [k \in DOMAIN from |-> [traces[from[k]] EXCEPT !.region = to[from[k]]]]
  BY Zenon DEF V!onMachineStarted
<1>a. PICK n \in 0..Len(traces) : from \in [1..n -> DOMAIN traces]
  OBVIOUS
<1>b. PICK to \in [DOMAIN traces -> Region] : InTurn(from, to) /\ traces' = Moved(from, to)
  BY <1>1 DEF InTurn, Moved
<1>2. Ordered(traces)
  BY DEF BrowserInv, Browsed
<1>3. Len(traces) \in Nat /\ n \in Nat
  BY <1>2 DEF Ordered
<1>4. Ordered(traces') /\ Len(traces') = n /\ DOMAIN traces' = 1..n
  <2>1. PICK ts : ts = traces'
    OBVIOUS
  <2>2. Ordered(ts) /\ Len(ts) = n /\ DOMAIN ts = 1..n
    BY <1>a, <1>b, <1>2, <2>1, MovedRows
  <2>3. QED
    BY <2>1, <2>2
<1>5. vStatus' = "stopped" /\ unseen' = {}
  BY DEF V!onMachineStarted
<1>6. NoWidgets(V!Deleted) /\ DOMAIN V!Deleted = DOMAIN viewMap
  BY AllDeleted
<1>7. PICK f \in BOOLEAN : f = FALSE
  OBVIOUS
<1>8. memory' \in [Region -> BOOLEAN] /\ \A r \in Region : memory'[r] = f
  <2>1. memory' \in [Region -> {f}]
    BY <1>7, Zenon DEF V!onMachineStarted
  <2>2. QED
    BY <2>1
<1>9. CASE traces' = <<>>
  <2>1. dirty' = <<>> /\ viewMap' = V!Deleted /\ top' = None /\ selected' = 0
    BY <1>9 DEF V!onMachineStarted
  <2>2. dirty' \in Seq(BOOLEAN) /\ Len(dirty') = 0 /\ Len(traces') = 0
    BY <1>9, <2>1
  <2>3. Browsed(traces', dirty', viewMap', memory', unseen')
    BY <1>4, <1>6, <2>1, <2>2 DEF Browsed, NoWidgets, Widgets, RowOk
  <2>4. QED
    BY <1>5, <1>8, <2>1, <2>3 DEF BrowserInv
<1>10. CASE traces' # <<>>
  <2> DEFINE p == traces'[1]
             v == [type |-> IF p.id \in DOMAIN viewMap THEN viewMap[p.id].type ELSE "hex",
                   widget |-> [region |-> p.region, shown |-> f]]
  <2>1. /\ dirty' = [i \in DOMAIN traces' |-> f] /\ selected' = 1 /\ top' = p.id
        /\ viewMap' = V!Put(V!Deleted, p.id, v)
    BY <1>7, <1>10, Zenon DEF V!onMachineStarted
  <2>2. traces' \in Seq(Traces) /\ Len(traces') # 0 /\ 1 \in 1..Len(traces')
    <3>1. traces' \in Seq(Traces)
      BY <1>4 DEF Ordered
    <3>2. Len(traces') # 0
      BY <1>10, <3>1, EmptySeq
    <3>3. QED
      BY <1>3, <1>4, <3>1, <3>2
  <2>3. p.id \in V!Id /\ p.region \in Region
    BY <2>2, RowOf
  <2>4. dirty' \in Seq(BOOLEAN) /\ Len(dirty') = Len(traces')
    <3>1. dirty' \in [1..n -> BOOLEAN]
      BY <1>4, <2>1
    <3>2. QED
      BY <1>3, <1>4, <3>1, FunctionIsSeq
  <2>5. v \in V!View /\ Shows(v, p, memory')
    <3>1. [region |-> p.region, shown |-> f] \in V!Widget
      BY <2>3 DEF V!Widget
    <3>2. \A k \in DOMAIN viewMap : viewMap[k].type \in V!Type
      BY DEF BrowserInv, Browsed, Widgets, V!View
    <3>3. v \in V!View /\ v.widget = [region |-> p.region, shown |-> f]
      BY <3>1, <3>2 DEF V!View, V!Type
    <3>4. QED
      BY <1>8, <2>3, <3>1, <3>3 DEF Shows
  <2>6. Browsed(traces', dirty', V!Deleted, memory', {})
    BY <1>4, <1>6, <2>4 DEF Browsed, NoWidgets, Widgets, RowOk
  <2>7. SameBut(dirty', dirty', 1)
    BY <2>4 DEF SameBut
  <2> HIDE DEF v, p
  <2>8. PICK ts : ts = traces'
    OBVIOUS
  <2>9. PICK ds : ds = dirty'
    OBVIOUS
  <2>10. PICK mem : mem = memory'
    OBVIOUS
  <2>11. PICK i : i = 1
    OBVIOUS
  <2>12. /\ Browsed(ts, ds, V!Deleted, mem, {}) /\ mem \in [Region -> BOOLEAN] /\ i \in 1..Len(ts)
         /\ Shows(v, ts[i], mem) /\ SameBut(ds, ds, i) /\ v \in V!View
    BY <1>8, <2>2, <2>5, <2>6, <2>7, <2>8, <2>9, <2>10, <2>11 DEF p
  <2>13. /\ Browsed(ts, ds, V!Put(V!Deleted, ts[i].id, v), mem, {} \ {ts[i].region})
         /\ OnTop(ts[i], V!Put(V!Deleted, ts[i].id, v), ts[i].id)
         /\ Seen(ts[i], V!Put(V!Deleted, ts[i].id, v), mem, {} \ {ts[i].region})
    BY <2>12, PutStep
  <2>14. /\ Browsed(traces', dirty', viewMap', memory', unseen')
         /\ OnTop(traces'[1], viewMap', top') /\ Seen(traces'[1], viewMap', memory', unseen')
    <3>1. {} \ {ts[i].region} = unseen'
      BY <1>5
    <3>2. QED
      BY <2>1, <2>8, <2>9, <2>10, <2>11, <2>13, <3>1 DEF p
  <2>15. QED
    BY <1>5, <1>8, <2>1, <2>2, <2>3, <2>14 DEF BrowserInv
<1>11. QED
  BY <1>9, <1>10

LEMMA NextBrowser == BrowserInv /\ [V!Next]_V!vars => BrowserInv'
<1> SUFFICES ASSUME BrowserInv, [V!Next]_V!vars
             PROVE  BrowserInv'
  OBVIOUS
<1>1. CASE V!onMachineStarted
  BY <1>1, StartedBrowser
<1>2. CASE V!onMachineHalted
  <2>1. Ordered(traces) /\ NoWidgets(V!Deleted)
    BY AllDeleted DEF BrowserInv, Browsed
  <2>2. QED
    BY <1>2, <2>1 DEF V!onMachineHalted, BrowserInv, NoWidgets
<1>3. CASE V!onMachineConfigChanged
  <2>1. Ordered(traces')
    <3>1. traces' \in Seq(Traces) /\ Len(traces') = 0
      BY <1>3 DEF V!onMachineConfigChanged
    <3>2. QED
      BY <3>1 DEF Ordered
  <2>2. QED
    BY <1>3, <2>1 DEF V!onMachineConfigChanged, BrowserInv
<1>4. CASE V!removeTracepoint
  BY <1>4, RemovedRow
<1>5. CASE V!Deselect
  BY <1>5 DEF V!Deselect, BrowserInv
<1>6. CASE V!Run
  BY <1>6 DEF V!Run, BrowserInv
<1>7. CASE V!Refresh
  BY <1>7, RefreshedRow
<1>8. CASE \E r \in Region : V!AddTracepoint(r) \/ V!Write(r) \/ V!CompareAndSet(r)
  BY <1>8, AddedRow, WrittenRegion, UnseenWrite
<1>9. CASE \E i \in DOMAIN traces : V!SelectRow(i)
  BY <1>9, ChosenRow
<1>10. CASE \E t \in V!Type : V!onDelegateTypeChanged(t)
  BY <1>10, RetypedRow
<1>11. CASE UNCHANGED V!vars
  BY <1>11 DEF V!vars, BrowserInv
<1>12. QED
  BY <1>1, <1>2, <1>3, <1>4, <1>5, <1>6, <1>7, <1>8, <1>9, <1>10, <1>11 DEF V!Next

LEMMA InitTraces == MCInit => (active = "traces" => BrowserInv)
  BY InitBrowser DEF MCInit

LEMMA NextTraces == (active = "traces" => BrowserInv) /\ [MCNext]_allVars => (active = "traces" => BrowserInv)'
<1> SUFFICES ASSUME active = "traces" => BrowserInv, [MCNext]_allVars, active' = "traces"
             PROVE  BrowserInv'
  OBVIOUS
<1>1. active = "traces" /\ active' = active
  BY OneRuns
<1>2. V!Next \/ UNCHANGED vVars
  BY <1>1 DEF MCNext, allVars
<1>3. UNCHANGED vVars => UNCHANGED V!vars
  BY DEF vVars, V!vars
<1>4. QED
  BY <1>1, <1>2, <1>3, NextBrowser

-----------------------------------------------------------------------------
(* The hexadecimal editor.                                                 *)
(* The words that can be accessed hold, and are shown with, digits.        *)
Word  == [0..1 -> [0..1 -> Digits]]
Shown == [0..1 -> [0..1 -> Digits \cup {X!Invalid}]]

EditorTypes ==
  /\ digits \in [X!Words -> Word]
  /\ hexText \in [X!Words -> Shown]
  /\ \A w \in X!Words \ Bad : hexText[w] \in Word
  /\ rev \in BOOLEAN /\ pos \in Int

EditorInv == EditorTypes /\ X!EditsExact /\ X!CursorOnDigit /\ X!TextOfMemory

LEMMA ShownText ==
  ASSUME NEW m \in [X!Words -> Word], NEW r \in BOOLEAN
  PROVE  /\ X!Shown(m, r) \in [X!Words -> Shown]
         /\ \A w \in X!Words \ Bad : X!Shown(m, r)[w] \in Word
         /\ \A w \in X!Words \ Bad, b, n \in 0..1 : X!Shown(m, r)[w][b][n] = m[w][X!InOrder(b, r)][n]
         /\ \A w \in X!Words \cap Bad, b, n \in 0..1 : X!Shown(m, r)[w][b][n] = X!Invalid
<1>1. \A b \in 0..1 : X!InOrder(b, r) \in 0..1
  BY DEF X!InOrder
<1>2. X!BytesOf = 0..1 /\ X!Nibbles = 0..1
  BY DEF X!BytesOf, X!Nibbles
<1>3. \A w \in X!Words : X!Shown(m, r)[w] = [b \in 0..1 |-> [n \in 0..1 |-> IF w \in Bad THEN X!Invalid ELSE m[w][X!InOrder(b, r)][n]]]
  BY <1>2 DEF X!Shown
<1>4. \A w \in X!Words, b, n \in 0..1 : m[w][X!InOrder(b, r)][n] \in Digits
  BY <1>1 DEF Word
<1>5. \A w \in X!Words : X!Shown(m, r)[w] \in Shown
  <2> SUFFICES ASSUME NEW w \in X!Words
               PROVE  X!Shown(m, r)[w] \in Shown
    OBVIOUS
  <2> DEFINE d(b, n) == IF w \in Bad THEN X!Invalid ELSE m[w][X!InOrder(b, r)][n]
  <2>1. \A b, n \in 0..1 : d(b, n) \in Digits \cup {X!Invalid}
    BY <1>4
  <2>2. X!Shown(m, r)[w] = [b \in 0..1 |-> [n \in 0..1 |-> d(b, n)]]
    BY <1>3
  <2> HIDE DEF d
  <2>3. [b \in 0..1 |-> [n \in 0..1 |-> d(b, n)]] \in [0..1 -> [0..1 -> Digits \cup {X!Invalid}]]
    BY <2>1
  <2>4. QED
    BY <2>2, <2>3 DEF Shown
<1>6. \A w \in X!Words \ Bad : X!Shown(m, r)[w] \in Word
  <2> SUFFICES ASSUME NEW w \in X!Words \ Bad
               PROVE  X!Shown(m, r)[w] \in Word
    OBVIOUS
  <2> DEFINE d(b, n) == m[w][X!InOrder(b, r)][n]
  <2>1. \A b, n \in 0..1 : d(b, n) \in Digits
    BY <1>4
  <2>2. X!Shown(m, r)[w] = [b \in 0..1 |-> [n \in 0..1 |-> d(b, n)]]
    BY <1>3
  <2> HIDE DEF d
  <2>3. [b \in 0..1 |-> [n \in 0..1 |-> d(b, n)]] \in [0..1 -> [0..1 -> Digits]]
    BY <2>1
  <2>4. QED
    BY <2>2, <2>3 DEF Word
<1>7. X!Shown(m, r) = [w \in X!Words |-> X!Shown(m, r)[w]]
  BY DEF X!Shown
<1>8. X!Shown(m, r) \in [X!Words -> Shown]
  BY <1>5, <1>7
<1>9. QED
  BY <1>3, <1>6, <1>8

(* Positions: a place of the text is in a word, a byte and a nibble.       *)
LEMMA Places ==
  ASSUME NEW p \in 0..X!EndOfText
  PROVE  /\ X!currentWord(p) \in X!Words
         /\ X!currentByte(p) \in 0..1
         /\ X!currentNibble(p) \in 0..2
         /\ p = X!Point(X!currentWord(p), X!currentByte(p), X!currentNibble(p))
<1>1. p \in Nat /\ p < Length * 6
  BY EditorAssumption DEF X!EndOfText, X!CharsPerWord, X!Columns
<1>2. p \div 6 \in 0..Length-1 /\ (p \div 3) % 2 \in 0..1 /\ p % 3 \in 0..2
  BY <1>1, EditorAssumption
<1>3. p = (p \div 6) * 6 + ((p \div 3) % 2) * 3 + (p % 3)
  BY <1>1
<1>4. QED
  BY <1>2, <1>3 DEF X!currentWord, X!currentByte, X!currentNibble, X!Words, X!CharsPerWord, X!Columns, X!Point

LEMMA PointsInText ==
  ASSUME NEW w \in X!Words, NEW b \in 0..1, NEW n \in 0..1
  PROVE  X!Point(w, b, n) \in 0..X!EndOfText /\ X!currentNibble(X!Point(w, b, n)) = n
<1>1. w \in 0..Length-1
  BY DEF X!Words
<1>2. X!Point(w, b, n) = w * 6 + b * 3 + n
  BY DEF X!Point, X!CharsPerWord, X!Columns
<1>3. w * 6 + b * 3 + n \in 0..(Length * 6 - 1)
  BY <1>1, EditorAssumption
<1>4. (w * 6 + b * 3 + n) % 3 = n
  BY <1>1, EditorAssumption
<1>5. QED
  BY <1>2, <1>3, <1>4 DEF X!EndOfText, X!CharsPerWord, X!Columns, X!currentNibble

LEMMA MovesOnDigit ==
  ASSUME NEW p \in 0..X!EndOfText, X!MoveTo(p)
  PROVE  X!CursorOnDigit' /\ pos' \in Int
<1>1. X!currentWord(p) \in X!Words /\ X!currentNibble(p) \in 0..2
  BY Places
<1>2. X!Point(X!currentWord(p), 0, 0) \in 0..X!EndOfText /\ X!currentNibble(X!Point(X!currentWord(p), 0, 0)) = 0
  BY <1>1, PointsInText
<1>3. X!EndOfText \in Int
  BY EditorAssumption DEF X!EndOfText, X!CharsPerWord, X!Columns
<1>4. pos' = IF X!currentNibble(p) = 2 THEN X!Point(X!currentWord(p), 0, 0) ELSE p
  BY DEF X!MoveTo
<1>5. pos' \in 0..X!EndOfText /\ X!currentNibble(pos') \in 0..1
  BY <1>1, <1>2, <1>4
<1>6. QED
  BY <1>3, <1>5 DEF X!CursorOnDigit, X!Nibbles

LEMMA TextInt == X!EndOfText \in Nat /\ X!EndOfText = Length * 6 - 1
  BY EditorAssumption DEF X!EndOfText, X!CharsPerWord, X!Columns

LEMMA MovementStep ==
  ASSUME EditorInv, X!MovementKey
  PROVE  EditorInv'
<1>1. pos \in 0..X!EndOfText /\ pos \in Nat /\ X!currentNibble(pos) \in 0..1
  BY TextInt DEF EditorInv, X!CursorOnDigit, X!Nibbles
<1>2. \A p, n \in Nat : p \in 0..X!EndOfText => X!Right(p, n) \in 0..X!EndOfText /\ X!Left(p, n) \in 0..X!EndOfText
  BY TextInt DEF X!Right, X!Left
<1>3. X!RowStart(pos) \in 0..X!EndOfText /\ X!RowStart(pos) <= pos
  BY <1>1, TextInt DEF X!RowStart, X!CharsPerRow, X!CharsPerWord, X!Columns
<1>4. X!RowEnd(pos) \in 0..X!EndOfText
  BY <1>3, TextInt DEF X!RowEnd, X!CharsPerRow, X!CharsPerWord, X!Columns
<1>5. X!CharsPerRow = 12
  BY DEF X!CharsPerRow, X!CharsPerWord, X!Columns
<1>6. X!CursorOnDigit' /\ pos' \in Int
  <2>1. CASE X!KeyLeft \/ X!KeyRight
    <3>1. PICK p \in 0..X!EndOfText : X!MoveTo(p)
      BY <1>1, <1>2, <2>1 DEF X!KeyLeft, X!KeyRight
    <3>2. QED
      BY <3>1, MovesOnDigit
  <2>2. ASSUME NEW w, X!setPoint(w, X!currentByte(pos), X!currentNibble(pos))
        PROVE  X!CursorOnDigit' /\ pos' \in Int
    <3>1. CASE w \in X!Words
      <4>1. X!Point(w, X!currentByte(pos), X!currentNibble(pos)) \in 0..X!EndOfText
        BY <1>1, <3>1, Places, PointsInText
      <4>2. QED
        BY <2>2, <3>1, <4>1, MovesOnDigit DEF X!setPoint
    <3>2. CASE w \notin X!Words
      <4>1. pos' = pos
        BY <2>2, <3>2 DEF X!setPoint
      <4>2. QED
        BY <4>1 DEF EditorInv, EditorTypes, X!CursorOnDigit
    <3>3. QED
      BY <3>1, <3>2
  <2>3. CASE X!WordLeft \/ X!WordRight
    BY <2>2, <2>3 DEF X!WordLeft, X!WordRight
  <2>4. CASE X!KeyHome \/ X!KeyEnd
    BY <1>3, <1>4, <2>4, MovesOnDigit DEF X!KeyHome, X!KeyEnd
  <2>5. ASSUME pos' = pos
        PROVE  X!CursorOnDigit' /\ pos' \in Int
    BY <2>5 DEF EditorInv, EditorTypes, X!CursorOnDigit
  <2>6. CASE X!KeyUp
    <3>1. pos >= 12 => pos - 12 \in 0..X!EndOfText
      BY <1>1, TextInt
    <3>2. QED
      BY <1>5, <2>5, <2>6, <3>1, MovesOnDigit DEF X!KeyUp
  <2>7. CASE X!KeyDown
    <3>1. pos' = pos \/ \E p \in 0..X!EndOfText : X!MoveTo(p)
      BY <1>1, <1>5, <2>7, TextInt DEF X!KeyDown
    <3>2. QED
      BY <2>5, <3>1, MovesOnDigit
  <2>8. QED
    BY <2>1, <2>3, <2>4, <2>6, <2>7 DEF X!MovementKey
<1>7. UNCHANGED <<digits, hexText, rev, wanted>>
  BY DEF X!MovementKey
<1>8. QED
  BY <1>6, <1>7 DEF EditorInv, EditorTypes, X!EditsExact, X!TextOfMemory, X!Fresh

LEMMA MouseStep ==
  ASSUME EditorInv, NEW p \in 0..X!EndOfText, X!mousePressEvent(p)
  PROVE  EditorInv'
<1> DEFINE n == IF X!currentNibble(p) = 0 THEN 0 ELSE 1
<1>1. X!currentWord(p) \in X!Words /\ X!Point(X!currentWord(p), X!currentByte(p), n) \in 0..X!EndOfText
  BY Places, PointsInText
<1>2. X!MoveTo(X!Point(X!currentWord(p), X!currentByte(p), n))
  BY <1>1 DEF X!mousePressEvent, X!setPoint
<1>3. X!CursorOnDigit' /\ pos' \in Int
  BY <1>1, <1>2, MovesOnDigit
<1>4. UNCHANGED <<digits, hexText, rev, wanted>>
  BY DEF X!mousePressEvent
<1>5. QED
  BY <1>3, <1>4 DEF EditorInv, EditorTypes, X!EditsExact, X!TextOfMemory, X!Fresh

(* The text that is made anew is that of the memory.                       *)
LEMMA FreshStep ==
  ASSUME EditorInv, rev' \in BOOLEAN, hexText' = X!Shown(digits, rev'), UNCHANGED <<digits, pos, wanted>>
  PROVE  EditorInv'
<1>1. digits \in [X!Words -> Word]
  BY DEF EditorInv, EditorTypes
<1>2. hexText' \in [X!Words -> Shown] /\ \A w \in X!Words \ Bad : hexText'[w] \in Word
  BY <1>1, ShownText
<1>3. X!TextOfMemory'
  BY DEF X!TextOfMemory, X!Fresh
<1>4. QED
  BY <1>1, <1>2, <1>3 DEF EditorInv, EditorTypes, X!EditsExact, X!CursorOnDigit

(* The order of the bytes is its own inverse.                              *)
LEMMA OrderTwice == \A b \in 0..1, r \in BOOLEAN : X!InOrder(b, r) \in 0..1 /\ X!InOrder(X!InOrder(b, r), r) = b
  BY DEF X!InOrder

LEMMA TypeStep ==
  ASSUME EditorInv, NEW d \in Digits, X!TypeDigit(d)
  PROVE  EditorInv'
<1> DEFINE w == X!currentWord(pos)
           b == X!currentByte(pos)
           n == X!currentNibble(pos)
           typed == [hexText EXCEPT ![w][b][n] = d]
<1>1. pos \in 0..X!EndOfText /\ w \in X!Words /\ b \in 0..1 /\ n \in 0..1 /\ pos \in Nat
  BY Places, TextInt DEF EditorInv, X!CursorOnDigit, X!Nibbles
<1>2. digits \in [X!Words -> Word] /\ hexText \in [X!Words -> Shown] /\ rev \in BOOLEAN /\ digits = wanted
      /\ \A v \in X!Words \ Bad : hexText[v] \in Word
  BY DEF EditorInv, EditorTypes, X!EditsExact
<1>3. CASE w \in Bad
  <2>1. hexText' = X!Shown(digits, rev') /\ UNCHANGED <<digits, pos, wanted, rev>>
    BY <1>3 DEF X!TypeDigit
  <2>2. QED
    BY <1>2, <2>1, FreshStep
<1>4. CASE w \notin Bad
  <2>1. /\ hexText' = typed /\ rev' = rev
        /\ digits' = [digits EXCEPT ![w] = X!dataAtCursor(typed)]
        /\ wanted' = IF X!Fresh(w) THEN [wanted EXCEPT ![w][X!InOrder(b, rev)][n] = d] ELSE digits'
        /\ X!MoveTo(X!Right(pos, 1 + n))
    BY <1>4 DEF X!TypeDigit
  <2>2. X!CursorOnDigit' /\ pos' \in Int
    <3>1. X!Right(pos, 1 + n) \in 0..X!EndOfText
      BY <1>1, TextInt DEF X!Right
    <3>2. QED
      BY <2>1, <3>1, MovesOnDigit
  <2>3. typed[w] = [hexText[w] EXCEPT ![b][n] = d] /\ hexText[w] \in Word
        /\ \A v \in X!Words : v # w => typed[v] = hexText[v]
    BY <1>1, <1>2, <1>4
  <2>4. typed[w] \in Word /\ \A c, m \in 0..1 : typed[w][c][m] = IF c = b /\ m = n THEN d ELSE hexText[w][c][m]
    BY <1>1, <2>3 DEF Word
  <2>5. typed \in [X!Words -> Shown] /\ \A v \in X!Words \ Bad : typed[v] \in Word
    <3>1. Word \subseteq Shown
      BY DEF Word, Shown
    <3>2. DOMAIN typed = X!Words /\ typed = [v \in X!Words |-> typed[v]]
      BY <1>2
    <3> HIDE DEF typed, w
    <3>3. \A v \in X!Words : typed[v] \in Shown
      BY <1>2, <2>3, <2>4, <3>1
    <3>4. QED
      BY <1>2, <2>3, <2>4, <3>2, <3>3
  <2>6. \A c \in 0..1 : X!byteValue(typed, w, c) = typed[w][c]
    <3>1. X!Invalid \notin Digits
      BY EditorAssumption DEF X!Invalid
    <3> HIDE DEF typed, w
    <3>2. \A c, m \in 0..1 : typed[w][c][m] # X!Invalid
      BY <2>4, <3>1 DEF Word
    <3>3. QED
      BY <3>2 DEF X!byteValue, X!Nibbles
  <2>7. X!dataAtCursor(typed) = [i \in 0..1 |-> typed[w][X!InOrder(i, rev)]]
    <3> HIDE DEF typed
    <3>1. QED
      BY <1>2, <2>6, OrderTwice DEF X!dataAtCursor, X!BytesOf
  <2> DEFINE data == X!dataAtCursor(typed)
  <2>8. data \in Word
    <3> HIDE DEF typed, w
    <3>1. \A i \in 0..1 : typed[w][X!InOrder(i, rev)] \in [0..1 -> Digits]
      BY <1>2, <2>4, OrderTwice DEF Word
    <3>2. QED
      BY <2>7, <3>1 DEF Word
  <2> HIDE DEF data, typed
  <2>9. digits' \in [X!Words -> Word] /\ digits'[w] = data /\ \A v \in X!Words : v # w => digits'[v] = digits[v]
    BY <1>1, <1>2, <2>1, <2>8 DEF data
  <2>10. X!EditsExact'
    <3>1. CASE ~X!Fresh(w)
      BY <2>1, <3>1 DEF X!EditsExact
    <3>2. CASE X!Fresh(w)
      <4> DEFINE k == X!InOrder(b, rev)
      <4>1. wanted' = [digits EXCEPT ![w][k][n] = d] /\ k \in 0..1
        BY <1>1, <1>2, <2>1, <3>2, OrderTwice
      <4>2. \A i, m \in 0..1 : hexText[w][X!InOrder(i, rev)][m] = digits[w][i][m]
        BY <1>1, <1>2, <1>4, <3>2, ShownText, OrderTwice DEF X!Fresh
      <4>3. \A i \in 0..1 : X!InOrder(i, rev) = b <=> i = k
        BY <1>1, <1>2, OrderTwice
      <4>4. \A i, m \in 0..1 : data[i][m] = IF i = k /\ m = n THEN d ELSE digits[w][i][m]
        BY <1>2, <2>4, <2>7, <4>2, <4>3, OrderTwice DEF data
      <4> HIDE DEF k, w
      <4>5. digits[w] \in Word
        BY <1>1, <1>2
      <4>6. [digits[w] EXCEPT ![k][n] = d] \in Word
            /\ \A i, m \in 0..1 : [digits[w] EXCEPT ![k][n] = d][i][m] = IF i = k /\ m = n THEN d ELSE digits[w][i][m]
        BY <1>1, <4>1, <4>5 DEF Word
      <4>7. \A u, v \in Word : (\A i, m \in 0..1 : u[i][m] = v[i][m]) => u = v
        <5> SUFFICES ASSUME NEW u \in Word, NEW v \in Word, \A i, m \in 0..1 : u[i][m] = v[i][m]
                     PROVE  u = v
          OBVIOUS
        <5>1. \A i \in 0..1 : u[i] \in [0..1 -> Digits] /\ v[i] \in [0..1 -> Digits]
          BY DEF Word
        <5>2. \A i \in 0..1 : u[i] = v[i]
          BY <5>1
        <5>3. QED
          BY <5>2 DEF Word
      <4>8. data = [digits[w] EXCEPT ![k][n] = d]
        <5> DEFINE g == [digits[w] EXCEPT ![k][n] = d]
        <5>1. g \in Word /\ \A i, m \in 0..1 : g[i][m] = IF i = k /\ m = n THEN d ELSE digits[w][i][m]
          BY <4>6
        <5> HIDE DEF g
        <5>2. \A i, m \in 0..1 : data[i][m] = g[i][m]
          BY <4>4, <5>1
        <5>3. data = g
          BY <2>8, <4>7, <5>1, <5>2
        <5>4. QED
          BY <5>3 DEF g
      <4>9. QED
        BY <1>1, <1>2, <2>1, <4>1, <4>8 DEF X!EditsExact, data
    <3>3. QED
      BY <3>1, <3>2
  <2>11. X!TextOfMemory'
    <3> SUFFICES ASSUME NEW v \in X!Words \ Changing
                 PROVE  hexText'[v] = X!Shown(digits', rev')[v]
      BY DEF X!TextOfMemory, X!Fresh
    <3>1. hexText[v] = X!Shown(digits, rev)[v]
      BY DEF EditorInv, X!TextOfMemory, X!Fresh
    <3>2. CASE v # w
      <4>1. X!Shown(digits', rev)[v] = X!Shown(digits, rev)[v]
        BY <2>9, <3>2 DEF X!Shown
      <4>2. QED
        BY <2>1, <2>3, <3>1, <3>2, <4>1
    <3>3. CASE v = w
      <4>1. \A c, m \in 0..1 : X!Shown(digits', rev)[w][c][m] = digits'[w][X!InOrder(c, rev)][m]
            /\ X!Shown(digits', rev)[w] \in Word
        BY <1>1, <1>2, <1>4, <2>9, ShownText
      <4>2. \A c, m \in 0..1 : digits'[w][X!InOrder(c, rev)][m] = typed[w][c][m]
        BY <1>2, <2>7, <2>9, OrderTwice DEF data
      <4>3. \A c, m \in 0..1 : X!Shown(digits', rev)[w][c][m] = typed[w][c][m]
        BY <4>1, <4>2
      <4> DEFINE s == X!Shown(digits', rev)[w]
                 t == typed[w]
      <4>4. s \in Word /\ t \in Word /\ \A c, m \in 0..1 : s[c][m] = t[c][m]
        BY <2>4, <4>1, <4>3
      <4> HIDE DEF s, t
      <4>5. \A c \in 0..1 : s[c] \in [0..1 -> Digits] /\ t[c] \in [0..1 -> Digits]
        BY <4>4 DEF Word
      <4>6. \A c \in 0..1 : s[c] = t[c]
        BY <4>4, <4>5
      <4>7. s = t
        BY <4>4, <4>6 DEF Word
      <4>8. QED
        BY <2>1, <3>3, <4>7 DEF s, t
    <3>4. QED
      BY <3>2, <3>3
  <2>12. QED
    BY <1>2, <2>1, <2>2, <2>5, <2>9, <2>10, <2>11 DEF EditorInv, EditorTypes
<1>5. QED
  BY <1>3, <1>4

LEMMA ProgramStep ==
  ASSUME EditorInv, NEW w \in Changing, NEW d \in Digits, X!ProgramWrites(w, d)
  PROVE  EditorInv'
<1> DEFINE v == [b \in 0..1 |-> [n \in 0..1 |-> d]]
<1>1. digits' = [digits EXCEPT ![w] = v] /\ wanted' = digits' /\ UNCHANGED <<hexText, pos, rev>>
  BY DEF X!ProgramWrites, X!BytesOf, X!Nibbles
<1>2. v \in Word
  BY DEF Word
<1> HIDE DEF v
<1>3. digits \in [X!Words -> Word]
  BY DEF EditorInv, EditorTypes
<1>4. digits' \in [X!Words -> Word] /\ \A u \in X!Words \ Changing : digits'[u] = digits[u]
  BY <1>1, <1>2, <1>3
<1>5. X!TextOfMemory'
  <2> SUFFICES ASSUME NEW u \in X!Words \ Changing
               PROVE  hexText'[u] = X!Shown(digits', rev')[u]
    BY DEF X!TextOfMemory, X!Fresh
  <2>1. hexText[u] = X!Shown(digits, rev)[u]
    BY DEF EditorInv, X!TextOfMemory, X!Fresh
  <2>2. X!Shown(digits', rev)[u] = X!Shown(digits, rev)[u]
    BY <1>4 DEF X!Shown
  <2>3. QED
    BY <1>1, <2>1, <2>2
<1>6. QED
  BY <1>1, <1>4, <1>5 DEF EditorInv, EditorTypes, X!EditsExact, X!CursorOnDigit

LEMMA InitEditor == X!Init => EditorInv
<1> SUFFICES ASSUME X!Init
             PROVE  EditorInv
  OBVIOUS
<1> DEFINE z == [b \in 0..1 |-> [n \in 0..1 |-> 0]]
<1>1. digits = [w \in X!Words |-> z]
  BY DEF X!Init, X!BytesOf, X!Nibbles
<1>2. z \in Word
  BY EditorAssumption DEF Word
<1> HIDE DEF z
<1>3. digits \in [X!Words -> Word]
  BY <1>1, <1>2
<1>4. rev \in BOOLEAN /\ hexText = X!Shown(digits, rev) /\ pos = 0 /\ wanted = digits
  BY DEF X!Init
<1>5. hexText \in [X!Words -> Shown] /\ \A w \in X!Words \ Bad : hexText[w] \in Word
  BY <1>3, <1>4, ShownText
<1>6. X!CursorOnDigit
  BY <1>4, TextInt DEF X!CursorOnDigit, X!currentNibble, X!Columns, X!Nibbles
<1>7. QED
  BY <1>3, <1>4, <1>5, <1>6 DEF EditorInv, EditorTypes, X!EditsExact, X!TextOfMemory, X!Fresh

LEMMA NextEditor ==
  ASSUME EditorInv, [X!Next]_(X!vars)
  PROVE  EditorInv'
<1>1. rev \in BOOLEAN /\ (~rev) \in BOOLEAN
  BY DEF EditorInv, EditorTypes
<1>2. CASE X!setReversedByteOrder
  <2>1. rev' \in BOOLEAN
    BY <1>1, <1>2, Zenon DEF X!setReversedByteOrder
  <2>2. QED
    BY <1>2, <2>1, FreshStep DEF X!setReversedByteOrder
<1>3. CASE X!Refresh
  BY <1>1, <1>3, FreshStep DEF X!Refresh
<1>4. CASE UNCHANGED X!vars
  BY <1>4 DEF X!vars, EditorInv, EditorTypes, X!EditsExact, X!CursorOnDigit, X!TextOfMemory, X!Fresh
<1>5. QED
  BY <1>2, <1>3, <1>4, MovementStep, MouseStep, TypeStep, ProgramStep DEF X!Next

LEMMA InitHex == MCInit => (active = "editor" => EditorInv)
  BY InitEditor DEF MCInit

LEMMA NextHex == (active = "editor" => EditorInv) /\ [MCNext]_allVars => (active = "editor" => EditorInv)'
<1> SUFFICES ASSUME active = "editor" => EditorInv, [MCNext]_allVars, active' = "editor"
             PROVE  EditorInv'
  OBVIOUS
<1>1. active = "editor" /\ active' = active
  BY OneRuns
<1>2. X!Next \/ UNCHANGED xVars
  BY <1>1 DEF MCNext, allVars
<1>3. UNCHANGED xVars => UNCHANGED X!vars
  BY DEF xVars, X!vars
<1>4. QED
  BY <1>1, <1>2, <1>3, NextEditor

(* With the machine stopped, the browser shows the selected region as it   *)
(* is, whatever onSelectionChanged, removeTracepoint, a reset or a write   *)
(* did before, but for CAS; and HexView::keyPressEvent changes the digit   *)
(* under the cursor, and no other that the program did not change.         *)
THEOREM SelectedIsShown == MCSpec => []ShowsSelected
<1>1. (active = "traces" => BrowserInv) /\ (active = "editor" => EditorInv) => ShowsSelected
  BY BrowserMeans DEF ShowsSelected, EditorInv
<1>2. QED
  BY <1>1, InitTraces, NextTraces, InitHex, NextHex, PTL DEF MCSpec

-----------------------------------------------------------------------------
(* The views of a core.                                                    *)
(* A place is in one function at most.                                     *)
LEMMA FunctionsDisjoint ==
  /\ \A f \in Functions : f[1] \in Nat /\ f[2] \in Nat /\ RamBase <= f[1]
  /\ \A f, g \in Functions, pc \in Int : S!Within(pc, f) /\ S!Within(pc, g) => f = g
<1>1. \A f \in Functions : f[1] \in Nat /\ f[2] \in Nat /\ RamBase <= f[1]
  BY FunctionsAssumption
<1>2. ASSUME NEW f \in Functions, NEW g \in Functions, NEW pc \in Int, S!Within(pc, f), S!Within(pc, g)
      PROVE  f = g
  <2>1. ~(f[2] < g[1]) /\ ~(g[2] < f[1])
    BY <1>1, <1>2 DEF S!Within
  <2>2. QED
    BY <2>1, FunctionsAssumption
<1>3. QED
  BY <1>1, <1>2

(* The code that a view can have loaded, and the cores.                    *)
Bios  == <<0, BiosSize - 1>>
Boot  == <<BootBase, BootBase + BootSize - 1>>
Codes == {S!NoCode, Bios, Boot} \cup Functions
Cores == [ps : S!Ps, pc : Int, reg : 0..1, cause : {"none", "breakpoint"}]

ViewsTypes ==
  /\ sStatus \in {"halted", "stopped", "running"}
  /\ byUser \in BOOLEAN /\ iterated \in BOOLEAN
  /\ made \in Int /\ (sStatus # "halted" => made # 0)
  /\ core \in Cores
  /\ window \in [of : Int, reg : 0..1, code : Codes, map : Int]

ViewsInv == ViewsTypes /\ S!ShownWhenStopped /\ S!ShownWhenRunning /\ S!NoDangling

(* Code is loaded where the core is.                                       *)
LEMMA LoadedCode ==
  ASSUME NEW c \in Cores
  PROVE  S!loadCode(c) \in Codes
<1>1. c.pc \in Int
  BY DEF Cores
<1>2. S!functionAt(c.pc) \in Codes
  BY DEF S!Around, S!functionAt, Codes
<1>3. c.pc >= RamBase \/ c.pc \in BootBase..RamBase-1 \/ c.pc < BootBase
  BY <1>1, LayoutAssumption
<1>4. CASE c.ps = "halted"
  BY <1>4 DEF S!loadCode, Codes
<1>5. CASE c.ps # "halted" /\ c.pc >= RamBase
  <2>1. S!loadCode(c) = IF c.pc < Floor THEN S!functionAt(c.pc) ELSE S!NoCode
    BY <1>1, <1>5, LayoutAssumption DEF S!loadCode
  <2>2. QED
    BY <1>2, <2>1 DEF Codes
<1>6. CASE c.ps # "halted" /\ c.pc \in BootBase..RamBase-1
  <2>1. S!loadCode(c) = IF c.pc <= BootBase + BootSize - 1 THEN Boot ELSE S!NoCode
    BY <1>1, <1>6, LayoutAssumption DEF S!loadCode, Boot
  <2>2. QED
    BY <2>1 DEF Codes
<1>7. CASE c.ps # "halted" /\ c.pc < BootBase
  <2>1. S!loadCode(c) = IF c.pc <= BiosSize - 1 THEN Bios ELSE S!NoCode
    BY <1>1, <1>7, LayoutAssumption DEF S!loadCode, Bios
  <2>2. QED
    BY <2>1 DEF Codes
<1>8. QED
  BY <1>3, <1>4, <1>5, <1>6, <1>7

(* Code that stays because the PC is in it is the code that would be loaded. *)
LEMMA CodeStays ==
  ASSUME NEW c \in Cores, c.ps # "halted", NEW code \in Codes, S!Within(c.pc, code), c.pc < Floor
  PROVE  S!loadCode(c) = code
<1>1. c.pc \in Int
  BY DEF Cores
<1>2. CASE code = S!NoCode
  BY <1>1, <1>2 DEF S!Within, S!NoCode
<1>3. CASE code = Bios
  <2>1. c.pc < BootBase /\ c.pc <= BiosSize - 1
    BY <1>1, <1>3, LayoutAssumption DEF S!Within, Bios
  <2>2. QED
    BY <1>1, <1>3, <2>1, LayoutAssumption DEF S!loadCode, Bios
<1>4. CASE code = Boot
  <2>1. c.pc \in BootBase..RamBase-1 /\ c.pc <= BootBase + BootSize - 1
    BY <1>1, <1>4, LayoutAssumption DEF S!Within, Boot
  <2>2. QED
    BY <1>1, <1>4, <2>1, LayoutAssumption DEF S!loadCode, Boot
<1>5. CASE code \in Functions
  <2>1. c.pc >= RamBase
    BY <1>1, <1>5, LayoutAssumption, FunctionsDisjoint DEF S!Within
  <2>2. S!loadCode(c) = IF c.pc < Floor THEN S!functionAt(c.pc) ELSE S!NoCode
    BY <1>1, <1>5, <2>1, LayoutAssumption DEF S!loadCode
  <2>3. code \in S!Around(c.pc) /\ \A f \in S!Around(c.pc) : f = code
    BY <1>1, <1>5, FunctionsDisjoint DEF S!Around
  <2>4. S!functionAt(c.pc) = code
    BY <2>3 DEF S!functionAt
  <2>5. QED
    BY <2>2, <2>3, <2>4
<1>6. QED
  BY <1>2, <1>3, <1>4, <1>5 DEF Codes

LEMMA StoppedCode ==
  ASSUME NEW c \in Cores, NEW code \in Codes
  PROVE  /\ S!onMachineStopped(code, c) \in Codes
         /\ c.ps # "halted" => S!onMachineStopped(code, c) = S!loadCode(c)
<1>1. c.pc \in Int
  BY DEF Cores
<1>2. S!NoCode \in Codes /\ S!loadCode(c) \in Codes
  BY LoadedCode DEF Codes
<1>3. CASE code = S!NoCode
  BY <1>2, <1>3 DEF S!onMachineStopped
<1>4. CASE code # S!NoCode /\ c.pc >= Floor
  <2>1. S!onMachineStopped(code, c) = S!NoCode
    BY <1>1, <1>4, LayoutAssumption DEF S!onMachineStopped
  <2>2. c.ps # "halted" => S!loadCode(c) = S!NoCode
    BY <1>1, <1>4, LayoutAssumption DEF S!loadCode
  <2>3. QED
    BY <1>2, <2>1, <2>2
<1>5. CASE code # S!NoCode /\ c.pc < Floor
  <2>1. S!onMachineStopped(code, c) = IF S!Within(c.pc, code) THEN code ELSE S!loadCode(c)
    BY <1>1, <1>5, LayoutAssumption DEF S!onMachineStopped
  <2>2. QED
    BY <1>2, <1>5, <2>1, CodeStays
<1>6. QED
  BY <1>1, <1>3, <1>4, <1>5, LayoutAssumption

LEMMA InitViews == S!Init => ViewsInv
<1> SUFFICES ASSUME S!Init
             PROVE  ViewsInv
  OBVIOUS
<1>1. S!Fresh \in Cores
  BY DEF S!Fresh, Cores, S!Ps
<1>2. S!Closed \in [of : Int, reg : 0..1, code : Codes, map : Int]
  BY DEF S!Closed, Codes
<1>3. window.of = 0
  BY DEF S!Init, S!Closed
<1>4. QED
  BY <1>1, <1>2, <1>3 DEF S!Init, ViewsInv, ViewsTypes, S!ShownWhenStopped, S!ShownWhenRunning, S!NoDangling, S!isOpen

LEMMA HaltStep ==
  ASSUME ViewsInv, S!halt, core' \in Cores
  PROVE  ViewsInv'
<1>1. S!Closed \in [of : Int, reg : 0..1, code : Codes, map : Int] /\ S!Closed.of = 0
  BY DEF S!Closed, Codes
<1>2. QED
  BY <1>1 DEF S!halt, S!MachineHalted, S!HaltedRead, ViewsInv, ViewsTypes, S!ShownWhenStopped, S!ShownWhenRunning, S!NoDangling, S!isOpen

(* A machine is there, whether one was before or not.                      *)
LEMMA InitializeStep ==
  ASSUME ViewsInv, S!initializeMachine, iterated' = iterated, dangling' \subseteq {"MachineHalted"},
         window' = IF S!isOpen THEN S!windowOf(made', core') ELSE window
  PROVE  ViewsInv'
<1>1. S!Fresh \in Cores /\ S!Fresh.reg \in 0..1 /\ S!Fresh.ps = "running"
  BY DEF S!Fresh, Cores, S!Ps
<1>2. core' = S!Fresh /\ sStatus' = "stopped" /\ byUser' = TRUE /\ list' = made'
      /\ statusMap' = [of |-> made', status |-> S!StatusOf(core', "stopped", TRUE), location |-> S!LocationOf(core', statusMap)]
  BY DEF S!initializeMachine, S!update
<1>3. made' \in Int /\ made' # 0
  BY LayoutAssumption DEF S!initializeMachine, ViewsInv, ViewsTypes
<1>4. S!loadCode(core') \in Codes
  BY <1>1, <1>2, LoadedCode
<1>5. S!LocationOf(core', statusMap) = core'.pc
  BY <1>1, <1>2 DEF S!LocationOf
<1>6. window' \in [of : Int, reg : 0..1, code : Codes, map : Int]
  <2>1. CASE S!isOpen
    BY <1>1, <1>2, <1>3, <1>4, <2>1 DEF S!windowOf
  <2>2. CASE ~S!isOpen
    BY <2>2 DEF ViewsInv, ViewsTypes
  <2>3. QED
    BY <2>1, <2>2
<1>7. S!isOpen' => window'.of = made' /\ window'.map = made' /\ window'.reg = core'.reg /\ window'.code = S!loadCode(core')
  BY DEF S!isOpen, S!windowOf
<1>8. QED
  BY <1>1, <1>2, <1>3, <1>5, <1>6, <1>7
  DEF ViewsInv, ViewsTypes, S!ShownWhenStopped, S!ShownWhenRunning, S!NoDangling

(* A slot that reads a machine that is on reads the present one.           *)
LEMMA ReadsPresent ==
  ASSUME ViewsInv, sStatus # "halted", S!Reads
  PROVE  dangling' = dangling
  BY DEF ViewsInv, S!NoDangling, S!Reads, S!SlotsRead, S!ReadBy, S!Gone

LEMMA StoppedStep ==
  ASSUME ViewsInv, sStatus # "halted", NEW c \in Cores, NEW u \in BOOLEAN, S!MachineStopped(c, u),
         core' = c, sStatus' = "stopped", byUser' = u, iterated' \in BOOLEAN, UNCHANGED <<made, list>>
  PROVE  ViewsInv'
<1>1. dangling' = dangling
  BY ReadsPresent DEF S!MachineStopped
<1>2. statusMap' = [of |-> statusMap.of, status |-> S!StatusOf(c, "stopped", u), location |-> S!LocationOf(c, statusMap)]
  BY DEF S!MachineStopped, S!update
<1>3. c.ps # "halted" => S!LocationOf(c, statusMap) = c.pc
  BY DEF S!LocationOf
<1>4. window \in [of : Int, reg : 0..1, code : Codes, map : Int] /\ c.reg \in 0..1
  BY DEF ViewsInv, ViewsTypes, Cores
<1> DEFINE k == S!onMachineStopped(window.code, c)
<1>5. k \in Codes /\ (c.ps # "halted" => k = S!loadCode(c))
  BY <1>4, StoppedCode
<1>6. window' = IF S!isOpen THEN [[window EXCEPT !.reg = c.reg] EXCEPT !.code = k] ELSE window
  BY DEF S!MachineStopped, S!updateCache, S!isOpen
<1> HIDE DEF k
<1>7. /\ window' \in [of : Int, reg : 0..1, code : Codes, map : Int]
      /\ window'.of = window.of /\ window'.map = window.map
      /\ S!isOpen => window'.reg = c.reg /\ window'.code = k
  BY <1>4, <1>5, <1>6
<1>8. S!isOpen' <=> S!isOpen
  BY <1>7 DEF S!isOpen
<1>9. QED
  BY <1>1, <1>2, <1>3, <1>5, <1>7, <1>8
  DEF ViewsInv, ViewsTypes, S!ShownWhenStopped, S!ShownWhenRunning, S!NoDangling

LEMMA GoesOnStep ==
  ASSUME ViewsInv, sStatus # "halted", NEW c \in Cores, S!Reads, sStatus' = "running", core' = c,
         byUser' \in BOOLEAN, iterated' \in BOOLEAN, UNCHANGED <<made, list>>,
         statusMap'.of = statusMap.of, window' = S!updateCache(window, c),
         iterated' => statusMap'.status \in {"Running", "Idle", "Halted"}
  PROVE  ViewsInv'
<1>1. dangling' = dangling
  BY ReadsPresent
<1>2. window \in [of : Int, reg : 0..1, code : Codes, map : Int] /\ c.reg \in 0..1
  BY DEF ViewsInv, ViewsTypes, Cores
<1>3. /\ window' \in [of : Int, reg : 0..1, code : Codes, map : Int]
      /\ window'.of = window.of /\ window'.map = window.map
  BY <1>2 DEF S!updateCache
<1>4. S!isOpen' <=> S!isOpen
  BY <1>3 DEF S!isOpen
<1>5. QED
  BY <1>1, <1>3, <1>4
  DEF ViewsInv, ViewsTypes, S!ShownWhenStopped, S!ShownWhenRunning, S!NoDangling

LEMMA ViewSteps ==
  ASSUME ViewsInv
  PROVE  /\ S!showCpuWindow => ViewsInv'
         /\ S!closeCpuWindow => ViewsInv'
         /\ \A v \in 0..1 : S!setData(v) => ViewsInv'
<1>0. window \in [of : Int, reg : 0..1, code : Codes, map : Int] /\ core \in Cores /\ made \in Int
  BY DEF ViewsInv, ViewsTypes
<1>1. ASSUME S!showCpuWindow
      PROVE  ViewsInv'
  <2>1. window' = [of |-> made, reg |-> core.reg, code |-> S!loadCode(core), map |-> made] /\ sStatus # "halted"
        /\ UNCHANGED <<sStatus, byUser, made, core, iterated, statusMap, list, dangling>>
    BY <1>1 DEF S!showCpuWindow, S!windowOf
  <2>2. window' \in [of : Int, reg : 0..1, code : Codes, map : Int]
    BY <1>0, <2>1, LoadedCode DEF Cores
  <2>3. window'.of = made /\ window'.map = made /\ window'.reg = core.reg /\ window'.code = S!loadCode(core)
    BY <2>1
  <2>4. QED
    BY <2>1, <2>2, <2>3 DEF ViewsInv, ViewsTypes, S!ShownWhenStopped, S!ShownWhenRunning, S!NoDangling, S!isOpen
<1>2. ASSUME S!closeCpuWindow
      PROVE  ViewsInv'
  <2>1. S!Closed \in [of : Int, reg : 0..1, code : Codes, map : Int] /\ S!Closed.of = 0
    BY DEF S!Closed, Codes
  <2>2. dangling' = dangling
    BY <1>2 DEF S!closeCpuWindow, S!ReadBy, S!Gone, ViewsInv, S!NoDangling
  <2>3. QED
    BY <1>2, <2>1, <2>2 DEF S!closeCpuWindow, ViewsInv, ViewsTypes, S!ShownWhenStopped, S!ShownWhenRunning, S!NoDangling, S!isOpen
<1>3. ASSUME NEW v \in 0..1, S!setData(v)
      PROVE  ViewsInv'
  <2>1. /\ S!isOpen /\ dangling' = dangling \cup S!ReadBy("setData", window.of)
        /\ core' = [core EXCEPT !.reg = v] /\ window' = [window EXCEPT !.reg = v]
        /\ UNCHANGED <<sStatus, byUser, made, iterated, statusMap, list>>
    BY <1>3 DEF S!setData
  <2>2. dangling' = dangling
    BY <2>1 DEF ViewsInv, S!NoDangling, S!ReadBy, S!Gone
  <2>3. core' \in Cores /\ core'.ps = core.ps /\ core'.pc = core.pc /\ core'.cause = core.cause /\ core'.reg = v
    BY <1>0, <2>1 DEF Cores
  <2>4. /\ window' \in [of : Int, reg : 0..1, code : Codes, map : Int]
        /\ window'.of = window.of /\ window'.map = window.map /\ window'.reg = v /\ window'.code = window.code
    BY <1>0, <2>1
  <2>5. S!loadCode(core') = S!loadCode(core) /\ \A st, u : S!StatusOf(core', st, u) = S!StatusOf(core, st, u)
    BY <2>3 DEF S!loadCode, S!StatusOf
  <2>6. S!isOpen' <=> S!isOpen
    BY <2>4 DEF S!isOpen
  <2>7. QED
    BY <2>1, <2>2, <2>3, <2>4, <2>5, <2>6
    DEF ViewsInv, ViewsTypes, S!ShownWhenStopped, S!ShownWhenRunning, S!NoDangling
<1>4. QED
  BY <1>1, <1>2, <1>3

(* A core after some cycles is a core.                                     *)
LEMMA RanCore == \A c : S!Ran(c) => c \in Cores
  BY LayoutAssumption DEF S!Ran, Cores

LEMMA NextViews ==
  ASSUME ViewsInv, [S!Next]_S!vars
  PROVE  ViewsInv'
<1>0. core \in Cores /\ byUser \in BOOLEAN /\ iterated \in BOOLEAN /\ dangling \subseteq {"MachineHalted"}
      /\ sStatus \in {"halted", "stopped", "running"}
  BY Zenon DEF ViewsInv, ViewsTypes, S!NoDangling
<1>1. CASE S!startMachine
  <2>1. ~S!isOpen
    BY <1>1 DEF S!startMachine, ViewsInv, S!NoDangling
  <2>2. QED
    BY <1>0, <1>1, <2>1, InitializeStep DEF S!startMachine
<1>2. CASE S!onHaltMachine
  BY <1>0, <1>2, HaltStep DEF S!onHaltMachine
<1>3. CASE S!onResetMachine
  <2>1. dangling' \subseteq {"MachineHalted"}
    <3>1. S!StopRead = {}
      BY <1>3 DEF S!onResetMachine, S!StopRead, S!SlotsRead, S!ReadBy, S!Gone, ViewsInv, S!NoDangling
    <3>2. QED
      BY <1>0, <1>3, <3>1 DEF S!onResetMachine, S!HaltedRead
  <2>2. CASE S!initializeMachine /\ window' = IF S!isOpen THEN S!windowOf(made', core') ELSE window
    BY <1>3, <2>1, <2>2, InitializeStep DEF S!onResetMachine
  <2>3. CASE /\ sStatus' = "halted" /\ byUser' = (byUser \/ sStatus = "running")
             /\ S!MachineHalted
             /\ UNCHANGED <<made, core, statusMap>>
    <3>1. S!Closed \in [of : Int, reg : 0..1, code : Codes, map : Int] /\ S!Closed.of = 0
      BY DEF S!Closed, Codes
    <3>2. byUser' \in BOOLEAN
      BY <2>3, Zenon
    <3>3. iterated' = iterated
      BY <1>3 DEF S!onResetMachine
    <3>4. QED
      BY <2>1, <2>3, <3>1, <3>2, <3>3
      DEF S!MachineHalted, ViewsInv, ViewsTypes, S!ShownWhenStopped, S!ShownWhenRunning, S!NoDangling, S!isOpen
  <2>4. QED
    BY <1>3, <2>2, <2>3 DEF S!onResetMachine
<1>4. CASE S!onContinue
  BY <1>0, <1>4, GoesOnStep DEF S!onContinue, S!MachineRan, S!update
<1>5. CASE S!stop
  BY <1>0, <1>5, StoppedStep DEF S!stop
<1>6. ASSUME NEW c, S!runIteration(c)
      PROVE  ViewsInv'
  <2>1. c \in Cores /\ core' = c /\ sStatus # "halted"
    BY <1>6, RanCore DEF S!runIteration
  <2>2. CASE S!halt
    BY <2>1, <2>2, HaltStep
  <2>3. CASE /\ sStatus' = "stopped"
             /\ S!MachineStopped(c, byUser)
             /\ iterated' = TRUE
             /\ UNCHANGED <<byUser, made, list>>
    BY <1>0, <2>1, <2>3, StoppedStep
  <2>4. CASE /\ S!DebugIterationCompleted(c, byUser)
             /\ iterated' = TRUE
             /\ UNCHANGED <<sStatus, byUser, made, list>>
    <3>1. S!StatusOf(c, "running", byUser) \in {"Running", "Idle", "Halted"}
      BY <2>1 DEF S!StatusOf, Cores, S!Ps
    <3>2. /\ S!Reads /\ window' = S!updateCache(window, c)
          /\ statusMap'.of = statusMap.of /\ statusMap'.status = S!StatusOf(c, "running", byUser)
      BY <2>4 DEF S!DebugIterationCompleted, S!update
    <3>3. sStatus' = "running"
      BY <1>6, <2>4 DEF S!runIteration
    <3>4. QED
      BY <1>0, <2>1, <2>4, <3>1, <3>2, <3>3, GoesOnStep
  <2>5. QED
    BY <1>6, <2>2, <2>3, <2>4 DEF S!runIteration
<1>7. ASSUME NEW c, S!onStep(c)
      PROVE  ViewsInv'
  <2>1. c \in Cores /\ core' = c /\ sStatus = "stopped"
    BY <1>7, RanCore DEF S!onStep
  <2>2. CASE S!halt
    BY <2>1, <2>2, HaltStep
  <2>3. CASE /\ byUser' = TRUE
             /\ S!MachineStopped(c, TRUE)
             /\ UNCHANGED <<sStatus, made, iterated, list>>
    BY <1>0, <2>1, <2>3, StoppedStep
  <2>4. QED
    BY <1>7, <2>2, <2>3 DEF S!onStep
<1>8. CASE UNCHANGED S!vars
  BY <1>8 DEF S!vars, ViewsInv, ViewsTypes, S!ShownWhenStopped, S!ShownWhenRunning, S!NoDangling, S!isOpen
<1>9. QED
  BY <1>1, <1>2, <1>3, <1>4, <1>5, <1>6, <1>7, <1>8, ViewSteps DEF S!Next

LEMMA InitCore == MCInit => (active = "views" => ViewsInv)
  BY InitViews DEF MCInit

LEMMA NextCore == (active = "views" => ViewsInv) /\ [MCNext]_allVars => (active = "views" => ViewsInv)'
<1> SUFFICES ASSUME active = "views" => ViewsInv, [MCNext]_allVars, active' = "views"
             PROVE  ViewsInv'
  OBVIOUS
<1>1. active = "views" /\ active' = active
  BY OneRuns
<1>2. S!Next \/ UNCHANGED sVars
  BY <1>1 DEF MCNext, allVars
<1>3. UNCHANGED sVars => UNCHANGED S!vars
  BY DEF sVars, S!vars
<1>4. QED
  BY <1>1, <1>2, <1>3, NextViews

(* The window and the list of cores, loadCode included, show the core of   *)
(* the present machine as it is when it stops, and read no machine that was *)
(* deleted. The exception is the window that MachineHalted closes, whose   *)
(* closeEvent reads the core of the machine just deleted.                  *)
THEOREM CoreIsShown == MCSpec => []CoreShown
<1>1. (active = "views" => ViewsInv) => CoreShown
  BY DEF ViewsInv, CoreShown
<1>2. QED
  BY <1>1, InitCore, NextCore, PTL DEF MCSpec

-----------------------------------------------------------------------------
(* The configuration.                                                      *)
(* Devices that may be in a configuration, and in its text.                *)
Devices == Device \cup {C!NoDevice}
Roms    == {C!Factory.rom, ""}

(* What the dialog can be left with.                                       *)
Entered == [tlb : C!TlbSizes, ram : MinRam..MaxRam, floor : C!Listed, cpus : 1..MaxCpus,
            rom : Roms, dev : Device]
Named   == {d \in Devices : d.file # ""}

(* Any configuration that may be current; those that no other program made.*)
AnyConfig == [cpus : 1..MaxCpus, tlb : MinTlb..MaxTlb, floor : Int \ {0}, ram : MinRam..MaxRam,
              rom : Roms, dev : Devices]
Own == {c \in AnyConfig : c.tlb \in C!TlbSizes /\ c.floor \in {C!Middle, C!VMOFF, c.ram}}

(* Any text that can be read; those that were saved.                       *)
AnyText == [cpus : SUBSET Int, tlb : SUBSET Int, floor : SUBSET Int, ram : SUBSET Int,
            rom : SUBSET Roms, dev : SUBSET Named]
Saved == {C!TextOf(c) : c \in Own}

ConfigInv ==
  /\ path \in Path /\ files \in [Path -> AnyText \cup {C!Broken, C!Absent}]
  /\ clean \in BOOLEAN /\ handmade \in BOOLEAN
  /\ config \in AnyConfig \cup {C!NoConfig}
  /\ config # C!NoConfig /\ ~handmade => config \in Own
  /\ \A p \in Path \ byHand : files[p] \in Saved \cup {C!Broken, C!Absent}
  /\ C!Kept
  /\ built # C!NoConfig => built = config /\ config # C!NoConfig

LEMMA FactoryIsOwn == C!Factory \in Own /\ C!Factory \in AnyConfig
<1> DEFINE t == C!bump(MinTlb, 2 * MinTlb, MaxTlb)
<1>1. C!Factory = [cpus |-> 1, tlb |-> t, floor |-> C!VMOFF, ram |-> DefaultRam,
                 rom |-> C!Factory.rom, dev |-> C!NoDevice]
  BY DEF C!Factory
<1>2. t \in C!TlbSizes /\ t \in MinTlb..MaxTlb
  <2>1. C!Factory.tlb = t
    BY DEF C!Factory
  <2>2. QED
    BY <2>1, ConfigurationAssumption DEF C!TlbSizes
<1>3. 1 \in 1..MaxCpus /\ C!VMOFF \in Int \ {0} /\ DefaultRam \in MinRam..MaxRam
  BY ConfigurationAssumption DEF C!VMOFF
<1>4. C!NoDevice \in Devices /\ C!Factory.rom \in Roms
  BY DEF Devices, Roms
<1> HIDE DEF t
<1>5. C!Factory \in AnyConfig
  BY <1>1, <1>2, <1>3, <1>4 DEF AnyConfig
<1>6. C!Factory.tlb \in C!TlbSizes /\ C!Factory.floor = C!VMOFF
  BY <1>1, <1>2
<1>7. QED
  BY <1>5, <1>6 DEF Own

LEMMA ConfigsAreRecords == C!NoConfig \notin AnyConfig /\ C!Broken \notin AnyText /\ C!Absent \notin AnyText
  BY DEF C!NoConfig, AnyConfig, C!Broken, C!Absent, AnyText

LEMMA TextRead ==
  ASSUME NEW c \in AnyConfig
  PROVE  C!TextOf(c) \in AnyText /\ C!LoadFromFile(C!TextOf(c)) = C!Persistent(c)
<1>0. /\ c.cpus \in 1..MaxCpus /\ c.tlb \in MinTlb..MaxTlb /\ c.floor \in Int \ {0}
      /\ c.ram \in MinRam..MaxRam /\ c.rom \in Roms /\ c.dev \in Devices
  BY DEF AnyConfig
<1>1. C!TextOf(c) \in AnyText
  <2>1. /\ {c.cpus} \subseteq Int /\ {c.tlb} \subseteq Int /\ {c.floor} \subseteq Int
        /\ {c.ram} \subseteq Int /\ {c.rom} \subseteq Roms
        /\ (IF c.dev.file = "" THEN {} ELSE {c.dev}) \subseteq Named
    <3>1. MinTlb \in Int /\ MaxTlb \in Int /\ MinRam \in Int /\ MaxRam \in Int /\ MaxCpus \in Int
      BY ConfigurationAssumption
    <3>2. c.cpus \in Int /\ c.tlb \in Int /\ c.floor \in Int /\ c.ram \in Int
      BY <1>0, <3>1
    <3>3. c.dev.file # "" => c.dev \in Named
      BY <1>0 DEF Named, Devices, C!NoDevice
    <3>4. QED
      BY <1>0, <3>2, <3>3
  <2>2. QED
    BY <2>1 DEF C!TextOf, AnyText
<1>3. /\ C!bump(1, c.cpus, MaxCpus) = c.cpus /\ C!bump(MinTlb, c.tlb, MaxTlb) = c.tlb
      /\ C!bump(MinRam, c.ram, MaxRam) = c.ram /\ C!setTLBFloorAddress(c.floor, DefaultRam) = c.floor
  <2>1. MinTlb \in Int /\ MaxTlb \in Int /\ MinRam \in Int /\ MaxRam \in Int /\ MaxCpus \in Int
    BY ConfigurationAssumption
  <2>2. \A lo, hi, v \in Int : lo <= v /\ v <= hi => C!bump(lo, v, hi) = v
    BY DEF C!bump
  <2>3. c.floor # 0
    BY <1>0
  <2>4. QED
    BY <1>0, <2>1, <2>2, <2>3 DEF C!setTLBFloorAddress, C!RAMTOP
<1>4. C!LoadFromFile(C!TextOf(c)) = [cpus |-> c.cpus, tlb |-> c.tlb, floor |-> c.floor, ram |-> c.ram, rom |-> c.rom,
         dev |-> IF c.dev.file = "" THEN C!NoDevice ELSE c.dev]
  <2>1. C!Or({}, C!NoDevice) = C!NoDevice
    BY DEF C!Or
  <2>2. /\ C!TextOf(c).cpus = {c.cpus} /\ C!TextOf(c).tlb = {c.tlb} /\ C!TextOf(c).floor = {c.floor}
        /\ C!TextOf(c).ram = {c.ram} /\ C!TextOf(c).rom = {c.rom}
        /\ C!TextOf(c).dev = IF c.dev.file = "" THEN {} ELSE {c.dev}
    BY DEF C!TextOf
  <2>3. \A v, d : C!Or({v}, d) = v
    BY DEF C!Or
  <2>4. /\ C!Or(C!TextOf(c).cpus, C!Factory.cpus) = c.cpus /\ C!Or(C!TextOf(c).tlb, C!Factory.tlb) = c.tlb
        /\ C!Or(C!TextOf(c).floor, C!Factory.floor) = c.floor /\ C!Or(C!TextOf(c).ram, DefaultRam) = c.ram
        /\ C!Or(C!TextOf(c).rom, C!Factory.rom) = c.rom
    BY <2>2, <2>3
  <2>5. C!Or(C!TextOf(c).dev, C!NoDevice) = IF c.dev.file = "" THEN C!NoDevice ELSE c.dev
    BY <2>1, <2>2, <2>3
  <2>6. QED
    BY <1>3, <2>4, <2>5 DEF C!LoadFromFile
<1>5. c = [cpus |-> c.cpus, tlb |-> c.tlb, floor |-> c.floor, ram |-> c.ram, rom |-> c.rom, dev |-> c.dev]
  BY DEF AnyConfig
<1>6. C!LoadFromFile(C!TextOf(c)) = C!Persistent(c)
  <2>1. CASE c.dev.file = ""
    <3>1. [c EXCEPT !.dev = C!NoDevice] =
            [cpus |-> c.cpus, tlb |-> c.tlb, floor |-> c.floor, ram |-> c.ram, rom |-> c.rom, dev |-> C!NoDevice]
      BY DEF AnyConfig
    <3>2. QED
      BY <1>4, <2>1, <3>1 DEF C!Persistent
  <2>2. CASE c.dev.file # ""
    BY <1>4, <1>5, <2>2 DEF C!Persistent
  <2>3. QED
    BY <2>1, <2>2
<1>7. QED
  BY <1>1, <1>6

LEMMA OwnKept ==
  ASSUME NEW c \in Own
  PROVE  C!Persistent(c) \in Own
  BY DEF Own, AnyConfig, C!Persistent, C!NoDevice, Devices

LEMMA AnyRead ==
  ASSUME NEW t \in AnyText
  PROVE  C!LoadFromFile(t) \in AnyConfig /\ C!Persistent(C!LoadFromFile(t)) = C!LoadFromFile(t)
<1>1. /\ C!Or(t.cpus, C!Factory.cpus) \in Int /\ C!Or(t.tlb, C!Factory.tlb) \in Int
      /\ C!Or(t.ram, DefaultRam) \in Int
      /\ C!Or(t.floor, C!Factory.floor) \in Int
  <2>1. C!Factory.cpus \in Int /\ C!Factory.tlb \in Int /\ C!Factory.floor \in Int /\ DefaultRam \in Int
    BY FactoryIsOwn, ConfigurationAssumption DEF AnyConfig
  <2>2. t.cpus \subseteq Int /\ t.tlb \subseteq Int /\ t.floor \subseteq Int /\ t.ram \subseteq Int
    BY DEF AnyText
  <2>3. \A A, d : A \subseteq Int /\ d \in Int => C!Or(A, d) \in Int
    BY DEF C!Or
  <2>4. QED
    BY <2>1, <2>2, <2>3
<1>2. C!Or(t.rom, C!Factory.rom) \in Roms
  <2>1. t.rom \subseteq Roms
    BY DEF AnyText
  <2>2. C!Factory.rom \in Roms
    BY DEF Roms
  <2>3. QED
    BY <2>1, <2>2 DEF C!Or
<1>3. C!Or(t.dev, C!NoDevice) = C!NoDevice \/ C!Or(t.dev, C!NoDevice) \in Named
  BY DEF C!Or, AnyText
<1>4. /\ \A v \in Int : /\ C!bump(1, v, MaxCpus) \in 1..MaxCpus /\ C!bump(MinTlb, v, MaxTlb) \in MinTlb..MaxTlb
                        /\ C!bump(MinRam, v, MaxRam) \in MinRam..MaxRam
                        /\ C!setTLBFloorAddress(v, DefaultRam) \in Int \ {0}
  BY ConfigurationAssumption DEF C!bump, C!setTLBFloorAddress, C!RAMTOP, C!Top
<1>5. C!LoadFromFile(t) \in AnyConfig
  <2>1. C!Or(t.dev, C!NoDevice) \in Devices
    BY <1>3 DEF Named, Devices
  <2>2. QED
    BY <1>1, <1>2, <1>4, <2>1 DEF C!LoadFromFile, AnyConfig
<1>6. C!Persistent(C!LoadFromFile(t)) = C!LoadFromFile(t)
  <2>1. C!LoadFromFile(t).dev = C!Or(t.dev, C!NoDevice)
    BY DEF C!LoadFromFile
  <2>2. CASE C!Or(t.dev, C!NoDevice) = C!NoDevice
    BY <1>5, <2>1, <2>2 DEF C!Persistent, AnyConfig
  <2>3. CASE C!Or(t.dev, C!NoDevice) \in Named
    BY <2>1, <2>3 DEF C!Persistent, Named
  <2>4. QED
    BY <1>3, <2>2, <2>3
<1>7. QED
  BY <1>5, <1>6

LEMMA WrittenByHand == C!Texts \subseteq AnyText \cup {C!Broken}
<1>0. C!TextOf(C!Factory) \in AnyText
  BY FactoryIsOwn, TextRead
<1>1. \A s, r \in Int, f \in C!Listed : C!TextOf([C!Factory EXCEPT !.tlb = s, !.floor = f, !.ram = r]) \in AnyText
  <2> SUFFICES ASSUME NEW s \in Int, NEW r \in Int, NEW f \in C!Listed
               PROVE  C!TextOf([C!Factory EXCEPT !.tlb = s, !.floor = f, !.ram = r]) \in AnyText
    OBVIOUS
  <2> DEFINE g == [C!Factory EXCEPT !.tlb = s, !.floor = f, !.ram = r]
  <2>1. f \in Int
    BY ConfigurationAssumption DEF C!Listed, C!RAMTOP, C!Middle, C!VMOFF
  <2>2. /\ g.cpus = C!Factory.cpus /\ g.tlb = s /\ g.floor = f /\ g.ram = r
        /\ g.rom = C!Factory.rom /\ g.dev = C!Factory.dev
    BY DEF C!Factory
  <2>3. /\ C!TextOf(C!Factory).cpus = {C!Factory.cpus} /\ C!TextOf(C!Factory).rom = {C!Factory.rom}
        /\ C!TextOf(C!Factory).dev = IF C!Factory.dev.file = "" THEN {} ELSE {C!Factory.dev}
    BY DEF C!TextOf
  <2>4. /\ {C!Factory.cpus} \subseteq Int /\ {C!Factory.rom} \subseteq Roms
        /\ (IF C!Factory.dev.file = "" THEN {} ELSE {C!Factory.dev}) \subseteq Named
    BY <1>0, <2>3 DEF AnyText
  <2> HIDE DEF g
  <2>5. C!TextOf(g) = [cpus |-> {C!Factory.cpus}, tlb |-> {s}, floor |-> {f}, ram |-> {r}, rom |-> {C!Factory.rom},
                     dev |-> IF C!Factory.dev.file = "" THEN {} ELSE {C!Factory.dev}]
    BY <2>2 DEF C!TextOf
  <2>6. {s} \subseteq Int /\ {f} \subseteq Int /\ {r} \subseteq Int
    BY <2>1
  <2> DEFINE d == IF C!Factory.dev.file = "" THEN {} ELSE {C!Factory.dev}
  <2>7. C!TextOf(g) \in AnyText
    <3>1. d \subseteq Named
      BY <2>4
    <3>2. C!TextOf(g) = [cpus |-> {C!Factory.cpus}, tlb |-> {s}, floor |-> {f}, ram |-> {r}, rom |-> {C!Factory.rom}, dev |-> d]
      BY <2>5
    <3>3. {C!Factory.cpus} \subseteq Int /\ {C!Factory.rom} \subseteq Roms
      BY <2>4
    <3> HIDE DEF d, g
    <3>4. QED
      BY <2>6, <3>1, <3>2, <3>3 DEF AnyText
  <2>8. QED
    BY <2>7 DEF g
<1>2. [C!TextOf(C!Factory) EXCEPT !.rom = {""}] \in AnyText
  <2>1. {""} \subseteq Roms
    BY DEF Roms
  <2>2. QED
    BY <1>0, <2>1 DEF AnyText
<1>3. [x \in DOMAIN C!TextOf(C!Factory) |-> {}] \in AnyText
  <2>1. DOMAIN C!TextOf(C!Factory) = {"cpus", "tlb", "floor", "ram", "rom", "dev"}
    BY DEF C!TextOf
  <2>2. QED
    BY <2>1 DEF AnyText
<1>4. MinTlb + 1 \in Int /\ MaxTlb + 1 \in Int /\ MaxRam \in Int /\ MaxRam + 1 \in Int
  BY ConfigurationAssumption
<1>5. C!RAMTOP \in C!Listed /\ C!VMOFF \in C!Listed
  BY DEF C!Listed
<1>6. \A t \in C!Texts : t \in AnyText \cup {C!Broken}
  <2> SUFFICES ASSUME NEW t \in C!Texts
               PROVE  t \in AnyText \cup {C!Broken}
    OBVIOUS
  <2>1. CASE t \in C!Unusable
    BY <1>2, <1>3, <2>1 DEF C!Unusable
  <2>2. CASE \E s \in {MinTlb + 1, MaxTlb + 1}, f \in {C!RAMTOP, C!VMOFF}, r \in {MaxRam, MaxRam + 1} :
               t = C!TextOf([C!Factory EXCEPT !.tlb = s, !.floor = f, !.ram = r])
    <3>1. PICK s \in {MinTlb + 1, MaxTlb + 1}, f \in {C!RAMTOP, C!VMOFF}, r \in {MaxRam, MaxRam + 1} :
               t = C!TextOf([C!Factory EXCEPT !.tlb = s, !.floor = f, !.ram = r])
      BY <2>2
    <3>2. s \in Int /\ r \in Int /\ f \in C!Listed
      BY <1>4, <1>5
    <3>3. QED
      BY <1>1, <3>1, <3>2
  <2>3. QED
    BY <2>1, <2>2 DEF C!Texts
<1>7. QED
  BY <1>6

LEMMA DialogIsOwn ==
  ASSUME NEW c, NEW e \in Entered
  PROVE  C!saveConfigChanges(c, e) \in Own
<1>1. C!setTLBFloorAddress(e.floor, e.ram) \in {C!Middle, C!VMOFF, e.ram} /\ C!setTLBFloorAddress(e.floor, e.ram) \in Int \ {0}
  <2>1. e.floor \in {C!RAMTOP, C!Middle, C!VMOFF} /\ e.ram \in MinRam..MaxRam
    BY DEF C!Listed, Entered
  <2>2. C!Middle \in Int \ {0} /\ C!VMOFF \in Int \ {0} /\ e.ram \in Int \ {0}
    BY <2>1, ConfigurationAssumption DEF C!Middle, C!VMOFF
  <2>3. QED
    BY <2>1, <2>2 DEF C!setTLBFloorAddress, C!Top
<1>2. e.tlb \in MinTlb..MaxTlb /\ e.rom \in Roms /\ e.dev \in Devices
  BY DEF C!TlbSizes, Devices, Entered
<1> DEFINE f == C!setTLBFloorAddress(e.floor, e.ram)
           s == [cpus |-> e.cpus, tlb |-> e.tlb, floor |-> f, ram |-> e.ram, rom |-> e.rom, dev |-> e.dev]
<1>3. C!saveConfigChanges(c, e) = s
  BY DEF C!saveConfigChanges, Entered
<1>4. e.tlb \in C!TlbSizes /\ e.cpus \in 1..MaxCpus /\ e.ram \in MinRam..MaxRam
  BY DEF Entered
<1>5. f \in {C!Middle, C!VMOFF, e.ram} /\ f \in Int \ {0}
  BY <1>1
<1> HIDE DEF f
<1>6. s \in AnyConfig
  BY <1>2, <1>4, <1>5 DEF AnyConfig
<1>7. s \in Own
  BY <1>4, <1>5, <1>6 DEF Own
<1>8. QED
  BY <1>3, <1>7

LEMMA InvMeans == ConfigInv => C!Kept /\ C!FloorFollowsRam /\ C!MachineAsConfigured
<1> SUFFICES ASSUME ConfigInv
             PROVE  C!FloorFollowsRam /\ C!MachineAsConfigured
  BY DEF ConfigInv
<1>1. ASSUME config # C!NoConfig, ~handmade
      PROVE  /\ config.floor \in {C!Middle, C!VMOFF, C!Top(config.ram)}
             /\ C!saveConfigChanges(config, [config EXCEPT !.tlb = C!ShownTlb(config), !.floor = C!ShownFloor(config)]) = config
  <2>1. config \in Own
    BY <1>1 DEF ConfigInv
  <2>2. C!ShownTlb(config) = config.tlb
    BY <2>1 DEF C!ShownTlb, Own
  <2>3. C!setTLBFloorAddress(C!ShownFloor(config), config.ram) = config.floor
    BY <2>1, ConfigurationAssumption DEF Own, AnyConfig, C!setTLBFloorAddress, C!ShownFloor, C!Listed, C!RAMTOP, C!Top, C!Middle, C!VMOFF
  <2>4. QED
    BY <2>1, <2>2, <2>3 DEF Own, AnyConfig, C!saveConfigChanges, C!Top
<1>2. QED
  BY <1>1 DEF C!FloorFollowsRam, C!MachineAsConfigured, ConfigInv, AnyConfig

LEMMA InitConfig == C!Init => ConfigInv
  BY DEF C!Init, ConfigInv, C!Kept

LEMMA SaveStep ==
  ASSUME ConfigInv, NEW c \in Own, config' = c, C!Save(path, c), handmade' = FALSE, path' = path,
         built' = C!NoConfig
  PROVE  ConfigInv'
<1>1. C!TextOf(c) \in AnyText /\ C!TextOf(c) \in Saved /\ C!LoadFromFile(C!TextOf(c)) = C!Persistent(c)
      /\ C!Readable(C!TextOf(c)) /\ c \in AnyConfig
  BY TextRead, ConfigsAreRecords DEF Saved, Own, C!Readable
<1>2. CASE files' = [files EXCEPT ![path] = C!TextOf(c)] /\ byHand' = byHand \ {path} /\ clean' = TRUE
  BY <1>1, <1>2 DEF ConfigInv, C!Kept
<1>3. CASE UNCHANGED <<files, byHand>> /\ clean' = FALSE
  BY <1>1, <1>3 DEF ConfigInv, C!Kept
<1>4. CASE files' = [files EXCEPT ![path] = C!Broken] /\ clean' = FALSE /\ UNCHANGED byHand
  BY <1>1, <1>4 DEF ConfigInv, C!Kept
<1>5. QED
  BY <1>2, <1>3, <1>4 DEF C!Save

LEMMA CreateStep ==
  ASSUME ConfigInv, NEW p \in Path, C!CreateConfig(p)
  PROVE  ConfigInv'
<1>1. C!TextOf(C!Factory) \in AnyText /\ C!TextOf(C!Factory) \in Saved /\ C!LoadFromFile(C!TextOf(C!Factory)) = C!Persistent(C!Factory)
      /\ C!Readable(C!TextOf(C!Factory)) /\ C!Factory \in Own /\ C!Factory \in AnyConfig
  BY FactoryIsOwn, TextRead, ConfigsAreRecords DEF Saved, C!Readable
<1> HIDE DEF C!Factory
<1>2. CASE /\ files' = [files EXCEPT ![p] = C!TextOf(C!Factory)] /\ byHand' = byHand \ {p}
           /\ C!setCurrentConfig(p, C!Factory)
           /\ clean' = TRUE /\ handmade' = FALSE
  BY <1>1, <1>2 DEF ConfigInv, C!Kept, C!setCurrentConfig
<1>3. CASE /\ files' \in {files, [files EXCEPT ![p] = C!Broken]}
           /\ clean' = (clean /\ p # path)
           /\ UNCHANGED <<config, path, built, byHand, handmade>>
  BY <1>3 DEF ConfigInv, C!Kept
<1>4. QED
  BY <1>2, <1>3 DEF C!CreateConfig

LEMMA LoadStep ==
  ASSUME ConfigInv, NEW p \in Path, C!LoadConfig(p)
  PROVE  ConfigInv'
<1>1. files[p] \in AnyText /\ C!Readable(files[p])
  BY DEF ConfigInv, C!LoadConfig, C!Readable
<1>2. C!LoadFromFile(files[p]) \in AnyConfig /\ C!Persistent(C!LoadFromFile(files[p])) = C!LoadFromFile(files[p])
  BY <1>1, AnyRead
<1>3. ASSUME p \notin byHand
      PROVE  C!LoadFromFile(files[p]) \in Own
  <2>1. files[p] \in Saved
    BY <1>1, <1>3 DEF ConfigInv, C!Readable
  <2>2. PICK c \in Own : files[p] = C!TextOf(c)
    BY <2>1 DEF Saved
  <2>3. QED
    BY <2>2, TextRead, OwnKept DEF Own
<1> DEFINE c == C!LoadFromFile(files[p])
<1>4. /\ config' = c /\ path' = p /\ built' = C!NoConfig /\ clean' = TRUE
      /\ handmade' = (p \in byHand) /\ UNCHANGED <<files, byHand>>
  BY DEF C!LoadConfig, C!setCurrentConfig
<1>5. C!Kept'
  BY <1>1, <1>2, <1>4 DEF C!Kept
<1> HIDE DEF c
<1>6. c \in AnyConfig /\ (p \notin byHand => c \in Own)
  BY <1>2, <1>3 DEF c
<1>7. (p \in byHand) \in BOOLEAN /\ TRUE \in BOOLEAN
  OBVIOUS
<1>8. config' # C!NoConfig
  BY <1>4, <1>6, ConfigsAreRecords
<1>9. /\ config' # C!NoConfig /\ ~handmade' => config' \in Own
      /\ config' \in AnyConfig \cup {C!NoConfig}
  BY <1>4, <1>6
<1>10. /\ path' \in Path /\ files' \in [Path -> AnyText \cup {C!Broken, C!Absent}]
       /\ \A q \in Path \ byHand' : files'[q] \in Saved \cup {C!Broken, C!Absent}
  BY <1>4 DEF ConfigInv
<1>11. clean' \in BOOLEAN /\ handmade' \in BOOLEAN
  BY <1>4, <1>7, Zenon
<1>12. QED
  BY <1>4, <1>5, <1>9, <1>10, <1>11 DEF ConfigInv

LEMMA EditFileStep ==
  ASSUME ConfigInv, NEW p \in Path, C!EditFile(p)
  PROVE  ConfigInv'
<1>1. PICK t \in C!Texts : files' = [files EXCEPT ![p] = t]
  BY DEF C!EditFile
<1>2. t \in AnyText \cup {C!Broken}
  BY <1>1, WrittenByHand
<1>3. clean' = (clean /\ p # path) /\ byHand' = byHand \cup {p} /\ UNCHANGED <<config, path, built, handmade>>
  BY DEF C!EditFile
<1>4. QED
  BY <1>1, <1>2, <1>3 DEF ConfigInv, C!Kept

LEMMA NextConfig ==
  ASSUME ConfigInv, [C!Next]_C!vars
  PROVE  ConfigInv'
<1>1. CASE C!editConfig
  <2>1. PICK e \in Entered :
          config' = C!saveConfigChanges(config, e) /\ C!Save(path, config')
    BY <1>1 DEF C!editConfig, Entered, Roms
  <2>2. PICK c \in Own : c = C!saveConfigChanges(config, e)
    BY DialogIsOwn
  <2>3. config' = c /\ C!Save(path, c) /\ handmade' = FALSE /\ path' = path /\ built' = C!NoConfig
    BY <1>1, <2>1, <2>2 DEF C!editConfig
  <2>4. QED
    BY <2>3, SaveStep
<1>2. CASE C!PowerOn \/ C!PowerOff
  BY <1>2 DEF C!PowerOn, C!PowerOff, ConfigInv, C!Kept
<1>3. CASE UNCHANGED C!vars
  BY <1>3 DEF C!vars, ConfigInv, C!Kept
<1>4. QED
  BY <1>1, <1>2, <1>3, CreateStep, LoadStep, EditFileStep DEF C!Next

LEMMA InitDialog == MCInit => (active = "configuration" => ConfigInv)
  BY InitConfig DEF MCInit

LEMMA NextDialog == (active = "configuration" => ConfigInv) /\ [MCNext]_allVars => (active = "configuration" => ConfigInv)'
<1> SUFFICES ASSUME active = "configuration" => ConfigInv, [MCNext]_allVars, active' = "configuration"
             PROVE  ConfigInv'
  OBVIOUS
<1>1. active = "configuration" /\ active' = active
  BY OneRuns
<1>2. C!Next \/ UNCHANGED cVars
  BY <1>1 DEF MCNext, allVars
<1>3. UNCHANGED cVars => UNCHANGED C!vars
  BY DEF cVars, C!vars
<1>4. QED
  BY <1>1, <1>2, <1>3, NextConfig

(* What MachineConfig::LoadFromFile reads is what Save wrote, the dialog   *)
(* keeps what it was not asked to change, and the machine is built from    *)
(* the configuration that is shown.                                        *)
THEOREM ConfigurationIsKept == MCSpec => []ConfigurationKept
<1>1. (active = "configuration" => ConfigInv) => ConfigurationKept
  BY InvMeans DEF ConfigurationKept
<1>2. QED
  BY <1>1, InitDialog, NextDialog, PTL DEF MCSpec

-----------------------------------------------------------------------------
(* The main window.                                                        *)
Machines == [cpus : Int, terminals : SUBSET Terminal, mask : SUBSET Cause, tod : 0..MaxTod]

WindowInv ==
  /\ G!TypeOK /\ G!Offered /\ G!WindowsOfMachine /\ G!MaskKept /\ G!LineTrue
  /\ present # G!NULL => present \in Machines
  /\ loaded = G!NULL <=> overview = G!NULL
  /\ tabs = IF wStatus = "halted" THEN {"overview"} ELSE G!Tabs

LEMMA ConfigurationsAreRecords == G!NULL \notin G!Configs /\ G!NULL \notin Machines
  BY DEF G!NULL, G!Configs, Machines

(* What can be done while halted is to start.                              *)
LEMMA WhenHalted ==
  ASSUME NEW c
  PROVE  /\ G!updateActionSensitivity("halted", c) = IF c = G!NULL THEN {} ELSE {"start", "toggle"}
         /\ \A t : G!updateStoppointActionsSensitivity("halted", t) = {}
  BY DEF G!updateActionSensitivity, G!Command, G!updateStoppointActionsSensitivity

LEMMA CanShow ==
  ASSUME NEW c, NEW m, m.cpus = c.cpus, m.terminals = c.terminals
  PROVE  /\ {w \in {} : w[1] = "cpu"} \cup G!Cpus(c) \cup G!Terminals(m) = G!Cpus(m) \cup G!Terminals(m)
         /\ {w \in G!Cpus(m) \cup G!Terminals(m) : w[1] = "cpu"} \cup G!Cpus(c) \cup G!Terminals(m) = G!Cpus(m) \cup G!Terminals(m)
<1>1. G!Cpus(c) = G!Cpus(m)
  BY DEF G!Cpus
<1>2. \A w \in G!Terminals(m) : w[1] # "cpu"
  BY DEF G!Terminals
<1>3. QED
  BY <1>1

LEMMA InitWindow == G!Init => WindowInv
<1> SUFFICES ASSUME G!Init
             PROVE  WindowInv
  OBVIOUS
<1>2. commands = G!updateActionSensitivity("halted", G!NULL) /\ stoppoints = G!updateStoppointActionsSensitivity("halted", "overview")
  BY WhenHalted DEF G!Init
<1>3. QED
  BY <1>2, ConfigurationsAreRecords
     DEF G!Init, WindowInv, G!TypeOK, G!Offered, G!WindowsOfMachine, G!MaskKept, G!LineTrue, G!Tabs

LEMMA NewMachine ==
  ASSUME WindowInv, loaded # G!NULL
  PROVE  /\ G!New(loaded) \in Machines /\ G!New(loaded) # G!NULL
         /\ G!New(loaded).cpus = loaded.cpus /\ G!New(loaded).terminals = loaded.terminals
         /\ G!New(loaded).mask = stopMask /\ G!New(loaded).tod = 0
<1>1. loaded \in G!Configs /\ stopMask \subseteq Cause
  BY DEF WindowInv, G!TypeOK
<1>2. loaded.cpus \in Int /\ loaded.terminals \in SUBSET Terminal
  BY <1>1, ConfigurationAssumption DEF G!Configs
<1>3. G!New(loaded) \in Machines
  BY <1>1, <1>2, WindowAssumption DEF G!New, Machines
<1>4. QED
  BY <1>3, ConfigurationsAreRecords DEF G!New

(* The machine is gone.                                                    *)
LEMMA DiscardStep ==
  ASSUME WindowInv, wStatus # "halted", G!Discard, UNCHANGED <<G!ui, G!files>>
  PROVE  WindowInv'
<1>1. /\ wStatus' = "halted" /\ present' = G!NULL /\ windows' = {} /\ canShow' = {}
      /\ tabs' = {"overview"} /\ tab' = "overview" /\ canEdit' = TRUE
      /\ commands' = G!updateActionSensitivity("halted", loaded)
      /\ stoppoints' = G!updateStoppointActionsSensitivity("halted", "overview")
      /\ shown' = G!refreshAll("halted", loaded, G!NULL)
  BY DEF G!Discard, G!onMachineHalted, G!StatusChanged
<1>2. loaded' = loaded /\ recents' = recents /\ menu' = menu /\ overview' = overview /\ unsaved' = unsaved
      /\ stopMask' = stopMask /\ speed' = speed /\ checked' = checked /\ speeds' = speeds
  BY DEF G!ui, G!files
<1>3. loaded # G!NULL
  BY DEF WindowInv, G!Offered
<1>4. G!TypeOK'
  BY <1>1, <1>2 DEF WindowInv, G!TypeOK, G!Tabs
<1>5. G!Offered'
  BY <1>1, <1>2, <1>3 DEF G!Offered
<1>6. G!WindowsOfMachine' /\ G!MaskKept' /\ G!LineTrue'
  BY <1>1, <1>2 DEF WindowInv, G!WindowsOfMachine, G!MaskKept, G!LineTrue
<1>7. QED
  BY <1>1, <1>2, <1>4, <1>5, <1>6 DEF WindowInv

(* The new machine is there, stopped.                                      *)
LEMMA StartedStep ==
  ASSUME WindowInv, loaded # G!NULL, present' = G!New(loaded), wStatus' = "stopped", G!onMachineStarted,
         shown' = G!refreshAll("stopped", loaded, present'),
         commands' = G!updateActionSensitivity("stopped", loaded),
         stoppoints' = G!updateStoppointActionsSensitivity("stopped", tab),
         UNCHANGED <<windows, tab, G!ui, G!files>>
  PROVE  WindowInv'
<1>1. /\ present' \in Machines /\ present' # G!NULL
      /\ present'.cpus = loaded.cpus /\ present'.terminals = loaded.terminals
      /\ present'.mask = stopMask /\ present'.tod = 0
  BY NewMachine
<1>2. loaded' = loaded /\ recents' = recents /\ menu' = menu /\ overview' = overview /\ unsaved' = unsaved
      /\ stopMask' = stopMask /\ speed' = speed /\ checked' = checked /\ speeds' = speeds
      /\ windows' = windows /\ tab' = tab
  BY DEF G!ui, G!files
<1>3. tabs' = G!Tabs /\ canEdit' = FALSE /\ tab \in G!Tabs
  BY DEF G!onMachineStarted, WindowInv, G!TypeOK
<1>4. canShow' = G!Cpus(present') \cup G!Terminals(present') /\ windows \subseteq canShow'
  <2> DEFINE n == G!New(loaded)
  <2>1. canShow' = {w \in canShow : w[1] = "cpu"} \cup G!Cpus(loaded) \cup G!Terminals(n)
    BY DEF G!onMachineStarted
  <2>2. n.cpus = loaded.cpus /\ n.terminals = loaded.terminals
    BY NewMachine
  <2>3. CASE present = G!NULL
    <3>1. canShow = {} /\ windows \subseteq canShow
      BY <2>3 DEF WindowInv, G!WindowsOfMachine
    <3>2. QED
      BY <2>1, <2>2, <3>1, CanShow
  <2>4. CASE present # G!NULL
    <3>1. canShow = G!Cpus(present) \cup G!Terminals(present) /\ windows \subseteq canShow
          /\ present.cpus = loaded.cpus /\ present.terminals = loaded.terminals
      BY <2>4 DEF WindowInv, G!WindowsOfMachine
    <3>2. G!Cpus(present) = G!Cpus(n) /\ G!Terminals(present) = G!Terminals(n)
      BY <2>2, <3>1 DEF G!Cpus, G!Terminals
    <3>3. {w \in G!Cpus(n) \cup G!Terminals(n) : w[1] = "cpu"} \cup G!Cpus(loaded) \cup G!Terminals(n) = G!Cpus(n) \cup G!Terminals(n)
      BY <2>2, CanShow
    <3>4. QED
      BY <2>1, <3>1, <3>2, <3>3
  <2>5. QED
    BY <2>3, <2>4
<1>5. G!TypeOK'
  BY <1>1, <1>2, <1>3 DEF WindowInv, G!TypeOK, Machines
<1>6. G!Offered'
  BY <1>2, <1>3 DEF G!Offered
<1>7. G!WindowsOfMachine' /\ G!MaskKept' /\ G!LineTrue'
  BY <1>1, <1>2, <1>4 DEF WindowInv, G!WindowsOfMachine, G!MaskKept, G!LineTrue
<1>8. QED
  BY <1>1, <1>2, <1>3, <1>5, <1>6, <1>7 DEF WindowInv

(* Only the status and the time of the machine change.                     *)
LEMMA StatusStep ==
  ASSUME WindowInv, wStatus # "halted", NEW st \in {"stopped", "running"}, wStatus' = st,
         NEW t \in 0..MaxTod, present' = [present EXCEPT !.tod = t],
         commands' = G!updateActionSensitivity(st, loaded),
         stoppoints' = G!updateStoppointActionsSensitivity(st, tab),
         shown' = G!refreshAll(st, loaded, present'),
         UNCHANGED <<canEdit, canShow, windows, tabs, tab, G!ui, G!files>>
  PROVE  WindowInv'
<1>1. /\ present \in Machines /\ present # G!NULL /\ loaded # G!NULL
      /\ present.cpus = loaded.cpus /\ present.terminals = loaded.terminals
      /\ present.mask = checked /\ canEdit = FALSE
  BY DEF WindowInv, G!WindowsOfMachine, G!Offered, G!MaskKept, G!TypeOK
<1>2. loaded' = loaded /\ recents' = recents /\ menu' = menu /\ overview' = overview /\ unsaved' = unsaved
      /\ stopMask' = stopMask /\ speed' = speed /\ checked' = checked /\ speeds' = speeds
      /\ windows' = windows /\ tab' = tab /\ tabs' = tabs /\ canShow' = canShow /\ canEdit' = canEdit
  BY DEF G!ui, G!files
<1>3. /\ present' \in Machines /\ present'.tod = t /\ present'.cpus = present.cpus
      /\ present'.terminals = present.terminals /\ present'.mask = present.mask
  BY <1>1 DEF Machines
<1>4. present' # G!NULL
  BY <1>3, ConfigurationsAreRecords
<1>5. G!TypeOK'
  BY <1>2, <1>3 DEF WindowInv, G!TypeOK
<1>6. G!Offered'
  BY <1>1, <1>2 DEF G!Offered, WindowInv
<1>7. G!Cpus(present') = G!Cpus(present) /\ G!Terminals(present') = G!Terminals(present)
  BY <1>3 DEF G!Cpus, G!Terminals
<1>8. G!WindowsOfMachine' /\ G!MaskKept' /\ G!LineTrue'
  BY <1>1, <1>2, <1>3, <1>4, <1>7 DEF WindowInv, G!WindowsOfMachine, G!MaskKept, G!LineTrue
<1>9. QED
  BY <1>2, <1>3, <1>5, <1>6, <1>8 DEF WindowInv

(* The time of a machine that has run, and of one that has not.            *)
LEMMA RanTime ==
  ASSUME WindowInv, wStatus # "halted"
  PROVE  /\ G!Ran => \E t \in 0..MaxTod : present' = [present EXCEPT !.tod = t]
         /\ present.tod \in 0..MaxTod /\ present = [present EXCEPT !.tod = present.tod]
<1>1. present \in Machines
  BY DEF WindowInv, G!WindowsOfMachine
<1>2. present.tod \in 0..MaxTod
  BY <1>1 DEF Machines
<1>3. \A n \in Nat : n % (MaxTod + 1) \in 0..MaxTod
  BY WindowAssumption
<1>4. (present.tod + 1) % (MaxTod + 1) \in 0..MaxTod
  <2>1. present.tod + 1 \in Nat
    BY <1>2, WindowAssumption
  <2>2. QED
    BY <1>3, <2>1
<1>5. present = [present EXCEPT !.tod = present.tod]
  BY <1>1 DEF Machines
<1>6. QED
  BY <1>2, <1>4, <1>5 DEF G!Ran

(* What the commands say of the status.                                    *)
LEMMA Enabled ==
  ASSUME WindowInv
  PROVE  /\ "start" \in commands => wStatus = "halted" /\ loaded # G!NULL
         /\ "halt" \in commands => wStatus # "halted"
         /\ "reset" \in commands => wStatus # "halted" /\ loaded # G!NULL
         /\ "continue" \in commands => wStatus = "stopped"
         /\ "step" \in commands => wStatus = "stopped"
         /\ "stop" \in commands => wStatus = "running"
         /\ "toggleDebug" \in commands => wStatus # "halted"
         /\ wStatus \in {"halted", "stopped", "running"}
         /\ wStatus # "halted" => loaded # G!NULL
  BY DEF WindowInv, G!Offered, G!updateActionSensitivity, G!TypeOK

LEMMA SessionSteps ==
  ASSUME WindowInv
  PROVE  /\ "start" \in commands /\ G!startMachine => WindowInv'
         /\ G!halt => WindowInv'
         /\ "reset" \in commands /\ G!onResetMachine => WindowInv'
         /\ wStatus = "stopped" /\ G!onContinue => WindowInv'
         /\ wStatus = "running" /\ G!stop => WindowInv'
         /\ wStatus # "halted" /\ G!Stopped => WindowInv'
         /\ wStatus # "halted" /\ G!PoweredOff => WindowInv'
<1>1. ASSUME "start" \in commands, G!startMachine
      PROVE  WindowInv'
  <2>1. wStatus = "halted" /\ loaded # G!NULL
    BY <1>1, Enabled
  <2>2. present' = G!New(loaded) /\ wStatus' = "stopped" /\ G!onMachineStarted
        /\ G!StatusChanged("stopped", present', tab) /\ UNCHANGED <<windows, tab, G!ui, G!files>>
    BY <1>1, <2>1 DEF G!startMachine, G!setStatus
  <2>3. /\ shown' = G!refreshAll("stopped", loaded, present')
        /\ commands' = G!updateActionSensitivity("stopped", loaded)
        /\ stoppoints' = G!updateStoppointActionsSensitivity("stopped", tab)
    BY <2>2 DEF G!StatusChanged
  <2>4. QED
    BY <2>1, <2>2, <2>3, StartedStep
<1>2. ASSUME G!halt
      PROVE  WindowInv'
  BY <1>2, DiscardStep DEF G!halt
<1>3. ASSUME "reset" \in commands, G!onResetMachine
      PROVE  WindowInv'
  <2>1. wStatus # "halted" /\ loaded # G!NULL /\ wStatus \in {"halted", "stopped", "running"}
    BY <1>3, Enabled
  <2>2. CASE G!Discard /\ UNCHANGED <<G!ui, G!files>>
    BY <2>1, <2>2, DiscardStep
  <2>3. CASE /\ present' = G!New(loaded)
             /\ wStatus' = "stopped"
             /\ IF wStatus = "running" THEN /\ commands' = G!updateActionSensitivity("stopped", loaded)
                                           /\ stoppoints' = G!updateStoppointActionsSensitivity("stopped", tab)
                ELSE UNCHANGED <<commands, stoppoints>>
             /\ G!onMachineStarted
             /\ shown' = G!refreshAll("stopped", loaded, present')
             /\ UNCHANGED <<windows, tab, G!ui, G!files>>
    <3>1. commands = G!updateActionSensitivity(wStatus, loaded) /\ stoppoints = G!updateStoppointActionsSensitivity(wStatus, tab)
      BY DEF WindowInv, G!Offered
    <3>2. /\ commands' = G!updateActionSensitivity("stopped", loaded)
          /\ stoppoints' = G!updateStoppointActionsSensitivity("stopped", tab)
      BY <2>1, <2>3, <3>1
    <3>3. QED
      BY <2>1, <2>3, <3>2, StartedStep
  <2>4. QED
    BY <1>3, <2>2, <2>3 DEF G!onResetMachine
<1>4. ASSUME wStatus = "stopped", G!onContinue
      PROVE  WindowInv'
  <2>1. present' = [present EXCEPT !.tod = present.tod] /\ present.tod \in 0..MaxTod
    BY <1>4, RanTime DEF G!onContinue
  <2>2. wStatus' = "running" /\ G!StatusChanged("running", present, tab) /\ present' = present
        /\ UNCHANGED <<canEdit, canShow, windows, tabs, tab, G!ui, G!files>>
    BY <1>4 DEF G!onContinue, G!setStatus
  <2>3. /\ shown' = G!refreshAll("running", loaded, present')
        /\ commands' = G!updateActionSensitivity("running", loaded)
        /\ stoppoints' = G!updateStoppointActionsSensitivity("running", tab)
    BY <2>2 DEF G!StatusChanged
  <2>4. QED
    BY <1>4, <2>1, <2>2, <2>3, StatusStep
<1>5. ASSUME wStatus = "running", G!stop
      PROVE  WindowInv'
  <2>1. present' = [present EXCEPT !.tod = present.tod] /\ present.tod \in 0..MaxTod
    BY <1>5, RanTime DEF G!stop
  <2>2. wStatus' = "stopped" /\ G!StatusChanged("stopped", present, tab) /\ present' = present
        /\ UNCHANGED <<canEdit, canShow, windows, tabs, tab, G!ui, G!files>>
    BY <1>5 DEF G!stop, G!setStatus
  <2>3. /\ shown' = G!refreshAll("stopped", loaded, present')
        /\ commands' = G!updateActionSensitivity("stopped", loaded)
        /\ stoppoints' = G!updateStoppointActionsSensitivity("stopped", tab)
    BY <2>2 DEF G!StatusChanged
  <2>4. QED
    BY <1>5, <2>1, <2>2, <2>3, StatusStep
<1>6. ASSUME wStatus # "halted", G!Stopped
      PROVE  WindowInv'
  <2>1. PICK t \in 0..MaxTod : present' = [present EXCEPT !.tod = t]
    BY <1>6, RanTime DEF G!Stopped
  <2>2. wStatus' = "stopped" /\ G!StatusChanged("stopped", present', tab)
        /\ UNCHANGED <<canEdit, canShow, windows, tabs, tab, G!ui, G!files>>
    BY <1>6 DEF G!Stopped
  <2>3. /\ shown' = G!refreshAll("stopped", loaded, present')
        /\ commands' = G!updateActionSensitivity("stopped", loaded)
        /\ stoppoints' = G!updateStoppointActionsSensitivity("stopped", tab)
    BY <2>2 DEF G!StatusChanged
  <2>4. QED
    BY <1>6, <2>1, <2>2, <2>3, StatusStep
<1>7. ASSUME wStatus # "halted", G!PoweredOff
      PROVE  WindowInv'
  BY <1>7, DiscardStep DEF G!PoweredOff
<1>8. QED
  BY <1>1, <1>2, <1>3, <1>4, <1>5, <1>6, <1>7

LEMMA RunStep ==
  ASSUME WindowInv, wStatus = "running", G!runIteration
  PROVE  WindowInv'
<1>1. CASE G!Stopped \/ G!PoweredOff
  BY <1>1, SessionSteps
<1>2. CASE /\ G!Ran
           /\ shown' = [shown EXCEPT !.tod = present'.tod]
           /\ UNCHANGED <<wStatus, commands, stoppoints, canEdit, canShow, windows, tabs, tab, G!ui, G!files>>
  <2>1. PICK t \in 0..MaxTod : present' = [present EXCEPT !.tod = t]
    BY <1>2, RanTime
  <2>2. loaded # G!NULL /\ commands = G!updateActionSensitivity("running", loaded)
        /\ stoppoints = G!updateStoppointActionsSensitivity("running", tab)
        /\ shown = [text |-> "running", tod |-> present.tod]
    BY DEF WindowInv, G!Offered, G!LineTrue, G!refreshAll
  <2>3. shown' = G!refreshAll("running", loaded, present')
    BY <1>2, <2>2 DEF G!refreshAll
  <2>4. QED
    BY <1>2, <2>1, <2>2, <2>3, StatusStep
<1>3. QED
  BY <1>1, <1>2 DEF G!runIteration

LEMMA ConfigStep ==
  ASSUME WindowInv, NEW p, NEW c \in G!Configs, G!setCurrentConfig(p, c)
  PROVE  WindowInv'
<1>1. c # G!NULL
  BY ConfigurationsAreRecords
<1>2. /\ present' = G!NULL /\ wStatus' = "halted" /\ loaded' = c /\ overview' = c /\ unsaved' = FALSE
      /\ commands' = {"start", "toggle"} \cup
           IF wStatus # "halted" THEN G!updateActionSensitivity("halted", loaded) ELSE commands
      /\ recents' = G!Recent(p) /\ menu' = recents'
      /\ shown' = G!refreshAll("halted", c, G!NULL)
      /\ stopMask' = stopMask /\ speed' = speed /\ checked' = checked /\ speeds' = speeds
  BY DEF G!setCurrentConfig, G!ui
<1>3. commands = G!updateActionSensitivity(wStatus, loaded)
  BY DEF WindowInv, G!Offered
<1>4. commands' = G!updateActionSensitivity("halted", c)
  BY <1>1, <1>2, <1>3, WhenHalted
<1>5. /\ canEdit' = TRUE /\ tabs' = {"overview"} /\ tab' = "overview"
      /\ windows' = {} /\ canShow' = {} /\ stoppoints' = G!updateStoppointActionsSensitivity("halted", "overview")
  <2>1. CASE wStatus # "halted"
    BY <2>1 DEF G!setCurrentConfig, G!onMachineHalted
  <2>2. CASE wStatus = "halted"
    <3>1. present = G!NULL /\ canShow = {} /\ windows = {} /\ tabs = {"overview"} /\ tab = "overview"
          /\ stoppoints = G!updateStoppointActionsSensitivity("halted", "overview")
          /\ (canEdit \/ overview = G!NULL) /\ canEdit \in BOOLEAN
      BY <2>2 DEF WindowInv, G!Offered, G!WindowsOfMachine, G!TypeOK
    <3>2. canEdit' = (canEdit \/ overview = G!NULL) /\ tab' = (IF overview = G!NULL THEN "overview" ELSE tab)
          /\ UNCHANGED <<stoppoints, canShow, windows, tabs>>
      BY <2>2 DEF G!setCurrentConfig
    <3>3. QED
      BY <3>1, <3>2
  <2>3. QED
    BY <2>1, <2>2
<1>7. G!TypeOK'
  BY <1>2, <1>5 DEF WindowInv, G!TypeOK, G!Tabs
<1>8. G!Offered'
  BY <1>1, <1>2, <1>4, <1>5 DEF G!Offered
<1>9. G!WindowsOfMachine' /\ G!MaskKept' /\ G!LineTrue'
  BY <1>1, <1>2, <1>5 DEF WindowInv, G!WindowsOfMachine, G!MaskKept, G!LineTrue
<1>10. QED
  BY <1>1, <1>2, <1>5, <1>7, <1>8, <1>9 DEF WindowInv

(* The steps of the window alone.                                          *)
LEMMA WindowSteps ==
  ASSUME WindowInv
  PROVE  /\ G!clearConfigs => WindowInv'
         /\ canEdit /\ G!editConfig => WindowInv'
         /\ \A s \in Cause : G!onStopMaskChanged(s) => WindowInv'
         /\ \A v \in 0..MaxSpeed : G!setSpeed(v) => WindowInv'
         /\ \A w \in G!Showable : G!showWindow(w) => WindowInv'
         /\ \A w : G!closeWindow(w) => WindowInv'
         /\ \A t \in tabs : G!currentChanged(t) => WindowInv'
<1>1. ASSUME G!clearConfigs
      PROVE  WindowInv'
  <2>1. /\ recents' = <<>> /\ menu' = <<>>
        /\ tab' = (IF overview = G!NULL THEN "overview" ELSE tab)
        /\ stoppoints' = G!updateStoppointActionsSensitivity(wStatus, tab')
        /\ UNCHANGED <<wStatus, loaded, present, commands, canEdit, canShow, windows, tabs, overview, shown,
                       unsaved, stopMask, speed, checked, speeds>>
    BY <1>1 DEF G!clearConfigs, G!ui
  <2>2. tab' \in tabs /\ tab' \in G!Tabs
    BY <2>1 DEF WindowInv, G!Offered, G!TypeOK, G!Tabs
  <2>3. G!TypeOK'
    BY <2>1, <2>2 DEF WindowInv, G!TypeOK
  <2>4. G!Offered'
    BY <2>1, <2>2 DEF WindowInv, G!Offered
  <2>5. G!WindowsOfMachine' /\ G!MaskKept' /\ G!LineTrue'
    BY <2>1 DEF WindowInv, G!WindowsOfMachine, G!MaskKept, G!LineTrue
  <2>6. QED
    BY <2>1, <2>2, <2>3, <2>4, <2>5 DEF WindowInv
<1>2. ASSUME canEdit, G!editConfig
      PROVE  WindowInv'
  <2>1. /\ loaded' \in G!Configs
        /\ (overview' = loaded' /\ unsaved' = FALSE) \/ (overview' = overview /\ unsaved' = TRUE)
        /\ UNCHANGED <<wStatus, present, recents, menu, commands, stoppoints, canEdit, canShow, windows, tabs,
                       tab, shown, stopMask, speed, checked, speeds>>
    BY <1>2 DEF G!editConfig, G!ui
  <2>2. wStatus = "halted" /\ loaded # G!NULL /\ loaded' # G!NULL /\ present = G!NULL /\ overview # G!NULL
    BY <1>2, <2>1, ConfigurationsAreRecords DEF WindowInv, G!Offered, G!WindowsOfMachine
  <2>3. G!updateActionSensitivity("halted", loaded') = G!updateActionSensitivity("halted", loaded)
        /\ G!refreshAll("halted", loaded', present) = G!refreshAll("halted", loaded, present)
    BY <2>2, WhenHalted DEF G!refreshAll
  <2>4. G!TypeOK'
    BY <2>1 DEF WindowInv, G!TypeOK
  <2>5. G!Offered'
    BY <2>1, <2>2, <2>3 DEF WindowInv, G!Offered
  <2>6. G!WindowsOfMachine' /\ G!MaskKept' /\ G!LineTrue'
    BY <2>1, <2>2, <2>3 DEF WindowInv, G!WindowsOfMachine, G!MaskKept, G!LineTrue
  <2>7. overview' # G!NULL
    BY <2>1, <2>2
  <2>8. QED
    BY <2>1, <2>2, <2>4, <2>5, <2>6, <2>7 DEF WindowInv
<1>3. ASSUME NEW s \in Cause, G!onStopMaskChanged(s)
      PROVE  WindowInv'
  <2>1. /\ checked' = (IF s \in checked THEN checked \ {s} ELSE checked \cup {s})
        /\ stopMask' = checked'
        /\ present' = IF present = G!NULL THEN present ELSE [present EXCEPT !.mask = stopMask']
        /\ UNCHANGED <<wStatus, commands, stoppoints, canEdit, canShow, windows, tabs, tab, shown, speed, speeds,
                       loaded, recents, menu, overview, unsaved>>
    BY <1>3 DEF G!onStopMaskChanged, G!setStopMask, G!files
  <2>2. stopMask' \subseteq Cause
    BY <2>1 DEF WindowInv, G!TypeOK, G!MaskKept
  <2>3. present # G!NULL => /\ present' \in Machines /\ present'.mask = checked' /\ present'.tod = present.tod
                          /\ present'.cpus = present.cpus /\ present'.terminals = present.terminals
    BY <2>1, <2>2 DEF WindowInv, Machines
  <2>4. (present' # G!NULL <=> present # G!NULL) /\ (present # G!NULL => present \in Machines)
    BY <2>1, <2>3, ConfigurationsAreRecords DEF WindowInv
  <2>5. G!TypeOK'
    BY <2>1, <2>2, <2>3, <2>4 DEF WindowInv, G!TypeOK, Machines
  <2>6. G!Offered'
    BY <2>1 DEF WindowInv, G!Offered
  <2>7. G!Cpus(present') = G!Cpus(present) /\ G!Terminals(present') = G!Terminals(present)
    <3>1. CASE present = G!NULL
      BY <2>1, <3>1
    <3>2. CASE present # G!NULL
      BY <2>3, <3>2 DEF G!Cpus, G!Terminals
    <3>3. QED
      BY <3>1, <3>2
  <2>8. G!WindowsOfMachine' /\ G!MaskKept'
    BY <2>1, <2>3, <2>4, <2>7 DEF WindowInv, G!WindowsOfMachine, G!MaskKept
  <2>9. G!refreshAll(wStatus, loaded, present') = G!refreshAll(wStatus, loaded, present)
    BY <2>3 DEF G!refreshAll, WindowInv, G!WindowsOfMachine
  <2>10. G!LineTrue'
    BY <2>1, <2>9 DEF WindowInv, G!LineTrue
  <2>11. QED
    BY <2>1, <2>3, <2>4, <2>5, <2>6, <2>8, <2>10 DEF WindowInv
<1>4. ASSUME NEW v \in 0..MaxSpeed, G!setSpeed(v)
      PROVE  WindowInv'
  <2>1. /\ speed' = v
        /\ speeds' = [checked |-> v, slider |-> v, up |-> v # MaxSpeed, down |-> v # 0]
        /\ UNCHANGED <<wStatus, present, stopMask, checked, commands, stoppoints, canEdit, canShow, windows, tabs,
                       tab, shown, loaded, recents, menu, overview, unsaved>>
    BY <1>4 DEF G!setSpeed, G!files
  <2>2. G!TypeOK' /\ G!Offered' /\ G!WindowsOfMachine' /\ G!MaskKept'
    BY <2>1 DEF WindowInv, G!TypeOK, G!Offered, G!WindowsOfMachine, G!MaskKept
  <2>3. G!LineTrue'
    BY <2>1 DEF WindowInv, G!LineTrue
  <2>4. QED
    BY <2>1, <2>2, <2>3 DEF WindowInv
<1>5. ASSUME NEW opened, opened \subseteq windows \cup G!Showable, windows' = opened,
             UNCHANGED <<G!session, commands, stoppoints, canEdit, canShow, tabs, tab, checked, speeds, menu,
                         overview, shown, unsaved>>
      PROVE  WindowInv'
  <2>1. G!Showable = canShow
    <3>1. CASE present = G!NULL
      BY <3>1 DEF G!Showable
    <3>2. CASE present # G!NULL
      BY <3>2 DEF G!Showable, WindowInv, G!WindowsOfMachine, G!Cpus
    <3>3. QED
      BY <3>1, <3>2
  <2>2. opened \subseteq canShow
    BY <1>5, <2>1 DEF WindowInv, G!WindowsOfMachine
  <2>3. QED
    BY <1>5, <2>2 DEF WindowInv, G!TypeOK, G!Offered, G!WindowsOfMachine, G!MaskKept, G!LineTrue, G!session
<1>6. ASSUME NEW t \in tabs, G!currentChanged(t)
      PROVE  WindowInv'
  <2>1. t \in G!Tabs
    BY DEF WindowInv, G!TypeOK
  <2>2. QED
    BY <1>6, <2>1 DEF G!currentChanged, G!session, WindowInv, G!TypeOK, G!Offered, G!WindowsOfMachine, G!MaskKept, G!LineTrue
<1>7. ASSUME NEW w \in G!Showable, G!showWindow(w)
      PROVE  WindowInv'
  BY <1>7, <1>5 DEF G!showWindow
<1>8. ASSUME NEW w, G!closeWindow(w)
      PROVE  WindowInv'
  BY <1>8, <1>5 DEF G!closeWindow
<1>9. QED
  BY <1>1, <1>2, <1>3, <1>4, <1>6, <1>7, <1>8

LEMMA NextWindow ==
  ASSUME WindowInv, [G!Next]_G!vars
  PROVE  WindowInv'
<1>1. CASE "start" \in commands /\ G!startMachine
  BY <1>1, SessionSteps
<1>2. CASE G!halt
  BY <1>2, SessionSteps
<1>3. CASE G!toggleMachine
  BY <1>3, SessionSteps DEF G!toggleMachine
<1>4. CASE "reset" \in commands /\ G!onResetMachine
  BY <1>4, SessionSteps
<1>5. CASE "continue" \in commands /\ G!onContinue
  BY <1>5, SessionSteps, Enabled
<1>6. CASE "step" \in commands /\ G!onStep
  BY <1>6, SessionSteps, Enabled DEF G!onStep
<1>7. CASE "stop" \in commands /\ G!stop
  BY <1>7, SessionSteps, Enabled
<1>8. CASE "toggleDebug" \in commands /\ G!toggleDebug
  <2>1. CASE "continue" \in commands
    BY <1>8, <2>1, SessionSteps, Enabled DEF G!toggleDebug
  <2>2. CASE "continue" \notin commands
    <3>1. wStatus = "running"
      <4>1. wStatus \in {"stopped", "running"} /\ commands = G!updateActionSensitivity(wStatus, loaded)
        BY <1>8, Enabled DEF WindowInv, G!Offered
      <4>2. wStatus # "stopped"
        BY <2>2, <4>1 DEF G!updateActionSensitivity, G!Command
      <4>3. QED
        BY <4>1, <4>2
    <3>2. QED
      BY <1>8, <2>2, <3>1, SessionSteps DEF G!toggleDebug
  <2>3. QED
    BY <2>1, <2>2
<1>9. CASE wStatus = "running" /\ G!runIteration
  BY <1>9, RunStep
<1>10. CASE G!LoadConfig \/ G!onLoadRecentConfig
  <2> QED
    BY <1>10, ConfigStep DEF G!LoadConfig, G!onLoadRecentConfig
<1>11. CASE G!ChangeSpeed
  <2>1. speed \in 0..MaxSpeed /\ speeds = [checked |-> speed, slider |-> speed, up |-> speed # MaxSpeed, down |-> speed # 0]
    BY DEF WindowInv, G!LineTrue
  <2>0. (speeds.up <=> speed # MaxSpeed) /\ (speeds.down <=> speed # 0)
    BY <2>1
  <2>2. (speeds.up => speed + 1 \in 0..MaxSpeed) /\ (speeds.down => speed - 1 \in 0..MaxSpeed)
    BY <2>0, <2>1, WindowAssumption
  <2>3. QED
    BY <1>11, <2>2, WindowSteps DEF G!ChangeSpeed
<1>12. CASE UNCHANGED G!vars
  BY <1>12 DEF G!vars, G!session, WindowInv, G!TypeOK, G!Offered, G!WindowsOfMachine, G!MaskKept, G!LineTrue
<1>13. QED
  BY <1>1, <1>2, <1>3, <1>4, <1>5, <1>6, <1>7, <1>8, <1>9, <1>10, <1>11, <1>12, WindowSteps DEF G!Next

(* The list of recent configurations. *)
(* The list as it is after i of its elements were looked at.               *)
After(s, p, n, f) ==
  f = [i \in 0..n |-> IF i = 0 THEN <<>> ELSE IF s[i] = p THEN f[i - 1] ELSE Append(f[i - 1], s[i])]

LEMMA OneMore ==
  ASSUME NEW s, NEW p, NEW n \in Nat, NEW f, After(s, p, n, f)
  PROVE  \E g : After(s, p, n + 1, g)
<1> DEFINE g == [i \in 0..n+1 |-> IF i \in 0..n THEN f[i]
                                  ELSE IF s[i] = p THEN f[n] ELSE Append(f[n], s[i])]
           h == [i \in 0..n+1 |-> IF i = 0 THEN <<>> ELSE IF s[i] = p THEN g[i - 1] ELSE Append(g[i - 1], s[i])]
<1>1. ASSUME NEW i \in 0..n+1
      PROVE  g[i] = h[i]
  <2>1. CASE i = 0
    BY <2>1 DEF After
  <2>2. CASE i # 0 /\ i \in 0..n
    <3>1. i - 1 \in 0..n /\ i - 1 \in 0..n+1
      BY <2>2
    <3>2. g[i - 1] = f[i - 1] /\ g[i] = f[i]
      BY <2>2, <3>1
    <3>3. f[i] = IF s[i] = p THEN f[i - 1] ELSE Append(f[i - 1], s[i])
      BY <2>2 DEF After
    <3>4. h[i] = IF s[i] = p THEN g[i - 1] ELSE Append(g[i - 1], s[i])
      BY <2>2
    <3>5. QED
      BY <3>2, <3>3, <3>4
  <2>3. CASE i = n + 1
    <3>1. i - 1 = n /\ n \in 0..n /\ n \in 0..n+1 /\ i \notin 0..n /\ i # 0
      BY <2>3
    <3>2. g[n] = f[n]
      BY <3>1
    <3>3. g[i] = IF s[i] = p THEN f[n] ELSE Append(f[n], s[i])
      BY <3>1
    <3>4. h[i] = IF s[i] = p THEN g[n] ELSE Append(g[n], s[i])
      BY <3>1
    <3>5. QED
      BY <3>2, <3>3, <3>4
  <2>4. QED
    BY <2>1, <2>2, <2>3
<1>2. g = h
  BY <1>1
<1>3. QED
  BY <1>2 DEF After

LEMMA AllLooked ==
  ASSUME NEW s, NEW p, NEW n \in Nat
  PROVE  \E f : After(s, p, n, f)
<1> DEFINE bad == {m \in Nat : ~ \E f : After(s, p, m, f)}
<1>1. SUFFICES ASSUME bad # {}
               PROVE  FALSE
  OBVIOUS
<1>2. PICK m \in bad : \A k \in bad : m <= k
  BY <1>1, PP!LeastNatural, AsidAssumption, BoundsAssumption
<1>3. m # 0
  <2>1. After(s, p, 0, [i \in 0..0 |-> <<>>])
    BY DEF After
  <2>2. QED
    BY <2>1
<1>4. m - 1 \in Nat /\ m - 1 \notin bad /\ m = (m - 1) + 1
  BY <1>2, <1>3
<1>5. PICK f : After(s, p, m - 1, f)
  BY <1>4
<1>6. \E g : After(s, p, m, g)
  BY <1>4, <1>5, OneMore
<1>7. QED
  BY <1>6

(* What the list without p is: elements other than p, none twice.          *)
LEMMA Removed ==
  ASSUME NEW s \in Seq(Document), G!NoRepeats(s), NEW p
  PROVE  /\ G!removeAll(s, p) \in Seq(Document) /\ G!NoRepeats(G!removeAll(s, p))
         /\ \A j \in DOMAIN G!removeAll(s, p) : G!removeAll(s, p)[j] # p
<1> DEFINE kept == CHOOSE f : After(s, p, Len(s), f)
           Good(n) == /\ kept[n] \in Seq(Document) /\ G!NoRepeats(kept[n])
                      /\ \A j \in DOMAIN kept[n] : kept[n][j] # p /\ \E k \in 1..n : kept[n][j] = s[k]
           bad == {m \in 0..Len(s) : ~Good(m)}
<1>1. Len(s) \in Nat /\ DOMAIN s = 1..Len(s)
  OBVIOUS
<1>2. After(s, p, Len(s), kept)
  BY <1>1, AllLooked
<1>3. G!removeAll(s, p) = kept[Len(s)]
  BY DEF G!removeAll, After
<1> HIDE DEF kept
<1>4. Good(0)
  <2>1. kept[0] = <<>>
    BY <1>1, <1>2 DEF After
  <2>2. QED
    BY <2>1 DEF G!NoRepeats
<1>5. ASSUME NEW n \in 1..Len(s), Good(n - 1)
      PROVE  Good(n)
  <2>1. kept[n] = IF s[n] = p THEN kept[n - 1] ELSE Append(kept[n - 1], s[n])
    <3>1. n \in 0..Len(s) /\ n # 0
      BY <1>1
    <3>2. kept = [i \in 0..Len(s) |-> IF i = 0 THEN <<>> ELSE IF s[i] = p THEN kept[i - 1] ELSE Append(kept[i - 1], s[i])]
      BY <1>2, Zenon DEF After
    <3>3. QED
      BY <3>1, <3>2, Zenon
  <2>2. s[n] \in Document /\ n - 1 \in Nat /\ n \in Nat
    BY <1>1
  <2>3. PICK t : t = kept[n - 1]
    OBVIOUS
  <2>4. t \in Seq(Document) /\ G!NoRepeats(t) /\ \A j \in DOMAIN t : t[j] # p /\ \E k \in 1..n-1 : t[j] = s[k]
    BY <1>5, <2>3
  <2>5. CASE s[n] = p
    <3>1. kept[n] = t
      BY <2>1, <2>3, <2>5
    <3>2. \A k \in 1..n-1 : k \in 1..n
      BY <2>2
    <3>3. QED
      BY <2>4, <3>1, <3>2
  <2>6. CASE s[n] # p
    <3>1. PICK r : r = Append(t, s[n])
      OBVIOUS
    <3>2. Len(t) \in Nat /\ DOMAIN t = 1..Len(t)
      BY <2>4
    <3>3. r \in Seq(Document) /\ DOMAIN r = 1..Len(t)+1 /\ r[Len(t) + 1] = s[n] /\ \A j \in DOMAIN t : r[j] = t[j]
      BY <2>2, <2>4, <3>1, <3>2
    <3>4. \A j \in DOMAIN r : j \in DOMAIN t \/ j = Len(t) + 1
      BY <3>2, <3>3
    <3>5. \A j \in DOMAIN r : r[j] # p /\ \E k \in 1..n : r[j] = s[k]
      <4>1. \A j \in DOMAIN t : r[j] # p /\ \E k \in 1..n : r[j] = s[k]
        BY <2>2, <2>4, <3>3
      <4>2. r[Len(t) + 1] # p /\ \E k \in 1..n : r[Len(t) + 1] = s[k]
        BY <2>2, <2>6, <3>3
      <4>3. QED
        BY <3>4, <4>1, <4>2
    <3>6. \A j \in DOMAIN t : r[j] # s[n]
      <4> SUFFICES ASSUME NEW j \in DOMAIN t, r[j] = s[n]
                   PROVE  FALSE
        OBVIOUS
      <4>1. PICK k \in 1..n-1 : t[j] = s[k]
        BY <2>4
      <4>2. k \in DOMAIN s /\ n \in DOMAIN s /\ k # n
        BY <1>1, <2>2
      <4>3. s[k] = s[n]
        BY <3>3, <4>1
      <4>4. QED
        BY <4>2, <4>3 DEF G!NoRepeats
    <3>7. G!NoRepeats(r)
      BY <2>4, <3>3, <3>4, <3>6 DEF G!NoRepeats
    <3>8. kept[n] = r
      BY <2>1, <2>3, <2>6, <3>1
    <3>9. QED
      BY <3>3, <3>5, <3>7, <3>8
  <2>7. QED
    BY <2>5, <2>6
<1>6. bad = {}
  <2> SUFFICES ASSUME bad # {}
               PROVE  FALSE
    OBVIOUS
  <2>1. bad \subseteq Nat
    BY <1>1
  <2>2. PICK m \in bad : \A k \in bad : m <= k
    BY <2>1, PP!LeastNatural, AsidAssumption, BoundsAssumption
  <2>3. m \in 0..Len(s) /\ ~Good(m)
    OBVIOUS
  <2>4. m # 0
    BY <1>4, <2>3
  <2>5. m - 1 \in 0..Len(s) /\ m \in 1..Len(s) /\ m - 1 \notin bad
    BY <1>1, <2>2, <2>3, <2>4
  <2>6. Good(m - 1)
    BY <2>5
  <2>7. QED
    BY <1>5, <2>3, <2>5, <2>6
<1>7. Good(Len(s))
  BY <1>1, <1>6
<1>8. QED
  BY <1>3, <1>7

(* The new list of recent files. *)
LEMMA RecentFacts ==
  ASSUME G!RecentsKept, NEW p \in Document
  PROVE  G!Recent(p) \in Seq(Document) /\ Len(G!Recent(p)) <= MaxRecent /\ G!NoRepeats(G!Recent(p))
<1>1. PICK r : r = G!removeAll(recents, p)
  OBVIOUS
<1>2. r \in Seq(Document) /\ G!NoRepeats(r) /\ \A j \in DOMAIN r : r[j] # p
  BY <1>1, Removed DEF G!RecentsKept
<1>3. PICK l : l = <<p>> \o r
  OBVIOUS
<1>4. Len(r) \in Nat /\ DOMAIN r = 1..Len(r)
  BY <1>2
<1>5. l \in Seq(Document) /\ Len(l) = Len(r) + 1 /\ l[1] = p /\ \A j \in DOMAIN l : j # 1 => j - 1 \in DOMAIN r /\ l[j] = r[j - 1]
  BY <1>2, <1>3, <1>4
<1>6. G!NoRepeats(l)
  <2> SUFFICES ASSUME NEW i \in DOMAIN l, NEW j \in DOMAIN l, l[i] = l[j]
               PROVE  i = j
    BY DEF G!NoRepeats
  <2>1. DOMAIN l = 1..Len(r)+1
    BY <1>4, <1>5
  <2>2. i = 1 => j = 1
    BY <1>2, <1>5
  <2>3. j = 1 => i = 1
    BY <1>2, <1>5
  <2>4. i # 1 /\ j # 1 => i - 1 = j - 1
    BY <1>2, <1>5 DEF G!NoRepeats
  <2>5. QED
    BY <1>4, <2>1, <2>2, <2>3, <2>4
<1>7. PICK n : n = IF Len(l) <= MaxRecent THEN Len(l) ELSE MaxRecent
  OBVIOUS
<1>8. n \in 0..Len(l) /\ n <= MaxRecent /\ n \in Nat
  BY <1>4, <1>5, <1>7, WindowAssumption
<1>9. G!Recent(p) = SubSeq(l, 1, n)
  BY <1>1, <1>3, <1>7 DEF G!Recent
<1>10. PICK q : q = SubSeq(l, 1, n)
  OBVIOUS
<1>11. q \in Seq(Document) /\ Len(q) = n /\ DOMAIN q = 1..n /\ \A j \in 1..n : q[j] = l[j] /\ j \in DOMAIN l
  BY <1>4, <1>5, <1>8, <1>10
<1>12. G!NoRepeats(q)
  BY <1>6, <1>11 DEF G!NoRepeats
<1>13. QED
  BY <1>8, <1>9, <1>10, <1>11, <1>12

LEMMA InitRecents == G!Init => G!RecentsKept
<1> SUFFICES ASSUME G!Init
             PROVE  G!RecentsKept
  OBVIOUS
<1>1. PICK n \in 0..MaxRecent : recents \in [1..n -> Document] /\ G!NoRepeats(recents)
  BY DEF G!Init
<1>2. menu = recents
  BY DEF G!Init
<1>3. n \in Nat /\ n <= MaxRecent
  BY WindowAssumption
<1>4. recents \in Seq(Document) /\ Len(recents) = n
  BY <1>1, <1>3
<1>5. QED
  BY <1>1, <1>2, <1>3, <1>4 DEF G!RecentsKept

(* Only loading a file and emptying the list change it.                    *)
LEMMA NextRecents == G!RecentsKept /\ [G!Next]_G!vars => G!RecentsKept'
<1> SUFFICES ASSUME G!RecentsKept, [G!Next]_G!vars
             PROVE  G!RecentsKept'
  OBVIOUS
<1>1. ASSUME NEW p \in Document, NEW k \in G!Configs, G!setCurrentConfig(p, k)
      PROVE  G!RecentsKept'
  <2>1. recents' = G!Recent(p) /\ menu' = recents'
    BY <1>1 DEF G!setCurrentConfig
  <2>2. QED
    BY <2>1, RecentFacts DEF G!RecentsKept
<1>2. CASE G!onLoadRecentConfig
  <2>1. PICK i \in DOMAIN menu, k \in G!Configs : G!setCurrentConfig(menu[i], k)
    BY <1>2 DEF G!onLoadRecentConfig
  <2>2. menu[i] \in Document
    BY DEF G!RecentsKept
  <2>3. QED
    BY <1>1, <2>1, <2>2
<1>3. CASE G!clearConfigs
  <2>1. recents' = <<>> /\ menu' = <<>>
    BY <1>3 DEF G!clearConfigs
  <2>2. <<>> \in Seq(Document) /\ Len(<<>>) = 0 /\ DOMAIN <<>> = {}
    OBVIOUS
  <2>3. QED
    BY <2>1, <2>2, WindowAssumption DEF G!RecentsKept, G!NoRepeats
<1>4. CASE UNCHANGED <<recents, menu>>
  BY <1>4 DEF G!RecentsKept, G!NoRepeats
<1>5. UNCHANGED G!files => UNCHANGED <<recents, menu>>
  BY DEF G!files
<1>6. /\ G!startMachine => UNCHANGED G!files
      /\ G!halt => UNCHANGED G!files
      /\ G!onResetMachine => UNCHANGED G!files
      /\ G!onContinue => UNCHANGED G!files
      /\ G!stop => UNCHANGED G!files
      /\ G!Stopped \/ G!PoweredOff => UNCHANGED G!files
      /\ G!runIteration => UNCHANGED G!files
  BY DEF G!startMachine, G!halt, G!onResetMachine, G!onContinue, G!stop, G!runIteration, G!Stopped, G!PoweredOff
<1>7. /\ G!toggleMachine => UNCHANGED G!files
      /\ G!onStep => UNCHANGED G!files
      /\ G!toggleDebug => UNCHANGED G!files
  BY <1>6 DEF G!toggleMachine, G!onStep, G!toggleDebug
<1>8. G!editConfig => UNCHANGED <<recents, menu>>
  BY DEF G!editConfig
<1>9. (\E q \in Cause : G!onStopMaskChanged(q)) \/ G!ChangeSpeed => UNCHANGED G!files
  BY DEF G!onStopMaskChanged, G!ChangeSpeed, G!setSpeed
<1>10. \A w : G!showWindow(w) \/ G!closeWindow(w) \/ G!currentChanged(w) => UNCHANGED <<recents, menu>>
  BY DEF G!showWindow, G!closeWindow, G!currentChanged, G!session
<1>11. UNCHANGED G!vars => UNCHANGED <<recents, menu>>
  BY DEF G!vars, G!session
<1>12. QED
  BY <1>1, <1>2, <1>3, <1>4, <1>5, <1>6, <1>7, <1>8, <1>9, <1>10, <1>11 DEF G!Next, G!LoadConfig

LEMMA InitMain == MCInit => (active = "window" => WindowInv /\ G!RecentsKept)
  BY InitWindow, InitRecents DEF MCInit

LEMMA NextMain == (active = "window" => WindowInv /\ G!RecentsKept) /\ [MCNext]_allVars => (active = "window" => WindowInv /\ G!RecentsKept)'
<1> SUFFICES ASSUME active = "window" => WindowInv /\ G!RecentsKept, [MCNext]_allVars, active' = "window"
             PROVE  (WindowInv /\ G!RecentsKept)'
  OBVIOUS
<1>1. active = "window" /\ active' = active
  BY OneRuns
<1>2. G!Next \/ UNCHANGED gVars
  BY <1>1 DEF MCNext, allVars
<1>3. UNCHANGED gVars => UNCHANGED G!vars
  BY DEF gVars, G!vars, G!session, G!ui, G!files
<1>4. QED
  BY <1>1, <1>2, <1>3, NextWindow, NextRecents

(* Through onMachineStarted, onMachineHalted, the dialogs and the session, *)
(* the actions, tabs and windows of the main window are those that fit the *)
(* status and the machine, and the stop mask and the status line are true; *)
(* setCurrentConfig keeps the recent configurations, none twice.           *)
THEOREM WindowIsTrue == MCSpec => []WindowFits
<1>1. (active = "window" => WindowInv /\ G!RecentsKept) => WindowFits
  BY DEF WindowInv, WindowFits
<1>2. QED
  BY <1>1, InitMain, NextMain, PTL DEF MCSpec
===============================================================================
