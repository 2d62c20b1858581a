--------------------------- MODULE ProcessorViews ---------------------------
(***************************************************************************)
(* What the monitor shows of a core: the status map and the list of cores  *)
(* (qmps/cpu_status_map.cc, processor_list_model.cc), and the window of    *)
(* the core with its registers and its code (processor_window.cc,          *)
(* register_set_snapshot.cc, code_view.cc). Each keeps pointers into the   *)
(* machine and copies of its state, which it renews on the signals of the  *)
(* debug session. A handler of the session and the slots it calls are one  *)
(* step. A reset replaces the machine: machines are numbered.              *)
(***************************************************************************)
EXTENDS Integers

CONSTANTS
  MaxMachines,                                  \* bound: numbers of machines, used again in turn
  Pc,                                           \* addresses the core visits
  BiosSize, BootBase, BootSize, RamBase, Floor, \* the memory map, in words
  Functions                                     \* <<start, end>> of the functions in the symbol table

VARIABLES
  status,    \* MachineStatus
  byUser,    \* stoppedByUser
  machine,   \* the number of the machine, or of the last one
  core,      \* the core: its status, its PC, a register and why it stopped
  iterated,  \* a batch of cycles has ended since the machine was set running
  statusMap, \* the status and the location that CpuStatusMap holds
  list,      \* the machine whose status map the list of cores shows, or 0
  window,    \* the window of the core
  dangling   \* who has read a machine that was deleted

vars == <<status, byUser, machine, core, iterated, statusMap, list, window, dangling>>

NoCode == <<1, 0>>
Closed == [of |-> 0, reg |-> 0, code |-> NoCode, map |-> 0]
Ps     == {"running", "idle", "halted"}
Fresh  == [ps |-> "running", pc |-> 0, reg |-> 0, cause |-> "none"]

Within(pc, code) == code[1] <= pc /\ pc <= code[2]
Around(pc)       == {f \in Functions : Within(pc, f)}
functionAt(pc)   == IF Around(pc) # {} THEN CHOOSE f \in Around(pc) : TRUE ELSE NoCode

-----------------------------------------------------------------------------
(* CpuStatusMap::update. The status map of a machine is that of st, the    *)
(* status the session has at that moment.                                  *)
StatusOf(c, st, user) ==
  CASE c.ps = "halted"  -> "Halted"
    [] c.ps = "idle"    -> "Idle"
    [] c.ps = "running" -> IF st = "stopped" THEN <<"Stopped", user, c.cause>> ELSE "Running"

LocationOf(c, old) == IF c.ps = "halted" THEN -1 ELSE c.pc

update(m, c, st, user) == [of |-> m, status |-> StatusOf(c, st, user), location |-> LocationOf(c, statusMap)]

(* CodeView::loadCode: the code around the PC is that of the BIOS, of the  *)
(* boot ROM or of a function of the kernel.                                *)
loadCode(c) ==
  CASE c.ps = "halted" -> NoCode
    [] c.ps # "halted" /\ c.pc >= RamBase ->
         IF c.pc < Floor THEN functionAt(c.pc) ELSE NoCode
    [] c.ps # "halted" /\ c.pc \in BootBase..RamBase-1 ->
         IF c.pc <= BootBase + BootSize - 1 THEN <<BootBase, BootBase + BootSize - 1>> ELSE NoCode
    [] c.ps # "halted" /\ c.pc < BootBase ->
         IF c.pc <= BiosSize - 1 THEN <<0, BiosSize - 1>> ELSE NoCode

(* CodeView::onMachineStopped: code that is loaded stays while the PC is   *)
(* in it.                                                                  *)
onMachineStopped(code, c) ==
  CASE code = NoCode -> loadCode(c)
    [] code # NoCode /\ c.pc >= Floor -> NoCode
    [] code # NoCode /\ c.pc < Floor  -> IF Within(c.pc, code) THEN code ELSE loadCode(c)

isOpen == window.of # 0

(* RegisterSetSnapshot::updateCache. *)
updateCache(w, c) == IF w.of = 0 THEN w ELSE [w EXCEPT !.reg = c.reg]

(* Mutant: the window keeps its connection to the status map. *)
windowOfOldMap(m, c) == [of |-> m, reg |-> c.reg, code |-> loadCode(c), map |-> window.map]

(* A window made for, or reset to, machine m.                              *)
windowOf(m, c) == [of |-> m, reg |-> c.reg, code |-> loadCode(c), map |-> m]

(* Machine m has been deleted: it is not the one that the session has.     *)
Gone(m) == status = "halted" \/ m # machine

(* The slots of the status map and of the window read the machine that     *)
(* they point to; so does the window when it closes (closeEvent, which     *)
(* reads the number of the core) and when a register is edited.            *)
ReadBy(reader, m) == IF Gone(m) THEN {reader} ELSE {}
SlotsRead   == ReadBy("slot", statusMap.of) \cup (IF isOpen THEN ReadBy("slot", window.of) ELSE {})
Reads       == dangling' = dangling \cup SlotsRead

(* A window closed by MachineHalted: the machine is deleted before the     *)
(* signal is emitted, and closeEvent reads its core.                       *)
HaltedRead == IF isOpen THEN {"MachineHalted"} ELSE {}

MachineStopped(c, user) ==
  /\ Reads
  /\ statusMap' = update(statusMap.of, c, "stopped", user)
  /\ window' = IF isOpen THEN [updateCache(window, c) EXCEPT !.code = onMachineStopped(window.code, c)]
               ELSE window

DebugIterationCompleted(c, user) ==
  /\ Reads
  /\ statusMap' = update(statusMap.of, c, "running", user)
  /\ window' = updateCache(window, c)

(* The session emits it before it sets its status to running.              *)
MachineRan ==
  /\ Reads
  /\ statusMap' = update(statusMap.of, core, "stopped", FALSE)
  /\ window' = updateCache(window, core)

MachineHalted == list' = 0 /\ window' = Closed

-----------------------------------------------------------------------------
(* The handlers of the session.                                            *)

initializeMachine ==
  /\ machine' = (machine % MaxMachines) + 1
  /\ core' = Fresh
  /\ status' = "stopped" /\ byUser' = TRUE
  /\ statusMap' = update(machine', core', "stopped", TRUE)
  /\ list' = machine'

startMachine ==
  /\ status = "halted"
  /\ initializeMachine
  /\ UNCHANGED <<iterated, window, dangling>>

halt ==
  /\ status' = "halted"
  /\ MachineHalted
  /\ dangling' = dangling \cup HaltedRead
  /\ UNCHANGED <<byUser, machine, iterated, statusMap>>

onHaltMachine == status # "halted" /\ halt /\ UNCHANGED core

(* The machine is stopped first, with the signal of stop(), whose effects  *)
(* the reset replaces; then it is deleted.                                 *)
StopRead == IF status = "running" THEN SlotsRead ELSE {}

onResetMachine ==
  /\ status # "halted"
  /\ \/ /\ initializeMachine
        /\ window' = IF isOpen THEN windowOf(machine', core') ELSE window
        /\ dangling' = dangling \cup StopRead
     \/ /\ status' = "halted" /\ byUser' = (byUser \/ status = "running")
        /\ MachineHalted
        /\ dangling' = dangling \cup StopRead \cup HaltedRead
        /\ UNCHANGED <<machine, core, statusMap>>
  /\ UNCHANGED iterated

onContinue ==
  /\ status = "stopped"
  /\ MachineRan
  /\ status' = "running" /\ byUser' = FALSE /\ iterated' = FALSE
  /\ UNCHANGED <<machine, core, list>>

stop ==
  /\ status = "running"
  /\ status' = "stopped" /\ byUser' = TRUE
  /\ MachineStopped(core, TRUE)
  /\ UNCHANGED <<machine, core, iterated, list>>

(* The core after some cycles: it may have stopped the machine.            *)
Ran(c) == c \in [ps : Ps, pc : Pc, reg : 0..1, cause : {"none", "breakpoint"}]

(* A batch of cycles, and a step of the user's: the machine halts, stops   *)
(* because of this core or of another, or goes on.                         *)
runIteration(c) ==
  /\ status = "running" /\ Ran(c)
  /\ core' = c
  /\ \/ halt
     \/ /\ status' = "stopped"
        /\ MachineStopped(c, byUser)
        /\ iterated' = TRUE
        /\ UNCHANGED <<byUser, machine, list>>
     \/ /\ c.cause = "none"
        /\ DebugIterationCompleted(c, byUser)
        /\ iterated' = TRUE
        /\ UNCHANGED <<status, byUser, machine, list>>

onStep(c) ==
  /\ status = "stopped" /\ Ran(c)
  /\ core' = c
  /\ \/ halt
     \/ /\ byUser' = TRUE
        /\ MachineStopped(c, TRUE)
        /\ UNCHANGED <<status, machine, iterated, list>>

-----------------------------------------------------------------------------
(* The handlers of the windows.                                            *)

showCpuWindow ==
  /\ status # "halted" /\ ~isOpen
  /\ window' = windowOf(machine, core)
  /\ UNCHANGED <<status, byUser, machine, core, iterated, statusMap, list, dangling>>

closeCpuWindow ==
  /\ isOpen
  /\ window' = Closed
  /\ dangling' = dangling \cup ReadBy("closeEvent", window.of)
  /\ UNCHANGED <<status, byUser, machine, core, iterated, statusMap, list>>

(* RegisterSetSnapshot::setData. *)
setData(v) ==
  /\ isOpen
  /\ dangling' = dangling \cup ReadBy("setData", window.of)
  /\ core' = [core EXCEPT !.reg = v]
  /\ window' = [window EXCEPT !.reg = v]
  /\ UNCHANGED <<status, byUser, machine, iterated, statusMap, list>>

Init ==
  /\ status = "halted" /\ byUser = FALSE /\ machine = 0 /\ core = Fresh /\ iterated = FALSE
  /\ statusMap = [of |-> 0, status |-> "none", location |-> -1]
  /\ list = 0 /\ window = Closed /\ dangling = {}

Next ==
  \/ startMachine \/ onHaltMachine \/ onResetMachine \/ onContinue \/ stop
  \/ \E c \in [ps : Ps, pc : Pc, reg : 0..1, cause : {"none", "breakpoint"}] : runIteration(c) \/ onStep(c)
  \/ showCpuWindow \/ closeCpuWindow
  \/ \E v \in 0..1 : setData(v)

Spec == Init /\ [][Next]_vars

-----------------------------------------------------------------------------
(* While the machine is stopped the views show the core as it is: why it   *)
(* stopped, its PC, its registers and, if the PC is in code that can be    *)
(* shown, that code.                                                       *)
ShownWhenStopped ==
  status = "stopped" =>
    /\ statusMap.status = StatusOf(core, "stopped", byUser)
    /\ core.ps # "halted" => statusMap.location = core.pc
    /\ isOpen => /\ window.reg = core.reg
                 /\ core.ps # "halted" => window.code = loadCode(core)

(* A machine that has run a batch is not shown as stopped.                 *)
ShownWhenRunning ==
  (status = "running" /\ iterated) => statusMap.status \in {"Running", "Idle", "Halted"}

(* No view reads a machine that was deleted, except the window that        *)
(* MachineHalted closes, which does; and each that is open shows the       *)
(* present one.                                                            *)
NoDangling ==
  /\ dangling \subseteq {"MachineHalted"}
  /\ status # "halted" => list = machine /\ statusMap.of = machine
  /\ isOpen => status # "halted" /\ window.of = machine /\ window.map = machine
=============================================================================
