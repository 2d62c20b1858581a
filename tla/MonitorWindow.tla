----------------------------- MODULE MonitorWindow -----------------------------
(***************************************************************************)
(* The main window (qmps/monitor_window.cc) and the part of the session    *)
(* and of the application it shows (debug_session.cc, application.cc):     *)
(* which menu actions, tabs and windows are available, the stop mask, the  *)
(* speed, the configuration and the recent ones, the status line. A slot   *)
(* and the signals it emits are one step; a batch of cycles is another.    *)
(***************************************************************************)
EXTENDS Integers, Sequences

CONSTANTS
  Path,      \* configuration files
  MaxCpus,   \* a configuration has at most so many cores
  Terminal,  \* numbers of the terminals it may have
  MaxRecent, \* kMaxRecentConfigs
  MaxSpeed,  \* DebugSession::kMaxSpeed
  Cause,     \* the causes of the stop mask
  MaxTod     \* bound: the time of day starts again after it

VARIABLES
  status,        \* of the session: halted, stopped or running
  config,        \* the current configuration, or NULL
  machine,       \* the machine: its cores, terminals, stop mask and time, or NULL
  stopMask,      \* DebugSession::stopMask
  speed,         \* DebugSession::speed
  recents,       \* the setting RecentFiles
  commands,      \* the actions of the session that are enabled
  stoppoints,    \* the actions on stoppoints that are enabled
  canEdit,       \* editConfigAction is enabled
  canShow,       \* the actions that open a window and are enabled
  windows,       \* the windows of cores and terminals that are open
  tabs, tab,     \* the tabs that are enabled, the current one
  checked,       \* the stop mask actions that are checked
  speeds,        \* the checked speed action, the slider, and whether speed can grow, sink
  menu,          \* the recent configurations in the menu
  overview,      \* the configuration on the first tab; NULL is the welcome page
  shown,         \* the status line: status and time
  unsaved        \* history: the last edit could not be saved

session == <<status, config, machine, stopMask, speed, recents>>
vars == <<session, commands, stoppoints, canEdit, canShow, windows, tabs, tab, checked, speeds,
          menu, overview, shown, unsaved>>

NULL == [none |-> TRUE]
NoTod == 0 - 1

Tabs    == {"overview", "processors", "memory", "devices"}
Command == {"start", "halt", "toggle", "reset", "continue", "step", "stop", "toggleDebug"}
StoppointAction == {"add", "removeBreakpoint", "removeSuspect"}

Configs == [cpus : 1..MaxCpus, terminals : SUBSET Terminal]

NoRepeats(s) == \A i, j \in DOMAIN s : s[i] = s[j] => i = j
New(c)       == [cpus |-> c.cpus, terminals |-> c.terminals, mask |-> stopMask, tod |-> 0]
Cpus(c)      == {"cpu"} \X (0..c.cpus-1)
Terminals(c) == {"terminal"} \X c.terminals

-----------------------------------------------------------------------------
(* The slots that signals call, by the status and the rest they read.      *)
updateActionSensitivity(st, c) ==
  {a \in Command :
     CASE a = "start"                -> c # NULL /\ st = "halted"
       [] a \in {"halt", "reset"}    -> st # "halted"
       [] a = "toggle"               -> c # NULL
       [] a \in {"continue", "step"} -> st = "stopped"
       [] a = "stop"                 -> st = "running"
       [] a = "toggleDebug"          -> c # NULL /\ st # "halted"}

updateStoppointActionsSensitivity(st, t) ==
  {a \in StoppointAction :
     st = "stopped" /\ CASE a = "add"              -> TRUE
                         [] a = "removeBreakpoint" -> t = "processors"
                         [] a = "removeSuspect"    -> t = "memory"}

refreshAll(st, c, m) ==
  IF c = NULL THEN [text |-> "-", tod |-> NoTod]
  ELSE [text |-> st, tod |-> IF st = "halted" THEN NoTod ELSE m.tod]

StatusChanged(st, m, t) ==
  /\ commands' = updateActionSensitivity(st, config)
  /\ stoppoints' = updateStoppointActionsSensitivity(st, t)
  /\ shown' = refreshAll(st, config, m)

setStatus(st, m) ==
  /\ status' = st
  /\ IF st # status THEN StatusChanged(st, m, tab) ELSE UNCHANGED <<commands, stoppoints, shown>>

(* onMachineStarted, for MachineStarted and MachineReset. *)
onMachineStarted ==
  /\ canShow' = {w \in canShow : w[1] = "cpu"} \cup Cpus(config) \cup Terminals(machine')
  /\ tabs' = Tabs
  /\ canEdit' = FALSE

(* Mutant: the windows of the cores stay open. *)
KeepsWindows ==
  /\ windows' = {w \in windows : w[1] = "cpu"} /\ canShow' = {}
  /\ tabs' = {"overview"} /\ tab' = "overview"
  /\ canEdit' = TRUE

(* The toolkit leaves a tab that becomes disabled, for the first at last.  *)
onMachineHalted ==
  /\ windows' = {} /\ canShow' = {}
  /\ tabs' = {"overview"} /\ tab' = "overview"
  /\ canEdit' = TRUE

(* The machine is discarded, MachineHalted emitted, then the status set.   *)
Discard ==
  /\ machine' = NULL
  /\ onMachineHalted
  /\ status' = "halted"
  /\ StatusChanged("halted", NULL, "overview")

-----------------------------------------------------------------------------
Init ==
  /\ status = "halted" /\ config = NULL /\ machine = NULL
  /\ stopMask \in SUBSET Cause /\ checked = stopMask
  /\ speed \in 0..MaxSpeed
  /\ speeds = [checked |-> speed, slider |-> speed, up |-> speed # MaxSpeed, down |-> speed # 0]
  /\ \E n \in 0..MaxRecent : recents \in [1..n -> Path] /\ NoRepeats(recents)
  /\ menu = recents
  /\ commands = {} /\ stoppoints = {} /\ canEdit = FALSE /\ canShow = {} /\ windows = {}
  /\ tabs = {"overview"} /\ tab = "overview"
  /\ overview = NULL /\ shown = refreshAll("halted", NULL, NULL) /\ unsaved = FALSE

ui == <<stopMask, speed, checked, speeds>>
files == <<config, recents, menu, overview, unsaved>>

(* A machine that cannot be initialized leaves everything as it is. *)
startMachine ==
  /\ machine' = New(config)
  /\ setStatus("stopped", machine')
  /\ onMachineStarted
  /\ UNCHANGED <<windows, tab, ui, files>>

halt == status # "halted" /\ Discard /\ UNCHANGED <<ui, files>>

toggleMachine == IF "start" \in commands THEN startMachine ELSE halt

(* The machine is stopped first. The new one is shown by MachineReset, as  *)
(* the status may be what it was.                                          *)
onResetMachine ==
  \/ /\ machine' = New(config)
     /\ status' = "stopped"
     /\ IF status = "running" THEN /\ commands' = updateActionSensitivity("stopped", config)
                                   /\ stoppoints' = updateStoppointActionsSensitivity("stopped", tab)
        ELSE UNCHANGED <<commands, stoppoints>>
     /\ onMachineStarted
     /\ shown' = refreshAll("stopped", config, machine')
     /\ UNCHANGED <<windows, tab, ui, files>>
  \/ Discard /\ UNCHANGED <<ui, files>>

onContinue ==
  /\ setStatus("running", machine)
  /\ UNCHANGED <<machine, canEdit, canShow, windows, tabs, tab, ui, files>>

stop ==
  /\ setStatus(IF status = "running" THEN "stopped" ELSE status, machine)
  /\ UNCHANGED <<machine, canEdit, canShow, windows, tabs, tab, ui, files>>

toggleDebug == IF "continue" \in commands THEN onContinue ELSE stop

Ran == machine' = [machine EXCEPT !.tod = (@ + 1) % (MaxTod + 1)]

(* The machine runs, for a step of the user or a batch of the timer, and   *)
(* stops: the status has changed on the way in any case.                   *)
Stopped ==
  /\ Ran
  /\ status' = "stopped" /\ StatusChanged("stopped", machine', tab)
  /\ UNCHANGED <<canEdit, canShow, windows, tabs, tab, ui, files>>

(* Or it runs until a core asks for power-off. *)
PoweredOff == Discard /\ UNCHANGED <<ui, files>>

onStep == Stopped \/ PoweredOff

(* Or goes on: DebugIterationCompleted. *)
runIteration ==
  \/ Stopped
  \/ PoweredOff
  \/ /\ Ran
     /\ shown' = [shown EXCEPT !.tod = machine'.tod]
     /\ UNCHANGED <<status, commands, stoppoints, canEdit, canShow, windows, tabs, tab, ui, files>>

-----------------------------------------------------------------------------
(* The list without p. *)
removeAll(s, p) ==
  LET kept[i \in 0..Len(s)] ==
        IF i = 0 THEN <<>> ELSE IF s[i] = p THEN kept[i - 1] ELSE Append(kept[i - 1], s[i])
  IN  kept[Len(s)]

(* removeAll, prepend, and removeLast while the list is too long.          *)
Recent(p) ==
  LET l == <<p>> \o removeAll(recents, p)
  IN  SubSeq(l, 1, IF Len(l) <= MaxRecent THEN Len(l) ELSE MaxRecent)

(* setCurrentConfig: the session is halted while the old configuration is  *)
(* still there; MachineConfigChanged. The page with the configuration is   *)
(* made the first time, and only then the action to edit it enabled here.  *)
setCurrentConfig(p, c) ==
  /\ machine' = NULL /\ status' = "halted"
  /\ IF status # "halted"
     THEN /\ onMachineHalted
          /\ stoppoints' = updateStoppointActionsSensitivity("halted", "overview")
     ELSE /\ canEdit' = (canEdit \/ overview = NULL)
          /\ tab' = (IF overview = NULL THEN "overview" ELSE tab)
          /\ UNCHANGED <<stoppoints, canShow, windows, tabs>>
  /\ config' = c /\ overview' = c /\ unsaved' = FALSE
  /\ commands' = {"start", "toggle"} \cup
       IF status # "halted" THEN updateActionSensitivity("halted", config) ELSE commands
  /\ recents' = Recent(p) /\ menu' = recents'
  /\ shown' = refreshAll("halted", c, NULL)
  /\ UNCHANGED ui

(* Creating one or opening one, which asks first if a machine is on, and   *)
(* opening a recent one, which does not; a file that cannot be read leaves *)
(* everything as it is.                                                    *)
LoadConfig         == \E p \in Path, c \in Configs : setCurrentConfig(p, c)
onLoadRecentConfig == \E i \in DOMAIN menu, c \in Configs : setCurrentConfig(menu[i], c)

clearConfigs ==
  /\ recents # <<>>
  /\ recents' = <<>> /\ menu' = <<>>
  /\ tab' = (IF overview = NULL THEN "overview" ELSE tab)
  /\ stoppoints' = updateStoppointActionsSensitivity(status, tab')
  /\ UNCHANGED <<status, config, machine, commands, canEdit, canShow, windows, tabs, overview, shown,
                 unsaved, ui>>

(* The dialog changes the configuration itself; the page shows the change  *)
(* when it could be saved.                                                 *)
editConfig ==
  /\ config' \in Configs
  /\ \/ overview' = config' /\ unsaved' = FALSE
     \/ UNCHANGED overview /\ unsaved' = TRUE
  /\ UNCHANGED <<status, machine, recents, menu, commands, stoppoints, canEdit, canShow, windows, tabs,
                 tab, shown, ui>>

setStopMask ==
  /\ stopMask' = checked'
  /\ machine' = IF machine = NULL THEN machine ELSE [machine EXCEPT !.mask = stopMask']

onStopMaskChanged(s) ==
  /\ checked' = (IF s \in checked THEN checked \ {s} ELSE checked \cup {s})
  /\ setStopMask
  /\ UNCHANGED <<status, commands, stoppoints, canEdit, canShow, windows, tabs, tab, shown, speed, speeds,
                 files>>

(* The slider, a speed of the menu, or one more or less than now: the last *)
(* two are disabled at the ends. SpeedChanged brings all others in line.   *)
setSpeed(v) ==
  /\ speed' = v
  /\ speeds' = [checked |-> v, slider |-> v, up |-> v # MaxSpeed, down |-> v # 0]
  /\ UNCHANGED <<status, machine, stopMask, checked, commands, stoppoints, canEdit, canShow, windows, tabs,
                 tab, shown, files>>

ChangeSpeed ==
  \/ \E v \in 0..MaxSpeed : v # speed /\ setSpeed(v)
  \/ speeds.up /\ setSpeed(speed + 1)
  \/ speeds.down /\ setSpeed(speed - 1)

(* An action of the menu, or a row of the list of cores, opens a window. *)
Showable == canShow \cup IF machine = NULL THEN {} ELSE Cpus(config)

showWindow(w) ==
  /\ windows' = windows \cup {w}
  /\ UNCHANGED <<session, commands, stoppoints, canEdit, canShow, tabs, tab, checked, speeds, menu,
                 overview, shown, unsaved>>

closeWindow(w) ==
  /\ windows' = windows \ {w}
  /\ UNCHANGED <<session, commands, stoppoints, canEdit, canShow, tabs, tab, checked, speeds, menu,
                 overview, shown, unsaved>>

currentChanged(t) ==
  /\ tab' = t
  /\ stoppoints' = updateStoppointActionsSensitivity(status, t)
  /\ UNCHANGED <<session, commands, canEdit, canShow, windows, tabs, checked, speeds, menu, overview,
                 shown, unsaved>>

Next ==
  \/ "start" \in commands /\ startMachine
  \/ "halt" \in commands /\ halt
  \/ "toggle" \in commands /\ toggleMachine
  \/ "reset" \in commands /\ onResetMachine
  \/ "continue" \in commands /\ onContinue
  \/ "step" \in commands /\ onStep
  \/ "stop" \in commands /\ stop
  \/ "toggleDebug" \in commands /\ toggleDebug
  \/ status = "running" /\ runIteration
  \/ LoadConfig \/ onLoadRecentConfig \/ clearConfigs
  \/ canEdit /\ editConfig
  \/ \E s \in Cause : onStopMaskChanged(s)
  \/ ChangeSpeed
  \/ \E w \in Showable : showWindow(w)
  \/ \E w \in windows : closeWindow(w)
  \/ \E t \in tabs : currentChanged(t)

Spec == Init /\ [][Next]_vars
-----------------------------------------------------------------------------
TypeOK ==
  /\ status \in {"halted", "stopped", "running"}
  /\ config \in Configs \cup {NULL} /\ overview \in Configs \cup {NULL}
  /\ machine = NULL \/ machine.tod \in 0..MaxTod
  /\ stopMask \subseteq Cause /\ speed \in 0..MaxSpeed
  /\ tabs \subseteq Tabs /\ tab \in Tabs
  /\ canEdit \in BOOLEAN /\ unsaved \in BOOLEAN

(* Whatever was loaded, edited, started, reset or switched off, and by the *)
(* user or by the guest, exactly the actions are enabled whose slots can   *)
(* run: none of their assertions on the status, on the configuration and   *)
(* on the lists of stoppoints can fail, and what can be done is offered.   *)
Offered ==
  /\ commands = updateActionSensitivity(status, config)
  /\ stoppoints = updateStoppointActionsSensitivity(status, tab)
  /\ canEdit <=> config # NULL /\ status = "halted"
  /\ status # "halted" => config # NULL
  /\ tab \in tabs

(* Windows are open, and can be opened, of the cores and terminals of the  *)
(* present machine only, and that machine is as the configuration says.    *)
WindowsOfMachine ==
  /\ machine # NULL <=> status # "halted"
  /\ machine # NULL => machine.cpus = config.cpus /\ machine.terminals = config.terminals
  /\ canShow = IF machine = NULL THEN {} ELSE Cpus(machine) \cup Terminals(machine)
  /\ windows \subseteq canShow

(* The machine stops for the causes that are checked.                      *)
MaskKept == stopMask = checked /\ (machine # NULL => machine.mask = checked)

(* The status line shows the status, and the time unless the machine has   *)
(* run since, which it has not when it is stopped; the first tab shows the *)
(* configuration, unless its last change could not be saved.               *)
LineTrue ==
  /\ shown = refreshAll(status, config, machine)
  /\ ~unsaved => overview = config
  /\ speeds = [checked |-> speed, slider |-> speed, up |-> speed # MaxSpeed, down |-> speed # 0]
  /\ speed \in 0..MaxSpeed

(* The recent files are in the menu, none twice, and not too many.         *)
RecentsKept ==
  /\ recents \in Seq(Path) /\ Len(recents) <= MaxRecent /\ NoRepeats(recents)
  /\ menu = recents
=============================================================================
