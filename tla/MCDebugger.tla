------------------------------ MODULE MCDebugger ------------------------------
(***************************************************************************)
(* Small instances of the debugger: its session, its stoppoints, the       *)
(* browser of traced regions and its editor, the views of a core, the      *)
(* configuration of the machine, the main window.  A behaviour runs one of *)
(* them; the session is halted meanwhile, the others are Off.              *)
(***************************************************************************)
EXTENDS DebugSession, StoppointParameters

CONSTANTS e1,
          Region, MaxTrace,                                   \* of TraceBrowser
          Length, Bad, Changing, Digits,                      \* of HexView
          MaxMachines, Pc, BiosSize, BootBase, BootSize,
          RamBase, Floor, Functions,                          \* of ProcessorViews
          Path, MinTlb, MaxTlb, MinRam, MaxRam, DefaultRam, MaxCpus, Device, \* of Configuration
          Document, MaxRecent, MaxSpeed, Cause, Terminal, MaxTod       \* of MonitorWindow

(* The functions that the code is shown of.                                *)
MCFunctions == {<<4, 5>>}

(* A device without file, one switched off, one without address of its own.*)
MCDevice == {[file |-> "", enabled |-> TRUE, mac |-> "fixed"],
             [file |-> "tap", enabled |-> FALSE, mac |-> "fixed"],
             [file |-> "tap", enabled |-> TRUE, mac |-> ""]}

VARIABLES active,
          points, addressMap, rows, symbols, pStatus, hits,
          traces, dirty, viewMap, top, selected, memory, vStatus, unseen,
          hexText, pos, rev, digits, wanted,
          sStatus, byUser, made, core, iterated, statusMap, list, window, dangling,
          config, path, files, built, clean, byHand, handmade,
          wStatus, loaded, present, stopMask, speed, recents, commands, stoppoints, canEdit, canShow,
          windows, tabs, tab, checked, speeds, menu, overview, shown, unsaved

P == INSTANCE Stoppoints WITH status <- pStatus
V == INSTANCE TraceBrowser WITH status <- vStatus
X == INSTANCE HexView WITH mem <- digits, text <- hexText, WS <- 2, PerRow <- 2
S == INSTANCE ProcessorViews WITH status <- sStatus, machine <- made
C == INSTANCE Configuration WITH machine <- built
G == INSTANCE MonitorWindow WITH status <- wStatus, config <- loaded, machine <- present, Path <- Document

ASSUME BrowserAssumption == MaxTrace \in Nat /\ None \notin V!Widget
ASSUME EditorAssumption  == Length \in Nat \ {0} /\ Digits \subseteq Nat /\ 0 \in Digits
ASSUME LayoutAssumption  ==
  /\ BiosSize \in Nat /\ BootBase \in Nat /\ BootSize \in Nat /\ RamBase \in Nat /\ Floor \in Nat
  /\ BiosSize <= BootBase /\ BootBase + BootSize <= RamBase /\ RamBase <= Floor
  /\ MaxMachines \in Nat \ {0} /\ Pc \subseteq Int
ASSUME FunctionsAssumption ==
  /\ \A f \in Functions : f[1] \in Nat /\ f[2] \in Nat /\ RamBase <= f[1]
  /\ \A f, g \in Functions : f # g => f[2] < g[1] \/ g[2] < f[1]
ASSUME ConfigurationAssumption ==
  /\ MinTlb \in Nat \ {0} /\ MaxTlb \in Nat /\ MinTlb <= MaxTlb
  /\ C!Factory.tlb \in C!TlbSizes
  /\ MinRam \in Nat \ {0} /\ DefaultRam \in MinRam..MaxRam /\ MaxRam \in Nat
  /\ MaxCpus \in Nat \ {0}
ASSUME WindowAssumption ==
  MaxRecent \in Nat \ {0} /\ MaxSpeed \in Nat /\ MaxTod \in Nat

pVars == <<points, addressMap, rows, symbols, pStatus, hits>>
vVars == <<traces, dirty, viewMap, top, selected, memory, vStatus, unseen>>
xVars == <<hexText, pos, rev, digits, wanted>>
sVars == <<sStatus, byUser, made, core, iterated, statusMap, list, window, dangling>>
cVars == <<config, path, files, built, clean, byHand, handmade>>
gVars == <<wStatus, loaded, present, stopMask, speed, recents, commands, stoppoints, canEdit, canShow,
           windows, tabs, tab, checked, speeds, menu, overview, shown, unsaved>>
allVars == <<vars, active, pVars, vVars, xVars, sVars, cVars, gVars>>

Off == "off"

MCInit ==
  /\ active \in {"session", "stoppoints", "traces", "editor", "views", "configuration", "window"}
  /\ Init
  /\ IF active = "stoppoints" THEN P!Init
     ELSE /\ points = Off /\ addressMap = Off /\ rows = Off
          /\ symbols = Off /\ pStatus = Off /\ hits = Off
  /\ IF active = "traces" THEN V!Init
     ELSE /\ traces = Off /\ dirty = Off /\ viewMap = Off /\ top = Off
          /\ selected = Off /\ memory = Off /\ vStatus = Off /\ unseen = Off
  /\ IF active = "editor" THEN X!Init
     ELSE hexText = Off /\ pos = Off /\ rev = Off /\ digits = Off /\ wanted = Off
  /\ IF active = "views" THEN S!Init
     ELSE /\ sStatus = Off /\ byUser = Off /\ made = Off /\ core = Off /\ iterated = Off
          /\ statusMap = Off /\ list = Off /\ window = Off /\ dangling = Off
  /\ IF active = "configuration" THEN C!Init
     ELSE /\ config = Off /\ path = Off /\ files = Off /\ built = Off
          /\ clean = Off /\ byHand = Off /\ handmade = Off
  /\ IF active = "window" THEN G!Init
     ELSE /\ wStatus = Off /\ loaded = Off /\ present = Off /\ stopMask = Off /\ speed = Off
          /\ recents = Off /\ commands = Off /\ stoppoints = Off /\ canEdit = Off /\ canShow = Off
          /\ windows = Off /\ tabs = Off /\ tab = Off /\ checked = Off /\ speeds = Off
          /\ menu = Off /\ overview = Off /\ shown = Off /\ unsaved = Off

MCNext ==
  \/ active = "session" /\ Next /\ UNCHANGED <<active, pVars, vVars, xVars, sVars, cVars, gVars>>
  \/ active = "stoppoints" /\ P!Next /\ UNCHANGED <<active, vars, vVars, xVars, sVars, cVars, gVars>>
  \/ active = "traces" /\ V!Next /\ UNCHANGED <<active, vars, pVars, xVars, sVars, cVars, gVars>>
  \/ active = "editor" /\ X!Next /\ UNCHANGED <<active, vars, pVars, vVars, sVars, cVars, gVars>>
  \/ active = "views" /\ S!Next /\ UNCHANGED <<active, vars, pVars, vVars, xVars, cVars, gVars>>
  \/ active = "configuration" /\ C!Next /\ UNCHANGED <<active, vars, pVars, vVars, xVars, sVars, gVars>>
  \/ active = "window" /\ G!Next /\ UNCHANGED <<active, vars, pVars, vVars, xVars, sVars, cVars>>

MCSpec == MCInit /\ [][MCNext]_allVars /\ Fairness

-----------------------------------------------------------------------------

(* Stoppoints do not overlap and the probe finds every one that should     *)
(* stop the machine.                                                       *)
ProbeFinds == active = "stoppoints" => P!Distinct /\ P!ProbeFindsHere

(* The list of stoppoints says what the set holds and who hit it last.     *)
RowsTruth == active = "stoppoints" => P!RowsTruth

(* The traced region that is selected is shown as it is, while the machine *)
(* is stopped, and editing a digit of it changes that digit.               *)
ShowsSelected ==
  /\ active = "traces" => V!TypeOK /\ V!ShowsSelected
  /\ active = "editor" => X!EditsExact /\ X!CursorOnDigit /\ X!TextOfMemory

(* The views of a core show the present machine, as it is when it stops,   *)
(* and read no deleted one, except the window that MachineHalted closes.   *)
CoreShown == active = "views" => S!ShownWhenStopped /\ S!ShownWhenRunning /\ S!NoDangling

(* What is saved, shown and built is what was configured.                  *)
ConfigurationKept == active = "configuration" =>
                       C!Kept /\ C!FloorFollowsRam /\ C!MachineAsConfigured

(* The main window offers what can be done, of the machine that is there,  *)
(* and shows it as it is; the recent configurations are listed once each.  *)
WindowFits == active = "window" => /\ G!TypeOK /\ G!Offered /\ G!WindowsOfMachine
                                   /\ G!MaskKept /\ G!LineTrue /\ G!RecentsKept
==============================================================================
