--------------------------- MODULE TraceBrowser ---------------------------
(***************************************************************************)
(* The browser of traced regions (frontends/qmps/trace_browser.cc) and its *)
(* list model: which row is selected, the widget kept for each traced      *)
(* region by identifier, and the flags that tell which regions were        *)
(* written since their widget was last refreshed.                          *)
(*                                                                         *)
(* A region is one value of Region, its contents one of two. The list view *)
(* is Qt's: it moves the selection off a row before the row is removed.    *)
(***************************************************************************)
EXTENDS Naturals, Sequences

CONSTANTS
  Region,   \* regions of memory, none overlapping another
  MaxTrace, \* bound: traced regions at a time, and their identifiers
  None

VARIABLES
  traces,   \* the tracepoints: sequence of [id, region]
  dirty,    \* TracepointListModel::dirtySet
  viewMap,  \* TraceBrowser::viewMap, [id -> [type, widget]]
  top,      \* id of the widget shown by viewStack, or None
  selected, \* selected row, 0 if none
  memory,   \* [Region -> BOOLEAN]
  status,   \* of the session: halted, stopped or running
  unseen    \* history: regions changed by CAS since their widget was refreshed

vars == <<traces, dirty, viewMap, top, selected, memory, status, unseen>>


Id      == 0..MaxTrace-1
Type    == {"hex", "ascii"}
Widget  == [region : Region, shown : BOOLEAN]
View    == [type : Type, widget : Widget \cup {None}]

Put(f, k, v) == [j \in DOMAIN f \cup {k} |-> IF j = k THEN v ELSE f[j]]
Del(f, k)    == [j \in DOMAIN f \ {k} |-> f[j]]
Without(s, i) == [j \in 1..Len(s)-1 |-> IF j < i THEN s[j] ELSE s[j + 1]]
Fresh(r)     == [region |-> r, shown |-> memory[r]]
(* All widgets deleted; the QPointers of the map become null. *)
Deleted      == [k \in DOMAIN viewMap |-> [viewMap[k] EXCEPT !.widget = None]]

nextId == CHOOSE n \in 0..MaxTrace :
            /\ \A i \in DOMAIN traces : traces[i].id < n
            /\ n = 0 \/ \E i \in DOMAIN traces : traces[i].id + 1 = n

-----------------------------------------------------------------------------
(* Mutant: the widget of a row that was written meanwhile is shown as it is *)
SelectStale(i, ts, ds, vm) ==
  LET p == ts[i] IN
  /\ selected' = i /\ top' = p.id /\ dirty' = ds
  /\ viewMap' = IF p.id \notin DOMAIN vm THEN Put(vm, p.id, [type |-> "hex", widget |-> Fresh(p.region)])
                ELSE IF vm[p.id].widget = None THEN [vm EXCEPT ![p.id].widget = Fresh(p.region)]
                ELSE vm
  /\ unseen' = unseen

(* onSelectionChanged, to row i of the given list and map: the row's       *)
(* widget is created, created again if it was deleted, or refreshed if it  *)
(* is marked.                                                              *)
Select(i, ts, ds, vm) ==
  LET p     == ts[i]
      known == p.id \in DOMAIN vm
      alive == known /\ vm[p.id].widget # None
      type  == IF known THEN vm[p.id].type ELSE "hex"
  IN /\ selected' = i /\ top' = p.id
     /\ IF alive /\ ~ds[i]
        THEN viewMap' = vm /\ dirty' = ds /\ unseen' = unseen
        ELSE /\ viewMap' = Put(vm, p.id, [type |-> type,
                  widget |-> IF alive THEN Fresh(vm[p.id].widget.region) ELSE Fresh(p.region)])
             /\ dirty' = IF alive THEN [ds EXCEPT ![i] = FALSE] ELSE ds
             /\ unseen' = unseen \ {p.region}

(* refreshView, after an iteration and when the machine stops: the widget  *)
(* on top is refreshed if the selected row is marked.                      *)
refreshView ==
  IF selected # 0 /\ dirty[selected]
  THEN /\ dirty' = [dirty EXCEPT ![selected] = FALSE]
       /\ viewMap' = [viewMap EXCEPT ![top].widget = Fresh(@.region)]
       /\ unseen' = unseen \ {viewMap[top].widget.region}
  ELSE UNCHANGED <<dirty, viewMap, unseen>>

-----------------------------------------------------------------------------
Init ==
  /\ traces = <<>> /\ dirty = <<>> /\ viewMap = <<>> /\ top = None /\ selected = 0
  /\ memory = [r \in Region |-> FALSE] /\ status = "halted" /\ unseen = {}

(* onMachineStarted, on power-on and reset: the program may have moved the *)
(* regions and lost some to overlaps.                                      *)
onMachineStarted ==
  /\ status' = "stopped"
  /\ memory' \in [Region -> {FALSE}] \* a new machine
  /\ \E at \in UNION {[1..n -> DOMAIN traces] : n \in 0..Len(traces)}, to \in [DOMAIN traces -> Region] :
       /\ \A j, k \in DOMAIN at : j < k => at[j] < at[k] /\ to[at[j]] # to[at[k]]
       /\ traces' = [k \in DOMAIN at |-> [traces[at[k]] EXCEPT !.region = to[at[k]]]]
  /\ IF traces' = <<>>
     THEN dirty' = <<>> /\ viewMap' = Deleted /\ top' = None /\ selected' = 0
     ELSE LET p == traces'[1] IN
          /\ dirty' = [i \in DOMAIN traces' |-> FALSE]
          /\ selected' = 1 /\ top' = p.id
          /\ viewMap' = Put(Deleted, p.id,
               [type |-> IF p.id \in DOMAIN viewMap THEN viewMap[p.id].type ELSE "hex",
                widget |-> [region |-> p.region, shown |-> FALSE]])
  /\ unseen' = {}

onMachineHalted ==
  /\ status # "halted" /\ status' = "halted"
  /\ viewMap' = Deleted /\ dirty' = <<>> /\ selected' = 0 /\ top' = None
  /\ UNCHANGED <<traces, memory, unseen>>

(* Another configuration: the tracepoints are cleared, viewMap is not. *)
onMachineConfigChanged ==
  /\ status = "halted" /\ traces' = <<>>
  /\ UNCHANGED <<dirty, viewMap, top, selected, memory, status, unseen>>

(* AddTracepoint, and onTracepointAdded: the first row is selected if none *)
(* was.                                                                    *)
AddTracepoint(r) ==
  /\ status = "stopped" /\ nextId < MaxTrace
  /\ \A i \in DOMAIN traces : traces[i].region # r
  /\ traces' = Append(traces, [id |-> nextId, region |-> r])
  /\ IF selected = 0 THEN Select(1, traces', Append(dirty, FALSE), viewMap)
     ELSE dirty' = Append(dirty, FALSE) /\ UNCHANGED <<viewMap, top, selected, unseen>>
  /\ UNCHANGED <<memory, status>>

(* removeTracepoint: the widget goes first, then the view selects the next *)
(* row, or the one before, and the row is removed.                         *)
removeTracepoint ==
  /\ status = "stopped" /\ selected # 0
  /\ traces' = Without(traces, selected)
  /\ LET vm   == Del(viewMap, traces[selected].id)
         rest == Without(dirty, selected)
     IN IF traces' = <<>>
        THEN dirty' = rest /\ viewMap' = vm /\ top' = None /\ selected' = 0 /\ UNCHANGED unseen
        ELSE Select(IF selected < Len(traces) THEN selected ELSE selected - 1, traces', rest, vm)
  /\ UNCHANGED <<memory, status>>

SelectRow(i) ==
  /\ status # "halted" /\ i # selected
  /\ Select(i, traces, dirty, viewMap)
  /\ UNCHANGED <<traces, memory, status>>

Deselect ==
  /\ status # "halted" /\ selected # 0 /\ selected' = 0
  /\ UNCHANGED <<traces, dirty, viewMap, top, memory, status, unseen>>

onDelegateTypeChanged(t) ==
  /\ status # "halted" /\ selected # 0
  /\ LET p == traces[selected] IN
       /\ viewMap[p.id].type # t
       /\ viewMap' = [viewMap EXCEPT ![p.id] = [type |-> t, widget |-> Fresh(p.region)]]
       /\ unseen' = unseen \ {p.region}
       /\ top' = p.id
  /\ UNCHANGED <<traces, dirty, selected, memory, status>>

Run ==
  /\ status = "stopped" /\ status' = "running"
  /\ UNCHANGED <<traces, dirty, viewMap, top, selected, memory, unseen>>

(* A store or a DMA transfer: HandleBusAccess marks the region's row. *)
Write(r) ==
  /\ status = "running"
  /\ memory' = [memory EXCEPT ![r] = ~@]
  /\ dirty' = [i \in DOMAIN dirty |-> dirty[i] \/ traces[i].region = r]
  /\ UNCHANGED <<traces, viewMap, top, selected, status, unseen>>

(* SystemBus::CompareAndSet writes without telling HandleBusAccess. *)
CompareAndSet(r) ==
  /\ status = "running"
  /\ memory' = [memory EXCEPT ![r] = ~@]
  /\ unseen' = unseen \cup {r}
  /\ UNCHANGED <<traces, dirty, viewMap, top, selected, status>>

(* DebugIterationCompleted, and MachineStopped. *)
Refresh ==
  /\ status = "running" /\ status' \in {"running", "stopped"}
  /\ refreshView
  /\ UNCHANGED <<traces, top, selected, memory>>

Next ==
  \/ onMachineStarted \/ onMachineHalted \/ onMachineConfigChanged
  \/ removeTracepoint \/ Deselect \/ Run \/ Refresh
  \/ \E r \in Region : AddTracepoint(r) \/ Write(r) \/ CompareAndSet(r)
  \/ \E i \in DOMAIN traces : SelectRow(i)
  \/ \E t \in Type : onDelegateTypeChanged(t)

Spec == Init /\ [][Next]_vars
-----------------------------------------------------------------------------
TypeOK ==
  /\ traces \in Seq([id : Id, region : Region]) /\ dirty \in Seq(BOOLEAN)
  /\ DOMAIN viewMap \subseteq Id /\ \A k \in DOMAIN viewMap : viewMap[k] \in View
  /\ top \in Id \cup {None} /\ selected \in 0..Len(traces)
  /\ memory \in [Region -> BOOLEAN] /\ status \in {"halted", "stopped", "running"}
  /\ unseen \subseteq Region

(* With the machine stopped, the browser shows the selected region, not    *)
(* that of another row or of a region that had its identifier before, and  *)
(* shows what is in memory, whatever was selected, retyped, removed, moved *)
(* by a reset or written before; only CAS can make it lie.                 *)
ShowsSelected ==
  status = "stopped" /\ selected # 0 =>
    LET p == traces[selected]
        w == viewMap[top].widget
    IN /\ Len(dirty) = Len(traces)
       /\ top = p.id /\ top \in DOMAIN viewMap /\ w # None
       /\ w.region = p.region
       /\ w.shown = memory[p.region] \/ p.region \in unseen
=============================================================================
