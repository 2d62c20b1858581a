# Verification of uMPS3

uMPS3 is an emulator of a multiprocessor MIPS-like computer with a graphical
debugger. This directory holds TLA+ models of it, the TLC runs that check
them on small instances, and proofs for the parts where a proof for all
instances is worth having. Paths below are relative to the repository's `src/`.

## 1. The system

The emulated machine is single-threaded C++: `Machine::step` advances a clock,
runs the events that are due and lets every core execute one instruction. What
makes it hard is not parallel threads but *interleaving by time*: several cores
and many devices act within a tick, an operation started by one instruction
completes in a callback many ticks later, cores sleep and are woken, whole
stretches of idle ticks are skipped in one go, and the user acts between any
two batches of ticks.

| component | code | state | operations |
|---|---|---|---|
| event queue | `umps/event.cc`, `SystemBus::scheduleEvent/ClockTick/Skip` | sorted list of deadlines and callbacks, pointer to the last insertion | insert, remove the head, scan at every tick, skip |
| bus | `umps/systembus.cc`, `memspace.cc` | time of day, interval timer, memories, device registers | tick, access by a core, by the debugger or by a device |
| interrupt controller | `umps/mpic.cc` | routing table, arbiter, per-core masks, bitmaps, inboxes, priorities | raise, acknowledge, route, send and take messages |
| multiprocessor controller | `umps/mp_controller.cc` | boot registers | reset or halt a core, power off |
| machine loop | `umps/machine.cc` | stop and pause requests, halted flag | `step`, `idleCycles`, `skip`; observation of accesses |
| processor | `umps/processor.cc`, `utility.cc` | registers, pipeline, TLB, power status, local timer | one cycle, exceptions, interrupts, translation, idle cycles |
| devices | `umps/device.cc`, `blockdev.cc`, `vde_network.cc` | four registers each, and a buffer, file or queue | register write, completion callback |
| debug session | `frontends/qmps/debug_session.cc` | status, two timers, idle ticks left | power, continue, stop, step, reset, timer expiry |
| stoppoints, traces | `umps/stoppoint.cc`, `stoppoint_list_model.cc`, `trace_browser.cc`, `hex_view.cc` | disjoint ranges with a map by address, rows of the lists, views of traced memory | add, remove, relocate, probe, select, edit a digit |
| symbol table | `umps/symbol_table.cc` | functions and objects sorted by address | load, probe |
| views of a core | `cpu_status_map.cc`, `processor_window.cc`, `register_set_snapshot.cc`, `code_view.cc` | copies of the machine's state, pointers into it | slots of the session's signals |
| disassembler | `umps/disassemble.cc` | - | instruction to text |
| configuration | `umps/machine_config.cc`, `machine_config_dialog.cc`, `application.cc`, `base/json.cc` | parameters, a file | create, load, edit, save |
| main window | `monitor_window.cc`, `application.cc` | enabled actions, windows, tabs, stop mask, speed, recent files | slots of menus and of the session's signals |
| image tools | `umps/elf2umps.cc`, `mkdev.cc` | - | program or data to image files |
| BIOS, library | `support/bios`, `support/libumps` | exception vectors | boot, save and pass up, services |

How they interact: a core writes a device register through the bus; the device
schedules its completion on the event queue; the bus runs the callback, which
raises the device's source at the interrupt controller; that elects a core,
sets its CAUSE.IP bit and wakes it if it sleeps; the core takes the exception,
the BIOS saves its state and passes it to the kernel, whose next command
acknowledges the source on the same way back. The debug session drives all of it
by `step` and `skip` from two toolkit timers, and listens to stop and pause
requests, which stoppoints raise when the bus or the processor shows the machine
an access. Views follow the session's signals.

What makes each part correct, in a sentence:

* queue: every event fires once, at its tick, whatever was inserted when;
* bus: a word read is the last one stored there, whoever stored it and by
  whichever of its addresses;
* controller: an interrupt is pending where its acknowledgement will look for
  it, a shared line is up as long as one of its devices needs it, and a core
  sees only what the controller holds for it;
* machine: no interrupt is lost at WAIT, no deadline or underflow is skipped;
* processor: an instruction is completed once and in order, whatever faults or
  interrupts in its delay slots; a translation is the page table's; results are
  those of the instruction set;
* devices: each obeys the driver protocol (busy, one completion, one interrupt,
  acknowledgement), its buffers tell the truth, and every operation ends;
* session: one timer runs exactly when the session does; a skip never exceeds
  what the machine has idle *now*;
* debugger: every access in a stoppoint is found, lists and views show what is
  there, and the disassembler shows what the processor executes;
* main window: it offers what can be done, and shows the present machine;
* files: what is saved or made is what is loaded;
* BIOS: a program is resumed in the state it was interrupted in.

`PROJECT.json` lists the hazards of this code line by line ("hazards"), with
the properties that watch them, or the reason why none does.

## 2. Modules

| module | models | composition |
|---|---|---|
| `EventSchedule` | what a user of the queue expects: deadlines without a list | abstract |
| `EventQueue` | list, search pointer, scan, skip | refines `EventSchedule` |
| `SystemBus` | address map with the edges of its regions, core, debugger and DMA accesses | |
| `InterruptController` | routing, acknowledgement, inter-processor messages, CAUSE.IP | |
| `Machine` | loop, clock, interval timer, cores' power, local timers and interrupts | |
| `DebugSession` | the session driving a `Machine` | instances `Machine` and implements it |
| `DeviceProtocol` | what a driver expects of a device | abstract |
| `Terminal` | receiver and transmitter | each half refines `DeviceProtocol` |
| `Disk`, `Flash`, `Printer` | commands, buffer and file of the device | refine `DeviceProtocol` |
| `DiskTiming` | when the operations of a disk end | |
| `Ethernet` | interface with polls and packet queue | |
| `Tlb` | translation and the TLB instructions, with a kernel that keeps a page table | |
| `Pipeline` | cycle, delay slots, exceptions, the KU/IE stack | |
| `Arithmetic`, `Bytes` | results of computations, loads and stores of part of a word | |
| `Instructions` | what is decoded by the disassembler and by the processor | |
| `Bios` | exception entry, services, boot and start of cores | |
| `StoppointParameters`, `Stoppoints` | set, map and list of stoppoints, relocation, accesses that hit | |
| `TraceBrowser`, `HexView` | traced ranges and their views, the hexadecimal editor | |
| `MonitorWindow` | the main window, with the status and machine of the session and the recent files | |
| `ProcessorViews` | windows, registers, code and status of cores | |
| `SymbolTableParameters`, `SymbolTable` | loading and search | |
| `Configuration`, `Json` | the configuration from dialog to machine; its file | |
| `Images` | what the tools write and memory and devices read | |
| `...Proofs` | theorems | each extends the module it is named after |
| `MC...` | components composed for TLC | an instance with several components lets a behaviour run one of them (`active`) |

Operators with `Mutant:` in their comment are wrong variants of a definition,
mostly the one that follows them; each property of a run is violated when one of
them replaces its original.

### How state and actions correspond to the code

* **EventQueue.** `queue` is the list from `head`, an element an `Event` with its
  deadline; `lastIns` is the pointer of that name. `InsertQ` is split as the code
  is: before the head, or after the elements not later than it, walking from
  `lastIns` or the head. ClockTick is several steps, since callbacks insert in
  the middle of its scan: `ClockTick`, `RunCallback` (the callback then runs, and
  may `scheduleEvent`), `RemoveHead`, `EndClockTick`.
* **SystemBus.** A word of each kind has a name, which is also its key in the store
  that the code keeps it in; the areas follow one another as `const.h` lays them out,
  and a word that is not mapped stands wherever a region has one after it. A transfer without a core
  (`DMATransfer`) goes through memory and device registers alike, a word at a time up to the
  first invalid one. At a register that each core has for itself it follows the null
  pointer of its core: the program has then `ended`.
* **InterruptController.** `StartIRQ`, `EndIRQ`, `deliverIPI` and the register
  writes are one action each, and a source may raise and be acknowledged at any
  time; `cause` is the IP field of each core's CAUSE, set
  and cleared by the same calls as in the code. `leftAt` is history: the cores that
  a later interrupt of the same source left with theirs. Messages to other cores are in
  `flight` between the outbox write and the delivery, an event `kIpiLatency`
  later. A core acknowledges its inbox only when it has a message.
* **Machine.** `at`, `cur` and `left` say where `step` is: at the test of its loop, in
  the scan of events, or at the cycle of core `cur`. An instruction is one of those that
  touch the modelled state: WAIT, a write of the interval timer, a device command, or
  any other, which may stop the machine (exception, stoppoint). In the cycle of each
  `completeLoad` ends what the instruction before left pending: the local timer, STATUS,
  or a register that is not modelled, and both of the first two only when an exception
  ends the cycle. `timerLoaded` (history) says that it was the timer. `idleCycles` is
  the greatest number of ticks that satisfies `CanSkip`. Between two steps the program
  that drives the machine may skip, set a timer (`SetTimer`) or replace the machine
  (`PowerOn`).
* **DebugSession.** The handlers of the Qt event loop; one that calls `step`
  waits in `handler` for it to return, since nothing else of the session runs
  meanwhile. The two `QTimer`s are flags. `EditRegister` is the register view.
* **ProcessorViews.** Who reads the machine does so through the number of the one it points to;
  `dangling` collects the readers that met a machine deleted before (`Gone`), the event
  that closes a window among them.
* **Devices.** Time is relative: `toGo`, `cTime` and `events` count ticks to a deadline,
  and a device command or user action comes between two scans (`Drained`). `Disk`,
  `Flash` and `Printer` leave out durations, because nothing they promise depends on
  them; `DiskTiming` has those of the disk. A DMA transfer is a choice between success,
  failure at the first word and failure on the way.
* **Processor.** `Pipeline` keeps the fields of `Processor` that a cycle updates
  in one record, which operators named after the methods map on; the guest's
  handlers do what a kernel may do without touching a program's registers. `Tlb`
  has an action per TLB instruction; the page table and the order in which the
  kernel probes, writes or clears is any that follows the usual conventions, and
  external to this repository. `Instructions` meets every well-formed
  instruction and its neighbours with one field wrong. `Arithmetic` computes on
  words of `2 * Half` bits against integers.
* **Debugger.** `Stoppoints` keeps points and map apart, as the set does, and
  the rows of the list model with their hits. A slot of a view belongs to the
  step of the handler that emits its signal, in the order of the connections.
  In `MonitorWindow` a slot and the signals it emits are one step, in which the
  slots read the status as it is on that way; a batch of cycles is another step.
* **BIOS.** A program has an address, from `PCs`, in units of 2^28 bytes, for the BIOS
  tells its own exceptions by a test of EPC (`InBios`) and panics at them.
* **Files.** `Images` writes and reads files as sequences of words that are
  their own addresses, so that a block read from another's place shows. The device
  reads the geometry once, and looks for blocks at signed offsets of 32 bits, which
  are `Span` words; it panics at a negative one (`Panic`). `Json`
  takes one token a step, and also reads the text of a write that failed
  half-way. `Configuration` is composed with the dialog and the application that
  creates, loads and saves it.

## 3. Runs

| run | question | bounds | why they are enough |
|---|---|---|---|
| `bus` | event queue: every event fires, refinement; last store is read; symbol search exact and ending; files read as they were meant | 3 events, delays 1, 2, 4; a word or two of each region, transfers of 2 words; 3 functions and an object of sizes up to 2 among 4 addresses; programs of 3 + 2 words; offsets that span 32 words, five disks of 3 to 16 blocks and flash devices of 1, 2, 4 and 16 blocks of 2 words, 2 of them written at a time; documents of a string, a number and a keyword under 2 names, 2 items | insertion at head, middle, end and ties, with the pointer on each element; both edges of each region, and what lies between them; images that the positive offsets span, all offsets span, and larger; gaps, overlaps and touching symbols; pages with and without rest; every document is cut after each of its characters |
| `interrupts` | coherence under rerouting and repeated raising, where an acknowledgement reaches, bounded inboxes, arrival | 2 cores, 2 terminals of one line, each of which may raise again before it is acknowledged, 2 priorities, 2 messages in flight | two devices share a line, two cores can hold it, one of them left behind; a second message meets the first |
| `machine` | nothing is lost or skipped | 2 cores, timers modulo 3, one operation of 2 ticks, steps of 1 tick (those of 2 are in `debugger`) | timers wrap, also when set in the cycle of WAIT; wakeups between cores in mid-tick |
| `debugger` | one timer, legal skips, refinement of `Machine`, time goes on; probes, lists, traces, editor, views, configuration, main window with the recent files | session: 1 core, timers modulo 4, an operation of 2 ticks, batches and skips of 2; 3 stoppoints among 3 words; 2 traces, 3 words of 2 bytes; a map with BIOS, boot and RAM; 1 core to configure; a list of 2 recent files out of 3, 2 speeds | idle stretches longer than a chunk, and shorter; ranges that touch on both sides; a range selected, removed and added again; a word that cannot be read and one that changes; a third file drops the last one |
| `devices` | truth of buffers, shared callbacks and sources, protocol, operations end | 3 cylinders, 2 contents, 2 blocks, 3 characters printed; reset 3 ticks, character 2; operations of 1 or 3 ticks, polls every 2, 2 packets queued | a failed seek lands on a third cylinder; different and tying completion times; a poll before, at and after a completion; the packet queue fills up |
| `processor` | TLB, pipeline, decoding, results, BIOS | 4 entries, 3 pages, 2 address spaces; programs of 3 instructions; words of 6 bits, memory of 2 words; 2 cores, 2 programs at 3 addresses | RANDOM takes every value; branch, load and store in and after each other's slots; every pair of operands; an interrupted handler's program is another's, and one stands at the last address that is not taken for the BIOS's, one beyond |
| `irq_stale` | finding 1 | as `interrupts`, one priority, no messages | |
| `session_edits` | finding 2 | as the session of `debugger`, with edits | |
| `disk_write` | finding 3 | as the disk of `devices` | |
| `mult` | finding 4 | words of 4 bits | two bits are a half word: the middle products overflow |
| `bios_break` | finding 5 | 2 cores, 1 program at 3 addresses | |
| `disk_rotation` | finding 6 | 3 sectors of 4 ticks | every tick of a sector |

Bounds that are not in the code: `MaxTod` (EventQueue and DiskTiming; the run stops
there, so deadlock is not checked; the main window's clock starts again after it),
`MaxFlight` (messages in flight), `MaxWire` (packets at the socket), `MaxInput`
(characters typed ahead), `MaxPrinted`, `W` for 2^32 and `Span` for 2^32 bytes, the 16
values of `Address` for the high digit of an address, `Half` for the 16 bits of a half
word, `MaxSteps`, `MaxSkipped` for the length of a chunk, `MaxStored` (names that hold a
value at a time), `MaxPoints`, `MaxId` and `MaxTrace`, `MaxMachines` (numbers of
machines, used again in turn), `MaxSize`, `MaxFun` and `MaxObj` (symbols), `MaxText` and
`MaxData` (programs), `Geometries`, `Sizes` and `MaxWritten` (images), `MaxItems` (items
of an array) and the depth of `Roots` (an object, and objects and arrays in it) for the
documents.

In a run with several components a behaviour stays with one of them: the
instance checks their union, not their product. Where components do interact,
the interaction is in one module (`DebugSession` with `Machine`, the queue with
its schedule, the session's signals with the views, the dialog with the
configuration and the machine built from it), or a component stands for its promise
(an event of `EventQueue` fires, so that devices may rely on their completion).

**Fairness.** The machine loop of a running session keeps ticking and nothing
inside a tick blocks, so ticks, callbacks and scans are weakly fair
(`EventQueue`, `Terminal`, `Ethernet`; `Disk`, `Flash` and `Printer` assume no
more than that a scheduled completion happens, which is what `EventFires` says of
the queue). In `InterruptController` a delivery is such an event. In
`DebugSession` active Qt timers expire, and a handler runs to its end. In
`SymbolTable` the loop goes on. Users, guests and the network are never assumed
to do anything.

## 4. Findings

1. `mpic.cc:68`: a source raised again while pending, after its route changed (or
   under the dynamic policy), overwrites `lastTarget`; the first core keeps the bit for ever.
2. `debug_session.cc:454`: editing a timer in low-power mode makes the cached
   idle ticks stale: an underflow is skipped and `Processor::Skip` asserts.
3. `device.cc:991`: a disk write whose DMA from memory fails writes the buffer
   to the image all the same and reports success (the flash device likewise,
   line 1288).
4. `utility.cc:125`: `UnsMult` loses the carry of the sum of its middle products.
5. `exec.S:235`: a BREAK that is not a BIOS service is passed up through the
   address of the saved pointer instead of its content.
6. `device.cc:959`: an operation of the disk waits for the ticks of the current sector
   that have passed, as if they were those that remain (likewise line 1008).

### Remarks without a run

The models follow the code here too; the properties are stated so that they
hold beside it.

* `device.cc:1656`: READNET ORs 1 instead of READPENDING into STATUS, and no poll is
  scheduled then. `ReadShowsPending` of `Ethernet` states what a driver would expect;
  `Listening` how far it goes: the interface is deaf, neither polling nor busy nor
  showing READPENDING, after a read that left packets in its queue, until the driver
  starts another operation, and in no other case.
* RESET does not recalibrate the heads of a disk, although `device.cc:904` calls
  it so; a poll that expires during an operation of the network interface
  completes it before the completion time the device shows.
* `systembus.cc:268`: the store of a compare-and-set is not shown to stoppoints
  and traces. `machine.cc:156`: an access without a core is dereferenced.
* `processor.cc:667`: COPEOFFSET is 27, where the bits of CAUSE.CE begin at 28.
  `processor.cc:950`: TLBWR announces the entry of INDEX. `processor.cc:1654`:
  unaligned half words raise ADEL or ADES without BADVADDR.
* The disassembler shows the operands of variable shifts in the other order
  (`disassemble.cc:506`) and an ill-formed MTC0 as TLBCLR;
  `code_view.cc:204` computes the target of a jump from the jump itself, not
  from its delay slot.
* `hex_view.cc:199`: an edit writes a whole word back from a text that may be
  older; `EditsExact` exempts words that the program changed since.
* `debug_session.cc:339`: `MachineRan` is emitted before the status is set.
* `machine_config.cc:196`: `Save` truncates the file first and does not report a
  write that fails at the end. A TLB size in a file that is no power of two is
  shown by the dialog as 4. `json.cc` neither escapes strings nor reads
  the negative numbers it would write.
* `memspace.cc:67`: a core file exactly as large as RAM is refused, and a
  truncated one accepted; `mkdev.cc:423` warns of truncation when data fits exactly.
* `exec.S:166`: a core that is started loads its state through a pointer that
  was overwritten with 0 (`INITCPU` of `Bios`).
* `exec.S:202` and 218 tell exceptions of the BIOS by the sign of EPC less 0x10000000,
  and so panic for programs from 0x90000000 on as well (`InBios`); those are not resumed.
* `debug_session.cc:77` and 323: a halt, and a reset that fails, delete the machine and then
  emit `MachineHalted`. Its slot (`monitor_window.cc:747`) closes the windows of the cores,
  whose `closeEvent` (`processor_window.cc:113`) reads the deleted core. `NoDangling` of
  `ProcessorViews` exempts that reader, and no other.
* `device.cc:1058` and 1337 keep the offset of a block in a signed word, while `mkdev.cc` accepts
  disks of 65535 × 255 × 255 sectors and flash devices of 0xFFFFFF blocks. From 2 GiB on a
  block is looked for before the beginning of the file, and the program panics; from 4 GiB on
  two blocks share a place. `BlocksKept` is stated of what the offsets can tell apart.
* `device.cc:1288`: what finding 3 says of the flash device goes on: the torn block is in the image
  with READY, and the next read returns it. `FlashCoherent` exempts the blocks written so
  (`told` is `Torn`).
* `systembus.cc:296`: a transfer to or from the registers of a core (`mpic.cc:107`, CPUCTL and
  the core's bitmap) dereferences the core that a device does not have.

## 5. Proofs

| module | for every | theorems |
|---|---|---|
| `MCBusProofs` | set of events, positive delays, time bound; sizes of all areas, numbers of lines, devices and fields; symbol table; pages, headers, programs, geometries; letters, names, leaves and number of items of a document | `QueueSorted`, `LastInsNeverDangles`, `RemovesWhatItFired`, `CallbacksOnTime`, `QueueImplementsSchedule`, `QueueRuns`; `LastStoredIsRead`; `SymbolIsFound`; `ImagesAreRead`, `FilesAreRead` |
| `InterruptControllerProofs` | number of cores, sources, priorities | `MaskCoherent`, `AckFindsTarget`, `NoPhantom`, `InboxBounded`, `AckExact`, `OnlyResetLoses`, `ElectionRotates` |
| `MachineProofs` | number of cores, word size, events, positive delays | `NoLostWakeup`, `NoLateEvent`, `UnderflowsRaise` |
| `MCDevicesProofs` | geometry, contents, number of blocks, times, lengths of queues | `BufferNeverLies`, `ReadsDeliver`, `DiskImplementsDevice`; `FlashAndPrinter`, `SharedSource`, `CallbacksCounted`, `NeverDeaf`, `DevicesImplementProtocol` |
| `TerminalProofs` | positive times of operations, length of input | `SharedInterruptExact`, `CallbackFindsItsHalf`, `HalvesImplementDevice` |
| `MCProcessorProofs` | size of the TLB that the code supports, pages, address spaces, page tables; length of the program, its instructions and branch target; programs under the BIOS and their addresses, and cores, of which only the boot core runs programs; even width of a word, size of memory; fields of an instruction, its address | `ProbeIsUnambiguous`, `PinnedPageStays`, `NoStaleTranslation`; `ProgramsRunInOrder`, `ExceptionsArePrecise`; `ProgramsAreResumed`; `ResultsAreExact`; `DecodersAgree`, `InstructionsAreShown` |
| `StoppointsProofs` | ranges, symbol tables, address spaces, cores, number of stoppoints | `RangesStayApart`, `ProbeIsComplete`, `ListIsTrue` |
| `MCDebuggerProofs` | as `MachineProofs`, and any batch sizes and chunks; regions, length of the edited text, digits; maps, functions, program counters; limits of a configuration, devices, files; length of the list of recent files, speeds, stop causes | `OneTimerAlways`, `SkipsIdleTicks`, `SessionImplementsMachine`; `StoppointsAreFound`, `StoppointListIsTrue`, `SelectedIsShown`, `CoreIsShown`, `ConfigurationIsKept`, `WindowIsTrue` |

Where a module composes components, each is proved with an inductive invariant of
its own, and the theorem is then stated of `MCSpec`, the specification that the
run checks: a step of `MCNext` is a step of the active component and leaves the others alone.
Two modules bring in the proofs of a component they instance (`MCDebuggerProofs` those of
`Machine` and `Stoppoints`, `MCDevicesProofs` those of `Terminal`). The arguments:

* **Event queue.** None of the invariants is inductive alone. That a callback's
  insertion never displaces the head needs the head to be due (`OnTime`) and
  delays to be positive; that the pointer finds its place needs the list to be
  sorted and the pointer alive; that the list stays sorted needs both.
* **Bus.** The store behind every name holds what was stored last (`BusInv`). What the
  code adds is arithmetic: the areas follow one another (`Areas`, `InTurn`), a
  register's offset divided by the sizes of line and device gives back line, device and
  field (`Registers`), whatever in the area is a register (`OnlyRegisters`), and so
  `busRead` at a name's address finds that name (`Found`) and no two names share one. A
  transfer is single stores up to the first invalid word, in memory and registers alike
  (`Reached` are exactly those words); the data page and the registers touch, so that a
  transfer may go from one to the other.
* **Symbol table.** Tables are sorted (`Table`); the
  bounds of the search always enclose what holds the address, where symbols of a
  kind do not overlap.
* **Images.** The number of a block is a number in mixed digits (cylinder, head,
  sector), so that the places of two blocks, a page each, overlap neither each other nor
  the parameters in front (`ImageInv`). The offset of 32 bits is that place, or less by
  `Span`; so the blocks that are found are found there as long as the image is no larger
  than the offsets, and all are found in the half of it. The theorem says nothing of
  larger images, for nothing holds of them. A core file is compared with its program
  word by word, across header, text, rest of the page, data and what is not initialised;
  a ROM file that was cut is shorter than its header says, wherever it was cut.
* **Documents.** The argument has two halves. *Layout*: wherever the text of a node stands in a
  text, its tokens stand at known positions, and so do the texts of its members or items
  (`Spread`, `Laid`). The places where texts of nodes stand are therefore closed under
  going to the members (`Tree`). *Parser*: after `d` characters of the document the calls in
  progress are nodes of which the first `j` members or items have been read, one
  in the other, each where its layout says (`Fits`, `JsonInv`). The next token is the one
  the layout has there, or the document was cut before its end and there is
  none. `Serialize` is recursive: that it is defined on every node, and that its text
  has a length, follows from the depth of nodes, and what is concatenated is found
  by the least length for which it would not be so (`LeastOf`).
* **Interrupt controller.** Masks, bitmaps and CAUSE are coherent together.
  `AckReaches` holds of every source: its interrupt is pending exactly at `lastTarget` and
  at the cores in `leftAt`, so that finding 1 is the only way in which an
  acknowledgement misses one. That needs `lastTarget` never to be in `leftAt`
  (`TargetNotLeft`), or an acknowledgement would clear what it does not hold.
  `ElectionRotates` needs the distances from the arbiter to be distinct.
* **Machine.** A sleeping core has no interrupt it would accept: every action
  that raises one wakes the core, and WAIT tests first. Skipping is bounded by
  each timer and by the earliest event, between two steps only; this is where it is
  used that nothing is overdue there. A local timer that the program sets, in the cycle of
  whatever instruction comes next, may be larger than before and raises nothing; `UnderflowsRaise`
  exempts that step (`timerLoaded'`), of that core alone.
* **Session.** `SessionInv` speaks of timers and handlers only and holds
  under every edit. With no edits (`~Edits`, the case finding 2 excludes) the
  ticks left to skip are at most those the machine has idle, a relation between the two
  components that every step of either must keep.
* **Disk and flash.** The buffer agrees with the image except while a write is in
  progress; `TransferInv` and `FTransferInv` say what a transfer in progress has in the
  buffer, so that a completion may rely on it after failures in any order. `told` says of each
  block of a flash device whether its last write came from a transfer that failed.
* **Printer, network interface.** While a printer is busy with a character, DATA0 is
  the one it was asked for. For the interface `NInv` counts the events of polls
  and operations, which share a callback, at the times the statuses say; a poll that
  completes an operation leaves one behind, and the longest of all times bounds them. `unheard`
  marks the read of which section 4 speaks; while it does not hold, a poll is outstanding.
* **Terminal.** Events, completion times and statuses determine each other; a
  half that is due first is the one `DoRecv` chooses.
* **TLB.** `AlmostCoherent` extends coherence to the kernel's routines: what the
  TLB holds wrongly is the page of ENTRYHI while the page table has
  changed and the TLB has not. `KernelInv` says what each instruction finds: a
  miss before TLBWR, an exact answer of the probe before TLBWI.
* **Pipeline.** A core is in the program (`Running`), in the nullified instruction
  after an exception (`Nullified`) or in the handler's return (`Handling`). In each,
  with the pending load completed, registers and mode are those of the
  sequential execution, and where the program would go on is `Resumable`: its next
  instruction, or the branch before it when that instruction is in a delay slot
  (`Retaken`), which executed twice has no other effect than once.
* **BIOS.** What `LSave` puts in the vector, popped once by `LLoadStart`, is the context the
  program left. Every program that has begun and is not in the core is in its copy
  (`BiosInv`). A program at whose address the BIOS takes an exception for its own is lost to
  `LPanic` and not resumed. That one core does all this is part of the invariant, for what section 4
  says of `exec.S:166` keeps the others from the kernel.
* **Arithmetic.** A word of `2 * Half` bits is a number below `2^(2 * Half)`, a signed one is
  that number or less by the modulus. The sum overflows exactly when the tests of
  `SignAdd` say so, by cases on the signs. The product of `UnsMult` is summed from four products of
  half words, none of which carries if a factor fits in a half word (`SmallProduct`), the
  case finding 4 leaves. Quotients are truncated, while `\div` rounds down.
* **Bytes.** Loads and stores of parts of words are compared byte by byte, in memories of
  either order of bytes. Of a pair of LWL and LWR (or SWL and SWR) the first leaves the half that
  the second completes (`HalfLoaded`, `HalfStored`), whichever comes first.
* **Decoder.** The tables of names of the disassembler are the inverses of the tables of
  codes; then group by group (register, immediate, branch, coprocessor), all fields of an
  instruction and every address left open.
* **Stoppoints.** The map has exactly the keys of the vector (`MapInv`), which
  needs ranges that do not overlap, for two that start together share a key.
  Identifiers grow along the vector, so that the next one is new. Of ranges that do
  not overlap only the nearest that starts at or before an address may hold it,
  and that is where `Probe` looks. Rows follow the vector one by one (`RowsInv`).
* **Traces, editor, views.** A view shows its region as it is, or the
  region has changed since the machine last stopped (`BrowserInv`); a row has a mark,
  a view and a delegate under its identifier, also while an insertion or removal is on
  its way through the signals. `EditorInv` relates the text to the memory digit by
  digit. `ViewsInv` holds because each slot replaces its pointers before it reads them,
  but for the window that `MachineHalted` closes,
  and because the code shown holds the program counter or is loaded anew.
* **Configuration.** A file that nobody wrote by hand is the text of a configuration
  (`Saved`), which read in the order of `LoadFromFile` passes every setter unchanged;
  a RAM size that changes in the dialog takes the floor with it.
* **Main window.** What is enabled is a function of status, configuration and tab. The
  signals come while the status still is the old one, so that each way of
  discarding a machine, and each order of the signals, is a case. The list of recent files
  is made by a recursion: what `removeAll` has kept after `i` elements is shown by
  the least `i` for which it would not be so (`LeastNatural` of `StoppointsProofs`).

Assumed are the `ASSUME`s on the constants and `~Edits`, where a theorem names it. They
say that sizes, times and bounds are natural numbers, that those the code divides by or
waits for are positive (`Delays`, `CharTime`, `ResetTime`, `Line`, `Dev`, `Field`, `N`,
`Length`, `MaxRecent`), that a null value is none of the proper ones, and, for the
memory map and the limits of a configuration, the order that the constants of the code
have (`LayoutAssumption`, `ConfigurationAssumption`), and that functions of a program do
not overlap (`FunctionsAssumption`), that the header of an a.out fits its page and
geometries are positive (`ImagesAssumption`), that programs stand at addresses
(`BiosAssumption`), that strings hold no quotation mark, numbers are digits and names
are finitely many (`JsonAssumption`; the printer does not escape), that memory is whole
words (`BytesAssumption`), and what `2^n` is up to the width of a word
(`ArithmeticAssumption`: a fact about the operator, which the provers do not know, and
no restriction). TLC evaluates them when it runs the modules.

Model-checked only:

* liveness (`EventFires`, `IpiArrives`, `OperationsComplete`, `OperationsEnd`,
  `SearchEnds`), and whatever needs ENABLED.

## 6. Plan

Done: everything in section 2, and a theorem for each safety property that the runs
check. What would add most next:

1. a composition of `Bios` and `Pipeline`, in which an interrupt may come between
   any two instructions of a handler that enables interrupts again;
2. documents of any depth, with nodes in place of the two levels of `Roots`: the
   layout and the parser's invariant are stated for any, `Serialize` is not.

## 7. Not modelled

* Presentation: the layout of windows, menus and dialogs, the device tree, the
  terminal's window, fonts and settings of the application
  (`device_tree_view.cc`, `terminal_window.cc`, ...): they show state or call what is modelled.
* `objdump.cc` and the symbol tables that `elf2umps` writes: printers and
  converters that run once, without state.
* An image that `mkdev` could not write to its end: it reports the failure, and removes nothing.
* Addresses that wrap at 2^32: a symbol or a stoppoint ends before the last word.
* Time stamps of 64 bits, which a session does not exhaust, and the wrap of their low
  word, from which the disk computes its position (`device.cc:956`): after it the
  drive only turns from elsewhere.
* Contents of packets, network addresses, status strings, host file errors (the
  program panics), the number of cycles and the pause of each speed, the clock rate.
* Floating point and coprocessors other than 0, which the emulator does not have,
  and bitwise operations, which have no boundary.
