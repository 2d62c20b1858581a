------------------------------ MODULE Pipeline ------------------------------
(***************************************************************************)
(* The processor's cycle (umps/processor.cc): execute, take exceptions and *)
(* interrupts, fetch, with MIPS's branch and load delay slots.             *)
(*                                                                         *)
(* A program of the guest runs on the core; every exception enters one of  *)
(* two handlers, which do what a kernel may do without touching the        *)
(* registers of the program: jump back to EPC with RFE in the delay slot.  *)
(*                                                                         *)
(* The processor's fields are one record, because the methods of a cycle   *)
(* update them in sequence; an operator named after a method maps a record *)
(* to the record the method leaves.                                        *)
(***************************************************************************)
EXTENDS Naturals, Sequences

CONSTANTS
  Size,      \* words of the program, at least one
  Target,    \* where its branches lead, a word of it
  Kind       \* kinds of instructions it is made of, a subset of Kinds

Branches == {"taken", "skipped"}
Kinds == Branches \cup {"alu", "load", "store", "mtc0", "wait"}

VARIABLES
  prog,      \* the program, [0..Size-1 -> Kind]
  cpu,       \* the fields of Processor
  line,      \* the interrupt lines: down, up but masked in STATUS, or up
  flow,      \* history: the next two addresses of a machine without exceptions
  seqReg,    \* history: the register alu and load write, one instruction at a time
  seqMode    \* history: likewise the mode the program runs in

vars == <<prog, cpu, line, flow, seqReg, seqMode>>

-----------------------------------------------------------------------------
(* Addresses: the program and the two exception vectors, each with a       *)
(* handler of two words.                                                   *)
Program(a)  == <<"program", a>>
General     == <<"general", 0>>
Refill      == <<"refill", 0>>
InProgram(a) == a[1] = "program"
Plus4(a)    == <<a[1], (a[2] + 1) % (IF InProgram(a) THEN Size ELSE 2)>>

InstrAt(p, a) == IF InProgram(a) THEN p[a[2]] ELSE IF a[2] = 0 THEN "jrEpc" ELSE "rfe"

(* STATUS: current, previous and old pair of KU (user?) and IE (enabled?). *)
Mode   == [ku : BOOLEAN, ie : BOOLEAN]
Kernel == [ku |-> FALSE, ie |-> FALSE]

(* A program has no branch in the delay slot of another, which MIPS leaves *)
(* undefined.                                                              *)
Programs == {p \in [0..Size-1 -> Kind] :
               \A a \in 0..Size-1 : p[a] \in Branches => p[(a + 1) % Size] \notin Branches}

-----------------------------------------------------------------------------
(* Mutant: a pending write of STATUS is dropped. *)
completeLoadGprOnly(c) ==
  [c EXCEPT !.reg = IF c.load = "gpr" THEN "load" ELSE @, !.load = "none"]

completeLoad(c) ==
  [c EXCEPT !.reg = IF c.load = "gpr" THEN "load" ELSE @,
            !.status[1] = IF c.load = "mode" THEN c.loadMode ELSE @,
            !.load = "none"]

pushKUIEStack(s) == <<Kernel, s[1], s[2]>>
popKUIEStack(s)  == <<s[2], s[3], s[3]>>

(* Mutant: a faulting delay slot is restarted without its branch. *)
RestartFromSlot(c) == c.pc

(* Where the program will be resumed: at the branch, if the instruction    *)
(* is in its delay slot.                                                   *)
RestartFrom(c) == IF c.bd THEN c.prev ELSE c.pc

(* The exception is entered: at once if it is an interrupt, which is taken *)
(* before a fetch, else when the current instruction, nullified, is over.  *)
handleExc(c0, exc) ==
  LET c       == completeLoad(c0)
      vector  == IF exc = "refill" THEN Refill ELSE General
      entered == [c EXCEPT !.epc = RestartFrom(c), !.bd = FALSE, !.status = pushKUIEStack(@)]
  IN  IF exc = "int"
      THEN [entered EXCEPT !.pc = vector, !.npc = Plus4(vector), !.spc = Plus4(Plus4(vector))]
      ELSE [entered EXCEPT !.npc = vector, !.spc = Plus4(vector)]

-----------------------------------------------------------------------------
(* execInstr: what the current instruction leaves, and the exceptions it   *)
(* may raise. MTC0 and WAIT need kernel mode. Results are written after    *)
(* the pending load completes; loads and MTC0 leave one pending.           *)
Executed(c) ==
  LET done == [completeLoad(c) EXCEPT !.bd = c.instr \in Branches \cup {"jrEpc"}]
      user == c.status[1].ku
  IN CASE c.instr = "alu"   -> {[done EXCEPT !.reg = "alu"]}
       [] c.instr = "load"  -> {[done EXCEPT !.load = "gpr"]}
       [] c.instr = "mtc0"  -> {[done EXCEPT !.load = "mode", !.loadMode = m] : m \in IF user THEN {} ELSE Mode}
       [] c.instr = "wait"  -> IF user THEN {} ELSE {[done EXCEPT !.idle = (line = "down")]}
       [] c.instr = "taken" -> {[done EXCEPT !.spc = Program(Target)]}
       [] c.instr = "jrEpc" -> {[done EXCEPT !.spc = c.epc]}
       [] c.instr = "rfe"   -> {[done EXCEPT !.status = popKUIEStack(@)]}
       [] OTHER             -> {done}

MayRaise(c) ==
  CASE c.instr \in {"load", "store"}                 -> {"refill", "general"}
    [] c.instr \in {"mtc0", "wait"} /\ c.status[1].ku -> {"general"}
    [] OTHER                                         -> {}

(* The program counters move on: the branch destination takes the place of *)
(* the instruction after the delay slot.                                   *)
Advance(c) == [c EXCEPT !.prev = c.pc, !.pc = c.npc, !.npc = c.spc, !.spc = Plus4(c.spc)]

checkForInt(c) == IF line = "up" /\ c.status[1].ie THEN handleExc(c, "int") ELSE c

(* Fetch: an instruction that cannot be fetched is nullified. The handlers *)
(* are in memory that is always mapped.                                    *)
Fetch(c) ==
  {[c EXCEPT !.instr = InstrAt(prog, c.pc)]}
    \cup {handleExc([c EXCEPT !.instr = "nop"], exc) :
            exc \in IF InProgram(c.pc) THEN {"refill", "general"} ELSE {}}

(* The rest of a cycle, unless WAIT has stalled the pipeline: it is the    *)
(* current instruction again on waking.                                    *)
EndCycle(c) == IF c.idle THEN {c} ELSE Fetch(checkForInt(Advance(c)))

-----------------------------------------------------------------------------
Init ==
  /\ prog \in Programs
  /\ \E m \in Mode :
       cpu = [pc |-> Program(0), npc |-> Plus4(Program(0)), spc |-> Plus4(Plus4(Program(0))),
              prev |-> Program(0), epc |-> Program(0), instr |-> prog[0], bd |-> FALSE,
              load |-> "none", loadMode |-> m, reg |-> "initial", status |-> <<m, Kernel, Kernel>>,
              idle |-> FALSE]
  /\ line \in {"down", "masked", "up"}
  /\ flow = <<Program(0), Plus4(Program(0))>>
  /\ seqReg = "initial"
  /\ seqMode = cpu.status[1]

(* History: an instruction of the program completes. A branch executed     *)
(* again on return from an exception in its delay slot is not counted.     *)
Complete(c) ==
  IF cpu.pc = flow[1] /\ cpu.instr # "nop" /\ ~c.idle
  THEN /\ flow' = <<flow[2], IF cpu.instr = "taken" THEN Program(Target) ELSE Plus4(flow[2])>>
       /\ seqReg' = (IF cpu.instr \in {"alu", "load"} THEN cpu.instr ELSE seqReg)
       /\ seqMode' = (IF cpu.instr = "mtc0" THEN c.loadMode ELSE seqMode)
  ELSE UNCHANGED <<flow, seqReg, seqMode>>

Execute ==
  /\ ~cpu.idle
  /\ \E c \in Executed(cpu) : cpu' \in EndCycle(c) /\ Complete(c)
  /\ UNCHANGED <<prog, line>>

Raise ==
  /\ ~cpu.idle
  /\ \E exc \in MayRaise(cpu) : cpu' \in EndCycle(handleExc(cpu, exc))
  /\ UNCHANGED <<prog, line, flow, seqReg, seqMode>>

Cycle == Execute \/ Raise

(* A line goes up, which wakes the core even if STATUS masks it. *)
AssertIRQ ==
  /\ line' \in {"masked", "up"}
  /\ cpu' = [cpu EXCEPT !.idle = FALSE]
  /\ UNCHANGED <<prog, flow, seqReg, seqMode>>

DeassertIRQ ==
  /\ line' = "down"
  /\ UNCHANGED <<prog, cpu, flow, seqReg, seqMode>>

Next == Cycle \/ AssertIRQ \/ DeassertIRQ

Spec == Init /\ [][Next]_vars

-----------------------------------------------------------------------------
Address == ({"program"} \X (0..Size-1)) \cup ({"general", "refill"} \X {0, 1})

TypeOK ==
  /\ prog \in Programs
  /\ cpu \in [pc : Address, npc : Address, spc : Address, prev : Address, epc : Address,
              instr : Kinds \cup {"jrEpc", "rfe", "nop"}, bd : BOOLEAN,
              load : {"none", "gpr", "mode"}, loadMode : Mode, reg : {"initial", "alu", "load"},
              status : Mode \X Mode \X Mode, idle : BOOLEAN]
  /\ line \in {"down", "masked", "up"}
  /\ flow \in Address \X Address
  /\ seqReg \in {"initial", "alu", "load"}
  /\ seqMode \in Mode

(* Whatever the exceptions and interrupts, and wherever they fall (a delay *)
(* slot, a nullified fetch, a WAIT), the program executes the instructions *)
(* a machine without exceptions would, in order: the next one, or the      *)
(* branch whose delay slot is the next one, which it executes again.       *)
InOrder ==
  (InProgram(cpu.pc) /\ cpu.instr # "nop") =>
    \/ cpu.pc = flow[1]
    \/ /\ cpu.instr \in Branches
       /\ Plus4(cpu.pc) = flow[1]
       /\ flow[2] = IF cpu.instr = "taken" THEN Program(Target) ELSE Plus4(flow[1])

(* The delayed loads are never lost, reordered or seen by a handler half   *)
(* done: once the pending load completes, the register and the mode are    *)
(* those of the instructions so far, and in a handler the mode to return   *)
(* to is the one of the program, so that a handler is never interrupted.   *)
Precise ==
  LET c == completeLoad(cpu) IN
  /\ c.reg = seqReg
  /\ IF InProgram(cpu.pc) /\ cpu.instr # "nop"
     THEN c.status[1] = seqMode
     ELSE c.status[1] = Kernel /\ c.status[2] = seqMode
=============================================================================
