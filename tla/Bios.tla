-------------------------------- MODULE Bios --------------------------------
(***************************************************************************)
(* The BIOS (support/bios/exec.S, coreboot.S) and the library through which*)
(* the kernel calls it (support/libumps/libumps.S): exceptions are saved   *)
(* in the core's vector and passed up to the handlers the kernel has set,  *)
(* and BREAK services load a context saved so.                             *)
(*                                                                         *)
(* BIOS routines run with interrupts off and so are atomic. The kernel is  *)
(* any that starts programs with LDCXT, handles their exceptions, and      *)
(* resumes from the vector, or from a copy it keeps, with LDST. Its own    *)
(* code is in RAM. A context (state_t) is its registers, which name the    *)
(* program they belong to, its stack pointer, its program counter and its  *)
(* STATUS.                                                                 *)
(***************************************************************************)
EXTENDS Integers

CONSTANTS
  Core, Boot,   \* the cores, and the one that boots the machine
  Prog,         \* the programs
  PCs           \* where they execute: addresses, in units of 2^28 bytes

VARIABLES
  at,        \* what each core executes
  cpu,       \* the context in its registers
  vector,    \* the context in its exception vector
  vectorReg, \* does the register BIOS_EXCPT_VECT_BASE point to it?
  handlers,  \* the handlers in its PC area
  saved,     \* the copies the kernel keeps
  truth,     \* history: the context of each program as it left it
  broken     \* history: the programs that executed a BREAK that is no service

vars == <<at, cpu, vector, vectorReg, handlers, saved, truth, broken>>

(* STATUS: the current, previous and old pair of mode and interrupt enable.*)
Mode   == {"kernel", "user"}
Off    == <<"kernel", FALSE>>
Pair   == Mode \X BOOLEAN
Status == Pair \X Pair \X Pair

Nobody  == "nobody"
Address == 0..15
Context == [prog : Prog \cup {Nobody}, sp : Prog \cup {Nobody}, pc : Address, status : Status]

(* What a core that reads its context from address 0, BIOS code, gets. *)
Garbage == [prog |-> Nobody, sp |-> Nobody, pc |-> 0, status |-> <<Off, Off, Off>>]
NoHandlers == [refill |-> "panic", general |-> "panic"]

Running(c) == at[c] = "program"
InHandler(c) == at[c] \in {"refill", "general"}

(* The context of a program is in its core, in a vector or in a copy. *)
Idle(p) == \A c \in Core : (Running(c) => cpu[c].prog # p) /\ (InHandler(c) => vector[c].prog # p)

-----------------------------------------------------------------------------
push(s) == <<Off, s[1], s[2]>>
rfe(s)  == <<s[2], s[3], s[3]>>

(* Mutant: the stack pointer is loaded before it is saved. *)
LSaveSpLost(x) == [x EXCEPT !.sp = Nobody, !.status = push(@)]

(* LSave: the vector gets the context, STATUS as the exception left it. *)
LSave(x) == [x EXCEPT !.status = push(@)]

(* LLoadStart: the current pair of the STATUS to load is cleared; RFE in   *)
(* the delay slot of the jump then pops the other two.                     *)
LLoadStart(x) == [x EXCEPT !.status = rfe([@ EXCEPT ![1] = Off])]

(* What LEXCHandler and LBreakHandler take for an exception in the BIOS:   *)
(* EPC less the end of the BIOS area is negative, as a word.               *)
BUS_REG_RAM_BASE == 1
InBios(epc) == (epc - BUS_REG_RAM_BASE) % 16 >= 8

LPanic(c) == /\ at' = [at EXCEPT ![c] = "panic"]
             /\ UNCHANGED <<cpu, vector, vectorReg, handlers, saved, truth, broken>>

(* LSaveExcptAndJmp. A handler is BIOS's panic until the kernel sets it.   *)
PassUp(c, kind) ==
  /\ vector' = [vector EXCEPT ![c] = LSave(cpu[c])]
  /\ at' = [at EXCEPT ![c] = IF handlers[c][kind] = "panic" THEN "panic" ELSE kind]
  /\ UNCHANGED <<cpu, vectorReg, handlers, saved>>

(* A program runs until an exception. A TLB refill is passed up wherever   *)
(* the program is, any other unless InBios says that it is the BIOS's.     *)
Run(c) ==
  /\ Running(c)
  /\ \E pc \in PCs : cpu' = [cpu EXCEPT ![c].pc = pc]
  /\ truth' = [truth EXCEPT ![cpu[c].prog] = cpu'[c]]
  /\ UNCHANGED <<at, vector, vectorReg, handlers, saved, broken>>

LUTLBHandler(c) == Running(c) /\ PassUp(c, "refill") /\ UNCHANGED <<truth, broken>>

LEXCHandler(c) ==
  /\ Running(c)
  /\ IF InBios(cpu[c].pc) THEN LPanic(c)
     ELSE PassUp(c, "general") /\ UNCHANGED <<truth, broken>>

(* LBreakHandler, for a BREAK that is no service or comes from user mode:  *)
(* handler and stack are read near the register that points to the PC      *)
(* area and not from the area, as 0. The jump to address 0 enters          *)
(* LUTLBHandler, which saves the context over, its stack pointer lost.     *)
Misled(c) ==
  /\ broken' = broken \cup {cpu[c].prog}
  /\ vector' = [vector EXCEPT ![c] = [LSave(cpu[c]) EXCEPT !.sp = Nobody]]
  /\ at' = [at EXCEPT ![c] = IF handlers[c].refill = "panic" THEN "panic" ELSE "refill"]
  /\ UNCHANGED <<cpu, vectorReg, handlers, saved, truth>>

LBreakHandler(c) == Running(c) /\ IF InBios(cpu[c].pc) THEN LPanic(c) ELSE Misled(c)

-----------------------------------------------------------------------------
(* coreboot: handlers that panic, the registers of the first core, and the *)
(* jump to the kernel with exceptions directed to the BIOS.                *)
coreboot ==
  /\ at[Boot] = "boot"
  /\ at' = [at EXCEPT ![Boot] = "kernel"]
  /\ handlers' = [handlers EXCEPT ![Boot] = NoHandlers]
  /\ vectorReg' = [vectorReg EXCEPT ![Boot] = TRUE]
  /\ UNCHANGED <<cpu, vector, saved, truth, broken>>

SetHandlers(c) ==
  /\ at[c] = "kernel"
  /\ handlers' = [handlers EXCEPT ![c] = [refill |-> "kernel", general |-> "kernel"]]
  /\ UNCHANGED <<at, cpu, vector, vectorReg, saved, truth, broken>>

(* INITCPU, and the routine a core executes on reset: it points the core's *)
(* registers to its areas, then stores $k0, which reset cleared, in the    *)
(* first and loads the context at that address, 0.                         *)
INITCPU(c, d) ==
  /\ at[c] = "kernel" /\ at[d] = "off"
  /\ at' = [at EXCEPT ![d] = "started"]
  /\ cpu' = [cpu EXCEPT ![d] = LLoadStart(Garbage)]
  /\ vectorReg' = [vectorReg EXCEPT ![d] = FALSE]
  /\ UNCHANGED <<vector, handlers, saved, truth, broken>>

(* LDCXT: stack, STATUS and program counter of a program not started yet.  *)
LDCXT(c, p) ==
  /\ at[c] = "kernel" /\ truth[p].prog = Nobody
  /\ \E first, mode \in Pair, pc \in PCs :
       cpu' = [cpu EXCEPT ![c] =
                 LLoadStart([prog |-> p, sp |-> p, pc |-> pc, status |-> <<first, mode, Off>>])]
  /\ truth' = [truth EXCEPT ![p] = cpu'[c]]
  /\ at' = [at EXCEPT ![c] = "program"]
  /\ UNCHANGED <<vector, vectorReg, handlers, saved, broken>>

Load(c, x) ==
  /\ cpu' = [cpu EXCEPT ![c] = LLoadStart(x)]
  /\ at' = [at EXCEPT ![c] = "program"]
  /\ UNCHANGED <<vector, vectorReg, handlers, saved, truth, broken>>

(* A handler resumes the program it interrupted, or keeps a copy of its    *)
(* context and lets the kernel choose. LDST itself is an exception, but a  *)
(* service does not save: the vector still holds what it did.              *)
LDSTVector(c) == InHandler(c) /\ Load(c, vector[c])

KeepCopy(c) ==
  /\ InHandler(c)
  /\ saved' = [saved EXCEPT ![vector[c].prog] = vector[c]]
  /\ at' = [at EXCEPT ![c] = "kernel"]
  /\ UNCHANGED <<cpu, vector, vectorReg, handlers, truth, broken>>

LDSTCopy(c, p) == at[c] = "kernel" /\ truth[p].prog = p /\ Idle(p) /\ Load(c, saved[p])

LHalt(c) ==
  /\ at[c] = "kernel"
  /\ at' = [at EXCEPT ![c] = "halt"]
  /\ UNCHANGED <<cpu, vector, vectorReg, handlers, saved, truth, broken>>

(* LPanic and LHalt end in a loop, and a core with a context of garbage is *)
(* not followed further.                                                   *)
LInfinite(c) == at[c] \in {"panic", "halt", "started"} /\ UNCHANGED vars

Init ==
  /\ at = [c \in Core |-> IF c = Boot THEN "boot" ELSE "off"]
  /\ cpu = [c \in Core |-> Garbage] /\ vector = [c \in Core |-> Garbage]
  /\ vectorReg = [c \in Core |-> FALSE] /\ handlers = [c \in Core |-> NoHandlers]
  /\ saved = [p \in Prog |-> Garbage] /\ truth = [p \in Prog |-> Garbage] /\ broken = {}

Next ==
  \/ coreboot
  \/ \E c \in Core : \/ Run(c) \/ LUTLBHandler(c) \/ LEXCHandler(c) \/ LBreakHandler(c)
                     \/ SetHandlers(c) \/ LDSTVector(c) \/ KeepCopy(c) \/ LHalt(c) \/ LInfinite(c)
                     \/ \E d \in Core : INITCPU(c, d)
                     \/ \E p \in Prog : LDCXT(c, p) \/ LDSTCopy(c, p)

Spec == Init /\ [][Next]_vars

-----------------------------------------------------------------------------
TypeOK ==
  /\ at \in [Core -> {"off", "boot", "kernel", "program", "refill", "general", "panic", "halt", "started"}]
  /\ cpu \in [Core -> Context] /\ vector \in [Core -> Context]
  /\ vectorReg \in [Core -> BOOLEAN]
  /\ handlers \in [Core -> [{"refill", "general"} -> {"panic", "kernel"}]]
  /\ saved \in [Prog -> Context] /\ truth \in [Prog -> Context] /\ broken \subseteq Prog

(* A program resumes as it left off, registers, stack, place, mode and     *)
(* interrupt enable, however often it was interrupted, whichever services  *)
(* the kernel called in between and whether from the vector or a copy,     *)
(* unless it executed a BREAK that is no service. A program whose exception*)
(* the BIOS takes for its own is not resumed: the machine panics.          *)
Resumed ==
  \A c \in Core : (Running(c) /\ cpu[c].prog \notin broken) =>
    LET t == truth[cpu[c].prog] IN
    /\ cpu[c] = [t EXCEPT !.status = cpu[c].status]
    /\ cpu[c].status[1] = t.status[1]

(* A handler finds in the vector the program the exception interrupted,    *)
(* as it was, with its mode as the previous one, which LDST restores.      *)
VectorHolds(c) ==
  LET v == vector[c]  t == truth[v.prog] IN
  v.prog = cpu[c].prog /\ v.sp = t.sp /\ v.pc = t.pc /\ v.status[2] = t.status[1]

PassedUp == \A c \in Core : (InHandler(c) /\ vector[c].prog \notin broken) => VectorHolds(c)

(* A BREAK that is no service is passed up to the kernel too, as exec.S    *)
(* says, and so does not disturb the context of the program.               *)
BreaksPassedUp == \A c \in Core : InHandler(c) => VectorHolds(c)
=============================================================================
