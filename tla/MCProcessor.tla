------------------------------ MODULE MCProcessor ------------------------------
(***************************************************************************)
(* Small instances of the parts of a core and of the code that runs on     *)
(* every core: its TLB, its pipeline, its decoder and the disassembler,    *)
(* its arithmetic, its loads and stores of bytes, and the BIOS. A          *)
(* behaviour runs one of them; the TLB is at rest meanwhile, the others    *)
(* are NotRun.                                                             *)
(***************************************************************************)
EXTENDS Tlb

CONSTANTS ProgSize, Target, Kind,    \* of Pipeline
          Half,                      \* of Arithmetic
          MemSize,                   \* of Bytes
          Core, Boot, Prog, PCs      \* of Bios

VARIABLES active,
          prog, cpu, line, flow, seqReg, seqMode,
          instr, pc, usable, text, effect,
          op, x, y, out,
          big, mem, reg, pair, bytes, want,
          at, context, vector, vectorReg, handlers, saved, truth, broken

(* Every operation, well formed and with a field that should be zero.      *)
Fields(ops, rss, rts, rds, shamts, functs) ==
  [op : ops, rs : rss, rt : rts, rd : rds, shamt : shamts, funct : functs]
Instruction ==
  Fields({0}, 0..1, 0..1, 0..1, 0..1, 0..63)
  \cup Fields((1..63) \ {16}, 0..1, {0, 1, 2, 16, 17}, {0}, {0}, {0, 1, 63})
  \cup Fields({16}, {0, 2, 4, 8, 16}, 0..2, {0, 4, 9}, 0..1, {0, 1, 2, 6, 8, 16, 32, 63})

P == INSTANCE Pipeline WITH Size <- ProgSize
D == INSTANCE Instructions WITH Pc <- {0, 62, 63}
A == INSTANCE Arithmetic
B == INSTANCE Bytes WITH Size <- MemSize
F == INSTANCE Bios WITH cpu <- context

ASSUME PipelineAssumption ==
  ProgSize \in Nat \ {0} /\ Target \in 0..ProgSize-1 /\ Kind \subseteq P!Kinds
(* What the powers of two are, which the provers do not know. *)
ASSUME ArithmeticAssumption ==
  Half \in Nat \ {0} /\ \A n \in 0..2*Half : 2^n \in Nat \ {0} /\ 2^(n + 1) = 2 * 2^n
ASSUME BytesAssumption == MemSize \in Nat /\ MemSize % 4 = 0
ASSUME BiosAssumption == Boot \in Core /\ F!Nobody \notin Prog /\ PCs \subseteq F!Address

pVars == <<prog, cpu, line, flow, seqReg, seqMode>>
dVars == <<instr, pc, usable, text, effect>>
aVars == <<op, x, y, out>>
bVars == <<big, mem, reg, pair, bytes, want>>
fVars == <<at, context, vector, vectorReg, handlers, saved, truth, broken>>

NotRun == "not run"

MCInit ==
  /\ active \in {"tlb", "pipeline", "decoder", "arithmetic", "bytes", "bios"}
  /\ Init
  /\ IF active = "pipeline" THEN P!Init
     ELSE /\ prog = NotRun /\ cpu = NotRun /\ line = NotRun
          /\ flow = NotRun /\ seqReg = NotRun /\ seqMode = NotRun
  /\ IF active = "decoder" THEN D!Init
     ELSE instr = NotRun /\ pc = NotRun /\ usable = NotRun /\ text = NotRun /\ effect = NotRun
  /\ IF active = "arithmetic" THEN A!Init
     ELSE op = NotRun /\ x = NotRun /\ y = NotRun /\ out = NotRun
  /\ IF active = "bytes" THEN B!Init
     ELSE /\ big = NotRun /\ mem = NotRun /\ reg = NotRun
          /\ pair = NotRun /\ bytes = NotRun /\ want = NotRun
  /\ IF active = "bios" THEN F!Init
     ELSE /\ at = NotRun /\ context = NotRun /\ vector = NotRun /\ vectorReg = NotRun
          /\ handlers = NotRun /\ saved = NotRun /\ truth = NotRun /\ broken = NotRun

MCNext ==
  \/ active = "tlb" /\ Next /\ UNCHANGED <<active, pVars, dVars, aVars, bVars, fVars>>
  \/ active = "pipeline" /\ P!Next /\ UNCHANGED <<active, vars, dVars, aVars, bVars, fVars>>
  \/ active = "decoder" /\ D!Next /\ UNCHANGED <<active, vars, pVars, aVars, bVars, fVars>>
  \/ active = "arithmetic" /\ A!Next /\ UNCHANGED <<active, vars, pVars, dVars, bVars, fVars>>
  \/ active = "bytes" /\ B!Next /\ UNCHANGED <<active, vars, pVars, dVars, aVars, fVars>>
  \/ active = "bios" /\ F!Next /\ UNCHANGED <<active, vars, pVars, dVars, aVars, bVars>>

MCSpec == MCInit /\ [][MCNext]_<<active, vars, pVars, dVars, aVars, bVars, fVars>>

-----------------------------------------------------------------------------

(* Whatever exceptions intervene, a program runs as one instruction after  *)
(* the other would.                                                        *)
InOrder == active = "pipeline" => P!TypeOK /\ P!InOrder

(* An exception leaves the machine as if the instruction at EPC had not    *)
(* begun.                                                                  *)
Precise == active = "pipeline" => P!Precise

(* What the code view shows of an instruction is what executing it does,   *)
(* and no register receives a result that was never computed.              *)
ShownAsExecuted == active = "decoder" => D!ShownAsExecuted /\ D!NoJunkWritten

(* Sums, quotients, shifts and products of small words are exact, and what *)
(* is loaded is what was stored, byte by byte.                             *)
ResultsExact ==
  /\ active = "arithmetic" => A!TypeOK /\ A!ExactSum /\ A!SmallProduct /\ A!Division
  /\ active = "bytes" => B!TypeOK /\ B!BytesMoved

(* The BIOS resumes every program that it has handed to the kernel as it   *)
(* was.                                                                    *)
ProgramsResumed == active = "bios" => F!TypeOK /\ F!Resumed /\ F!PassedUp
==============================================================================
