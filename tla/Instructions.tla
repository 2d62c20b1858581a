---------------------------- MODULE Instructions ----------------------------
(***************************************************************************)
(* The decoding of an instruction, twice: by the disassembler of the       *)
(* debugger and of the object tools (umps/disassemble.cc and qmps/         *)
(* code_view.cc), which shows it, and by the processor (umps/processor.cc),*)
(* which executes it. An instruction is the record of its fields; an       *)
(* immediate, and the index of a jump, has the six bits of FUNCT. Addresses*)
(* count words, in two regions that a jump cannot leave. What the operation*)
(* computes is left out, and the exceptions it raises then.                *)
(***************************************************************************)
EXTENDS Integers, Sequences, FiniteSets

CONSTANT Instruction \* the instructions met: a set of records of six fields
CONSTANT Pc          \* the addresses they are met at

VARIABLES
  instr, pc,  \* the current instruction and its address
  usable,     \* coprocessor 0 is usable: in kernel mode, or by STATUS
  text,       \* what the code view shows for it
  effect      \* what executing it does

vars == <<instr, pc, usable, text, effect>>

Region == 64
Space  == 2 * Region

(* The function codes of register instructions. *)
SFN == [add |-> 32, addu |-> 33, sub |-> 34, subu |-> 35, and |-> 36, or |-> 37, xor |-> 38, nor |-> 39,
        slt |-> 42, sltu |-> 43, sll |-> 0, srl |-> 2, sra |-> 3, sllv |-> 4, srlv |-> 6, srav |-> 7,
        jr |-> 8, jalr |-> 9, cas |-> 11, syscall |-> 12, break |-> 13, mfhi |-> 16, mthi |-> 17,
        mflo |-> 18, mtlo |-> 19, mult |-> 24, multu |-> 25, div |-> 26, divu |-> 27]

(* The opcodes of the others; BGL is of four branches, told by RT. *)
BGL == 1
OP  == [j |-> 2, jal |-> 3, beq |-> 4, bne |-> 5, blez |-> 6, bgtz |-> 7,
        addi |-> 8, addiu |-> 9, slti |-> 10, sltiu |-> 11, andi |-> 12, ori |-> 13, xori |-> 14, lui |-> 15,
        lb |-> 32, lh |-> 33, lwl |-> 34, lw |-> 35, lbu |-> 36, lhu |-> 37, lwr |-> 38,
        sb |-> 40, sh |-> 41, swl |-> 42, sw |-> 43, swr |-> 46]
LinkBranch == [bltz |-> 0, bgez |-> 1, bltzal |-> 16, bgezal |-> 17]
COP0SEL == 16
CO0   == 16
BC0   == 8
MFC0  == 0
MTC0  == 4
COFUN == [tlbr |-> 1, tlbwi |-> 2, tlbwr |-> 6, tlbp |-> 8, rfe |-> 16, wait |-> 32]
CONTEXTREG == 4
LINKREG == 31

OpType(i) ==
  IF i.op = 0 THEN "reg"
  ELSE <<"branch", "imm", "cop", "unknown", "load", "store", "loadcop", "storecop">>[i.op \div 8 + 1]

SignExtImm(i) == IF i.funct >= 32 THEN i.funct - 64 ELSE i.funct
ZEXTIMM(i)    == i.funct
JUMPTO(p, i)  == Region * (p \div Region) + i.funct
CALLVAL(i)    == <<i.rs, i.rt, i.rd, i.shamt>>

(* The names of an enumeration that have a given code: at most one. *)
Coded(enum, code) == {n \in DOMAIN enum : enum[n] = code}

ThreeRegisters == {"add", "addu", "and", "nor", "or", "slt", "sltu", "sub", "subu", "xor", "cas"}
VariableShifts == {"sllv", "srlv", "srav"}
Shifts         == {"sll", "srl", "sra"}
HiLoPair       == {"div", "divu", "mult", "multu"}

(* Mutant: only the shift amount of a multiplication or division is checked. *)
InvalidRegInstrPair(i) == \E n \in Coded(SFN, i.funct) : n \in HiLoPair /\ i.shamt # 0

(* A field that an instruction does not use must be zero. *)
InvalidRegInstr(i) ==
  \E n \in Coded(SFN, i.funct) :
    \/ n \in ThreeRegisters \cup VariableShifts /\ i.shamt # 0
    \/ n \in Shifts /\ i.rs # 0
    \/ n \in HiLoPair /\ (i.shamt # 0 \/ i.rd # 0)
    \/ n = "jalr" /\ (i.shamt # 0 \/ i.rt # 0)
    \/ n \in {"mfhi", "mflo"} /\ (i.shamt # 0 \/ i.rt # 0 \/ i.rs # 0)
    \/ n \in {"jr", "mthi", "mtlo"} /\ (i.shamt # 0 \/ i.rt # 0 \/ i.rd # 0)

(* The CP0 register of a code of the R3000, by its place in the simulator. *)
CP0Index == [n \in {0, 1, 2, 8, 9, 10, 12, 13, 14, 15} |->
               IF n < 3 THEN n ELSE IF n < 11 THEN n - 5 ELSE n - 6]
ValidCP0Reg(n) == n \in DOMAIN CP0Index

-----------------------------------------------------------------------------
(* The disassembler, and its tables of names indexed by code.              *)

regIName ==
  [f \in 0..63 |->
     CASE f \in 0..7   -> <<"sll", "", "srl", "sra", "sllv", "", "srlv", "srav">>[f + 1]
       [] f \in 8..15  -> <<"jr", "jalr", "", "cas", "syscall", "break", "", "">>[f - 7]
       [] f \in 16..19 -> <<"mfhi", "mthi", "mflo", "mtlo">>[f - 15]
       [] f \in 24..27 -> <<"mult", "multu", "div", "divu">>[f - 23]
       [] f \in 32..43 -> <<"add", "addu", "sub", "subu", "and", "or", "xor", "nor", "", "", "slt", "sltu">>[f - 31]
       [] OTHER        -> ""]

iName ==
  [o \in 0..63 |->
     CASE o \in 0..7   -> <<"bltz", "bgez", "j", "jal", "beq", "bne", "blez", "bgtz">>[o + 1]
       [] o \in 8..17  -> <<"addi", "addiu", "slti", "sltiu", "andi", "ori", "xori", "lui", "bltzal", "bgezal">>[o - 7]
       [] o \in 32..38 -> <<"lb", "lh", "lwl", "lw", "lbu", "lhu", "lwr">>[o - 31]
       [] o \in 40..46 -> <<"sb", "sh", "swl", "sw", "", "", "swr">>[o - 39]
       [] OTHER        -> ""]

cp0IName == [c \in {0, 1, 2, 4, 6, 8} |->
               CASE c = 0 -> "mfc0" [] c = 1 -> "tlbr" [] c = 2 -> "tlbwi"
                 [] c = 4 -> "mtc0" [] c = 6 -> "tlbwr" [] c = 8 -> "tlbp"]

NoDest        == -1
Text(n, args) == [name |-> n, args |-> args, dest |-> NoDest]
Illegal       == Text("illegal", <<>>)

strRegInstr(i) ==
  LET name == regIName[i.funct]
      In(group) == Coded(SFN, i.funct) \cap group # {}
  IN  IF InvalidRegInstr(i) THEN Illegal
      ELSE CASE In(ThreeRegisters \cup VariableShifts) -> Text(name, <<i.rd, i.rs, i.rt>>)
             [] In(Shifts) -> IF i.funct = 0 /\ i.rt = 0 /\ i.rd = 0 /\ i.shamt = 0 THEN Text("nop", <<>>)
                              ELSE Text(name, <<i.rd, i.rt, i.shamt>>)
             [] In(HiLoPair) -> Text(name, <<i.rs, i.rt>>)
             [] In({"jalr"}) -> Text(name, <<i.rd, i.rs>>)
             [] In({"mfhi", "mflo"}) -> Text(name, <<i.rd>>)
             [] In({"jr", "mthi", "mtlo"}) -> Text(name, <<i.rs>>)
             [] In({"break", "syscall"}) -> Text(name, CALLVAL(i))
             [] OTHER -> Illegal

strImmInstr(i) ==
  LET name == iName[i.op]
      In(group) == Coded(OP, i.op) \cap group # {}
  IN  CASE In({"addi", "addiu", "slti", "sltiu"}) -> Text(name, <<i.rt, i.rs, SignExtImm(i)>>)
        [] In({"andi", "ori", "xori"}) -> Text(name, <<i.rt, i.rs, ZEXTIMM(i)>>)
        [] In({"lui"}) -> IF i.rs = 0 THEN Text(name, <<i.rt, ZEXTIMM(i)>>) ELSE Illegal
        [] OTHER -> Illegal

strBranchInstr(i) ==
  CASE i.op \in {OP.beq, OP.bne} -> Text(iName[i.op], <<i.rs, i.rt, SignExtImm(i)>>)
    [] i.op = BGL -> IF Coded(LinkBranch, i.rt) # {} THEN Text(iName[i.rt], <<i.rs, SignExtImm(i)>>) ELSE Illegal
    [] i.op \in {OP.blez, OP.bgtz} -> IF i.rt = 0 THEN Text(iName[i.op], <<i.rs, SignExtImm(i)>>) ELSE Illegal
    [] i.op \in {OP.j, OP.jal} -> Text(iName[i.op], <<ZEXTIMM(i)>>)
    [] OTHER -> Illegal

strLSInstr(i) == IF Coded(OP, i.op) # {} THEN Text(iName[i.op], <<i.rt, SignExtImm(i), i.rs>>) ELSE Illegal

(* A move to CONTEXTREG is shown as TLBCLR whatever its other fields.      *)
strCopInstr(i) ==
  LET moves == ValidCP0Reg(i.rd) /\ i.shamt = 0 /\ i.funct = 0
      Operation0 == IF i.rt # 0 \/ i.rd # 0 \/ i.shamt # 0 THEN Illegal
                    ELSE CASE i.funct = COFUN.rfe -> Text("rfe", <<>>)
                           [] i.funct = COFUN.wait -> Text("wait", <<>>)
                           [] i.funct \in {COFUN.tlbp, COFUN.tlbr, COFUN.tlbwi, COFUN.tlbwr} ->
                                Text(cp0IName[i.funct], <<>>)
                           [] OTHER -> Illegal
  IN  CASE i.op # COP0SEL -> Illegal
        [] i.op = COP0SEL /\ i.rs = CO0 -> Operation0
        [] i.op = COP0SEL /\ i.rs = BC0 ->
             IF i.rt \in {0, 1} THEN Text(<<"bc0f", "bc0t">>[i.rt + 1], <<SignExtImm(i)>>) ELSE Illegal
        [] i.op = COP0SEL /\ i.rs \in {MFC0, MTC0} /\ moves -> Text(cp0IName[i.rs], <<i.rt, CP0Index[i.rd]>>)
        [] i.op = COP0SEL /\ i.rs = MTC0 /\ ~moves /\ i.rd = CONTEXTREG -> Text("tlbclr", <<>>)
        [] OTHER -> Illegal

StrInstr(i) ==
  CASE OpType(i) = "reg"    -> strRegInstr(i)
    [] OpType(i) = "imm"    -> strImmInstr(i)
    [] OpType(i) = "branch" -> strBranchInstr(i)
    [] OpType(i) \in {"load", "store"} -> strLSInstr(i)
    [] OpType(i) \in {"cop", "loadcop", "storecop"} -> strCopInstr(i)
    [] OpType(i) = "unknown" -> Illegal

InstructionMnemonic(i) == IF OpType(i) = "reg" THEN regIName[i.funct] ELSE iName[i.op]

(* The code view resolves the target of these branches itself. *)
disasmBranch(i, p) == [name |-> InstructionMnemonic(i), args |-> <<i.rs, i.rt>>,
                       dest |-> (p + 1 + SignExtImm(i)) % Space]
disasmJump(i, p)   == [name |-> InstructionMnemonic(i), args |-> <<>>, dest |-> JUMPTO(p, i)]

disassemble(i, p) ==
  CASE i.op \in {OP.beq, OP.bne} -> disasmBranch(i, p)
    [] i.op \in {OP.j, OP.jal}   -> disasmJump(i, p)
    [] OTHER                     -> StrInstr(i)

-----------------------------------------------------------------------------
(* The processor. An effect names the operation, its operands, the register*)
(* that receives a result if it is not zero, and whether there is one,     *)
(* where it branches if it does, and the exception it raises.              *)
Effect(n, args) == [does |-> n, args |-> args, writes |-> 0, result |-> FALSE, dest |-> NoDest, raises |-> "none"]
SignalExc(e)    == [Effect("nothing", <<>>) EXCEPT !.raises = e]
Result(eff, reg) == [eff EXCEPT !.writes = reg, !.result = TRUE]
Branch(eff, p)  == [eff EXCEPT !.dest = p % Space]

(* The result is uninitialised unless the operation sets it, and RD        *)
(* receives it in any case.                                                *)
execRegInstr(i) ==
  LET Operation(n) ==
        LET Yields(args) == [Effect(n, args) EXCEPT !.result = TRUE]
        IN  CASE n \in ThreeRegisters -> Yields(<<i.rd, i.rs, i.rt>>)
              [] n \in VariableShifts -> Yields(<<i.rd, i.rt, i.rs>>)
              [] n \in Shifts         -> Yields(<<i.rd, i.rt, i.shamt>>)
              [] n \in {"mfhi", "mflo"} -> Yields(<<i.rd>>)
              [] n = "jalr"           -> Yields(<<i.rd, i.rs>>)
              [] n \in HiLoPair       -> Effect(n, <<i.rs, i.rt>>)
              [] n \in {"jr", "mthi", "mtlo"} -> Effect(n, <<i.rs>>)
              [] n = "syscall"        -> [Effect(n, CALLVAL(i)) EXCEPT !.raises = "SYS"]
              [] n = "break"          -> [Effect(n, CALLVAL(i)) EXCEPT !.raises = "BP"]
      names == Coded(SFN, i.funct)
      e == Operation(CHOOSE n \in names : TRUE)
  IN  IF InvalidRegInstr(i) \/ names = {} THEN SignalExc("RI")
      ELSE IF e.raises # "none" THEN e ELSE [e EXCEPT !.writes = i.rd]

execImmInstr(i) ==
  LET n == CHOOSE m \in Coded(OP, i.op) : TRUE
  IN  CASE n \in {"addi", "addiu", "slti", "sltiu"} -> Result(Effect(n, <<i.rt, i.rs, SignExtImm(i)>>), i.rt)
        [] n \in {"andi", "ori", "xori"} -> Result(Effect(n, <<i.rt, i.rs, ZEXTIMM(i)>>), i.rt)
        [] n = "lui" -> IF i.rs = 0 THEN Result(Effect(n, <<i.rt, ZEXTIMM(i)>>), i.rt) ELSE SignalExc("RI")

(* nextPC is the address after pc: the branch is not itself in a delay slot. *)
execBranchInstr(i, nextPC) ==
  LET Relative(n, args) == Branch(Effect(n, args), nextPC + SignExtImm(i))
      Link(e) == Result(e, LINKREG)
      links == Coded(LinkBranch, i.rt)
      n == CHOOSE m \in (IF i.op = BGL THEN links ELSE Coded(OP, i.op)) : TRUE
  IN  CASE i.op = BGL /\ links = {} -> SignalExc("RI")
        [] i.op = BGL /\ links # {} -> LET e == Relative(n, <<i.rs, SignExtImm(i)>>)
                                       IN  IF n \in {"bltzal", "bgezal"} THEN Link(e) ELSE e
        [] i.op \in {OP.beq, OP.bne} -> Relative(n, <<i.rs, i.rt>>)
        [] i.op \in {OP.blez, OP.bgtz} -> IF i.rt = 0 THEN Relative(n, <<i.rs, SignExtImm(i)>>) ELSE SignalExc("RI")
        [] i.op = OP.j   -> Branch(Effect(n, <<>>), JUMPTO(nextPC, i))
        [] i.op = OP.jal -> Link(Branch(Effect(n, <<>>), JUMPTO(nextPC, i)))

execCopInstr(i, nextPC) ==
  LET ops == Coded(COFUN, i.funct)
      moves == ValidCP0Reg(i.rd) /\ i.shamt = 0 /\ i.funct = 0
  IN  CASE i.op # COP0SEL \/ ~usable -> SignalExc("CPU")
        [] i.op = COP0SEL /\ usable /\ i.rs = CO0 ->
             IF i.rt # 0 \/ i.rd # 0 \/ i.shamt # 0 \/ ops = {} THEN SignalExc("CPU")
             ELSE Effect(CHOOSE n \in ops : TRUE, <<>>)
        [] i.op = COP0SEL /\ usable /\ i.rs = BC0 ->
             CASE i.rt = 0 -> Branch(Effect("bc0f", <<SignExtImm(i)>>), nextPC + SignExtImm(i))
               [] i.rt = 1 -> Effect("bc0t", <<SignExtImm(i)>>)
               [] OTHER    -> SignalExc("CPU")
        [] i.op = COP0SEL /\ usable /\ i.rs = MFC0 ->
             IF moves THEN Result(Effect("mfc0", <<i.rt, CP0Index[i.rd]>>), i.rt) ELSE SignalExc("CPU")
        [] i.op = COP0SEL /\ usable /\ i.rs = MTC0 ->
             CASE moves -> Effect("mtc0", <<i.rt, CP0Index[i.rd]>>)
               [] i.rd = CONTEXTREG /\ i.shamt = 0 /\ i.funct = 0 -> Effect("tlbclr", <<>>)
               [] OTHER -> SignalExc("CPU")
        [] OTHER -> SignalExc("CPU")

DWCOP(i) == (i.op \div 4) % 2 = 1

execInstr(i, p) ==
  CASE OpType(i) = "reg"    -> execRegInstr(i)
    [] OpType(i) = "imm"    -> execImmInstr(i)
    [] OpType(i) = "branch" -> execBranchInstr(i, p + 1)
    [] OpType(i) = "cop"    -> execCopInstr(i, p + 1)
    [] OpType(i) = "load"   -> IF Coded(OP, i.op) = {} THEN SignalExc("RI")
                               ELSE Result(Effect(CHOOSE n \in Coded(OP, i.op) : TRUE, <<i.rt, SignExtImm(i), i.rs>>), i.rt)
    [] OpType(i) = "store"  -> IF Coded(OP, i.op) = {} THEN SignalExc("RI")
                               ELSE Effect(CHOOSE n \in Coded(OP, i.op) : TRUE, <<i.rt, SignExtImm(i), i.rs>>)
    [] OpType(i) \in {"loadcop", "storecop"} -> SignalExc(IF DWCOP(i) THEN "RI" ELSE "CPU")
    [] OpType(i) = "unknown" -> SignalExc("RI")

-----------------------------------------------------------------------------
Nothing == Text("nothing", <<>>)
None    == Effect("none", <<>>)

Init ==
  /\ instr \in Instruction /\ pc \in Pc /\ usable \in BOOLEAN
  /\ text = Nothing /\ effect = None

Show    == text = Nothing /\ text' = disassemble(instr, pc) /\ UNCHANGED <<instr, pc, usable, effect>>
Execute == effect = None /\ effect' = execInstr(instr, pc) /\ UNCHANGED <<instr, pc, usable, text>>

(* The instruction is met again, perhaps in another mode. *)
Repeat ==
  /\ text # Nothing /\ effect # None /\ text' = Nothing /\ effect' = None
  /\ usable' \in BOOLEAN /\ UNCHANGED <<instr, pc>>

Next == Show \/ Execute \/ Repeat

Spec == Init /\ [][Next]_vars

-----------------------------------------------------------------------------
(* What the code view shows is what the processor does: an instruction is  *)
(* shown as illegal exactly if it is refused, and otherwise by the name and*)
(* operands of the operation executed and, where the code view computes    *)
(* one, the address it branches to. Three differences are exempt: an       *)
(* ill-formed TLBCLR; the operands of a variable shift, which are shown in *)
(* the other order; a jump in the last word of a region.                   *)
ShownAsExecuted ==
  (text # Nothing /\ effect # None /\ usable) =>
    \/ text.name = "tlbclr" /\ (instr.shamt # 0 \/ instr.funct # 0)
    \/ text = Illegal /\ effect.raises \in {"RI", "CPU"}
    \/ text.name = "nop" /\ effect.does = "sll" /\ effect.writes = 0
    \/ /\ text # Illegal /\ effect.raises \notin {"RI", "CPU"} /\ text.name = effect.does
       /\ \/ text.args = effect.args
          \/ text.name \in VariableShifts /\ text.args = <<instr.rd, instr.rs, instr.rt>>
       /\ \/ text.dest \in {NoDest, effect.dest}
          \/ text.name \in {"j", "jal"} /\ (pc + 1) % Region = 0

(* A register never receives a result that the operation did not set.      *)
NoJunkWritten == effect.writes # 0 => effect.result
=============================================================================
