----------------------------- MODULE Arithmetic -----------------------------
(***************************************************************************)
(* The arithmetic of register and immediate instructions (umps/processor.cc*)
(* and umps/utility.cc) on words of 2 * Half bits; 32 in the simulator.    *)
(* One action executes one instruction on any two operands. The bitwise    *)
(* operations, which have no boundary, are left out.                       *)
(***************************************************************************)
EXTENDS Integers

CONSTANT Half \* bits of a half word, at least 1

VARIABLES
  op,   \* the instruction executed last
  x, y, \* its operands
  out   \* what it leaves: the result, HI and LO, and an overflow exception

vars == <<op, x, y, out>>

H == 2 ^ Half
W == H * H
Word == 0..W-1

SIGNBIT(w) == w >= W \div 2
Signed(w)  == IF SIGNBIT(w) THEN w - W ELSE w
ToWord(i)  == i % W

(* The operand of an immediate instruction is the low half, extended. *)
ZEXTIMM(w)    == w % H
SignExtImm(w) == IF w % H >= H \div 2 THEN ToWord((w % H) - H) ELSE w % H

-----------------------------------------------------------------------------
Result(rd)      == [rd |-> rd, hi |-> 0, lo |-> 0, ov |-> FALSE]
Overflow        == [rd |-> 0, hi |-> 0, lo |-> 0, ov |-> TRUE]
HiLo(hi, lo)    == [rd |-> 0, hi |-> hi, lo |-> lo, ov |-> FALSE]

SignAdd(a, b) ==
  LET s == ToWord(a + b) IN
  IF SIGNBIT(a) = SIGNBIT(b) /\ SIGNBIT(s) # SIGNBIT(a) THEN Overflow ELSE Result(s)

SignSub(a, b) ==
  LET s == ToWord(a - b) IN
  IF SIGNBIT(a) # SIGNBIT(b) /\ SIGNBIT(s) # SIGNBIT(a) THEN Overflow ELSE Result(s)

(* The product of two words from those of their halves. The sum of the two *)
(* middle products is a word: its carry is lost.                           *)
UnsMult(m1, m2) ==
  LET a == m1 \div H   b == m1 % H
      c == m2 \div H   d == m2 % H
      mid == ToWord(a * d + b * c)
      low == (((b * d) \div H) % H)
      y0  == ToWord(low + mid)
  IN  HiLo(ToWord(((y0 \div H) % H) + a * c), ((b * d) % H) + H * (y0 % H))

Negated(w) == ToWord(-w)

(* The product of the absolute values, two's complemented over both words  *)
(* if the signs differ.                                                    *)
SignMult(m1, m2) ==
  LET p == UnsMult(IF SIGNBIT(m1) THEN Negated(m1) ELSE m1, IF SIGNBIT(m2) THEN Negated(m2) ELSE m2)
      hi1 == W - 1 - p.hi   lo1 == W - 1 - p.lo
  IN  IF SIGNBIT(m1) = SIGNBIT(m2) THEN p
      ELSE HiLo(ToWord(hi1 + (IF lo1 + 1 = W THEN 1 ELSE 0)), ToWord(lo1 + 1))

(* C++ division: the quotient is truncated towards zero. *)
Div(a, b) ==
  LET Abs(i) == IF i < 0 THEN -i ELSE i
      q == IF (a < 0) = (b < 0) THEN Abs(a) \div Abs(b) ELSE -(Abs(a) \div Abs(b))
  IN  HiLo(ToWord(a - b * q), ToWord(q))

DividedByZero == HiLo(0, W \div 2 - 1)

Shift(w) == 2 ^ (w % (2 * Half))

(* A signed operand is shifted right: its sign is replicated. *)
ArithmeticShift(w, n) == ToWord(Signed(w) \div n)

-----------------------------------------------------------------------------
RegOps == {"add", "addu", "sub", "subu", "slt", "sltu", "sll", "srl", "sra",
           "mult", "multu", "div", "divu"}

execRegInstr(o, a, b) ==
  CASE o = "add"   -> SignAdd(a, b)
    [] o = "addu"  -> Result(ToWord(a + b))
    [] o = "sub"   -> SignSub(a, b)
    [] o = "subu"  -> Result(ToWord(a - b))
    [] o = "slt"   -> Result(IF Signed(a) < Signed(b) THEN 1 ELSE 0)
    [] o = "sltu"  -> Result(IF a < b THEN 1 ELSE 0)
    [] o = "sll"   -> Result(ToWord(a * Shift(b)))
    [] o = "srl"   -> Result(a \div Shift(b))
    [] o = "sra"   -> Result(ArithmeticShift(a, Shift(b)))
    [] o = "mult"  -> SignMult(a, b)
    [] o = "multu" -> UnsMult(a, b)
    [] o = "div"   -> IF b = 0 THEN DividedByZero ELSE Div(Signed(a), Signed(b))
    [] o = "divu"  -> IF b = 0 THEN DividedByZero ELSE Div(a, b)

ImmOps == {"addi", "addiu", "slti", "sltiu"}

execImmInstr(o, a, imm) ==
  CASE o = "addi"  -> SignAdd(a, SignExtImm(imm))
    [] o = "addiu" -> Result(ToWord(a + SignExtImm(imm)))
    [] o = "slti"  -> Result(IF Signed(a) < Signed(SignExtImm(imm)) THEN 1 ELSE 0)
    [] o = "sltiu" -> Result(IF a < SignExtImm(imm) THEN 1 ELSE 0)

-----------------------------------------------------------------------------
Init == op = "none" /\ x \in Word /\ y \in Word /\ out = Result(0)

(* MIN / -1 is undefined in C++, and traps on common hosts. *)
Defined(o) == ~(o = "div" /\ Signed(x) = -(W \div 2) /\ Signed(y) = -1)

ExecReg(o) == op = "none" /\ Defined(o) /\ op' = o /\ out' = execRegInstr(o, x, y) /\ UNCHANGED <<x, y>>
ExecImm(o) == op = "none" /\ op' = o /\ out' = execImmInstr(o, x, y) /\ UNCHANGED <<x, y>>

(* The registers are used again. *)
Retire == op # "none" /\ op' = "none" /\ out' = Result(0) /\ UNCHANGED <<x, y>>

Next == (\E o \in RegOps : ExecReg(o)) \/ (\E o \in ImmOps : ExecImm(o)) \/ Retire

Spec == Init /\ [][Next]_vars

-----------------------------------------------------------------------------
TypeOK ==
  /\ op \in RegOps \cup ImmOps \cup {"none"} /\ x \in Word /\ y \in Word
  /\ out \in [rd : Word, hi : Word, lo : Word, ov : BOOLEAN]

(* Addition and subtraction raise an overflow exactly when the exact       *)
(* result does not fit in a signed word, and are exact otherwise, at the   *)
(* smallest number and with a sign-extended immediate too.                 *)
ExactSum ==
  LET Exact(s) == IF s \in -(W \div 2)..(W \div 2 - 1) THEN ~out.ov /\ Signed(out.rd) = s ELSE out.ov
      imm == IF y % H >= H \div 2 THEN (y % H) - H ELSE y % H
  IN  /\ op = "add"  => Exact(Signed(x) + Signed(y))
      /\ op = "sub"  => Exact(Signed(x) - Signed(y))
      /\ op = "addi" => Exact(Signed(x) + imm)

(* HI and LO after MULT or MULTU are the two words of the product, as the  *)
(* comments of utility.cc promise.                                         *)
ExactProduct ==
  /\ op = "multu" => out.hi * W + out.lo = x * y
  /\ op = "mult"  => Signed(out.hi) * W + out.lo = Signed(x) * Signed(y)

(* They are if one of the factors fits in a half word. *)
SmallProduct ==
  (x < H \/ y < H) =>
    /\ op = "multu" => out.hi * W + out.lo = x * y
    /\ op = "mult"  => Signed(out.hi) * W + out.lo = Signed(x) * Signed(y)

(* A quotient and its remainder give the dividend back, and the remainder  *)
(* is smaller than the divisor and has the sign of the dividend; a right   *)
(* shift of a signed word is a division that rounds down.                  *)
Division ==
  /\ (op = "div" /\ y # 0) =>
       LET q == Signed(out.lo)  r == Signed(out.hi)  n == Signed(x)  d == Signed(y)
       IN  n = q * d + r /\ r * r < d * d /\ (r # 0 => (r < 0) = (n < 0))
  /\ (op = "divu" /\ y # 0) => x = out.lo * y + out.hi /\ out.hi < y
  /\ op = "sra" => LET q == Signed(out.rd) * Shift(y) IN q <= Signed(x) /\ Signed(x) < q + Shift(y)
=============================================================================
