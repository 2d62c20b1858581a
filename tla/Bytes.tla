------------------------------- MODULE Bytes -------------------------------
(***************************************************************************)
(* Loads and stores of part of a word (umps/processor.cc: execLoadInstr,   *)
(* execStoreInstr and the helpers that extract and merge bytes). The bus   *)
(* reads and writes whole words; the endianness is fixed by the build.     *)
(*                                                                         *)
(* A byte is 0 or 1: its value is also its sign, and the byte that extends *)
(* it. A word is a function from the position of a byte to the byte, 0 the *)
(* least significant. Addresses that fault do not reach these operations.  *)
(***************************************************************************)
EXTENDS Naturals

CONSTANT Size \* bytes of memory, a multiple of a word

VARIABLES
  big,   \* BIGENDIANCPU
  mem,   \* the memory, word by word
  reg,   \* the register loaded and stored
  pair,  \* the second half of an unaligned access, when the first is done
  bytes, \* history: the memory, byte by byte, as the guest sees it
  want   \* history: the register, likewise

vars == <<big, mem, reg, pair, bytes, want>>

Byte == {0, 1}
Word == [0..3 -> Byte]
Address == 0..Size-1
NoPair == [op |-> "none", a |-> 0]

(* Where the byte of an address is in its word, and how the guest orders   *)
(* the bytes of a register in memory.                                      *)
Position(a) == IF big THEN 3 - (a % 4) ELSE a % 4
ByteAt(a)   == mem[a \div 4][Position(a)]
InMemory(w, n, i) == IF big THEN w[n - 1 - i] ELSE w[i]

-----------------------------------------------------------------------------
signExtByte(w, p) == [i \in 0..3 |-> w[IF big THEN 3 - p ELSE p]]
zExtByte(w, p)    == [i \in 0..3 |-> IF i = 0 THEN w[IF big THEN 3 - p ELSE p] ELSE 0]

HalfOf(w, h, i)    == w[2 * (IF big THEN 1 - h ELSE h) + i]
signExtHWord(w, h) == [i \in 0..3 |-> IF i < 2 THEN HalfOf(w, h, i) ELSE HalfOf(w, h, 1)]
zExtHWord(w, h)    == [i \in 0..3 |-> IF i < 2 THEN HalfOf(w, h, i) ELSE 0]

mergeByte(dest, src, p) == [dest EXCEPT ![IF big THEN 3 - p ELSE p] = src[0]]
mergeHWord(dest, src, h) ==
  LET first == 2 * (IF big THEN 1 - h ELSE h) IN
  [dest EXCEPT ![first] = src[0], ![first + 1] = src[1]]

(* Mutant: the bytes around the merged ones are cleared. *)
mergeCleared(dest, src, p, loadBig, startLeft) ==
  LET n == IF loadBig THEN 3 - p ELSE p IN
  [i \in 0..3 |-> IF startLeft THEN IF i >= 3 - n THEN src[i - (3 - n)] ELSE 0
                  ELSE IF i <= 3 - n THEN src[i + n] ELSE 0]

(* The left or right end of dest takes the bytes of src from position p:   *)
(* LWL and LWR with the endianness of the build, SWR and SWL with the other*)
merge(dest, src, p, loadBig, startLeft) ==
  LET n == IF loadBig THEN 3 - p ELSE p IN
  [i \in 0..3 |-> IF startLeft THEN IF i >= 3 - n THEN src[i - (3 - n)] ELSE dest[i]
                  ELSE IF i <= 3 - n THEN src[i + n] ELSE dest[i]]

Loads  == {"lb", "lbu", "lh", "lhu", "lw", "lwl", "lwr"}
Stores == {"sb", "sh", "sw", "swl", "swr"}
Width(o)  == CASE o \in {"lb", "lbu", "sb"} -> 1
               [] o \in {"lh", "lhu", "sh"} -> 2
               [] OTHER                     -> 4

execLoadInstr(o, a) ==
  LET w == mem[a \div 4]  p == a % 4 IN
  CASE o = "lb"  -> signExtByte(w, p)
    [] o = "lbu" -> zExtByte(w, p)
    [] o = "lh"  -> signExtHWord(w, p \div 2)
    [] o = "lhu" -> zExtHWord(w, p \div 2)
    [] o = "lw"  -> w
    [] o = "lwl" -> merge(reg, w, p, big, TRUE)
    [] o = "lwr" -> merge(reg, w, p, big, FALSE)

execStoreInstr(o, a) ==
  LET w == mem[a \div 4]  p == a % 4 IN
  CASE o = "sb"  -> mergeByte(w, reg, p)
    [] o = "sh"  -> mergeHWord(w, reg, p \div 2)
    [] o = "sw"  -> reg
    [] o = "swl" -> merge(w, reg, p, ~big, FALSE)
    [] o = "swr" -> merge(w, reg, p, ~big, TRUE)

-----------------------------------------------------------------------------
(* What the guest expects: n bytes from address a, extended by a sign.     *)
Expected(a, n, signed) ==
  LET Nth(i) == bytes[a + (IF big THEN n - 1 - i ELSE i)] IN
  [i \in 0..3 |-> IF i < n THEN Nth(i) ELSE IF signed THEN Nth(n - 1) ELSE 0]

Stored(a, n) == [b \in Address |-> IF b \in a..a + n - 1 THEN InMemory(reg, n, b - a) ELSE bytes[b]]

Aligned == {"lb", "lbu", "lh", "lhu", "lw", "sb", "sh", "sw"}

Load(o, a) ==
  /\ pair = NoPair
  /\ o \in Aligned /\ a % Width(o) = 0
  /\ reg' = execLoadInstr(o, a)
  /\ want' = Expected(a, Width(o), o \in {"lb", "lh"})
  /\ UNCHANGED <<big, mem, pair, bytes>>

Store(o, a) ==
  /\ pair = NoPair
  /\ o \in Aligned /\ a % Width(o) = 0
  /\ mem' = [mem EXCEPT ![a \div 4] = execStoreInstr(o, a)]
  /\ bytes' = Stored(a, Width(o))
  /\ UNCHANGED <<big, reg, pair, want>>

(* An unaligned word: LWL or SWL at its most significant byte, then LWR or *)
(* SWR at its least significant one.                                       *)
Left(a)  == IF big THEN a ELSE a + 3
Right(a) == IF big THEN a + 3 ELSE a

BeginUnaligned(a) ==
  /\ pair = NoPair /\ a + 3 \in Address
  /\ \/ /\ reg' = execLoadInstr("lwl", Left(a)) /\ pair' = [op |-> "lwr", a |-> a]
        /\ want' = Expected(a, 4, FALSE) /\ UNCHANGED <<mem, bytes>>
     \/ /\ mem' = [mem EXCEPT ![Left(a) \div 4] = execStoreInstr("swl", Left(a))]
        /\ pair' = [op |-> "swr", a |-> a]
        /\ bytes' = Stored(a, 4) /\ UNCHANGED <<reg, want>>
  /\ UNCHANGED big

EndUnaligned ==
  /\ pair # NoPair
  /\ pair' = NoPair
  /\ \/ pair.op = "lwr" /\ reg' = execLoadInstr("lwr", Right(pair.a)) /\ mem' = mem
     \/ /\ pair.op = "swr" /\ reg' = reg
        /\ mem' = [mem EXCEPT ![Right(pair.a) \div 4] = execStoreInstr("swr", Right(pair.a))]
  /\ UNCHANGED <<big, bytes, want>>

Init ==
  /\ big \in BOOLEAN
  /\ mem \in [0..(Size \div 4)-1 -> Word] /\ reg = [i \in 0..3 |-> IF i = 3 THEN 1 ELSE 0]
  /\ pair = NoPair
  /\ bytes = [a \in Address |-> ByteAt(a)] /\ want = reg

Next ==
  \/ \E a \in Address : \/ \E o \in Loads : Load(o, a)
                        \/ \E o \in Stores : Store(o, a)
                        \/ BeginUnaligned(a)
  \/ EndUnaligned

Spec == Init /\ [][Next]_vars

-----------------------------------------------------------------------------
TypeOK ==
  /\ big \in BOOLEAN /\ mem \in [0..(Size \div 4)-1 -> Word] /\ reg \in Word
  /\ bytes \in [Address -> Byte] /\ want \in Word

(* Between the halves of an unaligned access, memory read byte by byte is  *)
(* what the stores so far put there, and touched no other byte, and the    *)
(* register holds the bytes its loads name: in either endianness, whether  *)
(* or not an access crosses a word, LWL then LWR and SWL then SWR move     *)
(* exactly the four bytes from their address.                              *)
BytesMoved ==
  pair = NoPair => /\ \A a \in Address : ByteAt(a) = bytes[a]
                   /\ reg = want
=============================================================================
