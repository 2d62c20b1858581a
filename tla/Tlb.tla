-------------------------------- MODULE Tlb --------------------------------
(***************************************************************************)
(* Address translation (umps/processor.cc: mapVirtual, probeTLB and the    *)
(* TLB instructions) under a kernel that keeps a page table, refills the   *)
(* TLB with TLBWR, updates it with TLBP and TLBWI or clears it with        *)
(* TLBCLR, and pins one page in entry 0, which TLBWR and TLBCLR spare.     *)
(*                                                                         *)
(* The kernel is any that follows these conventions; the processor's part  *)
(* of each action is one instruction. Pages of VPN are above the TLB floor *)
(* and, like all of kuseg, open to user mode: the accesses that mapVirtual *)
(* refuses or lets through untranslated never reach the TLB.               *)
(***************************************************************************)
EXTENDS Naturals

CONSTANTS
  Size,      \* entries of the TLB
  VPN, ASID, \* pages and address spaces
  Global,    \* pages that every address space shares
  Pinned     \* the page of entry 0

(* The size is masked as if it were a power of two, which the              *)
(* configuration editor offers and machine_config.cc does not check.       *)
ASSUME SizeAssumption == Size \in {4, 8, 16, 32, 64}
ASSUME PagesAssumption == Global \subseteq VPN /\ Pinned \in Global
ASSUME ASIDAssumption == ASID # {}

VARIABLES
  tlb,       \* the entries
  hi, lo,    \* ENTRYHI and ENTRYLO
  index,     \* INDEX: the index, and whether the last probe failed
  random,    \* RANDOM
  pageTable, \* the kernel's translations, [VPN -> [ASID -> Lo]]
  kernel     \* what the kernel does next: run the program, or an instruction

vars == <<tlb, hi, lo, index, random, pageTable, kernel>>

Lo    == {l \in [v : BOOLEAN, d : BOOLEAN] : l.d => l.v}
None  == "none"
ASSUME NoneAssumption == None \notin VPN

Entry == [vpn : VPN \cup {None}, asid : ASID, g : BOOLEAN, lo : Lo]
Zero  == [vpn |-> None, asid |-> CHOOSE a \in ASID : TRUE, g |-> FALSE, lo |-> [v |-> FALSE, d |-> FALSE]]

(* What TLBWI and TLBWR write, from ENTRYHI and ENTRYLO. *)
HiLo == [vpn |-> hi.vpn, asid |-> hi.asid, g |-> hi.vpn \in Global, lo |-> lo]

-----------------------------------------------------------------------------
(* Mutant: RANDOM reaches entry 0. *)
RandomTickToZero(r) == (r - 1) % Size

randomRegTick(r) == LET t == (r + Size - 1) % Size IN IF t = 0 THEN Size - 1 ELSE t

Matches(e, v, a) == e.vpn = v /\ (e.g \/ e.asid = a)

Matching(v, a) == {n \in 0..Size-1 : Matches(tlb[n], v, a)}

(* probeTLB: the highest entry that matches, if any does. *)
probeTLB(v, a) == CHOOSE n \in Matching(v, a) : \A m \in Matching(v, a) : m <= n

(* mapVirtual: the program goes on, or a refill (UTLBL, UTLBS) or another  *)
(* exception (TLBL, TLBS, MOD) makes the kernel run its handler.           *)
Outcome(v, type) ==
  LET l == tlb[probeTLB(v, hi.asid)].lo IN
  IF Matching(v, hi.asid) = {} THEN "refill"
  ELSE IF l.v /\ (type = "write" => l.d) THEN "run" ELSE "fault"

(* Mutant: ENTRYHI keeps the page of the access before. *)
setTLBRegsKept(v) == hi' = hi

setTLBRegs(v) == hi' = [hi EXCEPT !.vpn = v]

Access(v, type) ==
  /\ kernel = "run"
  /\ kernel' = Outcome(v, type)
  /\ IF kernel' = "run" THEN hi' = hi ELSE setTLBRegs(v)
  /\ random' = randomRegTick(random)
  /\ UNCHANGED <<tlb, lo, index, pageTable>>

-----------------------------------------------------------------------------
(* The handler of a refill: MTC0 ENTRYLO from the page table, then TLBWR. *)
LoadEntryLo ==
  /\ kernel = "refill"
  /\ lo' = pageTable[hi.vpn][hi.asid]
  /\ kernel' = "tlbwr"
  /\ random' = randomRegTick(random)
  /\ UNCHANGED <<tlb, hi, index, pageTable>>

TLBWR ==
  /\ kernel = "tlbwr"
  /\ tlb' = [tlb EXCEPT ![random] = HiLo]
  /\ kernel' = "run"
  /\ random' = randomRegTick(random)
  /\ UNCHANGED <<hi, lo, index, pageTable>>

(* The kernel changes a translation: of the page that faulted, to which    *)
(* ENTRYHI points, or of a page it chooses. It then probes, or clears.     *)
Change(v, a, l) ==
  /\ pageTable' = [pageTable EXCEPT ![v] = [b \in ASID |-> IF b = a \/ v \in Global THEN l ELSE @[b]]]
  /\ lo' = l
  /\ kernel' \in {"tlbp", "tlbclr"}
  /\ random' = randomRegTick(random)

Fault ==
  /\ kernel = "fault"
  /\ \E l \in Lo : Change(hi.vpn, hi.asid, l)
  /\ UNCHANGED <<tlb, hi, index>>

Remap(v, a, l) ==
  /\ kernel = "run" /\ v # Pinned
  /\ Change(v, a, l)
  /\ hi' = [vpn |-> v, asid |-> a]
  /\ UNCHANGED <<tlb, index>>

TLBP ==
  /\ kernel = "tlbp"
  /\ index' = IF Matching(hi.vpn, hi.asid) = {} THEN [p |-> TRUE, n |-> 0]
              ELSE [p |-> FALSE, n |-> probeTLB(hi.vpn, hi.asid)]
  /\ kernel' = "tlbwi"
  /\ random' = randomRegTick(random)
  /\ UNCHANGED <<tlb, hi, lo, pageTable>>

TLBWI ==
  /\ kernel = "tlbwi"
  /\ tlb' = IF index.p THEN tlb ELSE [tlb EXCEPT ![index.n] = HiLo]
  /\ kernel' = "resume"
  /\ random' = randomRegTick(random)
  /\ UNCHANGED <<hi, lo, index, pageTable>>

(* Mutant: the last entry is not cleared. *)
zapTLBButLast(t) == [n \in 0..Size-1 |-> IF n \in {0, Size - 1} THEN t[n] ELSE Zero]

zapTLB(t) == [n \in 0..Size-1 |-> IF n = 0 THEN t[n] ELSE Zero]

TLBCLR ==
  /\ kernel = "tlbclr"
  /\ tlb' = zapTLB(tlb)
  /\ kernel' = "resume"
  /\ random' = randomRegTick(random)
  /\ UNCHANGED <<hi, lo, index, pageTable>>

(* The kernel inspects an entry, which overwrites ENTRYHI and ENTRYLO. *)
TLBR(n) ==
  /\ kernel = "run"
  /\ tlb[n].vpn # None
  /\ index' = [index EXCEPT !.n = n]
  /\ hi' = [vpn |-> tlb[n].vpn, asid |-> tlb[n].asid]
  /\ lo' = tlb[n].lo
  /\ kernel' = "resume"
  /\ random' = randomRegTick(random)
  /\ UNCHANGED <<tlb, pageTable>>

(* The kernel returns to a program of some address space. *)
Resume(a) ==
  /\ kernel = "resume"
  /\ hi' = [hi EXCEPT !.asid = a]
  /\ kernel' = "run"
  /\ random' = randomRegTick(random)
  /\ UNCHANGED <<tlb, lo, index, pageTable>>

-----------------------------------------------------------------------------
(* Reset, and a kernel that has pinned its page with TLBWI at INDEX 0. *)
PinnedLo == [v |-> TRUE, d |-> TRUE]

Init ==
  /\ hi = [vpn |-> Pinned, asid |-> Zero.asid]
  /\ lo = PinnedLo
  /\ tlb = [n \in 0..Size-1 |-> IF n = 0 THEN HiLo ELSE Zero]
  /\ index = [p |-> FALSE, n |-> 0]
  /\ random = Size - 2
  /\ pageTable = [v \in VPN |-> [a \in ASID |-> IF v = Pinned THEN PinnedLo ELSE Zero.lo]]
  /\ kernel = "run"

Next ==
  \/ \E v \in VPN, type \in {"read", "write"} : Access(v, type)
  \/ LoadEntryLo \/ TLBWR \/ Fault \/ TLBP \/ TLBWI \/ TLBCLR
  \/ \E v \in VPN, a \in ASID, l \in Lo : Remap(v, a, l)
  \/ \E n \in 0..Size-1 : TLBR(n)
  \/ \E a \in ASID : Resume(a)

Spec == Init /\ [][Next]_vars

-----------------------------------------------------------------------------
TypeOK ==
  /\ tlb \in [0..Size-1 -> Entry]
  /\ hi \in [vpn : VPN, asid : ASID] /\ lo \in Lo
  /\ index \in [p : BOOLEAN, n : 0..Size-1]
  /\ random \in 1..Size-1
  /\ pageTable \in [VPN -> [ASID -> Lo]]
  /\ kernel \in {"run", "refill", "tlbwr", "fault", "tlbp", "tlbwi", "tlbclr", "resume"}

(* No two entries match the same access: which of them the probe finds     *)
(* never matters (a shared page is not entered once per address space).    *)
OneMatch == \A v \in VPN, a \in ASID : \A m, n \in Matching(v, a) : m = n

(* While programs run, no access is translated by what the page table no   *)
(* longer says: TLBP finds every entry of a page that changed, TLBCLR      *)
(* leaves none, and a refill enters the page that missed.                  *)
Coherent ==
  kernel = "run" =>
    \A v \in VPN, a \in ASID : \A n \in Matching(v, a) : tlb[n].lo = pageTable[v][a]

(* The pinned page never misses: neither refills, wherever RANDOM is, nor  *)
(* TLBCLR touch entry 0.                                                   *)
PinnedStays == tlb[0] = [vpn |-> Pinned, asid |-> Zero.asid, g |-> TRUE, lo |-> PinnedLo]
=============================================================================
