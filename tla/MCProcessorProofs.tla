------------------------------- MODULE MCProcessorProofs -------------------------------
(***************************************************************************)
(* Proofs about a core: Tlb, for every size of the TLB and every page,     *)
(* address space and page table, Pipeline, for every program, Bios, for    *)
(* all cores and programs, Arithmetic, for words of every size, Bytes, for *)
(* every memory, and Instructions, for instructions of any fields.         *)
(***************************************************************************)
EXTENDS MCProcessor, Integers, TLAPS

(* The kernel has changed the page table and not yet the TLB. *)
Changing == kernel \in {"tlbp", "tlbwi", "tlbclr"}

(* The page and address space of ENTRYHI, or a page it shares.             *)
AtHi(v, a) == v = hi.vpn /\ (v \in Global \/ a = hi.asid)

Globals == \A n \in 0..Size-1 : tlb[n].vpn # None => (tlb[n].g <=> tlb[n].vpn \in Global)

(* A shared page is the same everywhere, and the pinned one never changes. *)
PageTableInv == /\ \A v \in Global : \A a, b \in ASID : pageTable[v][a] = pageTable[v][b]
                /\ \A a \in ASID : pageTable[Pinned][a] = PinnedLo

(* Coherent, at every step of the kernel: what the TLB holds wrongly is    *)
(* what the kernel is about to repair.                                     *)
AlmostCoherent ==
  \A v \in VPN, a \in ASID : \A n \in Matching(v, a) :
    tlb[n].lo # pageTable[v][a] => Changing /\ AtHi(v, a)

(* What each step of the kernel relies on. *)
KernelInv ==
  /\ Changing \/ kernel = "tlbwr" => lo = pageTable[hi.vpn][hi.asid]
  /\ kernel \in {"refill", "tlbwr"} => Matching(hi.vpn, hi.asid) = {}
  /\ Changing \/ kernel = "fault" => hi.vpn # Pinned
  /\ kernel = "tlbwi" => IF index.p THEN Matching(hi.vpn, hi.asid) = {}
                         ELSE index.n \in Matching(hi.vpn, hi.asid)

IInv == TypeOK /\ OneMatch /\ PinnedStays /\ Globals /\ PageTableInv /\ AlmostCoherent /\ KernelInv


(* The probe finds the entry that matches. *)
LEMMA ProbeFinds ==
  ASSUME TypeOK, OneMatch, NEW v \in VPN, NEW a \in ASID, NEW n \in Matching(v, a)
  PROVE  probeTLB(v, a) = n
<1>1. \A m \in Matching(v, a) : m = n
  BY DEF OneMatch
<1>2. n \in Matching(v, a) /\ \A m \in Matching(v, a) : m <= n
  BY <1>1, SizeAssumption DEF Matching
<1>3. QED
  BY <1>1, <1>2 DEF probeTLB

LEMMA PinnedMatches ==
  ASSUME TypeOK, PinnedStays, NEW a \in ASID
  PROVE  0 \in Matching(Pinned, a)
<1>1. 0 \in 0..Size-1
  BY SizeAssumption
<1>2. Matches(tlb[0], Pinned, a)
  BY DEF PinnedStays, Matches
<1>3. QED
  BY <1>1, <1>2 DEF Matching

(* RANDOM never reaches entry 0. *)
LEMMA RandomTick == \A r \in 1..Size-1 : randomRegTick(r) \in 1..Size-1
<1> SUFFICES ASSUME NEW r \in 1..Size-1
             PROVE  randomRegTick(r) \in 1..Size-1
  OBVIOUS
<1>1. CASE Size = 4
  BY <1>1 DEF randomRegTick
<1>2. CASE Size = 8
  BY <1>2 DEF randomRegTick
<1>3. CASE Size = 16
  BY <1>3 DEF randomRegTick
<1>4. CASE Size = 32
  BY <1>4 DEF randomRegTick
<1>5. CASE Size = 64
  BY <1>5 DEF randomRegTick
<1>6. QED
  BY <1>1, <1>2, <1>3, <1>4, <1>5, SizeAssumption

LEMMA LoFacts == Zero.lo \in Lo /\ PinnedLo \in Lo
  BY DEF Zero, Lo, PinnedLo

LEMMA ZeroFacts == /\ Zero \in Entry
                   /\ Zero.asid \in ASID
                   /\ Zero.vpn = None
                   /\ \A v \in VPN, a \in ASID : ~ Matches(Zero, v, a)
<1>1. Zero.asid \in ASID
  BY ASIDAssumption DEF Zero
<1>2. QED
  BY <1>1, LoFacts, NoneAssumption DEF Zero, Entry, Matches

LEMMA PinnedIsPage == Pinned \in VPN /\ Pinned \in Global
  BY PagesAssumption

LEMMA InitIInv == Init => IInv
<1> SUFFICES ASSUME Init
             PROVE  IInv
  OBVIOUS
<1> USE ZeroFacts, LoFacts, PinnedIsPage, SizeAssumption
<1>1. HiLo = [vpn |-> Pinned, asid |-> Zero.asid, g |-> TRUE, lo |-> PinnedLo]
  BY DEF Init, HiLo
<1>2. HiLo \in Entry
  BY <1>1 DEF Entry
<1>3. \A n \in 0..Size-1 : tlb[n] = IF n = 0 THEN HiLo ELSE Zero
  BY DEF Init
<1>4. TypeOK
  BY <1>2 DEF Init, TypeOK
<1>5. \A v \in VPN, a \in ASID : \A n \in Matching(v, a) : n = 0 /\ v = Pinned
  BY <1>1, <1>3 DEF Matching, Matches
<1>6. OneMatch /\ PinnedStays
  <2>1. OneMatch
    BY <1>5 DEF OneMatch
  <2>2. 0 \in 0..Size-1
    OBVIOUS
  <2>3. PinnedStays
    BY <1>1, <1>3, <2>2 DEF PinnedStays
  <2>4. QED
    BY <2>1, <2>3
<1>7. Globals
  <2>1. ASSUME NEW n \in 0..Size-1, tlb[n].vpn # None
        PROVE  n = 0
    BY <1>3, <2>1
  <2>2. tlb[0].g = TRUE /\ tlb[0].vpn = Pinned
    BY <1>1, <1>3
  <2>3. QED
    BY <2>1, <2>2 DEF Globals
<1>8. PageTableInv
  BY PagesAssumption DEF Init, PageTableInv
<1>9. AlmostCoherent
  <2>1. \A a \in ASID : pageTable[Pinned][a] = PinnedLo
    BY <1>8 DEF PageTableInv
  <2>2. tlb[0].lo = PinnedLo
    BY <1>1, <1>3
  <2>3. QED
    BY <1>5, <2>1, <2>2 DEF AlmostCoherent
<1>10. KernelInv
  BY DEF Init, KernelInv, Changing
<1>11. QED
  BY <1>4, <1>6, <1>7, <1>8, <1>9, <1>10 DEF IInv

-----------------------------------------------------------------------------
LEMMA TypeStep == IInv /\ Next => TypeOK'
<1> SUFFICES ASSUME IInv, Next
             PROVE  TypeOK'
  OBVIOUS
<1> USE RandomTick DEF IInv, TypeOK
<1>1. ASSUME NEW v \in VPN, NEW type \in {"read", "write"}, Access(v, type)
      PROVE  TypeOK'
  BY <1>1 DEF Access, Outcome, setTLBRegs
<1>2. CASE LoadEntryLo
  BY <1>2 DEF LoadEntryLo
<1>3. HiLo \in Entry
  BY DEF HiLo, Entry
<1>4. CASE TLBWR
  BY <1>3, <1>4 DEF TLBWR
<1>5. ASSUME NEW v \in VPN, NEW a \in ASID, NEW l \in Lo, Change(v, a, l)
      PROVE  /\ pageTable' \in [VPN -> [ASID -> Lo]]
             /\ lo' \in Lo /\ kernel' \in {"tlbp", "tlbclr"} /\ random' \in 1..Size-1
  <2>1. pageTable[v] \in [ASID -> Lo]
    OBVIOUS
  <2>2. [b \in ASID |-> IF b = a \/ v \in Global THEN l ELSE pageTable[v][b]] \in [ASID -> Lo]
    BY <2>1
  <2>3. QED
    BY <1>5, <2>2 DEF Change
<1>6. CASE Fault
  BY <1>5, <1>6 DEF Fault
<1>7. ASSUME NEW v \in VPN, NEW a \in ASID, NEW l \in Lo, Remap(v, a, l)
      PROVE  TypeOK'
  BY <1>5, <1>7 DEF Remap
<1>8. CASE TLBP
  <2>1. hi.vpn \in VPN /\ hi.asid \in ASID
    OBVIOUS
  <2>2. CASE Matching(hi.vpn, hi.asid) = {}
    BY <1>8, <2>2, SizeAssumption DEF TLBP
  <2>3. CASE Matching(hi.vpn, hi.asid) # {}
    <3>1. PICK n \in Matching(hi.vpn, hi.asid) : TRUE
      BY <2>3
    <3>2. probeTLB(hi.vpn, hi.asid) = n /\ n \in 0..Size-1
      BY <2>1, <3>1, ProbeFinds DEF Matching
    <3>3. QED
      BY <1>8, <2>3, <3>2 DEF TLBP
  <2>4. QED
    BY <2>2, <2>3
<1>9. CASE TLBWI
  BY <1>3, <1>9 DEF TLBWI
<1>10. CASE TLBCLR
  BY <1>10, ZeroFacts DEF TLBCLR, zapTLB
<1>11. ASSUME NEW n \in 0..Size-1, TLBR(n)
       PROVE  TypeOK'
  BY <1>11 DEF TLBR, Entry
<1>12. ASSUME NEW a \in ASID, Resume(a)
       PROVE  TypeOK'
  BY <1>12 DEF Resume
<1>13. QED
  BY <1>1, <1>2, <1>4, <1>6, <1>7, <1>8, <1>9, <1>10, <1>11, <1>12 DEF Next

-----------------------------------------------------------------------------
(* A page of ENTRYHI is matched by the entries of the page, whichever      *)
(* address space entered it.                                               *)
LEMMA AtHiMatches ==
  ASSUME TypeOK, Globals, NEW v \in VPN, NEW a \in ASID, AtHi(v, a)
  PROVE  Matching(v, a) = Matching(hi.vpn, hi.asid)
<1>1. hi.vpn = v /\ hi.vpn \in VPN /\ hi.vpn # None
  BY NoneAssumption DEF AtHi, TypeOK
<1>2. CASE v \in Global
  <2>1. \A n \in 0..Size-1 : tlb[n].vpn = v => tlb[n].g
    BY <1>1, <1>2 DEF Globals
  <2>2. QED
    BY <1>1, <2>1 DEF Matching, Matches
<1>3. CASE a = hi.asid
  BY <1>1, <1>3
<1>4. QED
  BY <1>2, <1>3 DEF AtHi

(* The entry that TLBWI and TLBWR write. *)
LEMMA HiLoMatches ==
  ASSUME TypeOK, NEW v \in VPN, NEW a \in ASID
  PROVE  Matches(HiLo, v, a) <=> AtHi(v, a)
  BY DEF HiLo, Matches, AtHi, TypeOK

(* Writing an entry that no other entry for the page of ENTRYHI            *)
(* contradicts keeps the TLB right, and makes it right for that page.      *)
LEMMA WriteEntry ==
  ASSUME IInv, NEW n \in 1..Size-1, tlb' = [tlb EXCEPT ![n] = HiLo],
         Matching(hi.vpn, hi.asid) \subseteq {n},
         pageTable' = pageTable, lo = pageTable[hi.vpn][hi.asid]
  PROVE  /\ OneMatch' /\ PinnedStays' /\ Globals'
         /\ \A v \in VPN, a \in ASID : \A m \in Matching(v, a)' : tlb'[m].lo = pageTable'[v][a]
<1> USE DEF IInv
<1>1. n \in 0..Size-1 /\ n # 0
  BY SizeAssumption
<1>2. tlb'[n] = HiLo /\ \A m \in 0..Size-1 : m # n => tlb'[m] = tlb[m]
  BY <1>1 DEF TypeOK
<1>3. ASSUME NEW v \in VPN, NEW a \in ASID, AtHi(v, a)
      PROVE  Matching(v, a)' = {n}
  <2>1. Matching(v, a) \subseteq {n}
    BY <1>3, AtHiMatches
  <2>2. \A m \in 0..Size-1 : m # n => ~ Matches(tlb'[m], v, a)
    BY <1>2, <2>1 DEF Matching
  <2>3. Matches(tlb'[n], v, a)
    BY <1>2, <1>3, HiLoMatches
  <2>4. QED
    BY <1>1, <2>2, <2>3 DEF Matching
<1>4. ASSUME NEW v \in VPN, NEW a \in ASID, ~ AtHi(v, a)
      PROVE  Matching(v, a)' = Matching(v, a) \ {n}
  <2>1. ~ Matches(tlb'[n], v, a)
    BY <1>2, <1>4, HiLoMatches
  <2>2. QED
    BY <1>1, <1>2, <2>1 DEF Matching
<1>5. OneMatch'
  <2>1. ASSUME NEW v \in VPN, NEW a \in ASID, NEW m \in Matching(v, a)', NEW k \in Matching(v, a)'
        PROVE  m = k
    <3>1. CASE AtHi(v, a)
      BY <1>3, <2>1, <3>1
    <3>2. CASE ~ AtHi(v, a)
      BY <1>4, <2>1, <3>2 DEF OneMatch
    <3>3. QED
      BY <3>1, <3>2
  <2>2. QED
    BY <2>1 DEF OneMatch
<1>6. PinnedStays'
  BY <1>1, <1>2, SizeAssumption DEF PinnedStays
<1>7. Globals'
  <2>1. HiLo.g <=> HiLo.vpn \in Global
    BY DEF HiLo
  <2>2. ASSUME NEW m \in 0..Size-1, tlb'[m].vpn # None
        PROVE  tlb'[m].g <=> tlb'[m].vpn \in Global
    <3>1. CASE m = n
      BY <1>2, <2>1, <3>1
    <3>2. CASE m # n
      BY <1>2, <2>2, <3>2 DEF Globals
    <3>3. QED
      BY <3>1, <3>2
  <2>3. QED
    BY <2>2 DEF Globals
<1>8. ASSUME NEW v \in VPN, NEW a \in ASID, NEW m \in Matching(v, a)'
      PROVE  tlb'[m].lo = pageTable[v][a]
  <2>1. CASE AtHi(v, a)
    <3>1. tlb'[m].lo = lo
      BY <1>2, <1>3, <1>8, <2>1 DEF HiLo
    <3>2. pageTable[v][a] = pageTable[hi.vpn][hi.asid]
      BY <2>1 DEF AtHi, PageTableInv, TypeOK
    <3>3. QED
      BY <3>1, <3>2
  <2>2. CASE ~ AtHi(v, a)
    <3>1. m \in Matching(v, a) /\ m # n /\ m \in 0..Size-1
      BY <1>4, <1>8, <2>2 DEF Matching
    <3>2. tlb[m].lo = pageTable[v][a]
      BY <2>2, <3>1 DEF AlmostCoherent
    <3>3. QED
      BY <1>2, <3>1, <3>2
  <2>3. QED
    BY <2>1, <2>2
<1>9. QED
  BY <1>5, <1>6, <1>7, <1>8

(* Clearing all entries but the first leaves the pinned page. *)
LEMMA ClearEntries ==
  ASSUME IInv, TLBCLR
  PROVE  /\ OneMatch' /\ PinnedStays' /\ Globals'
         /\ \A v \in VPN, a \in ASID : \A m \in Matching(v, a)' : m = 0 /\ v = Pinned
<1> USE DEF IInv
<1>1. \A m \in 0..Size-1 : tlb'[m] = IF m = 0 THEN tlb[0] ELSE Zero
  BY DEF TLBCLR, zapTLB
<1>2. 0 \in 0..Size-1
  BY SizeAssumption
<1>3. ASSUME NEW v \in VPN, NEW a \in ASID, NEW m \in Matching(v, a)'
      PROVE  m = 0 /\ v = Pinned
  <2>1. m \in 0..Size-1 /\ Matches(tlb'[m], v, a)
    BY <1>3 DEF Matching
  <2>2. m = 0
    BY <1>1, <2>1, ZeroFacts
  <2>3. QED
    BY <1>1, <1>2, <2>1, <2>2 DEF Matches, PinnedStays
<1>4. OneMatch'
  BY <1>3 DEF OneMatch
<1>5. PinnedStays'
  BY <1>1, <1>2 DEF PinnedStays
<1>6. Globals'
  BY <1>1, <1>2, ZeroFacts DEF Globals
<1>7. QED
  BY <1>3, <1>4, <1>5, <1>6

(* A TLB that does not change. *)
LEMMA SameTlb ==
  ASSUME tlb' = tlb
  PROVE  /\ \A v, a : Matching(v, a)' = Matching(v, a)
         /\ OneMatch => OneMatch'
         /\ PinnedStays => PinnedStays'
         /\ Globals => Globals'
<1>1. \A v, a : Matching(v, a)' = Matching(v, a)
  BY DEF Matching
<1>2. QED
  BY <1>1 DEF OneMatch, PinnedStays, Globals

-----------------------------------------------------------------------------
(* What a step must preserve besides the types. *)
Rest == OneMatch /\ PinnedStays /\ Globals /\ PageTableInv /\ AlmostCoherent /\ KernelInv

(* The pinned page is in entry 0 and translated: it never misses. *)
LEMMA PinnedRuns ==
  ASSUME IInv, NEW type \in {"read", "write"}
  PROVE  Outcome(Pinned, type) = "run"
<1>1. hi.asid \in ASID
  BY DEF IInv, TypeOK
<1>2. 0 \in Matching(Pinned, hi.asid)
  BY <1>1, PinnedMatches DEF IInv
<1>3. probeTLB(Pinned, hi.asid) = 0
  BY <1>1, <1>2, PinnedIsPage, ProbeFinds DEF IInv
<1>4. tlb[0].lo.v /\ tlb[0].lo.d
  BY DEF IInv, PinnedStays, PinnedLo
<1>5. QED
  BY <1>2, <1>3, <1>4 DEF Outcome

LEMMA AccessStep ==
  ASSUME IInv, NEW v \in VPN, NEW type \in {"read", "write"}, Access(v, type)
  PROVE  Rest'
<1> USE DEF IInv
<1>1. OneMatch' /\ PinnedStays' /\ Globals'
  BY SameTlb DEF Access
<1>2. PageTableInv'
  BY DEF Access, PageTableInv
<1>3. AlmostCoherent'
  BY SameTlb DEF Access, AlmostCoherent, Changing
<1>4. kernel' \in {"run", "refill", "fault"} /\ kernel' = Outcome(v, type)
  BY DEF Access, Outcome
<1>5. CASE kernel' = "run"
  <2>1. KernelInv'
    BY <1>5 DEF KernelInv, Changing
  <2>2. QED
    BY <1>1, <1>2, <1>3, <2>1 DEF Rest
<1>6. CASE kernel' # "run"
  <2>1. hi'.vpn = v /\ hi'.asid = hi.asid
    BY <1>6 DEF Access, setTLBRegs, TypeOK
  <2>2. v # Pinned
    BY <1>4, <1>6, PinnedRuns
  <2>3. kernel' = "refill" => Matching(hi.vpn, hi.asid)' = {}
    <3>1. kernel' = "refill" => Matching(v, hi.asid) = {}
      BY <1>4 DEF Outcome
    <3>2. tlb' = tlb
      BY DEF Access
    <3>3. Matching(hi.vpn, hi.asid)' = Matching(v, hi.asid)
      BY <2>1, <3>2 DEF Matching
    <3>4. QED
      BY <3>1, <3>3
  <2>4. KernelInv'
    BY <1>4, <2>1, <2>2, <2>3 DEF KernelInv, Changing
  <2>5. QED
    BY <1>1, <1>2, <1>3, <2>4 DEF Rest
<1>7. QED
  BY <1>1, <1>2, <1>3, <1>5, <1>6 DEF Rest

LEMMA LoadEntryLoStep ==
  ASSUME IInv, LoadEntryLo
  PROVE  Rest'
<1> USE DEF IInv
<1>1. OneMatch' /\ PinnedStays' /\ Globals'
  BY SameTlb DEF LoadEntryLo
<1>2. PageTableInv'
  BY DEF LoadEntryLo, PageTableInv
<1>3. AlmostCoherent'
  BY SameTlb DEF LoadEntryLo, AlmostCoherent, Changing
<1>4. Matching(hi.vpn, hi.asid)' = {}
  BY SameTlb DEF LoadEntryLo, KernelInv
<1>5. KernelInv'
  BY <1>4 DEF LoadEntryLo, KernelInv, Changing
<1>6. QED
  BY <1>1, <1>2, <1>3, <1>5 DEF Rest

LEMMA TLBWRStep ==
  ASSUME IInv, TLBWR
  PROVE  Rest'
<1> USE DEF IInv
<1>1. /\ OneMatch' /\ PinnedStays' /\ Globals'
      /\ \A v \in VPN, a \in ASID : \A m \in Matching(v, a)' : tlb'[m].lo = pageTable'[v][a]
  <2>1. /\ random \in 1..Size-1 /\ tlb' = [tlb EXCEPT ![random] = HiLo]
        /\ Matching(hi.vpn, hi.asid) = {}
        /\ pageTable' = pageTable /\ lo = pageTable[hi.vpn][hi.asid]
    BY DEF TLBWR, TypeOK, KernelInv
  <2>2. QED
    BY <2>1, WriteEntry
<1>2. PageTableInv'
  BY DEF TLBWR, PageTableInv
<1>3. AlmostCoherent'
  BY <1>1 DEF AlmostCoherent
<1>4. KernelInv'
  BY DEF TLBWR, KernelInv, Changing
<1>5. QED
  BY <1>1, <1>2, <1>3, <1>4 DEF Rest

(* The kernel changes the translation of the page ENTRYHI is about to      *)
(* point to: only the entry of that page is wrong.                         *)
LEMMA ChangeStep ==
  ASSUME IInv, NEW v \in VPN, NEW a \in ASID, NEW l \in Lo, Change(v, a, l),
         v # Pinned, hi'.vpn = v, hi'.asid = a, tlb' = tlb, ~ Changing
  PROVE  Rest'
<1> USE DEF IInv
<1>1. OneMatch' /\ PinnedStays' /\ Globals'
  BY SameTlb
<1>2. \A w \in VPN, b \in ASID :
         pageTable'[w][b] = IF w = v /\ (b = a \/ v \in Global) THEN l ELSE pageTable[w][b]
  BY DEF Change, TypeOK
<1>3. PageTableInv'
  BY <1>2, PagesAssumption DEF PageTableInv
<1>4. Changing' /\ kernel' \in {"tlbp", "tlbclr"}
  BY DEF Change, Changing
<1>5. AlmostCoherent'
  <2>1. ASSUME NEW w \in VPN, NEW b \in ASID, NEW n \in Matching(w, b)', ~ AtHi(w, b)'
        PROVE  tlb'[n].lo = pageTable'[w][b]
    <3>1. pageTable'[w][b] = pageTable[w][b]
      BY <1>2, <2>1 DEF AtHi
    <3>2. tlb[n].lo = pageTable[w][b]
      BY <2>1, SameTlb DEF AlmostCoherent
    <3>3. QED
      BY <3>1, <3>2
  <2>2. QED
    BY <1>4, <2>1 DEF AlmostCoherent
<1>6. lo' = pageTable'[hi'.vpn][hi'.asid]
  BY <1>2 DEF Change
<1>7. KernelInv'
  BY <1>4, <1>6 DEF KernelInv, Changing
<1>8. QED
  BY <1>1, <1>3, <1>5, <1>7 DEF Rest

LEMMA TLBPStep ==
  ASSUME IInv, TLBP
  PROVE  Rest'
<1> USE DEF IInv
<1>1. OneMatch' /\ PinnedStays' /\ Globals'
  BY SameTlb DEF TLBP
<1>2. PageTableInv'
  BY DEF TLBP, PageTableInv
<1>3. AlmostCoherent'
  BY SameTlb DEF TLBP, AlmostCoherent, Changing, AtHi
<1>4. Matching(hi.vpn, hi.asid)' = Matching(hi.vpn, hi.asid)
  BY SameTlb DEF TLBP
<1>5. IF index'.p THEN Matching(hi.vpn, hi.asid) = {} ELSE index'.n \in Matching(hi.vpn, hi.asid)
  <2>1. CASE Matching(hi.vpn, hi.asid) = {}
    BY <2>1 DEF TLBP
  <2>2. ASSUME NEW n \in Matching(hi.vpn, hi.asid)
        PROVE  ~ index'.p /\ index'.n = n
    <3>1. hi.vpn \in VPN /\ hi.asid \in ASID
      BY DEF TypeOK
    <3>2. probeTLB(hi.vpn, hi.asid) = n
      BY <3>1, ProbeFinds
    <3>3. QED
      BY <2>2, <3>2 DEF TLBP
  <2>3. QED
    BY <2>1, <2>2
<1>6. KernelInv'
  BY <1>4, <1>5 DEF TLBP, KernelInv, Changing
<1>7. QED
  BY <1>1, <1>2, <1>3, <1>6 DEF Rest

LEMMA TLBWIStep ==
  ASSUME IInv, TLBWI
  PROVE  Rest'
<1> USE DEF IInv
<1>1. hi.vpn \in VPN /\ hi.asid \in ASID /\ hi.vpn # Pinned
  BY DEF TypeOK, TLBWI, KernelInv, Changing
<1>2. PageTableInv' /\ KernelInv'
  BY DEF TLBWI, PageTableInv, KernelInv, Changing
<1>3. CASE index.p
  <2>1. Matching(hi.vpn, hi.asid) = {} /\ tlb' = tlb /\ pageTable' = pageTable
    BY <1>3 DEF TLBWI, KernelInv
  <2>2. \A v \in VPN, a \in ASID : Matching(v, a) # {} => ~ AtHi(v, a)
    BY <2>1, AtHiMatches
  <2>3. AlmostCoherent'
    BY <2>1, <2>2, SameTlb DEF AlmostCoherent
  <2>4. QED
    BY <1>2, <2>1, <2>3, SameTlb DEF Rest
<1>4. CASE ~ index.p
  <2>1. index.n \in Matching(hi.vpn, hi.asid)
    BY <1>4 DEF TLBWI, KernelInv
  <2>2. Matching(hi.vpn, hi.asid) \subseteq {index.n}
    BY <1>1, <2>1 DEF OneMatch
  <2>3. index.n # 0
    BY <1>1, <2>1 DEF Matching, Matches, PinnedStays
  <2>4. index.n \in 1..Size-1
    BY <2>3, SizeAssumption DEF TypeOK
  <2>5. /\ tlb' = [tlb EXCEPT ![index.n] = HiLo] /\ pageTable' = pageTable
        /\ lo = pageTable[hi.vpn][hi.asid]
    BY <1>4 DEF TLBWI, KernelInv, Changing
  <2>6. /\ OneMatch' /\ PinnedStays' /\ Globals'
        /\ \A v \in VPN, a \in ASID : \A m \in Matching(v, a)' : tlb'[m].lo = pageTable'[v][a]
    BY <2>2, <2>4, <2>5, WriteEntry
  <2>7. AlmostCoherent'
    BY <2>6 DEF AlmostCoherent
  <2>8. QED
    BY <1>2, <2>6, <2>7 DEF Rest
<1>5. QED
  BY <1>3, <1>4

LEMMA TLBCLRStep ==
  ASSUME IInv, TLBCLR
  PROVE  Rest'
<1> USE DEF IInv
<1>1. PageTableInv' /\ KernelInv'
  BY DEF TLBCLR, PageTableInv, KernelInv, Changing
<1>2. AlmostCoherent'
  <2>1. tlb'[0].lo = PinnedLo
    BY ClearEntries DEF PinnedStays
  <2>2. \A a \in ASID : pageTable'[Pinned][a] = PinnedLo
    BY <1>1 DEF PageTableInv
  <2>3. QED
    BY <2>1, <2>2, ClearEntries DEF AlmostCoherent
<1>3. QED
  BY <1>1, <1>2, ClearEntries DEF Rest

(* TLBR and the return to a program change no translation. *)
LEMMA QuietStep ==
  ASSUME IInv, ~ Changing, tlb' = tlb, pageTable' = pageTable, kernel' \in {"run", "resume"}
  PROVE  Rest'
<1> USE DEF IInv
<1>1. OneMatch' /\ PinnedStays' /\ Globals'
  BY SameTlb
<1>2. PageTableInv'
  BY DEF PageTableInv
<1>3. AlmostCoherent'
  BY SameTlb DEF AlmostCoherent
<1>4. KernelInv'
  BY DEF KernelInv, Changing
<1>5. QED
  BY <1>1, <1>2, <1>3, <1>4 DEF Rest

LEMMA RestStep == IInv /\ Next => Rest'
<1> SUFFICES ASSUME IInv, Next
             PROVE  Rest'
  OBVIOUS
<1>1. CASE Fault
  <2>1. hi.vpn \in VPN /\ hi.asid \in ASID /\ hi.vpn # Pinned /\ ~ Changing
    BY <1>1 DEF Fault, IInv, TypeOK, KernelInv, Changing
  <2>2. QED
    BY <1>1, <2>1, ChangeStep DEF Fault
<1>2. ASSUME NEW v \in VPN, NEW a \in ASID, NEW l \in Lo, Remap(v, a, l)
      PROVE  Rest'
  <2>1. ~ Changing /\ tlb' = tlb /\ hi'.vpn = v /\ hi'.asid = a /\ v # Pinned /\ Change(v, a, l)
    BY <1>2 DEF Remap, Changing
  <2>2. QED
    BY <2>1, ChangeStep
<1>3. ASSUME NEW n \in 0..Size-1, TLBR(n)
      PROVE  Rest'
  BY <1>3, QuietStep DEF TLBR, Changing
<1>4. ASSUME NEW a \in ASID, Resume(a)
      PROVE  Rest'
  BY <1>4, QuietStep DEF Resume, Changing
<1>5. QED
  BY <1>1, <1>2, <1>3, <1>4, AccessStep, LoadEntryLoStep, TLBWRStep, TLBPStep,
     TLBWIStep, TLBCLRStep DEF Next

-----------------------------------------------------------------------------
(* The inductive invariant. *)
THEOREM Invariant == Spec => []IInv
<1>1. IInv /\ [Next]_vars => IInv'
  <2>1. IInv /\ Next => IInv'
    BY TypeStep, RestStep DEF IInv, Rest
  <2>2. IInv /\ UNCHANGED vars => IInv'
    BY DEF vars, IInv, TypeOK, OneMatch, PinnedStays, Globals, PageTableInv,
           AlmostCoherent, KernelInv, Changing, AtHi, Matching
  <2>3. QED
    BY <2>1, <2>2
<1>2. QED
  BY InitIInv, <1>1, PTL DEF Spec

(* The types, and with them: the probe and the writes stay in the TLB. *)
THEOREM TypeCorrect == Spec => []TypeOK
  BY Invariant, PTL DEF IInv

(* The kernel's conventions and the code of the TLB instructions never     *)
(* make two entries match one access: probeTLB has no choice to make.      *)
THEOREM ProbeIsUnambiguous == Spec => []OneMatch
  BY Invariant, PTL DEF IInv

(* RANDOM and TLBCLR spare entry 0, and TLBP never sends TLBWI there.      *)
THEOREM PinnedPageStays == Spec => []PinnedStays
  BY Invariant, PTL DEF IInv

(* While a program runs, the TLB agrees with the page table. *)
THEOREM NoStaleTranslation == Spec => []Coherent
<1>1. IInv => Coherent
  BY DEF IInv, AlmostCoherent, Changing, Coherent
<1>2. QED
  BY Invariant, <1>1, PTL

-----------------------------------------------------------------------------
allVars == <<active, vars, pVars, dVars, aVars, bVars, fVars>>

LEMMA OneRuns == [MCNext]_allVars => active' = active
  BY DEF MCNext, allVars

(* The TLB, in what TLC runs. *)
THEOREM TlbRuns == MCSpec => Spec
<1>1. MCInit => Init
  BY DEF MCInit
<1>2. [MCNext]_allVars => [Next]_vars
  BY DEF MCNext, allVars
<1>3. QED
  BY <1>1, <1>2, PTL DEF MCSpec, Spec, allVars

-----------------------------------------------------------------------------
(* The pipeline. *)
InHandler == {"general", "refill"} \X {0, 1}

Cpu == [pc : P!Address, npc : P!Address, spc : P!Address, prev : P!Address, epc : P!Address,
        instr : P!Kinds \cup {"jrEpc", "rfe", "nop"}, bd : BOOLEAN,
        load : {"none", "gpr", "mode"}, loadMode : P!Mode, reg : {"initial", "alu", "load"},
        status : P!Mode \X P!Mode \X P!Mode, idle : BOOLEAN]

(* The branch at a is executed again, on return from its delay slot.       *)
Retaken(a, f) ==
  /\ prog[a[2]] \in P!Branches /\ P!Plus4(a) = f[1]
  /\ f[2] = IF prog[a[2]] = "taken" THEN P!Program(Target) ELSE P!Plus4(f[1])

(* The program can go on from a.                                           *)
Resumable(a, f) == P!InProgram(a) /\ ((a = f[1] /\ f[2] = P!Plus4(a)) \/ Retaken(a, f))

(* ... and from where an exception would restart the instruction.          *)
Restartable(c, f) == IF c.bd THEN P!InProgram(c.prev) /\ Retaken(c.prev, f) ELSE Resumable(c.pc, f)

(* The register and the mode once the pending load completes.             *)
PReg(c)  == IF c.load = "gpr" THEN "load" ELSE c.reg
PMode(c) == IF c.load = "mode" THEN c.loadMode ELSE c.status[1]

(* The core is in the program, with what the instructions so far left.     *)
Located(c, f, r, m) ==
  /\ P!InProgram(c.pc) /\ c.spc = P!Plus4(c.npc)
  /\ (c.pc = f[1] /\ c.npc = f[2]) \/ (Retaken(c.pc, f) /\ c.npc = f[1])
  /\ c.bd => c.load = "none"
  /\ PReg(c) = r /\ PMode(c) = m

Running(c, f, r, m) ==
  /\ Located(c, f, r, m) /\ c.instr = prog[c.pc[2]]
  /\ Restartable(c, f) \/ (c.instr = "wait" /\ ~c.status[1].ku /\ c.load = "none" /\ ~c.bd)
  /\ c.idle => c.instr = "wait"

(* An exception has been entered.                                          *)
Entered(c, f, r, m) ==
  /\ Resumable(c.epc, f) /\ c.load = "none" /\ c.reg = r
  /\ c.status[1] = P!Kernel /\ c.status[2] = m /\ ~c.idle

Nullified(c, f, r, m) ==
  /\ Entered(c, f, r, m) /\ P!InProgram(c.pc) /\ c.instr = "nop"
  /\ c.npc \in {P!General, P!Refill} /\ c.spc = P!Plus4(c.npc)

Handling(c, f, r, m) ==
  /\ Entered(c, f, r, m)
  /\ \/ c.pc \in {P!General, P!Refill} /\ c.instr = "jrEpc" /\ c.npc = P!Plus4(c.pc)
     \/ /\ c.pc \in {P!Plus4(P!General), P!Plus4(P!Refill)} /\ c.instr = "rfe"
        /\ c.npc = c.epc /\ c.spc = P!Plus4(c.epc)

Ok(c, f, r, m) == Running(c, f, r, m) \/ Nullified(c, f, r, m) \/ Handling(c, f, r, m)

PipeInv ==
  /\ prog \in P!Programs /\ cpu \in Cpu /\ line \in {"down", "masked", "up"}
  /\ flow \in P!Address \X P!Address /\ P!InProgram(flow[1]) /\ P!InProgram(flow[2])
  /\ seqReg \in {"initial", "alu", "load"} /\ seqMode \in P!Mode
  /\ Ok(cpu, flow, seqReg, seqMode)


LEMMA Except1 ==
  ASSUME NEW T, NEW s \in T \X T \X T, NEW e \in T
  PROVE  [s EXCEPT ![1] = e] = <<e, s[2], s[3]>>
  OBVIOUS

LEMMA Plus4Address == \A a \in P!Address : P!Plus4(a) \in P!Address /\ (P!InProgram(P!Plus4(a)) <=> P!InProgram(a))
<1> SUFFICES ASSUME NEW a \in P!Address
             PROVE  P!Plus4(a) \in P!Address /\ (P!InProgram(P!Plus4(a)) <=> P!InProgram(a))
  OBVIOUS
<1>1. \A n \in Nat : n % ProgSize \in 0..ProgSize-1
  BY PipelineAssumption
<1>2. CASE a \in {"program"} \X (0..ProgSize-1)
  <2>1. a[1] = "program" /\ a[2] + 1 \in Nat
    BY <1>2, PipelineAssumption
  <2>2. P!Plus4(a) = <<"program", (a[2] + 1) % ProgSize>>
    BY <2>1 DEF P!Plus4, P!InProgram
  <2>3. QED
    BY <1>1, <2>1, <2>2 DEF P!Address, P!InProgram
<1>3. CASE a \in {"general", "refill"} \X {0, 1}
  <2>1. a[1] \in {"general", "refill"} /\ a[2] \in {0, 1}
    BY <1>3
  <2>2. P!Plus4(a) = <<a[1], (a[2] + 1) % 2>> /\ (a[2] + 1) % 2 \in {0, 1}
    BY <2>1 DEF P!Plus4, P!InProgram
  <2>3. QED
    BY <2>1, <2>2 DEF P!Address, P!InProgram
<1>4. QED
  BY <1>2, <1>3 DEF P!Address

LEMMA LoadDone ==
  ASSUME NEW c \in Cpu
  PROVE  LET d == P!completeLoad(c) IN
         /\ d \in Cpu /\ d.load = "none"
         /\ d.pc = c.pc /\ d.npc = c.npc /\ d.spc = c.spc /\ d.prev = c.prev /\ d.epc = c.epc
         /\ d.instr = c.instr /\ d.bd = c.bd /\ d.idle = c.idle /\ d.loadMode = c.loadMode
         /\ d.status[2] = c.status[2] /\ d.status[3] = c.status[3]
         /\ d.reg = PReg(c) /\ d.status[1] = PMode(c)
<1> DEFINE r == IF c.load = "gpr" THEN "load" ELSE c.reg
           m == IF c.load = "mode" THEN c.loadMode ELSE c.status[1]
           t == <<m, c.status[2], c.status[3]>>
           d == P!completeLoad(c)
<1>1. c.status \in P!Mode \X P!Mode \X P!Mode /\ c.loadMode \in P!Mode /\ m \in P!Mode /\ r \in {"initial", "alu", "load"}
  BY DEF Cpu
<1>2. [c.status EXCEPT ![1] = m] = t
  BY <1>1, Except1
<1>3. d = [[[c EXCEPT !.reg = r] EXCEPT !.status = t] EXCEPT !.load = "none"]
  BY <1>2 DEF P!completeLoad, Cpu
<1>4. t \in P!Mode \X P!Mode \X P!Mode /\ t[1] = m /\ t[2] = c.status[2] /\ t[3] = c.status[3]
  BY <1>1
<1> HIDE DEF t, r, m, d
<1>5. d \in Cpu /\ d.load = "none" /\ d.reg = r /\ d.status = t
      /\ d.pc = c.pc /\ d.npc = c.npc /\ d.spc = c.spc /\ d.prev = c.prev /\ d.epc = c.epc
      /\ d.instr = c.instr /\ d.bd = c.bd /\ d.idle = c.idle /\ d.loadMode = c.loadMode
  BY <1>1, <1>3, <1>4 DEF Cpu
<1>6. QED
  BY <1>4, <1>5 DEF d, r, m, PReg, PMode

LEMMA Advanced ==
  ASSUME NEW c \in Cpu
  PROVE  LET d == P!Advance(c) IN
         /\ d \in Cpu /\ d.pc = c.npc /\ d.npc = c.spc /\ d.spc = P!Plus4(c.spc) /\ d.prev = c.pc
         /\ d.epc = c.epc /\ d.instr = c.instr /\ d.bd = c.bd /\ d.idle = c.idle
         /\ d.load = c.load /\ d.loadMode = c.loadMode /\ d.reg = c.reg /\ d.status = c.status
<1>1. c.pc \in P!Address /\ c.npc \in P!Address /\ c.spc \in P!Address /\ P!Plus4(c.spc) \in P!Address
  BY Plus4Address DEF Cpu
<1> HIDE DEF P!Address
<1>2. QED
  BY <1>1 DEF P!Advance, Cpu

LEMMA Vectors ==
  /\ \A v \in {P!General, P!Refill} : /\ v \in P!Address /\ P!Plus4(v) \in {P!Plus4(P!General), P!Plus4(P!Refill)}
                                  /\ P!Plus4(P!Plus4(v)) = v /\ ~P!InProgram(v) /\ ~P!InProgram(P!Plus4(v))
                                  /\ P!Plus4(v) \in P!Address
                                  /\ P!InstrAt(prog, v) = "jrEpc" /\ P!InstrAt(prog, P!Plus4(v)) = "rfe"
  BY DEF P!General, P!Refill, P!Plus4, P!InProgram, P!Address, P!InstrAt

LEMMA Excepted ==
  ASSUME NEW b \in Cpu, NEW exc \in {"int", "refill", "general"}, P!RestartFrom(b) \in P!Address
  PROVE  LET d == P!handleExc(b, exc)
             v == IF exc = "refill" THEN P!Refill ELSE P!General
         IN
         /\ d \in Cpu /\ d.epc = P!RestartFrom(b) /\ d.load = "none" /\ d.reg = PReg(b)
         /\ d.status[1] = P!Kernel /\ d.status[2] = PMode(b) /\ d.idle = b.idle /\ d.instr = b.instr
         /\ IF exc = "int" THEN d.pc = v /\ d.npc = P!Plus4(v) /\ d.spc = v
            ELSE d.pc = b.pc /\ d.npc = v /\ d.spc = P!Plus4(v)
<1> DEFINE c == P!completeLoad(b)
           v == IF exc = "refill" THEN P!Refill ELSE P!General
           t == <<P!Kernel, c.status[1], c.status[2]>>
           e == [[[c EXCEPT !.epc = P!RestartFrom(c)] EXCEPT !.bd = FALSE] EXCEPT !.status = t]
           d == P!handleExc(b, exc)
<1>1. /\ c \in Cpu /\ c.load = "none" /\ P!RestartFrom(c) = P!RestartFrom(b) /\ c.reg = PReg(b) /\ c.status[1] = PMode(b)
      /\ c.idle = b.idle /\ c.instr = b.instr /\ c.pc = b.pc
  BY LoadDone DEF P!RestartFrom
<1>2. v \in {P!General, P!Refill} /\ v \in P!Address /\ P!Plus4(v) \in P!Address /\ P!Plus4(P!Plus4(v)) = v
  BY Vectors
<1>3. t \in P!Mode \X P!Mode \X P!Mode /\ t[1] = P!Kernel /\ t[2] = PMode(b)
  <2>1. c.status[1] \in P!Mode /\ c.status[2] \in P!Mode
    BY <1>1 DEF Cpu
  <2>2. QED
    BY <1>1, <2>1 DEF P!Mode, P!Kernel
<1>4. d = IF exc = "int" THEN [[[e EXCEPT !.pc = v] EXCEPT !.npc = P!Plus4(v)] EXCEPT !.spc = P!Plus4(P!Plus4(v))]
          ELSE [[e EXCEPT !.npc = v] EXCEPT !.spc = P!Plus4(v)]
  BY DEF P!handleExc, P!pushKUIEStack
<1> HIDE DEF c, v, t
<1>5. /\ e \in Cpu /\ e.epc = P!RestartFrom(b) /\ e.load = "none" /\ e.reg = PReg(b) /\ e.status = t
      /\ e.idle = b.idle /\ e.instr = b.instr /\ e.pc = b.pc
  BY <1>1, <1>3 DEF Cpu
<1> HIDE DEF e, d, P!Address
<1>6. CASE exc = "int"
  <2>1. d = [[[e EXCEPT !.pc = v] EXCEPT !.npc = P!Plus4(v)] EXCEPT !.spc = v]
    BY <1>2, <1>4, <1>6
  <2>2. /\ d \in Cpu /\ d.epc = P!RestartFrom(b) /\ d.load = "none" /\ d.reg = PReg(b) /\ d.status = t
        /\ d.idle = b.idle /\ d.instr = b.instr /\ d.pc = v /\ d.npc = P!Plus4(v) /\ d.spc = v
    BY <1>2, <1>5, <2>1 DEF Cpu
  <2>3. QED
    BY <1>3, <1>6, <2>2 DEF d, v
<1>7. CASE exc # "int"
  <2>1. d = [[e EXCEPT !.npc = v] EXCEPT !.spc = P!Plus4(v)]
    BY <1>4, <1>7
  <2>2. /\ d \in Cpu /\ d.epc = P!RestartFrom(b) /\ d.load = "none" /\ d.reg = PReg(b) /\ d.status = t
        /\ d.idle = b.idle /\ d.instr = b.instr /\ d.pc = b.pc /\ d.npc = v /\ d.spc = P!Plus4(v)
    BY <1>2, <1>5, <2>1 DEF Cpu
  <2>3. QED
    BY <1>3, <1>7, <2>2 DEF d, v
<1>8. QED
  BY <1>6, <1>7

(* What execInstr leaves.                                                  *)
Result(c, d) ==
  /\ d \in Cpu
  /\ d.pc = c.pc /\ d.npc = c.npc /\ d.prev = c.prev /\ d.epc = c.epc /\ d.instr = c.instr
  /\ d.spc = IF c.instr = "taken" THEN P!Program(Target) ELSE IF c.instr = "jrEpc" THEN c.epc ELSE c.spc
  /\ d.bd <=> c.instr \in P!Branches \cup {"jrEpc"}
  /\ d.idle => c.instr = "wait" \/ c.idle
  /\ d.load = IF c.instr = "load" THEN "gpr" ELSE IF c.instr = "mtc0" THEN "mode" ELSE "none"
  /\ PReg(d) = IF c.instr \in {"alu", "load"} THEN c.instr ELSE PReg(c)
  /\ PMode(d) = IF c.instr = "mtc0" THEN d.loadMode ELSE IF c.instr = "rfe" THEN c.status[2] ELSE PMode(c)
  /\ c.instr \in {"mtc0", "wait"} => ~c.status[1].ku
  /\ c.instr # "rfe" => d.status[2] = c.status[2]

LEMMA ExecutedResult ==
  ASSUME NEW c \in Cpu, NEW d \in P!Executed(c)
  PROVE  Result(c, d)
<1>1. PICK b \in BOOLEAN : b = (c.instr \in P!Branches \cup {"jrEpc"})
  <2>1. CASE c.instr \in P!Branches \cup {"jrEpc"}
    <3>1. TRUE = (c.instr \in P!Branches \cup {"jrEpc"})
      BY <2>1, Zenon
    <3>2. QED
      BY <3>1, Zenon
  <2>2. CASE ~(c.instr \in P!Branches \cup {"jrEpc"})
    <3>1. FALSE = (c.instr \in P!Branches \cup {"jrEpc"})
      <4>1. (c.instr \in P!Branches \cup {"jrEpc"}) \in BOOLEAN
        OBVIOUS
      <4>2. QED
        BY <2>2, <4>1, Zenon
    <3>2. QED
      BY <3>1, Zenon
  <2>3. QED
    BY <2>1, <2>2
<1>2. PICK w \in BOOLEAN : w = (line = "down")
  OBVIOUS
<1> DEFINE l    == P!completeLoad(c)
           done == [l EXCEPT !.bd = b]
<1>3. /\ l \in Cpu /\ l.load = "none" /\ l.reg = PReg(c) /\ l.status[1] = PMode(c) /\ l.status[2] = c.status[2]
      /\ l.pc = c.pc /\ l.npc = c.npc /\ l.spc = c.spc /\ l.prev = c.prev /\ l.epc = c.epc
      /\ l.instr = c.instr /\ l.idle = c.idle
  BY LoadDone
<1>4. [P!completeLoad(c) EXCEPT !.bd = c.instr \in P!Branches \cup {"jrEpc"}] = done
  BY <1>1
<1> HIDE DEF l
<1>5. /\ done \in Cpu /\ done.load = "none" /\ done.reg = PReg(c) /\ done.status = l.status
      /\ done.pc = c.pc /\ done.npc = c.npc /\ done.spc = c.spc /\ done.prev = c.prev /\ done.epc = c.epc
      /\ done.instr = c.instr /\ done.idle = c.idle /\ done.bd = b
  BY <1>3 DEF Cpu
<1>6. b <=> c.instr \in P!Branches \cup {"jrEpc"}
  BY <1>1
<1>7. /\ c.instr = "alu"   => d \in {[done EXCEPT !.reg = "alu"]}
      /\ c.instr = "load"  => d \in {[done EXCEPT !.load = "gpr"]}
      /\ c.instr = "mtc0"  => d \in {[done EXCEPT !.load = "mode", !.loadMode = m] : m \in IF c.status[1].ku THEN {} ELSE P!Mode}
      /\ c.instr = "wait"  => d \in IF c.status[1].ku THEN {} ELSE {[done EXCEPT !.idle = w]}
      /\ c.instr = "taken" => d \in {[done EXCEPT !.spc = P!Program(Target)]}
      /\ c.instr = "jrEpc" => d \in {[done EXCEPT !.spc = c.epc]}
      /\ c.instr = "rfe"   => d \in {[done EXCEPT !.status = P!popKUIEStack(@)]}
      /\ c.instr \notin {"alu", "load", "mtc0", "wait", "taken", "jrEpc", "rfe"} => d \in {done}
  <2>1. d \in LET user == c.status[1].ku IN
          CASE c.instr = "alu"   -> {[done EXCEPT !.reg = "alu"]}
            [] c.instr = "load"  -> {[done EXCEPT !.load = "gpr"]}
            [] c.instr = "mtc0"  -> {[done EXCEPT !.load = "mode", !.loadMode = m] : m \in IF user THEN {} ELSE P!Mode}
            [] c.instr = "wait"  -> IF user THEN {} ELSE {[done EXCEPT !.idle = w]}
            [] c.instr = "taken" -> {[done EXCEPT !.spc = P!Program(Target)]}
            [] c.instr = "jrEpc" -> {[done EXCEPT !.spc = c.epc]}
            [] c.instr = "rfe"   -> {[done EXCEPT !.status = P!popKUIEStack(@)]}
            [] OTHER             -> {done}
    BY <1>2, <1>4, Zenon DEF P!Executed
  <2> HIDE DEF done
  <2>2. QED
    BY <2>1
<1> HIDE DEF done
<1>8. CASE c.instr = "alu"
  <2>1. d = [done EXCEPT !.reg = "alu"]
    BY <1>7, <1>8
  <2>2. QED
    BY <1>3, <1>5, <1>6, <1>8, <2>1 DEF Result, Cpu, PReg, PMode, P!Branches
<1>9. CASE c.instr = "load"
  <2>1. d = [done EXCEPT !.load = "gpr"]
    BY <1>7, <1>9
  <2>2. QED
    BY <1>3, <1>5, <1>6, <1>9, <2>1 DEF Result, Cpu, PReg, PMode, P!Branches
<1>10. CASE c.instr = "mtc0"
  <2>1. ~c.status[1].ku /\ \E m \in P!Mode : d = [[done EXCEPT !.load = "mode"] EXCEPT !.loadMode = m]
    BY <1>7, <1>10
  <2>2. PICK m \in P!Mode : d = [[done EXCEPT !.load = "mode"] EXCEPT !.loadMode = m]
    BY <2>1
  <2>3. QED
    BY <1>3, <1>5, <1>6, <1>10, <2>1, <2>2 DEF Result, Cpu, PReg, PMode, P!Branches
<1>11. CASE c.instr = "wait"
  <2>1. ~c.status[1].ku /\ d = [done EXCEPT !.idle = w]
    BY <1>7, <1>11
  <2>2. QED
    BY <1>3, <1>5, <1>6, <1>11, <2>1 DEF Result, Cpu, PReg, PMode, P!Branches
<1>12. CASE c.instr = "taken"
  <2>1. d = [done EXCEPT !.spc = P!Program(Target)]
    BY <1>7, <1>12
  <2>2. P!Program(Target) \in P!Address
    BY PipelineAssumption DEF P!Program, P!Address
  <2>3. QED
    BY <1>3, <1>5, <1>6, <1>12, <2>1, <2>2 DEF Result, Cpu, PReg, PMode, P!Branches
<1>13. CASE c.instr = "jrEpc"
  <2>1. d = [done EXCEPT !.spc = c.epc]
    BY <1>7, <1>13
  <2>2. QED
    BY <1>3, <1>5, <1>6, <1>13, <2>1 DEF Result, Cpu, PReg, PMode, P!Branches
<1>14. CASE c.instr = "rfe"
  <2> DEFINE t == <<l.status[2], l.status[3], l.status[3]>>
  <2>1. d = [done EXCEPT !.status = t]
    BY <1>5, <1>7, <1>14 DEF P!popKUIEStack, Cpu
  <2>2. t \in P!Mode \X P!Mode \X P!Mode /\ t[1] = l.status[2]
    BY <1>3 DEF Cpu
  <2> HIDE DEF t
  <2>3. QED
    BY <1>3, <1>5, <1>6, <1>14, <2>1, <2>2 DEF Result, Cpu, PReg, PMode, P!Branches
<1>15. CASE c.instr \notin {"alu", "load", "mtc0", "wait", "taken", "jrEpc", "rfe"}
  <2>1. d = done
    BY <1>7, <1>15
  <2>2. QED
    BY <1>3, <1>5, <1>6, <1>15, <2>1 DEF Result, Cpu, PReg, PMode, P!Branches
<1>16. QED
  BY <1>8, <1>9, <1>10, <1>11, <1>12, <1>13, <1>14, <1>15

LEMMA InterruptCheck ==
  ASSUME NEW c
  PROVE  P!checkForInt(c) = c \/ P!checkForInt(c) = P!handleExc(c, "int")
  BY DEF P!checkForInt

LEMMA FetchedHandler ==
  ASSUME NEW c \in Cpu, c.pc \in {P!General, P!Refill, P!Plus4(P!General), P!Plus4(P!Refill)}, NEW d \in P!Fetch(c)
  PROVE  /\ d \in Cpu /\ d.pc = c.pc /\ d.npc = c.npc /\ d.spc = c.spc /\ d.epc = c.epc /\ d.load = c.load
         /\ d.reg = c.reg /\ d.status = c.status /\ d.idle = c.idle
         /\ d.instr = IF c.pc \in {P!General, P!Refill} THEN "jrEpc" ELSE "rfe"
<1>1. ~P!InProgram(c.pc) /\ P!InstrAt(prog, c.pc) = IF c.pc \in {P!General, P!Refill} THEN "jrEpc" ELSE "rfe"
  <2>1. P!Plus4(P!General) \notin {P!General, P!Refill} /\ P!Plus4(P!Refill) \notin {P!General, P!Refill}
    BY DEF P!Plus4, P!General, P!Refill, P!InProgram
  <2>2. QED
    BY <2>1, Vectors
<1>2. d = [c EXCEPT !.instr = P!InstrAt(prog, c.pc)]
  BY <1>1 DEF P!Fetch
<1> HIDE DEF P!Address
<1>3. QED
  BY <1>1, <1>2 DEF Cpu

LEMMA Enters ==
  ASSUME NEW b \in Cpu, NEW f, NEW r, NEW m, Entered(b, f, r, m),
         b.npc \in {P!General, P!Refill}, b.spc = P!Plus4(b.npc), NEW d \in P!Fetch(P!checkForInt(P!Advance(b)))
  PROVE  d \in Cpu /\ Handling(d, f, r, m)
<1> DEFINE e == P!Advance(b)
<1>1. /\ e \in Cpu /\ e.pc = b.npc /\ e.npc = b.spc /\ e.epc = b.epc /\ e.idle = b.idle
      /\ e.load = b.load /\ e.reg = b.reg /\ e.status = b.status
  BY Advanced
<1> HIDE DEF e
<1>2. ~e.status[1].ie
  BY <1>1 DEF Entered, P!Kernel
<1>3. P!checkForInt(e) = e
  BY <1>2 DEF P!checkForInt
<1>4. d \in P!Fetch(e)
  BY <1>3 DEF e
<1>5. /\ d \in Cpu /\ d.pc = e.pc /\ d.npc = e.npc /\ d.epc = e.epc /\ d.load = e.load
      /\ d.reg = e.reg /\ d.status = e.status /\ d.idle = e.idle /\ d.instr = "jrEpc"
  BY <1>1, <1>4, FetchedHandler
<1>6. QED
  BY <1>1, <1>5 DEF Handling, Entered

LEMMA RestartPlace ==
  ASSUME NEW c \in Cpu, NEW f, Restartable(c, f)
  PROVE  P!RestartFrom(c) \in P!Address /\ Resumable(P!RestartFrom(c), f)
  BY DEF Restartable, P!RestartFrom, Resumable, Cpu

LEMMA Fetched ==
  ASSUME prog \in P!Programs, NEW c \in Cpu, NEW f, NEW r, NEW m, ~c.idle, Located(c, f, r, m), Restartable(c, f),
         NEW d \in P!Fetch(P!checkForInt(c))
  PROVE  d \in Cpu /\ Ok(d, f, r, m)
<1>1. P!RestartFrom(c) \in P!Address /\ Resumable(P!RestartFrom(c), f)
  BY RestartPlace
<1>2. CASE P!checkForInt(c) = P!handleExc(c, "int")
  <2> DEFINE e == P!handleExc(c, "int")
  <2>1. /\ e \in Cpu /\ e.epc = P!RestartFrom(c) /\ e.load = "none" /\ e.reg = PReg(c)
        /\ e.status[1] = P!Kernel /\ e.status[2] = PMode(c) /\ e.idle = c.idle
        /\ e.pc = P!General /\ e.npc = P!Plus4(P!General)
    BY <1>1, Excepted
  <2> HIDE DEF e
  <2>2. d \in P!Fetch(e)
    BY <1>2 DEF e
  <2>3. /\ d \in Cpu /\ d.pc = e.pc /\ d.npc = e.npc /\ d.epc = e.epc /\ d.load = e.load
        /\ d.reg = e.reg /\ d.status = e.status /\ d.idle = e.idle /\ d.instr = "jrEpc"
    BY <2>1, <2>2, FetchedHandler
  <2>4. QED
    BY <1>1, <2>1, <2>3 DEF Located, Ok, Handling, Entered
<1>3. CASE P!checkForInt(c) = c
  <2>1. P!InProgram(c.pc) /\ c.pc \in P!Address
    BY DEF Located, Cpu
  <2>2. P!InstrAt(prog, c.pc) = prog[c.pc[2]] /\ prog[c.pc[2]] \in P!Kinds
    BY <2>1, PipelineAssumption DEF P!InstrAt, P!InProgram, P!Address, P!Programs
  <2>3. CASE d = [c EXCEPT !.instr = P!InstrAt(prog, c.pc)]
    <3>1. /\ d \in Cpu /\ d.instr = prog[d.pc[2]] /\ d.pc = c.pc /\ d.npc = c.npc /\ d.spc = c.spc /\ d.prev = c.prev
          /\ d.load = c.load /\ d.reg = c.reg /\ d.loadMode = c.loadMode /\ d.status = c.status /\ d.idle = c.idle
          /\ d.bd = c.bd
      BY <2>2, <2>3 DEF Cpu
    <3>2. Restartable(d, f)
      BY <3>1 DEF Restartable
    <3>3. Located(d, f, r, m)
      BY <3>1 DEF Located, PReg, PMode
    <3>4. QED
      BY <3>1, <3>2, <3>3 DEF Ok, Running
  <2>4. CASE \E exc \in {"refill", "general"} : d = P!handleExc([c EXCEPT !.instr = "nop"], exc)
    <3>1. PICK exc \in {"refill", "general"} : d = P!handleExc([c EXCEPT !.instr = "nop"], exc)
      BY <2>4
    <3> DEFINE b == [c EXCEPT !.instr = "nop"]
    <3>2. /\ b \in Cpu /\ b.instr = "nop" /\ b.pc = c.pc /\ P!RestartFrom(b) = P!RestartFrom(c) /\ b.idle = c.idle
          /\ PReg(b) = PReg(c) /\ PMode(b) = PMode(c)
      BY DEF Cpu, P!RestartFrom, PReg, PMode
    <3> HIDE DEF b
    <3>5. d = P!handleExc(b, exc) /\ P!RestartFrom(b) \in P!Address /\ exc \in {"int", "refill", "general"} /\ exc # "int"
      BY <1>1, <3>1, <3>2 DEF b
    <3>3. LET v == IF exc = "refill" THEN P!Refill ELSE P!General IN
          /\ d \in Cpu /\ d.epc = P!RestartFrom(b) /\ d.load = "none" /\ d.reg = PReg(b)
          /\ d.status[1] = P!Kernel /\ d.status[2] = PMode(b) /\ d.idle = b.idle /\ d.instr = b.instr
          /\ d.pc = b.pc /\ d.npc = v /\ d.spc = P!Plus4(v)
      BY <3>2, <3>5, Excepted
    <3>4. QED
      BY <1>1, <2>1, <3>2, <3>3 DEF Located, Ok, Nullified, Entered
  <2>5. QED
    BY <1>3, <2>3, <2>4 DEF P!Fetch
<1>4. QED
  BY <1>2, <1>3, InterruptCheck

(* What completing an instruction adds to the history.                     *)
Counted(c, d, f, g) ==
  IF c.pc = f[1] /\ c.instr # "nop" /\ ~d.idle
  THEN g = <<f[2], IF c.instr = "taken" THEN P!Program(Target) ELSE P!Plus4(f[2])>>
  ELSE g = f

Flow(f) == f \in P!Address \X P!Address /\ P!InProgram(f[1]) /\ P!InProgram(f[2])

(* No branch of the program is in the delay slot of another.               *)
LEMMA NoBranchInSlot ==
  ASSUME prog \in P!Programs, NEW a \in P!Address, P!InProgram(a), prog[a[2]] \in P!Branches
  PROVE  prog[P!Plus4(a)[2]] \notin P!Branches
<1>1. a[2] \in 0..ProgSize-1 /\ P!Plus4(a)[2] = (a[2] + 1) % ProgSize
  BY DEF P!Address, P!InProgram, P!Plus4
<1>2. QED
  BY <1>1 DEF P!Programs

LEMMA BranchNotRetaken ==
  ASSUME prog \in P!Programs, NEW a \in P!Address, P!InProgram(a), NEW f, Retaken(a, f)
  PROVE  prog[f[1][2]] \notin P!Branches /\ a # f[1]
  BY NoBranchInSlot DEF Retaken

(* An instruction of the program that is not over yet.                     *)
LEMMA Stalled ==
  ASSUME prog \in P!Programs, NEW c \in Cpu, NEW f, NEW r, NEW m, Running(c, f, r, m), ~c.idle,
         NEW d, Result(c, d), d.idle
  PROVE  Running(d, f, r, m)
<1>1. c.instr = "wait" /\ ~c.status[1].ku /\ d.load = "none" /\ ~d.bd
  BY DEF Result, P!Branches
<1>2. PReg(d) = PReg(c) /\ PMode(d) = PMode(c) /\ d.status[1] = PMode(d) /\ d.instr = c.instr
      /\ d.pc = c.pc /\ d.npc = c.npc /\ d.spc = c.spc
  BY <1>1 DEF Result, PMode
<1>3. Located(d, f, r, m)
  BY <1>1, <1>2 DEF Running, Located
<1>4. Restartable(d, f) \/ ~d.status[1].ku
  <2>1. CASE c.load = "none"
    BY <1>1, <1>2, <2>1 DEF PMode
  <2>2. CASE c.load # "none"
    <3>1. ~c.bd /\ Restartable(c, f)
      BY <2>2 DEF Running, Located
    <3>2. QED
      BY <1>1, <1>2, <3>1 DEF Restartable
  <2>3. QED
    BY <2>1, <2>2
<1>5. QED
  BY <1>1, <1>2, <1>3, <1>4 DEF Running

LEMMA BranchStep ==
  ASSUME prog \in P!Programs, NEW c \in Cpu, NEW f, NEW r, NEW m, Running(c, f, r, m), ~c.idle, Flow(f),
         c.instr \in P!Branches, NEW d, Result(c, d), NEW g, Counted(c, d, f, g)
  PROVE  Flow(g) /\ Located(P!Advance(d), g, r, m) /\ Restartable(P!Advance(d), g)
<1> DEFINE e == P!Advance(d)
<1>1. /\ d \in Cpu /\ d.bd /\ ~d.idle /\ d.load = "none" /\ PReg(d) = r /\ PMode(d) = m
      /\ d.pc = c.pc /\ d.npc = c.npc /\ d.spc = IF c.instr = "taken" THEN P!Program(Target) ELSE P!Plus4(c.npc)
  BY DEF Result, Running, Located, P!Branches
<1>2. /\ e \in Cpu /\ e.pc = d.npc /\ e.npc = d.spc /\ e.spc = P!Plus4(d.spc) /\ e.prev = d.pc /\ e.bd = d.bd
      /\ e.load = d.load /\ PReg(e) = PReg(d) /\ PMode(e) = PMode(d)
  BY <1>1, Advanced DEF PReg, PMode
<1> HIDE DEF e
<1>3. c.pc \in P!Address /\ P!InProgram(c.pc) /\ prog[c.pc[2]] = c.instr
  BY DEF Running, Located, Cpu
<1>4. P!Program(Target) \in P!Address /\ P!InProgram(P!Program(Target))
  BY PipelineAssumption DEF P!Program, P!Address, P!InProgram
<1>5. CASE c.pc = f[1] /\ c.npc = f[2]
  <2>1. f[2] = P!Plus4(c.pc)
    <3>1. ~Retaken(c.pc, f)
      BY <1>3, <1>5, BranchNotRetaken
    <3>2. ASSUME c.bd
          PROVE  FALSE
      <4>1. P!InProgram(c.prev) /\ Retaken(c.prev, f) /\ c.prev \in P!Address
        BY <3>2 DEF Running, Restartable, Cpu, P!Branches
      <4>2. prog[f[1][2]] \notin P!Branches
        BY <4>1, BranchNotRetaken
      <4>3. QED
        BY <1>3, <1>5, <4>2
    <3>3. Resumable(c.pc, f)
      BY <3>2 DEF Running, Restartable, P!Branches
    <3>4. QED
      BY <3>1, <3>3 DEF Resumable
  <2>2. g = <<f[2], IF c.instr = "taken" THEN P!Program(Target) ELSE P!Plus4(f[2])>>
    BY <1>1, <1>5 DEF Counted, P!Branches
  <2>3. g[1] = f[2] /\ g[2] = IF c.instr = "taken" THEN P!Program(Target) ELSE P!Plus4(f[2])
    BY <2>2
  <2>4. P!Plus4(f[2]) \in P!Address /\ P!InProgram(P!Plus4(f[2])) /\ f[2] \in P!Address /\ P!InProgram(f[2])
    BY Plus4Address DEF Flow
  <2>5. Flow(g)
    BY <1>4, <2>2, <2>4 DEF Flow
  <2>6. Retaken(c.pc, g)
    BY <1>3, <2>1, <2>3 DEF Retaken
  <2>7. e.pc = g[1] /\ e.npc = g[2] /\ e.spc = P!Plus4(e.npc) /\ P!InProgram(e.pc)
    BY <1>1, <1>2, <1>5, <2>3, <2>4
  <2>8. QED
    BY <1>1, <1>2, <1>3, <2>5, <2>6, <2>7 DEF Located, Restartable, e
<1>6. CASE Retaken(c.pc, f) /\ c.npc = f[1]
  <2>1. c.pc # f[1] /\ g = f
    <3>1. c.pc # f[1]
      BY <1>3, <1>6, BranchNotRetaken
    <3>2. QED
      BY <3>1 DEF Counted
  <2>2. e.pc = f[1] /\ e.npc = f[2] /\ e.spc = P!Plus4(e.npc) /\ P!InProgram(e.pc)
    BY <1>1, <1>2, <1>3, <1>6 DEF Retaken, Flow
  <2>3. QED
    BY <1>1, <1>2, <1>3, <1>6, <2>1, <2>2 DEF Located, Restartable, e
<1>7. QED
  BY <1>5, <1>6 DEF Running, Located

LEMMA PlainStep ==
  ASSUME prog \in P!Programs, NEW c \in Cpu, NEW f, NEW r, NEW m, Running(c, f, r, m), ~c.idle, Flow(f),
         c.instr \notin P!Branches, NEW d, Result(c, d), ~d.idle, NEW g, Counted(c, d, f, g)
  PROVE  /\ Flow(g) /\ c.pc = f[1] /\ c.instr # "nop"
         /\ Located(P!Advance(d), g, PReg(d), PMode(d)) /\ Restartable(P!Advance(d), g)
<1> DEFINE e == P!Advance(d)
<1>1. c.pc \in P!Address /\ P!InProgram(c.pc) /\ prog[c.pc[2]] = c.instr /\ c.instr \in P!Kinds
  <2>1. c.pc \in P!Address /\ P!InProgram(c.pc) /\ prog[c.pc[2]] = c.instr
    BY DEF Running, Located, Cpu
  <2>2. prog[c.pc[2]] \in P!Kinds
    BY <2>1, PipelineAssumption DEF P!InProgram, P!Address, P!Programs
  <2>3. QED
    BY <2>1, <2>2
<1>2. c.instr \notin {"nop", "taken", "jrEpc", "rfe"}
  BY <1>1 DEF P!Kinds, P!Branches
<1>3. c.pc = f[1] /\ c.npc = f[2] /\ c.spc = P!Plus4(f[2])
  BY <1>1 DEF Running, Located, Retaken
<1>4. /\ d \in Cpu /\ ~d.bd /\ d.pc = c.pc /\ d.npc = c.npc /\ d.spc = c.spc
  BY <1>2 DEF Result
<1>5. /\ e \in Cpu /\ e.pc = f[2] /\ e.npc = P!Plus4(f[2]) /\ e.spc = P!Plus4(P!Plus4(f[2])) /\ ~e.bd
      /\ PReg(e) = PReg(d) /\ PMode(e) = PMode(d)
  BY <1>3, <1>4, Advanced DEF PReg, PMode
<1> HIDE DEF e
<1>6. g = <<f[2], P!Plus4(f[2])>>
  BY <1>2, <1>3 DEF Counted
<1>7. P!Plus4(f[2]) \in P!Address /\ P!InProgram(P!Plus4(f[2])) /\ f[2] \in P!Address /\ P!InProgram(f[2])
  BY Plus4Address DEF Flow
<1>8. Flow(g) /\ g[1] = f[2] /\ g[2] = P!Plus4(f[2])
  BY <1>6, <1>7 DEF Flow
<1>9. Located(e, g, PReg(d), PMode(d)) /\ Restartable(e, g)
  BY <1>5, <1>7, <1>8 DEF Located, Restartable, Resumable
<1>10. QED
  BY <1>2, <1>3, <1>8, <1>9 DEF e

(* What completing an instruction adds to the registers of the history.    *)
Noted(c, d, f, r, m, q, n) ==
  IF c.pc = f[1] /\ c.instr # "nop" /\ ~d.idle
  THEN /\ q = IF c.instr \in {"alu", "load"} THEN c.instr ELSE r
       /\ n = IF c.instr = "mtc0" THEN d.loadMode ELSE m
  ELSE q = r /\ n = m

LEMMA RunStep ==
  ASSUME prog \in P!Programs, NEW c \in Cpu, NEW f, NEW r, NEW m, Running(c, f, r, m), ~c.idle, Flow(f),
         NEW b, Result(c, b), NEW g, Counted(c, b, f, g), NEW q, NEW n, Noted(c, b, f, r, m, q, n),
         NEW d \in P!EndCycle(b)
  PROVE  d \in Cpu /\ Flow(g) /\ Ok(d, g, q, n)
<1>1. b \in Cpu
  BY DEF Result
<1>2. CASE b.idle
  <2>1. d = b /\ g = f /\ q = r /\ n = m
    BY <1>2 DEF P!EndCycle, Counted, Noted
  <2>2. QED
    BY <1>1, <1>2, <2>1, Stalled DEF Ok
<1>3. CASE ~b.idle
  <2>1. d \in P!Fetch(P!checkForInt(P!Advance(b)))
    BY <1>3 DEF P!EndCycle
  <2>2. P!Advance(b) \in Cpu /\ ~P!Advance(b).idle
    BY <1>1, <1>3, Advanced
  <2>3. Flow(g) /\ Located(P!Advance(b), g, q, n) /\ Restartable(P!Advance(b), g)
    <3>1. CASE c.instr \in P!Branches
      <4>1. q = r /\ n = m
        BY <3>1 DEF Noted, P!Branches
      <4>2. QED
        BY <3>1, <4>1, BranchStep
    <3>2. CASE c.instr \notin P!Branches
      <4>1. /\ Flow(g) /\ c.pc = f[1] /\ c.instr # "nop"
            /\ Located(P!Advance(b), g, PReg(b), PMode(b)) /\ Restartable(P!Advance(b), g)
        BY <1>3, <3>2, PlainStep
      <4>2. PReg(c) = r /\ PMode(c) = m /\ c.instr # "rfe"
        <5>1. c.instr \in Kind
          BY DEF Running, Located, P!InProgram, P!Programs, P!Address, Cpu
        <5>2. QED
          BY <5>1, PipelineAssumption DEF Running, Located, P!Kinds, P!Branches
      <4>3. q = PReg(b) /\ n = PMode(b)
        BY <1>3, <4>1, <4>2 DEF Noted, Result
      <4>4. QED
        BY <4>1, <4>3
    <3>3. QED
      BY <3>1, <3>2
  <2>4. QED
    BY <2>1, <2>2, <2>3, Fetched
<1>4. QED
  BY <1>2, <1>3

LEMMA RaiseStep ==
  ASSUME NEW c \in Cpu, NEW f, NEW r, NEW m, Ok(c, f, r, m), ~c.idle,
         NEW exc \in P!MayRaise(c), NEW d \in P!EndCycle(P!handleExc(c, exc))
  PROVE  d \in Cpu /\ Ok(d, f, r, m)
<1> DEFINE b == P!handleExc(c, exc)
<1>1. c.instr \in {"load", "store", "mtc0", "wait"} /\ (c.instr = "wait" => c.status[1].ku)
      /\ exc \in {"refill", "general"} /\ exc # "int"
  BY DEF P!MayRaise
<1>2. Running(c, f, r, m)
  BY <1>1 DEF Ok, Nullified, Handling
<1>3. Restartable(c, f)
  BY <1>1, <1>2 DEF Running
<1>4. P!RestartFrom(c) \in P!Address /\ Resumable(P!RestartFrom(c), f)
  BY <1>3, RestartPlace
<1>5. /\ b \in Cpu /\ b.epc = P!RestartFrom(c) /\ b.load = "none" /\ b.reg = PReg(c)
      /\ b.status[1] = P!Kernel /\ b.status[2] = PMode(c) /\ b.idle = c.idle
      /\ b.npc \in {P!General, P!Refill} /\ b.spc = P!Plus4(b.npc)
  BY <1>1, <1>4, Excepted
<1> HIDE DEF b
<1>6. Entered(b, f, r, m)
  BY <1>2, <1>4, <1>5 DEF Entered, Running, Located
<1>7. d \in P!Fetch(P!checkForInt(P!Advance(b)))
  BY <1>5 DEF P!EndCycle, b
<1>8. QED
  BY <1>5, <1>6, <1>7, Enters DEF Ok

LEMMA NopStep ==
  ASSUME NEW c \in Cpu, NEW f, NEW r, NEW m, Nullified(c, f, r, m),
         NEW b, Result(c, b), NEW d \in P!EndCycle(b)
  PROVE  d \in Cpu /\ Ok(d, f, r, m)
<1>1. /\ b \in Cpu /\ b.npc = c.npc /\ b.spc = c.spc /\ b.epc = c.epc /\ ~b.idle /\ b.load = "none"
      /\ PReg(b) = PReg(c) /\ PMode(b) = PMode(c) /\ b.status[2] = c.status[2]
  BY DEF Result, Nullified, Entered
<1>2. Entered(b, f, r, m) /\ b.npc \in {P!General, P!Refill} /\ b.spc = P!Plus4(b.npc)
  BY <1>1 DEF Nullified, Entered, PReg, PMode
<1>3. d \in P!Fetch(P!checkForInt(P!Advance(b)))
  BY <1>1 DEF P!EndCycle
<1>4. QED
  BY <1>1, <1>2, <1>3, Enters DEF Ok

LEMMA HandlerStep ==
  ASSUME prog \in P!Programs, NEW c \in Cpu, NEW f, NEW r, NEW m, Handling(c, f, r, m), Flow(f),
         NEW b, Result(c, b), NEW d \in P!EndCycle(b)
  PROVE  d \in Cpu /\ Ok(d, f, r, m)
<1> DEFINE e == P!Advance(b)
<1>1. /\ b \in Cpu /\ b.npc = c.npc /\ b.epc = c.epc /\ ~b.idle /\ b.load = "none" /\ PReg(b) = PReg(c)
      /\ c.instr \in {"jrEpc", "rfe"}
  BY DEF Result, Handling, Entered
<1>2. /\ e \in Cpu /\ e.pc = b.npc /\ e.npc = b.spc /\ e.spc = P!Plus4(b.spc) /\ e.bd = b.bd
      /\ e.epc = b.epc /\ e.load = b.load /\ e.reg = b.reg /\ e.status = b.status /\ e.idle = b.idle
  BY <1>1, Advanced
<1> HIDE DEF e
<1>3. d \in P!Fetch(P!checkForInt(e))
  BY <1>1 DEF P!EndCycle, e
<1>4. CASE c.instr = "jrEpc"
  <2>1. /\ b.spc = c.epc /\ PMode(b) = PMode(c) /\ b.status[2] = c.status[2]
        /\ c.pc \in {P!General, P!Refill} /\ c.npc = P!Plus4(c.pc)
    BY <1>4 DEF Result, Handling
  <2>2. e.status[1] = P!Kernel /\ e.status[2] = m /\ e.reg = r /\ e.load = "none" /\ ~e.idle
    BY <1>1, <1>2, <2>1 DEF Handling, Entered, PMode, PReg
  <2>3. P!checkForInt(e) = e
    BY <2>2 DEF P!checkForInt, P!Kernel
  <2>4. e.pc \in {P!Plus4(P!General), P!Plus4(P!Refill)} /\ e.pc \notin {P!General, P!Refill}
    BY <1>1, <1>2, <2>1 DEF P!Plus4, P!General, P!Refill, P!InProgram
  <2>5. /\ d \in Cpu /\ d.pc = e.pc /\ d.npc = e.npc /\ d.spc = e.spc /\ d.epc = e.epc /\ d.load = e.load
        /\ d.reg = e.reg /\ d.status = e.status /\ d.idle = e.idle /\ d.instr = "rfe"
    BY <1>2, <1>3, <2>3, <2>4, FetchedHandler
  <2>6. QED
    BY <1>1, <1>2, <2>1, <2>2, <2>4, <2>5 DEF Ok, Handling, Entered
<1>5. CASE c.instr = "rfe"
  <2>1. /\ b.spc = c.spc /\ ~b.bd /\ PMode(b) = c.status[2] /\ c.npc = c.epc /\ c.spc = P!Plus4(c.epc)
    BY <1>5 DEF Result, Handling, P!Branches
  <2>2. /\ e.pc = c.epc /\ e.npc = P!Plus4(e.pc) /\ e.spc = P!Plus4(e.npc) /\ ~e.bd /\ ~e.idle
        /\ PReg(e) = r /\ PMode(e) = m /\ Resumable(e.pc, f)
    BY <1>1, <1>2, <2>1 DEF Handling, Entered, PReg, PMode
  <2>3. Restartable(e, f)
    BY <2>2 DEF Restartable
  <2>4. Located(e, f, r, m)
    BY <2>2 DEF Located, Resumable, Retaken
  <2>5. QED
    BY <1>2, <1>3, <2>2, <2>3, <2>4, Fetched
<1>6. QED
  BY <1>1, <1>4, <1>5

LEMMA PipeMeans == PipeInv => P!TypeOK /\ P!InOrder /\ P!Precise
<1> SUFFICES ASSUME PipeInv
             PROVE  P!TypeOK /\ P!InOrder /\ P!Precise
  OBVIOUS
<1>1. P!TypeOK
  BY DEF PipeInv, P!TypeOK, Cpu
<1>2. CASE P!InProgram(cpu.pc) /\ cpu.instr # "nop"
  <2>1. Running(cpu, flow, seqReg, seqMode)
    <3>1. ~Nullified(cpu, flow, seqReg, seqMode)
      BY <1>2 DEF Nullified
    <3>2. ~Handling(cpu, flow, seqReg, seqMode)
      BY <1>2, Vectors DEF Handling
    <3>3. QED
      BY <3>1, <3>2 DEF PipeInv, Ok
  <2>2. P!InOrder
    BY <1>2, <2>1 DEF P!InOrder, Running, Located, Retaken
  <2>3. P!Precise
    BY <1>2, <2>1, LoadDone DEF P!Precise, PipeInv, Running, Located
  <2>4. QED
    BY <1>1, <2>2, <2>3
<1>3. CASE ~(P!InProgram(cpu.pc) /\ cpu.instr # "nop")
  <2>1. Entered(cpu, flow, seqReg, seqMode)
    <3>1. ~Running(cpu, flow, seqReg, seqMode)
      <4> SUFFICES ASSUME Running(cpu, flow, seqReg, seqMode)
                   PROVE  FALSE
        OBVIOUS
      <4>1. cpu.pc \in P!Address /\ P!InProgram(cpu.pc) /\ prog[cpu.pc[2]] = cpu.instr
        BY DEF Running, Located, Cpu, PipeInv
      <4>2. prog[cpu.pc[2]] \in P!Kinds
        BY <4>1, PipelineAssumption DEF P!InProgram, P!Address, P!Programs, PipeInv
      <4>3. QED
        BY <1>3, <4>1, <4>2 DEF P!Kinds, P!Branches
    <3>2. QED
      BY <3>1 DEF PipeInv, Ok, Nullified, Handling
  <2>2. P!InOrder
    BY <1>3 DEF P!InOrder
  <2>3. PReg(cpu) = seqReg /\ PMode(cpu) = P!Kernel /\ cpu.status[2] = seqMode
    BY <2>1 DEF Entered, PReg, PMode
  <2>4. P!Precise
    BY <1>3, <2>3, LoadDone DEF P!Precise, PipeInv
  <2>5. QED
    BY <1>1, <2>2, <2>4
<1>4. QED
  BY <1>2, <1>3

LEMMA InitPipe == P!Init => PipeInv
<1> SUFFICES ASSUME P!Init
             PROVE  PipeInv
  OBVIOUS
<1>1. PICK m \in P!Mode : cpu = [pc |-> P!Program(0), npc |-> P!Plus4(P!Program(0)), spc |-> P!Plus4(P!Plus4(P!Program(0))),
              prev |-> P!Program(0), epc |-> P!Program(0), instr |-> prog[0], bd |-> FALSE,
              load |-> "none", loadMode |-> m, reg |-> "initial", status |-> <<m, P!Kernel, P!Kernel>>,
              idle |-> FALSE]
  BY DEF P!Init
<1>2. /\ P!Program(0) \in P!Address /\ P!InProgram(P!Program(0)) /\ P!Plus4(P!Program(0)) \in P!Address /\ P!InProgram(P!Plus4(P!Program(0)))
      /\ P!Plus4(P!Plus4(P!Program(0))) \in P!Address
  <2>1. P!Program(0) \in P!Address /\ P!InProgram(P!Program(0))
    BY PipelineAssumption DEF P!Program, P!Address, P!InProgram
  <2>2. QED
    BY <2>1, Plus4Address
<1>3. prog \in P!Programs /\ prog[0] \in P!Kinds /\ prog[P!Program(0)[2]] = prog[0]
  BY PipelineAssumption DEF P!Init, P!Programs, P!Program
<1>4. <<m, P!Kernel, P!Kernel>> \in P!Mode \X P!Mode \X P!Mode
  BY DEF P!Mode, P!Kernel
<1> DEFINE a == P!Program(0)
           b == P!Plus4(P!Program(0))
<1> HIDE DEF a, b, P!Address
<1>5. cpu \in Cpu
  BY <1>1, <1>2, <1>3, <1>4 DEF Cpu
<1>6. flow = <<P!Program(0), P!Plus4(P!Program(0))>> /\ seqReg = "initial" /\ seqMode = m
  BY <1>1 DEF P!Init
<1>7. /\ flow \in P!Address \X P!Address /\ flow[1] = P!Program(0) /\ flow[2] = P!Plus4(P!Program(0))
  BY <1>2, <1>6
<1>8. Running(cpu, flow, seqReg, seqMode)
  <2>1. cpu.pc = flow[1] /\ cpu.npc = flow[2] /\ cpu.spc = P!Plus4(cpu.npc) /\ ~cpu.bd /\ cpu.instr = prog[cpu.pc[2]]
        /\ P!InProgram(cpu.pc) /\ ~cpu.idle /\ PReg(cpu) = seqReg /\ PMode(cpu) = seqMode /\ flow[2] = P!Plus4(cpu.pc)
    BY <1>1, <1>2, <1>3, <1>6, <1>7 DEF PReg, PMode
  <2>2. QED
    BY <2>1 DEF Running, Located, Restartable, Resumable
<1>9. QED
  BY <1>2, <1>3, <1>5, <1>6, <1>7, <1>8 DEF PipeInv, P!Init, Ok

(* An invariant about the program as it was, which does not change.        *)
LEMMA StillOk ==
  ASSUME UNCHANGED <<prog, line>>, PipeInv, cpu' \in Cpu, flow' \in P!Address \X P!Address, P!InProgram(flow'[1]), P!InProgram(flow'[2]),
         seqReg' \in {"initial", "alu", "load"}, seqMode' \in P!Mode, Ok(cpu', flow', seqReg', seqMode')
  PROVE  PipeInv'
  BY DEF PipeInv, Ok, Running, Nullified, Handling, Entered, Located, Restartable, Resumable, Retaken, PReg, PMode

LEMMA NextPipe == PipeInv /\ [P!Next]_P!vars => PipeInv'
<1> SUFFICES ASSUME PipeInv, [P!Next]_P!vars
             PROVE  PipeInv'
  OBVIOUS
<1> USE DEF PipeInv
<1>1. CASE P!Execute
  <2>1. PICK b \in P!Executed(cpu) : cpu' \in P!EndCycle(b) /\ P!Complete(b)
    BY <1>1 DEF P!Execute
  <2>2. Result(cpu, b)
    BY <2>1, ExecutedResult
  <2>3. PICK d : d = cpu'
    OBVIOUS
  <2>4. PICK g : g = flow'
    OBVIOUS
  <2>5. PICK q : q = seqReg'
    OBVIOUS
  <2>6. PICK n : n = seqMode'
    OBVIOUS
  <2>7. ~cpu.idle /\ UNCHANGED <<prog, line>>
    BY <1>1 DEF P!Execute
  <2>8. Counted(cpu, b, flow, g) /\ Noted(cpu, b, flow, seqReg, seqMode, q, n)
    BY <2>1, <2>4, <2>5, <2>6 DEF P!Complete, Counted, Noted
  <2>9. d \in P!EndCycle(b) /\ Flow(flow)
    BY <2>1, <2>3 DEF Flow
  <2>10. d \in Cpu /\ Flow(g) /\ Ok(d, g, q, n)
    <3>1. CASE Running(cpu, flow, seqReg, seqMode)
      BY <2>2, <2>7, <2>8, <2>9, <3>1, RunStep
    <3>2. CASE Nullified(cpu, flow, seqReg, seqMode)
      <4>1. g = flow /\ q = seqReg /\ n = seqMode
        BY <2>8, <3>2 DEF Nullified, Counted, Noted
      <4>2. QED
        BY <2>2, <2>9, <3>2, <4>1, NopStep
    <3>3. CASE Handling(cpu, flow, seqReg, seqMode)
      <4>1. cpu.pc # flow[1]
        BY <3>3, Vectors DEF Handling
      <4>2. g = flow /\ q = seqReg /\ n = seqMode
        BY <2>8, <4>1 DEF Counted, Noted
      <4>3. QED
        BY <2>2, <2>9, <3>3, <4>2, HandlerStep
    <3>4. QED
      BY <3>1, <3>2, <3>3 DEF Ok
  <2>11. q \in {"initial", "alu", "load"} /\ n \in P!Mode
    <3>1. b.loadMode \in P!Mode
      BY <2>2 DEF Result, Cpu
    <3>2. QED
      BY <2>8, <3>1 DEF Noted
  <2>12. QED
    BY <2>3, <2>4, <2>5, <2>6, <2>7, <2>10, <2>11, StillOk DEF Flow
<1>2. CASE P!Raise
  <2>1. PICK exc \in P!MayRaise(cpu) : cpu' \in P!EndCycle(P!handleExc(cpu, exc))
    BY <1>2 DEF P!Raise
  <2>2. ~cpu.idle /\ UNCHANGED <<prog, line, flow, seqReg, seqMode>>
    BY <1>2 DEF P!Raise
  <2>3. PICK d : d = cpu'
    OBVIOUS
  <2>4. d \in Cpu /\ Ok(d, flow, seqReg, seqMode)
    BY <2>1, <2>2, <2>3, RaiseStep
  <2>5. QED
    BY <2>2, <2>3, <2>4, StillOk
<1>3. CASE P!AssertIRQ
  <2>1. cpu' = [cpu EXCEPT !.idle = FALSE] /\ UNCHANGED <<prog, flow, seqReg, seqMode>> /\ line' \in {"masked", "up"}
    BY <1>3 DEF P!AssertIRQ
  <2>2. /\ cpu' \in Cpu /\ cpu'.pc = cpu.pc /\ cpu'.npc = cpu.npc /\ cpu'.spc = cpu.spc /\ cpu'.prev = cpu.prev
        /\ cpu'.epc = cpu.epc /\ cpu'.instr = cpu.instr /\ cpu'.bd = cpu.bd /\ cpu'.load = cpu.load
        /\ cpu'.loadMode = cpu.loadMode /\ cpu'.reg = cpu.reg /\ cpu'.status = cpu.status /\ ~cpu'.idle
    BY <2>1 DEF Cpu
  <2>3. Ok(cpu, flow, seqReg, seqMode)
    OBVIOUS
  <2>4. Ok(cpu, flow, seqReg, seqMode)'
    BY <2>1, <2>2, <2>3 DEF Ok, Running, Nullified, Handling, Entered, Located, Restartable, Resumable, Retaken, PReg, PMode
  <2>5. QED
    BY <2>1, <2>2, <2>4
<1>4. CASE P!DeassertIRQ \/ UNCHANGED P!vars
  <2>1. UNCHANGED <<prog, cpu, flow, seqReg, seqMode>> /\ line' \in {"down", "masked", "up"}
    BY <1>4 DEF P!DeassertIRQ, P!vars
  <2>2. Ok(cpu, flow, seqReg, seqMode)'
    BY <2>1 DEF Ok, Running, Nullified, Handling, Entered, Located, Restartable, Resumable, Retaken, PReg, PMode
  <2>3. QED
    BY <2>1, <2>2
<1>5. QED
  BY <1>1, <1>2, <1>3, <1>4 DEF P!Next, P!Cycle

LEMMA InitPipeline == MCInit => (active = "pipeline" => PipeInv)
  BY InitPipe DEF MCInit

LEMMA NextPipeline == (active = "pipeline" => PipeInv) /\ [MCNext]_allVars => (active = "pipeline" => PipeInv)'
<1> SUFFICES ASSUME active = "pipeline" => PipeInv, [MCNext]_allVars, active' = "pipeline"
             PROVE  PipeInv'
  OBVIOUS
<1>1. active = "pipeline" /\ active' = active
  BY OneRuns
<1>2. P!Next \/ UNCHANGED pVars
  BY <1>1 DEF MCNext, allVars
<1>3. UNCHANGED pVars => UNCHANGED P!vars
  BY DEF pVars, P!vars
<1>4. QED
  BY <1>1, <1>2, <1>3, NextPipe

(* The inductive invariant of the cycle. *)
THEOREM PipelineInvariant == MCSpec => [](active = "pipeline" => PipeInv)
  BY InitPipeline, NextPipeline, PTL DEF MCSpec, allVars

(* Through completeLoad, handleExc, the delay slots and popKUIEStack, what *)
(* the program leaves in its register, its mode and its next address is    *)
(* what it leaves without exceptions, for every program.                   *)
THEOREM ProgramsRunInOrder == MCSpec => []InOrder
<1>1. (active = "pipeline" => PipeInv) => InOrder
  BY PipeMeans DEF InOrder
<1>2. QED
  BY PipelineInvariant, <1>1, PTL

(* Whatever instruction handleExc nullifies, in a delay slot or not, EPC   *)
(* and the stack of modes are those from which it is executed again.       *)
THEOREM ExceptionsArePrecise == MCSpec => []Precise
<1>1. (active = "pipeline" => PipeInv) => Precise
  BY PipeMeans DEF Precise
<1>2. QED
  BY PipelineInvariant, <1>1, PTL
-----------------------------------------------------------------------------
(* The BIOS. *)
Busy == at[Boot] \in {"program", "refill", "general"}

(* Program p has begun. *)
Begun(p) == truth[p].prog = p

(* To resume context u, saved on entry of the BIOS, is to resume t.        *)
Restores(u, t) == u.sp = t.sp /\ u.pc = t.pc /\ u.status[2] = t.status[1]

(* What is loaded goes on where the program left off.                      *)
GoesOn(u, t) == u = [t EXCEPT !.status = u.status] /\ u.status[1] = t.status[1]

(* Only the core that boots the machine reaches the kernel. It holds the   *)
(* context of one program, and the copies are those of the others.         *)
BiosInv ==
  /\ F!TypeOK
  /\ \A c \in Core : IF c = Boot THEN at[c] \notin {"off", "started"} ELSE at[c] \in {"off", "started"}
  /\ \A p \in Prog : Begun(p) \/ truth[p].prog = F!Nobody
  /\ Busy => context[Boot].prog \in Prog /\ Begun(context[Boot].prog)
  /\ at[Boot] = "program" /\ context[Boot].prog \notin broken =>
       GoesOn(context[Boot], truth[context[Boot].prog])
  /\ F!InHandler(Boot) =>
       /\ vector[Boot].prog = context[Boot].prog
       /\ context[Boot].prog \notin broken => Restores(vector[Boot], truth[context[Boot].prog])
  /\ \A p \in Prog : at[Boot] # "panic" /\ Begun(p) /\ ~(Busy /\ context[Boot].prog = p) =>
       saved[p].prog = p /\ (p \notin broken => Restores(saved[p], truth[p]))

LEMMA GarbageType == F!Garbage \in F!Context
<1>1. 0 \in F!Address
  BY DEF F!Address
<1>2. F!Off \in F!Pair
  BY DEF F!Off, F!Pair, F!Mode
<1>3. <<F!Off, F!Off, F!Off>> \in F!Status
  BY <1>2 DEF F!Status
<1>4. QED
  BY <1>1, <1>3 DEF F!Garbage, F!Context

LEMMA InitBios == F!Init => BiosInv
<1> SUFFICES ASSUME F!Init
             PROVE  BiosInv
  OBVIOUS
<1>1. F!Garbage \in F!Context
  BY GarbageType
<1>2. F!TypeOK
  BY <1>1 DEF F!Init, F!TypeOK, F!NoHandlers
<1>3. F!Garbage.prog = F!Nobody
  BY DEF F!Garbage
<1>4. at[Boot] = "boot" /\ (\A c \in Core : c # Boot => at[c] = "off")
  BY BiosAssumption DEF F!Init
<1>5. \A p \in Prog : truth[p].prog = F!Nobody /\ p # F!Nobody
  BY <1>3, BiosAssumption DEF F!Init
<1>6. QED
  BY <1>2, <1>4, <1>5, BiosAssumption DEF BiosInv, Busy, Begun, F!InHandler

(* Only a core that is in the kernel, a program or a handler does anything.*)
LEMMA OnlyBoot ==
  ASSUME BiosInv, F!Next
  PROVE  \/ F!coreboot \/ F!Run(Boot) \/ F!LUTLBHandler(Boot) \/ F!LEXCHandler(Boot) \/ F!LBreakHandler(Boot)
         \/ F!SetHandlers(Boot) \/ F!LDSTVector(Boot) \/ F!KeepCopy(Boot) \/ F!LHalt(Boot) \/ UNCHANGED fVars
         \/ \E d \in Core : d # Boot /\ F!INITCPU(Boot, d)
         \/ \E p \in Prog : F!LDCXT(Boot, p) \/ F!LDSTCopy(Boot, p)
<1>1. \A c \in Core : at[c] \notin {"off", "started"} => c = Boot
  BY DEF BiosInv
<1>2. CASE F!coreboot
  BY <1>2
<1>3. ASSUME NEW c \in Core, at[c] \in {"program", "kernel", "refill", "general"}
      PROVE  c = Boot
  BY <1>1, <1>3
<1>4. ASSUME NEW c \in Core, F!LInfinite(c)
      PROVE  UNCHANGED fVars
  BY <1>4 DEF F!LInfinite, F!vars, fVars
<1>5. ASSUME NEW c \in Core, NEW d \in Core, F!INITCPU(c, d)
      PROVE  c = Boot /\ d # Boot
  BY <1>3, <1>5 DEF F!INITCPU
<1>6. ASSUME NEW c \in Core,
             \/ F!Run(c) \/ F!LUTLBHandler(c) \/ F!LEXCHandler(c) \/ F!LBreakHandler(c)
             \/ F!SetHandlers(c) \/ F!LDSTVector(c) \/ F!KeepCopy(c) \/ F!LHalt(c)
             \/ \E p \in Prog : F!LDCXT(c, p) \/ F!LDSTCopy(c, p)
      PROVE  c = Boot
  BY <1>3, <1>6 DEF F!Run, F!LUTLBHandler, F!LEXCHandler, F!LBreakHandler, F!Running, F!InHandler,
                    F!SetHandlers, F!LDSTVector, F!KeepCopy, F!LHalt, F!LDCXT, F!LDSTCopy
<1>7. QED
  BY <1>2, <1>4, <1>5, <1>6, Zenon DEF F!Next

(* What the BIOS saves, and what it loads. *)
LEMMA SaveFacts ==
  ASSUME NEW u \in F!Context
  PROVE  /\ F!LSave(u) \in F!Context /\ F!LSave(u).prog = u.prog
         /\ \A t : GoesOn(u, t) => Restores(F!LSave(u), t)
         /\ [F!LSave(u) EXCEPT !.sp = F!Nobody] \in F!Context
         /\ [F!LSave(u) EXCEPT !.sp = F!Nobody].prog = u.prog
<1>1. PICK s : s = u.status
  OBVIOUS
<1>2. s \in F!Status
  BY <1>1 DEF F!Context
<1>3. F!Off \in F!Pair /\ s[1] \in F!Pair /\ s[2] \in F!Pair
  BY <1>2 DEF F!Status, F!Off, F!Pair, F!Mode
<1>4. F!push(s) = <<F!Off, s[1], s[2]>> /\ F!push(s) \in F!Status /\ F!push(s)[2] = s[1]
  BY <1>3 DEF F!push, F!Status
<1>5. F!LSave(u) = [u EXCEPT !.status = F!push(s)]
  BY <1>1 DEF F!LSave
<1> HIDE DEF F!push
<1>6. F!LSave(u) \in F!Context /\ F!LSave(u).prog = u.prog /\ F!LSave(u).sp = u.sp /\ F!LSave(u).pc = u.pc
      /\ F!LSave(u).status = F!push(s)
  BY <1>4, <1>5 DEF F!Context
<1>7. ASSUME NEW t, GoesOn(u, t)
      PROVE  Restores(F!LSave(u), t)
  <2>1. u = [t EXCEPT !.status = u.status] /\ s[1] = t.status[1]
    BY <1>1, <1>7 DEF GoesOn
  <2>2. u.sp = t.sp /\ u.pc = t.pc
    BY <2>1 DEF F!Context
  <2>3. QED
    BY <1>4, <1>6, <2>1, <2>2 DEF Restores
<1>8. [F!LSave(u) EXCEPT !.sp = F!Nobody] \in F!Context /\ [F!LSave(u) EXCEPT !.sp = F!Nobody].prog = u.prog
  BY <1>6 DEF F!Context
<1>9. QED
  BY <1>6, <1>7, <1>8

LEMMA LoadFacts ==
  ASSUME NEW u \in F!Context
  PROVE  /\ F!LLoadStart(u) \in F!Context /\ F!LLoadStart(u).prog = u.prog
         /\ \A t \in F!Context : t.prog = u.prog /\ Restores(u, t) => GoesOn(F!LLoadStart(u), t)
<1>1. PICK s : s = u.status
  OBVIOUS
<1>2. s \in F!Pair \X F!Pair \X F!Pair
  BY <1>1 DEF F!Context, F!Status
<1>3. PICK r : r = <<s[2], s[3], s[3]>>
  OBVIOUS
<1>4. F!Off \in F!Pair
  BY DEF F!Off, F!Pair, F!Mode
<1>5. [s EXCEPT ![1] = F!Off] = <<F!Off, s[2], s[3]>>
  BY <1>2, <1>4
<1>6. F!LLoadStart(u) = [u EXCEPT !.status = r]
  BY <1>1, <1>3, <1>5 DEF F!LLoadStart, F!rfe
<1>7. r \in F!Status /\ r[1] = s[2]
  BY <1>2, <1>3 DEF F!Status
<1>8. F!LLoadStart(u) \in F!Context /\ F!LLoadStart(u).prog = u.prog /\ F!LLoadStart(u).sp = u.sp
      /\ F!LLoadStart(u).pc = u.pc /\ F!LLoadStart(u).status = r
  BY <1>6, <1>7 DEF F!Context
<1>9. ASSUME NEW t \in F!Context, t.prog = u.prog, Restores(u, t)
      PROVE  GoesOn(F!LLoadStart(u), t)
  <2>1. t.sp = u.sp /\ t.pc = u.pc /\ t.status[1] = s[2]
    BY <1>1, <1>9 DEF Restores
  <2>2. F!LLoadStart(u) = [t EXCEPT !.status = r]
    BY <1>6, <1>9, <2>1 DEF F!Context
  <2>3. QED
    BY <1>7, <1>8, <2>1, <2>2 DEF GoesOn
<1>10. QED
  BY <1>8, <1>9

(* What the invariant says of the core that runs. *)
LEMMA BootFacts ==
  ASSUME BiosInv
  PROVE  /\ Boot \in Core /\ context[Boot] \in F!Context /\ vector[Boot] \in F!Context
         /\ \A p \in Prog : truth[p] \in F!Context /\ saved[p] \in F!Context /\ p # F!Nobody
         /\ DOMAIN at = Core /\ DOMAIN context = Core /\ DOMAIN vector = Core
         /\ DOMAIN truth = Prog /\ DOMAIN saved = Prog
  BY BiosAssumption DEF BiosInv, F!TypeOK

LEMMA NextRun == BiosInv /\ F!Run(Boot) => BiosInv'
<1> SUFFICES ASSUME BiosInv, F!Run(Boot)
             PROVE  BiosInv'
  OBVIOUS
<1>1. PICK k \in F!Address : context' = [context EXCEPT ![Boot].pc = k]
  BY BiosAssumption DEF F!Run
<1>2. PICK q : q = context[Boot].prog
  OBVIOUS
<1>3. at[Boot] = "program" /\ q \in Prog /\ Begun(q)
  BY <1>2 DEF F!Run, F!Running, BiosInv, Busy
<1>4. PICK u : u = [context[Boot] EXCEPT !.pc = k]
  OBVIOUS
<1>5. u \in F!Context /\ u.prog = q /\ context'[Boot] = u /\ context' \in [Core -> F!Context]
  BY <1>1, <1>2, <1>4, BootFacts DEF F!Context, BiosInv, F!TypeOK
<1>6. truth' = [truth EXCEPT ![q] = u] /\ UNCHANGED <<at, vector, vectorReg, handlers, saved, broken>>
  BY <1>2, <1>5 DEF F!Run
<1>7. GoesOn(u, u)
  BY <1>5 DEF GoesOn, F!Context
<1>8. F!TypeOK'
  BY <1>3, <1>5, <1>6 DEF BiosInv, F!TypeOK
<1>9. \A p \in Prog : p # q => truth'[p] = truth[p]
  BY <1>6, BootFacts
<1>10. truth'[q] = u
  BY <1>3, <1>6, BootFacts
<1>11. \A p \in Prog : (Begun(p) \/ truth[p].prog = F!Nobody)'
  BY <1>5, <1>9, <1>10 DEF BiosInv, Begun
<1>12. \A p \in Prog : (at[Boot] # "panic" /\ Begun(p) /\ ~(Busy /\ context[Boot].prog = p))' =>
         (saved[p].prog = p /\ (p \notin broken => Restores(saved[p], truth[p])))'
  BY <1>3, <1>5, <1>6, <1>9, <1>2 DEF BiosInv, Begun, Busy, Restores
<1>13. QED
  BY <1>3, <1>5, <1>6, <1>7, <1>8, <1>10, <1>11, <1>12 DEF BiosInv, Begun, Busy, F!InHandler

(* The vector gets context v, and the handler is entered, if it is set.    *)
LEMMA NextPassUp ==
  ASSUME BiosInv, at[Boot] = "program", NEW v \in F!Context, v.prog = context[Boot].prog,
         UNCHANGED <<context, vectorReg, handlers, saved, truth>>, vector' = [vector EXCEPT ![Boot] = v],
         broken \subseteq broken', broken' \subseteq broken \cup {context[Boot].prog},
         context[Boot].prog \notin broken' => Restores(v, truth[context[Boot].prog]),
         NEW kind \in {"refill", "general"},
         at' = [at EXCEPT ![Boot] = IF handlers[Boot][kind] = "panic" THEN "panic" ELSE kind]
  PROVE  BiosInv'
<1>1. PICK q : q = context[Boot].prog
  OBVIOUS
<1>2. q \in Prog /\ Begun(q) /\ Busy
  BY <1>1 DEF BiosInv, Busy
<1>3. at'[Boot] \in {"panic", kind} /\ (\A c \in Core : c # Boot => at'[c] = at[c])
  BY BootFacts
<1>4. vector'[Boot] = v /\ vector' \in [Core -> F!Context]
  BY BootFacts DEF BiosInv, F!TypeOK
<1>5. F!TypeOK'
  <2>1. at' \in [Core -> {"off", "boot", "kernel", "program", "refill", "general", "panic", "halt", "started"}]
    BY DEF BiosInv, F!TypeOK
  <2>2. broken' \subseteq Prog
    BY <1>1, <1>2 DEF BiosInv, F!TypeOK
  <2>3. QED
    BY <1>4, <2>1, <2>2 DEF BiosInv, F!TypeOK
<1>6. \A c \in Core : IF c = Boot THEN at'[c] \notin {"off", "started"} ELSE at'[c] \in {"off", "started"}
  BY <1>3 DEF BiosInv
<1>7. \A p \in Prog : p # q => (p \in broken <=> p \in broken')
  BY <1>1
<1>8. \A p \in Prog : (at[Boot] # "panic" /\ Begun(p) /\ ~(Busy /\ context[Boot].prog = p))' =>
         (saved[p].prog = p /\ (p \notin broken => Restores(saved[p], truth[p])))'
  <2> SUFFICES ASSUME NEW p \in Prog, (at[Boot] # "panic" /\ Begun(p) /\ ~(Busy /\ context[Boot].prog = p))'
               PROVE  (saved[p].prog = p /\ (p \notin broken => Restores(saved[p], truth[p])))'
    OBVIOUS
  <2>1. Busy'
    BY <1>3 DEF Busy
  <2>2. p # q /\ Begun(p)
    BY <1>1, <2>1 DEF Begun
  <2>3. saved[p].prog = p /\ (p \notin broken => Restores(saved[p], truth[p]))
    BY <1>1, <2>2 DEF BiosInv
  <2>4. QED
    BY <1>7, <2>2, <2>3 DEF Restores
<1>9. \A p \in Prog : Begun(p)' <=> Begun(p)
  BY DEF Begun
<1>10. (at[Boot] = "program" /\ context[Boot].prog \notin broken =>
          GoesOn(context[Boot], truth[context[Boot].prog]))'
  BY <1>3
<1>11. (F!InHandler(Boot) =>
          /\ vector[Boot].prog = context[Boot].prog
          /\ context[Boot].prog \notin broken => Restores(vector[Boot], truth[context[Boot].prog]))'
  BY <1>4 DEF Restores
<1>12. (Busy => context[Boot].prog \in Prog /\ Begun(context[Boot].prog))'
  BY <1>1, <1>2, <1>9
<1>13. \A p \in Prog : (Begun(p) \/ truth[p].prog = F!Nobody)'
  BY <1>9 DEF BiosInv
<1>14. QED
  BY <1>5, <1>6, <1>8, <1>10, <1>11, <1>12, <1>13 DEF BiosInv

(* The BIOS takes the exception for its own, and panics.                   *)
LEMMA NextPanic == BiosInv /\ at[Boot] = "program" /\ F!LPanic(Boot) => BiosInv'
<1> SUFFICES ASSUME BiosInv, at[Boot] = "program", F!LPanic(Boot)
             PROVE  BiosInv'
  OBVIOUS
<1>1. /\ at'[Boot] = "panic" /\ (\A c \in Core : c # Boot => at'[c] = at[c])
      /\ UNCHANGED <<context, vector, vectorReg, handlers, saved, truth, broken>>
  BY BootFacts DEF F!LPanic
<1>2. F!TypeOK'
  BY <1>1 DEF F!LPanic, BiosInv, F!TypeOK
<1>3. ~Busy' /\ ~(F!InHandler(Boot))'
  BY <1>1 DEF Busy, F!InHandler
<1>4. QED
  BY <1>1, <1>2, <1>3 DEF BiosInv, Begun

LEMMA NextException ==
  BiosInv /\ (F!LUTLBHandler(Boot) \/ F!LEXCHandler(Boot) \/ F!LBreakHandler(Boot)) => BiosInv'
<1> SUFFICES ASSUME BiosInv, F!LUTLBHandler(Boot) \/ F!LEXCHandler(Boot) \/ F!LBreakHandler(Boot)
             PROVE  BiosInv'
  OBVIOUS
<1>1. at[Boot] = "program"
  BY DEF F!LUTLBHandler, F!LEXCHandler, F!LBreakHandler, F!Running
<1>2. PICK u : u = F!LSave(context[Boot])
  OBVIOUS
<1>3. u \in F!Context /\ u.prog = context[Boot].prog
  BY <1>2, BootFacts, SaveFacts
<1>4. ASSUME NEW kind \in {"refill", "general"}, F!PassUp(Boot, kind) /\ UNCHANGED <<truth, broken>>
      PROVE  BiosInv'
  <2>2. context[Boot].prog \notin broken => Restores(u, truth[context[Boot].prog])
    BY <1>1, <1>2, BootFacts, SaveFacts DEF BiosInv
  <2>3. vector' = [vector EXCEPT ![Boot] = u] /\ UNCHANGED <<context, vectorReg, handlers, saved, truth, broken>>
    BY <1>2, <1>4 DEF F!PassUp
  <2>4. at' = [at EXCEPT ![Boot] = IF handlers[Boot][kind] = "panic" THEN "panic" ELSE kind]
    BY <1>4 DEF F!PassUp
  <2>5. QED
    BY <1>1, <1>3, <2>2, <2>3, <2>4, NextPassUp
<1>5. CASE F!Misled(Boot)
  <2>1. PICK w : w = [u EXCEPT !.sp = F!Nobody]
    OBVIOUS
  <2>2. w \in F!Context /\ w.prog = context[Boot].prog
    BY <1>2, <2>1, BootFacts, SaveFacts
  <2>3. /\ vector' = [vector EXCEPT ![Boot] = w] /\ UNCHANGED <<context, vectorReg, handlers, saved, truth>>
        /\ broken' = broken \cup {context[Boot].prog}
        /\ at' = [at EXCEPT ![Boot] = IF handlers[Boot].refill = "panic" THEN "panic" ELSE "refill"]
    BY <1>2, <1>5, <2>1 DEF F!Misled
  <2>4. handlers[Boot].refill = handlers[Boot]["refill"]
    OBVIOUS
  <2>5. QED
    BY <1>1, <2>2, <2>3, <2>4, NextPassUp
<1>6. \/ F!LPanic(Boot) \/ F!Misled(Boot)
      \/ \E kind \in {"refill", "general"} : F!PassUp(Boot, kind) /\ UNCHANGED <<truth, broken>>
  BY DEF F!LUTLBHandler, F!LEXCHandler, F!LBreakHandler
<1>7. QED
  BY <1>1, <1>4, <1>5, <1>6, NextPanic

(* A context that restores program p, or starts it, is loaded; all other   *)
(* programs are in their copies.                                           *)
LEMMA NextLoad ==
  ASSUME BiosInv, at[Boot] \notin {"panic", "boot"}, NEW p \in Prog, NEW u \in F!Context, u.prog = p,
         UNCHANGED <<vector, vectorReg, handlers, saved, broken>>,
         context' = [context EXCEPT ![Boot] = F!LLoadStart(u)],
         at' = [at EXCEPT ![Boot] = "program"],
         NEW t \in F!Context, t.prog = p, truth' = [truth EXCEPT ![p] = t],
         p \notin broken => GoesOn(F!LLoadStart(u), t),
         Busy => context[Boot].prog = p
  PROVE  BiosInv'
<1>1. PICK w : w = F!LLoadStart(u)
  OBVIOUS
<1>2. w \in F!Context /\ w.prog = p
  BY <1>1, LoadFacts
<1>3. context'[Boot] = w /\ context' \in [Core -> F!Context]
  BY <1>1, <1>2, BootFacts DEF BiosInv, F!TypeOK
<1>4. truth'[p] = t /\ truth' \in [Prog -> F!Context] /\ (\A r \in Prog : r # p => truth'[r] = truth[r])
  BY BootFacts DEF BiosInv, F!TypeOK
<1>5. at'[Boot] = "program" /\ (\A c \in Core : c # Boot => at'[c] = at[c])
      /\ at' \in [Core -> {"off", "boot", "kernel", "program", "refill", "general", "panic", "halt", "started"}]
  BY BootFacts DEF BiosInv, F!TypeOK
<1>6. F!TypeOK'
  BY <1>3, <1>4, <1>5 DEF BiosInv, F!TypeOK
<1>7. \A c \in Core : IF c = Boot THEN at'[c] \notin {"off", "started"} ELSE at'[c] \in {"off", "started"}
  BY <1>5 DEF BiosInv
<1>8. \A r \in Prog : (Begun(r) \/ truth[r].prog = F!Nobody)'
  BY <1>4 DEF BiosInv, Begun
<1>9. \A r \in Prog : (at[Boot] # "panic" /\ Begun(r) /\ ~(Busy /\ context[Boot].prog = r))' =>
         (saved[r].prog = r /\ (r \notin broken => Restores(saved[r], truth[r])))'
  <2> SUFFICES ASSUME NEW r \in Prog, (at[Boot] # "panic" /\ Begun(r) /\ ~(Busy /\ context[Boot].prog = r))'
               PROVE  (saved[r].prog = r /\ (r \notin broken => Restores(saved[r], truth[r])))'
    OBVIOUS
  <2>1. r # p
    BY <1>2, <1>3, <1>5 DEF Busy
  <2>2. Begun(r) /\ ~(Busy /\ context[Boot].prog = r)
    BY <1>4, <2>1 DEF Begun
  <2>3. saved[r].prog = r /\ (r \notin broken => Restores(saved[r], truth[r]))
    BY <2>2 DEF BiosInv
  <2>4. QED
    BY <1>4, <2>1, <2>3 DEF Restores
<1>10. (Busy => context[Boot].prog \in Prog /\ Begun(context[Boot].prog))'
  BY <1>2, <1>3, <1>4 DEF Begun
<1>11. (at[Boot] = "program" /\ context[Boot].prog \notin broken =>
          GoesOn(context[Boot], truth[context[Boot].prog]))'
  BY <1>1, <1>2, <1>3, <1>4 DEF GoesOn
<1>12. ~(F!InHandler(Boot))'
  BY <1>5 DEF F!InHandler
<1>13. QED
  BY <1>6, <1>7, <1>8, <1>9, <1>10, <1>11, <1>12 DEF BiosInv

LEMMA NextResume ==
  BiosInv /\ (F!LDSTVector(Boot) \/ \E p \in Prog : F!LDCXT(Boot, p) \/ F!LDSTCopy(Boot, p)) => BiosInv'
<1> SUFFICES ASSUME BiosInv, F!LDSTVector(Boot) \/ \E p \in Prog : F!LDCXT(Boot, p) \/ F!LDSTCopy(Boot, p)
             PROVE  BiosInv'
  OBVIOUS
<1>1. CASE F!LDSTVector(Boot)
  <2>1. PICK p : p = context[Boot].prog
    OBVIOUS
  <2>2. p \in Prog /\ Begun(p) /\ vector[Boot].prog = p /\ (p \notin broken => Restores(vector[Boot], truth[p]))
        /\ F!InHandler(Boot) /\ at[Boot] \notin {"panic", "boot"}
    BY <1>1, <2>1 DEF F!LDSTVector, F!InHandler, BiosInv, Busy
  <2>3. truth' = [truth EXCEPT ![p] = truth[p]] /\ truth[p] \in F!Context /\ truth[p].prog = p
    BY <1>1, <2>2, BootFacts DEF F!LDSTVector, F!Load, Begun, BiosInv, F!TypeOK
  <2>4. p \notin broken => GoesOn(F!LLoadStart(vector[Boot]), truth[p])
    BY <2>2, <2>3, BootFacts, LoadFacts
  <2>5. QED
    BY <1>1, <2>1, <2>2, <2>3, <2>4, BootFacts, NextLoad DEF F!LDSTVector, F!Load
<1>2. ASSUME NEW p \in Prog, F!LDSTCopy(Boot, p)
      PROVE  BiosInv'
  <2>1. at[Boot] = "kernel" /\ Begun(p) /\ ~Busy
    BY <1>2 DEF F!LDSTCopy, Begun, Busy
  <2>2. saved[p].prog = p /\ (p \notin broken => Restores(saved[p], truth[p]))
    BY <2>1 DEF BiosInv
  <2>3. truth' = [truth EXCEPT ![p] = truth[p]] /\ truth[p] \in F!Context /\ truth[p].prog = p
    BY <1>2, <2>1, BootFacts DEF F!LDSTCopy, F!Load, Begun, BiosInv, F!TypeOK
  <2>4. p \notin broken => GoesOn(F!LLoadStart(saved[p]), truth[p])
    BY <2>2, <2>3, BootFacts, LoadFacts
  <2>5. QED
    BY <1>2, <2>1, <2>2, <2>3, <2>4, BootFacts, NextLoad DEF F!LDSTCopy, F!Load
<1>3. ASSUME NEW p \in Prog, F!LDCXT(Boot, p)
      PROVE  BiosInv'
  <2>1. at[Boot] = "kernel" /\ ~Busy
    BY <1>3 DEF F!LDCXT, Busy
  <2>2. PICK i \in F!Pair, m \in F!Pair, k \in F!Address :
          context' = [context EXCEPT ![Boot] =
                        F!LLoadStart([prog |-> p, sp |-> p, pc |-> k, status |-> <<i, m, F!Off>>])]
    BY <1>3, BiosAssumption DEF F!LDCXT
  <2>3. PICK u : u = [prog |-> p, sp |-> p, pc |-> k, status |-> <<i, m, F!Off>>]
    OBVIOUS
  <2>4. <<i, m, F!Off>> \in F!Status
    BY DEF F!Status, F!Off, F!Pair, F!Mode
  <2>5. u \in F!Context /\ u.prog = p
    BY <2>3, <2>4 DEF F!Context
  <2>6. PICK t : t = F!LLoadStart(u)
    OBVIOUS
  <2>7. t \in F!Context /\ t.prog = p
    BY <2>5, <2>6, LoadFacts
  <2>8. context' = [context EXCEPT ![Boot] = t] /\ context'[Boot] = t
    BY <2>2, <2>3, <2>6, BootFacts
  <2>9. truth' = [truth EXCEPT ![p] = t]
    <3>1. truth' = [truth EXCEPT ![p] = context'[Boot]]
      BY <1>3, Zenon DEF F!LDCXT
    <3>2. QED
      BY <2>8, <3>1
  <2>10. GoesOn(t, t)
    BY <2>7 DEF GoesOn, F!Context
  <2>11. at' = [at EXCEPT ![Boot] = "program"] /\ UNCHANGED <<vector, vectorReg, handlers, saved, broken>>
    BY <1>3, Zenon DEF F!LDCXT
  <2>12. QED
    BY <2>1, <2>5, <2>6, <2>7, <2>8, <2>9, <2>10, <2>11, NextLoad
<1>4. QED
  BY <1>1, <1>2, <1>3

LEMMA NextKernel ==
  ASSUME BiosInv, \/ F!coreboot \/ F!SetHandlers(Boot) \/ F!KeepCopy(Boot) \/ F!LHalt(Boot)
                  \/ \E d \in Core : d # Boot /\ F!INITCPU(Boot, d)
  PROVE  BiosInv'
<1>1. CASE F!coreboot \/ F!LHalt(Boot) \/ F!SetHandlers(Boot)
  <2>1. at'[Boot] \in {"kernel", "halt"} /\ (\A c \in Core : c # Boot => at'[c] = at[c])
        /\ UNCHANGED <<context, vector, saved, truth, broken>> /\ at[Boot] \in {"boot", "kernel"}
    BY <1>1, BootFacts DEF F!coreboot, F!LHalt, F!SetHandlers
  <2>2. F!TypeOK'
    <3>1. CASE F!coreboot
      <4>1. PICK h : h = F!NoHandlers
        OBVIOUS
      <4>2. h \in [{"refill", "general"} -> {"panic", "kernel"}]
        BY <4>1 DEF F!NoHandlers
      <4>3. at' = [at EXCEPT ![Boot] = "kernel"] /\ handlers' = [handlers EXCEPT ![Boot] = h]
            /\ vectorReg' = [vectorReg EXCEPT ![Boot] = TRUE]
        BY <3>1, <4>1 DEF F!coreboot
      <4>4. QED
        BY <2>1, <4>2, <4>3 DEF BiosInv, F!TypeOK
    <3>2. CASE F!LHalt(Boot)
      BY <2>1, <3>2 DEF F!LHalt, BiosInv, F!TypeOK
    <3>3. CASE F!SetHandlers(Boot)
      <4>1. PICK h : h = [refill |-> "kernel", general |-> "kernel"]
        OBVIOUS
      <4>2. h \in [{"refill", "general"} -> {"panic", "kernel"}]
        BY <4>1
      <4>3. handlers' = [handlers EXCEPT ![Boot] = h] /\ UNCHANGED <<at, vectorReg>>
        BY <3>3, <4>1 DEF F!SetHandlers
      <4>4. QED
        BY <2>1, <4>2, <4>3 DEF BiosInv, F!TypeOK
    <3>4. QED
      BY <1>1, <3>1, <3>2, <3>3
  <2>3. ~Busy /\ ~Busy' /\ ~(F!InHandler(Boot))'
    BY <2>1 DEF Busy, F!InHandler
  <2>4. QED
    BY <2>1, <2>2, <2>3 DEF BiosInv, Begun, Restores
<1>2. CASE F!KeepCopy(Boot)
  <2>1. PICK p : p = context[Boot].prog
    OBVIOUS
  <2>2. F!InHandler(Boot) /\ at[Boot] # "panic" /\ Busy
    BY <1>2 DEF F!KeepCopy, F!InHandler, Busy
  <2>3. p \in Prog /\ Begun(p) /\ vector[Boot].prog = p /\ (p \notin broken => Restores(vector[Boot], truth[p]))
    BY <2>1, <2>2 DEF BiosInv
  <2>4. saved' = [saved EXCEPT ![p] = vector[Boot]] /\ at' = [at EXCEPT ![Boot] = "kernel"]
        /\ UNCHANGED <<context, vector, vectorReg, handlers, truth, broken>>
    BY <1>2, <2>3 DEF F!KeepCopy
  <2>5. at'[Boot] = "kernel" /\ (\A c \in Core : c # Boot => at'[c] = at[c]) /\ saved'[p] = vector[Boot]
        /\ (\A r \in Prog : r # p => saved'[r] = saved[r])
    BY <2>3, <2>4, BootFacts
  <2>6. F!TypeOK'
    BY <2>4, BootFacts DEF BiosInv, F!TypeOK
  <2>7. \A r \in Prog : Begun(r)' => (saved[r].prog = r /\ (r \notin broken => Restores(saved[r], truth[r])))'
    <3> SUFFICES ASSUME NEW r \in Prog, Begun(r)'
                 PROVE  (saved[r].prog = r /\ (r \notin broken => Restores(saved[r], truth[r])))'
      OBVIOUS
    <3>1. CASE r = p
      BY <2>3, <2>4, <2>5, <3>1 DEF Restores
    <3>2. CASE r # p
      <4>1. saved[r].prog = r /\ (r \notin broken => Restores(saved[r], truth[r]))
        BY <2>1, <2>2, <2>4, <3>2 DEF BiosInv, Begun
      <4>2. QED
        BY <2>4, <2>5, <3>2, <4>1 DEF Restores
    <3>3. QED
      BY <3>1, <3>2
  <2>8. QED
    BY <2>4, <2>5, <2>6, <2>7 DEF BiosInv, Begun, Busy, F!InHandler
<1>3. ASSUME NEW d \in Core, d # Boot, F!INITCPU(Boot, d)
      PROVE  BiosInv'
  <2>1. F!LLoadStart(F!Garbage) \in F!Context
    <3>1. F!Garbage \in F!Context
      BY GarbageType
    <3>2. QED
      BY <3>1, LoadFacts
  <2>2. at' = [at EXCEPT ![d] = "started"] /\ context' = [context EXCEPT ![d] = F!LLoadStart(F!Garbage)]
        /\ vectorReg' = [vectorReg EXCEPT ![d] = FALSE] /\ UNCHANGED <<vector, handlers, saved, truth, broken>>
    BY <1>3 DEF F!INITCPU
  <2>3. at'[Boot] = at[Boot] /\ context'[Boot] = context[Boot]
        /\ (\A c \in Core : at'[c] = IF c = d THEN "started" ELSE at[c])
    BY <1>3, <2>2, BootFacts
  <2>4. F!TypeOK'
    BY <2>1, <2>2 DEF BiosInv, F!TypeOK
  <2>5. QED
    BY <1>3, <2>2, <2>3, <2>4 DEF BiosInv, Begun, Busy, F!InHandler, Restores, GoesOn
<1>4. QED
  BY <1>1, <1>2, <1>3

LEMMA NextBios == BiosInv /\ F!Next => BiosInv'
<1> SUFFICES ASSUME BiosInv, F!Next
             PROVE  BiosInv'
  OBVIOUS
<1>1. CASE UNCHANGED fVars
  BY <1>1 DEF fVars, BiosInv, F!TypeOK, Begun, Busy, F!InHandler, Restores, GoesOn
<1>2. QED
  BY <1>1, OnlyBoot, NextRun, NextException, NextResume, NextKernel

LEMMA BiosMeans == BiosInv => F!TypeOK /\ F!Resumed /\ F!PassedUp
<1> SUFFICES ASSUME BiosInv
             PROVE  F!Resumed /\ F!PassedUp
  BY DEF BiosInv
<1>1. \A c \in Core : F!Running(c) \/ F!InHandler(c) => c = Boot
  BY DEF BiosInv, F!Running, F!InHandler
<1>2. F!Resumed
  BY <1>1 DEF BiosInv, F!Resumed, F!Running, GoesOn
<1>3. F!PassedUp
  BY <1>1 DEF BiosInv, F!PassedUp, F!VectorHolds, Restores
<1>4. QED
  BY <1>2, <1>3

LEMMA InitServices == MCInit => (active = "bios" => BiosInv)
  BY InitBios DEF MCInit

LEMMA NextServices == (active = "bios" => BiosInv) /\ [MCNext]_allVars => (active = "bios" => BiosInv)'
<1> SUFFICES ASSUME active = "bios" => BiosInv, [MCNext]_allVars, active' = "bios"
             PROVE  BiosInv'
  OBVIOUS
<1>1. active = "bios" /\ active' = active
  BY OneRuns
<1>2. F!Next \/ UNCHANGED fVars
  BY <1>1 DEF MCNext, allVars
<1>3. UNCHANGED fVars /\ BiosInv => BiosInv'
  BY DEF fVars, BiosInv, F!TypeOK, Begun, Busy, F!InHandler, Restores, GoesOn
<1>4. QED
  BY <1>1, <1>2, <1>3, NextBios

(* From LSave to LLoadStart, whether the handler loads from the exception  *)
(* vector or the kernel from a copy it kept, and whatever services it used *)
(* in between, a program that was passed up goes on with its registers,    *)
(* stack, place and mode, for any number of programs and wherever in memory*)
(* they are. All of them are on the core that boots the machine: no other  *)
(* reaches the kernel. What EPC makes the BIOS take for its own exception, *)
(* it does not pass up, and what executed a BREAK of its own is exempted.  *)
THEOREM ProgramsAreResumed == MCSpec => []ProgramsResumed
<1>1. (active = "bios" => BiosInv) => ProgramsResumed
  BY BiosMeans DEF ProgramsResumed
<1>2. QED
  BY <1>1, InitServices, NextServices, PTL DEF MCSpec, allVars

-----------------------------------------------------------------------------
(* Arithmetic. The words have 2 * Half bits. *)
(* Half of a word: the numbers from which the sign bit is set. *)
Mid == A!W \div 2

LEMMA WordSize ==
  /\ A!H \in Nat /\ A!H >= 2 /\ (A!H \div 2) \in Nat /\ A!H = 2 * (A!H \div 2)
  /\ A!W \in Nat /\ A!W = A!H * A!H
  /\ Mid \in Nat /\ A!W = 2 * Mid /\ Mid >= A!H
<1>1. PICK k \in Nat \ {0} : A!H = 2 * k
  <2>1. Half - 1 \in 0..2*Half /\ (Half - 1) + 1 = Half
    BY ArithmeticAssumption
  <2>2. 2^(Half - 1) \in Nat \ {0} /\ 2^Half = 2 * 2^(Half - 1)
    BY <2>1, ArithmeticAssumption
  <2>3. QED
    BY <2>2 DEF A!H
<1>2. A!W = A!H * A!H
  BY DEF A!W
<1>3. (A!H \div 2) = k /\ A!H \in Nat /\ A!H >= 2
  BY <1>1
<1>4. PICK j : j = k * A!H
  OBVIOUS
<1>5. j \in Nat /\ j >= A!H
  BY <1>1, <1>3, <1>4
<1>6. A!W = 2 * j
  BY <1>1, <1>2, <1>4
<1>7. Mid = j
  BY <1>5, <1>6 DEF Mid
<1>8. QED
  BY <1>1, <1>2, <1>3, <1>5, <1>6, <1>7

LEMMA ShiftSize == \A w \in Nat : A!Shift(w) \in Nat \ {0}
<1> SUFFICES ASSUME NEW w \in Nat
             PROVE  A!Shift(w) \in Nat \ {0}
  OBVIOUS
<1>1. (w % (2 * Half)) \in 0..2*Half
  BY ArithmeticAssumption
<1>2. QED
  BY <1>1, ArithmeticAssumption DEF A!Shift

(* Quotient and remainder are what they must be, of a negative number too. *)
LEMMA QuotientOf ==
  ASSUME NEW i \in Int, NEW k \in Nat \ {0}, NEW q \in Int, NEW r \in Nat, r < k, i = q * k + r
  PROVE  (i \div k) = q /\ (i % k) = r
<1>1. PICK d : d = i \div k
  OBVIOUS
<1>2. PICK m : m = i % k
  OBVIOUS
<1>3. d \in Int /\ m \in Nat /\ m < k /\ i = d * k + m
  BY <1>1, <1>2
<1>4. ~(d < q)
  <2>1. d < q => (d + 1) * k <= q * k
    BY <1>3
  <2>2. (d + 1) * k = d * k + k /\ d * k \in Int /\ q * k \in Int
    BY <1>3
  <2>3. QED
    BY <1>3, <2>1, <2>2
<1>5. ~(q < d)
  <2>1. q < d => (q + 1) * k <= d * k
    BY <1>3
  <2>2. (q + 1) * k = q * k + k /\ d * k \in Int /\ q * k \in Int
    BY <1>3
  <2>3. QED
    BY <1>3, <2>1, <2>2
<1>6. d = q
  BY <1>3, <1>4, <1>5
<1>7. m = r
  <2>1. q * k \in Int
    OBVIOUS
  <2>2. i = q * k + m
    BY <1>3, <1>6
  <2>3. QED
    BY <1>3, <2>1, <2>2
<1>8. QED
  BY <1>1, <1>2, <1>6, <1>7

LEMMA Divided ==
  ASSUME NEW i \in Int, NEW k \in Nat \ {0}
  PROVE  (i \div k) \in Int /\ (i % k) \in Nat /\ (i % k) < k /\ i = (i \div k) * k + (i % k)
  OBVIOUS

LEMMA NoQuotient ==
  ASSUME NEW i \in Nat, NEW k \in Nat \ {0}, i < k
  PROVE  (i \div k) = 0 /\ (i % k) = i
<1>1. i = 0 * k + i
  OBVIOUS
<1>2. QED
  BY <1>1, QuotientOf

LEMMA Expanded ==
  ASSUME NEW h \in Nat, NEW a \in Nat, NEW b \in Nat, NEW c \in Nat, NEW d \in Nat
  PROVE  (a * h + b) * (c * h + d) = (a * c) * (h * h) + h * (a * d + b * c) + b * d
  OBVIOUS

LEMMA TimesBound ==
  ASSUME NEW i \in Nat, NEW j \in Nat, NEW m \in Nat, i <= m, j <= m
  PROVE  i * j \in Nat /\ i * j <= m * m
<1>1. i * j <= m * j /\ m * j <= m * m
  OBVIOUS
<1>2. i * j \in Nat /\ m * j \in Nat /\ m * m \in Nat
  OBVIOUS
<1>3. QED
  BY <1>1, <1>2

LEMMA Squared ==
  ASSUME NEW h \in Nat, NEW t \in Nat, t < h
  PROVE  t < h * h
<1>1. h <= h * h
  OBVIOUS
<1>2. QED
  BY <1>1

LEMMA TopDigit ==
  ASSUME NEW h \in Nat, NEW t \in Nat, NEW v \in Nat, t < h, v < h
  PROVE  h * t \in Nat /\ v + h * t \in Nat /\ v + h * t < h * h /\ t <= h * h
<1>1. h * t <= h * (h - 1)
  OBVIOUS
<1>2. h * (h - 1) = h * h - h /\ h * t \in Nat /\ h * h \in Nat
  OBVIOUS
<1>3. h <= h * h
  OBVIOUS
<1>4. QED
  BY <1>1, <1>2, <1>3

LEMMA Wrapped ==
  ASSUME NEW i \in Int
  PROVE  /\ A!ToWord(i) \in A!Word
         /\ 0 <= i /\ i < A!W => A!ToWord(i) = i
         /\ A!W <= i /\ i < 2 * A!W => A!ToWord(i) = i - A!W
         /\ -A!W <= i /\ i < 0 => A!ToWord(i) = i + A!W
<1>1. A!W \in Nat \ {0}
  BY WordSize
<1>2. 0 <= i /\ i < A!W => (i % A!W) = i
  BY <1>1, QuotientOf, i = 0 * A!W + i
<1>3. A!W <= i /\ i < 2 * A!W => (i % A!W) = i - A!W
  BY <1>1, QuotientOf, i = 1 * A!W + (i - A!W)
<1>4. -A!W <= i /\ i < 0 => (i % A!W) = i + A!W
  BY <1>1, QuotientOf, i = (-1) * A!W + (i + A!W)
<1>5. (i % A!W) \in Nat /\ (i % A!W) < A!W
  BY <1>1, Divided
<1>6. QED
  BY <1>1, <1>2, <1>3, <1>4, <1>5 DEF A!ToWord, A!Word

LEMMA SignOf ==
  ASSUME NEW w \in A!Word
  PROVE  /\ w \in Nat /\ w < A!W
         /\ A!SIGNBIT(w) <=> w >= Mid
         /\ A!Signed(w) = IF w >= Mid THEN w - A!W ELSE w
         /\ A!Signed(w) \in Int /\ -Mid <= A!Signed(w) /\ A!Signed(w) < Mid
  BY WordSize DEF A!Word, A!SIGNBIT, A!Signed, Mid

LEMMA SignedBack ==
  ASSUME NEW s \in Int, -Mid <= s, s < Mid
  PROVE  A!ToWord(s) \in A!Word /\ A!Signed(A!ToWord(s)) = s
<1>1. A!ToWord(s) \in A!Word /\ A!ToWord(s) = IF s < 0 THEN s + A!W ELSE s
  BY Wrapped, WordSize
<1>2. QED
  BY <1>1, SignOf, WordSize

Exact(o, s) == IF s \in -Mid..(Mid - 1) THEN ~o.ov /\ A!Signed(o.rd) = s ELSE o.ov

LEMMA OutFields ==
  /\ \A r \in A!Word : A!Result(r).rd = r /\ ~A!Result(r).ov
  /\ A!Overflow.ov
  /\ \A h, l \in A!Word : A!HiLo(h, l).hi = h /\ A!HiLo(h, l).lo = l
  BY DEF A!Result, A!Overflow, A!HiLo

LEMMA ExactAdd ==
  ASSUME NEW i \in A!Word, NEW j \in A!Word
  PROVE  Exact(A!SignAdd(i, j), A!Signed(i) + A!Signed(j))
<1>1. PICK s \in A!Word : s = A!ToWord(i + j)
  BY SignOf, Wrapped
<1>2. s = IF i + j < A!W THEN i + j ELSE i + j - A!W
  BY <1>1, SignOf, Wrapped, WordSize
<1>3. A!SignAdd(i, j) = IF (i >= Mid <=> j >= Mid) /\ ~(s >= Mid <=> i >= Mid) THEN A!Overflow ELSE A!Result(s)
  BY <1>1 DEF A!SignAdd, A!SIGNBIT, Mid
<1>4. QED
  BY <1>2, <1>3, SignOf, OutFields, WordSize DEF Exact

LEMMA ExactSub ==
  ASSUME NEW i \in A!Word, NEW j \in A!Word
  PROVE  Exact(A!SignSub(i, j), A!Signed(i) - A!Signed(j))
<1>1. PICK s \in A!Word : s = A!ToWord(i - j)
  BY SignOf, Wrapped
<1>2. s = IF i - j >= 0 THEN i - j ELSE i - j + A!W
  BY <1>1, SignOf, Wrapped, WordSize
<1>3. A!SignSub(i, j) = IF ~(i >= Mid <=> j >= Mid) /\ ~(s >= Mid <=> i >= Mid) THEN A!Overflow ELSE A!Result(s)
  BY <1>1 DEF A!SignSub, A!SIGNBIT, Mid
<1>4. QED
  BY <1>2, <1>3, SignOf, OutFields, WordSize DEF Exact

LEMMA ImmediateOf ==
  ASSUME NEW w \in A!Word
  PROVE  /\ A!SignExtImm(w) \in A!Word
         /\ A!Signed(A!SignExtImm(w)) = IF (w % A!H) >= (A!H \div 2) THEN (w % A!H) - A!H ELSE (w % A!H)
<1>1. PICK l : l = w % A!H
  OBVIOUS
<1>2. l \in Nat /\ l < A!H
  BY <1>1, SignOf, Divided, WordSize
<1>3. -Mid <= l - A!H /\ l - A!H < 0
  BY <1>2, WordSize
<1>4. CASE l >= (A!H \div 2)
  <2>1. A!SignExtImm(w) = A!ToWord(l - A!H)
    BY <1>1, <1>4 DEF A!SignExtImm
  <2>2. QED
    BY <1>1, <1>2, <1>3, <1>4, <2>1, SignedBack, WordSize
<1>5. CASE ~(l >= (A!H \div 2))
  <2>1. A!SignExtImm(w) = l
    BY <1>1, <1>5 DEF A!SignExtImm
  <2>2. l \in A!Word /\ l < Mid
    BY <1>2, <1>5, WordSize DEF A!Word
  <2>3. A!Signed(l) = l
    BY <1>2, <2>2, WordSize DEF A!Signed, A!SIGNBIT, Mid
  <2>4. QED
    BY <1>1, <1>5, <2>1, <2>2, <2>3
<1>6. QED
  BY <1>4, <1>5

(* The halves of a word. *)
LEMMA HalvesOf ==
  ASSUME NEW w \in A!Word, NEW H \in Nat, H >= 2, A!W = H * H
  PROVE  /\ (w \div H) \in Nat /\ (w % H) \in Nat /\ (w \div H) < H /\ (w % H) < H
         /\ w = (w \div H) * H + (w % H)
<1>1. PICK q : q = w \div H
  OBVIOUS
<1>2. PICK r : r = w % H
  OBVIOUS
<1>3. q \in Int /\ r \in Nat /\ r < H /\ w = q * H + r
  <2>1. w \in Int /\ H \in Nat \ {0}
    BY SignOf
  <2>2. (w \div H) \in Int /\ (w % H) \in Nat /\ (w % H) < H /\ w = (w \div H) * H + (w % H)
    BY <2>1, Divided
  <2>3. QED
    BY <1>1, <1>2, <2>2
<1>4. w \in Nat /\ w < H * H
  BY SignOf
<1>5. q >= 0
  <2>1. q <= -1 => q * H <= (-1) * H
    BY <1>3
  <2>2. q * H \in Int
    BY <1>3
  <2>3. QED
    BY <1>3, <1>4, <2>1, <2>2
<1>6. q < H
  <2>1. H <= q => H * H <= q * H
    BY <1>3
  <2>2. q * H \in Int /\ H * H \in Int
    BY <1>3
  <2>3. QED
    BY <1>3, <1>4, <2>1, <2>2
<1>7. QED
  BY <1>1, <1>2, <1>3, <1>5, <1>6

(* The two words of a product of two numbers below H * H, one of which is  *)
(* below H.                                                                *)
LEMMA SmallUnsigned ==
  ASSUME NEW m1 \in A!Word, NEW m2 \in A!Word, m1 < A!H \/ m2 < A!H
  PROVE  /\ A!UnsMult(m1, m2).hi \in A!Word /\ A!UnsMult(m1, m2).lo \in A!Word
         /\ A!UnsMult(m1, m2).hi * A!W + A!UnsMult(m1, m2).lo = m1 * m2
<1>1. PICK H \in Nat : H = A!H /\ H >= 2 /\ A!W = H * H
  BY WordSize
<1>2. PICK a \in Nat, b \in Nat : a = m1 \div H /\ b = m1 % H /\ a < H /\ b < H /\ m1 = a * H + b
  BY <1>1, HalvesOf
<1>3. PICK c \in Nat, d \in Nat : c = m2 \div H /\ d = m2 % H /\ c < H /\ d < H /\ m2 = c * H + d
  BY <1>1, HalvesOf
<1>4. a = 0 \/ c = 0
  <2>1. m1 \in Nat /\ m2 \in Nat /\ H \in Nat \ {0}
    BY <1>1, SignOf
  <2>2. m1 < H => a = 0
    BY <2>1, <1>2, NoQuotient
  <2>3. m2 < H => c = 0
    BY <2>1, <1>3, NoQuotient
  <2>4. QED
    BY <1>1, <2>2, <2>3
<1>5. a * c = 0
  BY <1>2, <1>3, <1>4
<1>6. PICK e : e = a * d + b * c
  OBVIOUS
<1>7. PICK k \in Nat : k = (H - 1) * (H - 1) /\ k + (H - 1) = H * H - H
  BY <1>1
<1>8. \A i \in Nat, j \in Nat : i < H /\ j < H => i * j \in Nat /\ i * j <= k
  <2> SUFFICES ASSUME NEW i \in Nat, NEW j \in Nat, i < H, j < H
               PROVE  i * j \in Nat /\ i * j <= k
    OBVIOUS
  <2>1. i * j \in Nat /\ i * j <= (H - 1) * j
    BY <1>1
  <2>2. (H - 1) * j <= (H - 1) * (H - 1)
    BY <1>1
  <2>3. (H - 1) * j \in Int
    BY <1>1
  <2>4. QED
    BY <1>7, <2>1, <2>2, <2>3
<1>9. e \in Nat /\ e <= k
  <2>1. a = 0 => a * d = 0
    BY <1>3
  <2>2. c = 0 => b * c = 0
    BY <1>2
  <2>3. a * d \in Nat /\ a * d <= k /\ b * c \in Nat /\ b * c <= k
    BY <1>2, <1>3, <1>8
  <2>4. QED
    BY <1>4, <1>6, <2>1, <2>2, <2>3
<1>10. PICK g \in Nat : g = b * d /\ g <= k
  BY <1>2, <1>3, <1>8
<1>11. k + H <= A!W /\ k + H - 1 <= A!W - H /\ H * H \in Nat
  BY <1>1, <1>7
<1>12. PICK u \in Nat, v \in Nat : u = g \div H /\ v = g % H /\ u < H /\ v < H /\ g = u * H + v
  <2>1. g \in A!Word
    BY <1>1, <1>10, <1>11 DEF A!Word
  <2>2. /\ (g \div H) \in Nat /\ (g % H) \in Nat /\ (g \div H) < H /\ (g % H) < H
        /\ g = (g \div H) * H + (g % H)
    BY <1>1, <2>1, HalvesOf
  <2>3. QED
    BY <2>2
<1>13. (u % H) = u
  BY <1>1, <1>12, NoQuotient
<1>14. A!ToWord(e) = e /\ A!ToWord(u + e) = u + e /\ u + e \in A!Word
  BY <1>1, <1>9, <1>11, <1>12, Wrapped DEF A!Word
<1>15. PICK s \in Nat, t \in Nat : s = (u + e) \div H /\ t = (u + e) % H /\ s < H /\ t < H /\ u + e = s * H + t
  BY <1>1, <1>14, HalvesOf
<1>15a. s < H /\ t < H /\ u + e = s * H + t
  BY <1>15
<1>16. (s % H) = s /\ A!ToWord(s + 0) = s /\ s \in A!Word
  <2>1. s < A!W /\ s + 0 = s /\ s \in A!Word
    <3>1. s < H * H
      BY <1>15a, Squared
    <3>2. QED
      BY <1>1, <3>1 DEF A!Word
  <2>2. (s % H) = s
    <3>1. H \in Nat \ {0}
      BY <1>1
    <3>2. QED
      BY <1>15a, <3>1, NoQuotient
  <2>3. A!ToWord(s) = s
    BY <2>1, Wrapped
  <2>4. QED
    BY <2>1, <2>2, <2>3
<1>17. A!UnsMult(m1, m2) = A!HiLo(s, v + H * t)
  <2>1. A!UnsMult(m1, m2)
          = A!HiLo(A!ToWord((((A!ToWord((((b * d) \div H) % H) + A!ToWord(a * d + b * c))) \div H) % H) + a * c),
                   ((b * d) % H) + H * ((A!ToWord((((b * d) \div H) % H) + A!ToWord(a * d + b * c))) % H))
    BY <1>1, <1>2, <1>3 DEF A!UnsMult
  <2>2. QED
    BY <2>1, <1>5, <1>6, <1>10, <1>12, <1>13, <1>14, <1>15, <1>16
<1>18. v + H * t \in A!Word
  <2>1. v + H * t \in Nat /\ v + H * t < H * H
    BY <1>12, <1>15, TopDigit
  <2>2. QED
    BY <1>1, <1>11, <2>1 DEF A!Word
<1>19. s * A!W + (v + H * t) = m1 * m2
  <2>1. s * (H * H) + (v + H * t) = H * (s * H + t) + v
    BY <1>1, <1>12, <1>15
  <2>2. H * (u + e) + v = (u * H + v) + H * e
    BY <1>1, <1>9, <1>12
  <2>3. m1 * m2 = (a * c) * (H * H) + H * (a * d + b * c) + b * d
    <3>1. m1 = a * H + b /\ m2 = c * H + d
      BY <1>2, <1>3
    <3>2. QED
      BY <3>1, Expanded
  <2>4. (a * c) * (H * H) = 0
    BY <1>5, <1>11
  <2>5. H * e \in Nat
    BY <1>1, <1>9
  <2>6. m1 * m2 = H * e + g
    BY <2>3, <2>4, <2>5, <1>6, <1>10
  <2>7. H * (s * H + t) = H * (u + e)
    BY <1>15
  <2>8. s * A!W + (v + H * t) = g + H * e
    BY <2>1, <2>2, <2>7, <1>1, <1>12
  <2>9. QED
    BY <2>5, <2>6, <2>8, <1>10
<1>20. QED
  BY <1>16, <1>17, <1>18, <1>19, OutFields

LEMMA ProductWords ==
  ASSUME NEW m1 \in A!Word, NEW m2 \in A!Word
  PROVE  \E h, l \in A!Word : A!UnsMult(m1, m2) = A!HiLo(h, l)
<1>1. PICK H \in Nat \ {0} : H = A!H /\ H >= 2 /\ A!W = H * H
  BY WordSize
<1>2. PICK a \in Nat, b \in Nat, c \in Nat, d \in Nat : a = m1 \div H /\ b = m1 % H /\ c = m2 \div H /\ d = m2 % H
  BY <1>1, HalvesOf
<1>3. PICK e \in Nat : e = b * d
  OBVIOUS
<1>4. PICK v \in Nat : v = e % H /\ v < H
  BY Divided
<1>5. PICK u \in Nat : u = (e \div H) % H
  BY Divided
<1>6. PICK f \in A!Word : f = A!ToWord(a * d + b * c)
  BY Wrapped
<1>7. PICK g \in A!Word : g = A!ToWord(u + f)
  BY Wrapped, SignOf
<1>8. PICK t \in Nat : t = g % H /\ t < H
  BY Divided, SignOf
<1>9. PICK s \in Int : s = (g \div H) % H
  BY Divided, SignOf
<1>10. A!UnsMult(m1, m2) = A!HiLo(A!ToWord(s + a * c), v + H * t)
  <2>1. A!UnsMult(m1, m2)
          = A!HiLo(A!ToWord((((A!ToWord((((b * d) \div H) % H) + A!ToWord(a * d + b * c))) \div H) % H) + a * c),
                   ((b * d) % H) + H * ((A!ToWord((((b * d) \div H) % H) + A!ToWord(a * d + b * c))) % H))
    BY <1>1, <1>2 DEF A!UnsMult
  <2>2. QED
    BY <2>1, <1>3, <1>4, <1>5, <1>6, <1>7, <1>8, <1>9
<1>11. v + H * t \in A!Word
  <2>1. v < H /\ t < H
    BY <1>4, <1>8
  <2>2. v + H * t \in Nat /\ v + H * t < H * H
    BY <2>1, TopDigit
  <2>3. QED
    BY <1>1, <2>2 DEF A!Word
<1>12. A!ToWord(s + a * c) \in A!Word
  BY Wrapped
<1>13. QED
  BY <1>10, <1>11, <1>12

(* The absolute value of the number in a word. *)
Abs(w) == IF A!SIGNBIT(w) THEN A!Negated(w) ELSE w

LEMMA AbsOf ==
  ASSUME NEW w \in A!Word
  PROVE  /\ Abs(w) \in A!Word /\ Abs(w) <= Mid
         /\ Abs(w) = IF w >= Mid THEN -A!Signed(w) ELSE A!Signed(w)
         /\ w < A!H => Abs(w) < A!H
<1>1. A!SIGNBIT(w) <=> w >= Mid
  BY SignOf
<1>2. w >= Mid => A!ToWord(-w) = A!W - w
  BY SignOf, Wrapped, WordSize
<1>3. QED
  BY <1>1, <1>2, SignOf, WordSize DEF Abs, A!Negated, A!Word

LEMMA SignedProductIs ==
  ASSUME NEW m1 \in A!Word, NEW m2 \in A!Word, NEW h \in A!Word, NEW l \in A!Word,
         A!UnsMult(Abs(m1), Abs(m2)) = A!HiLo(h, l)
  PROVE  A!SignMult(m1, m2)
           = IF m1 >= Mid <=> m2 >= Mid THEN A!HiLo(h, l)
             ELSE A!HiLo(A!ToWord(A!W - 1 - h + (IF A!W - 1 - l + 1 = A!W THEN 1 ELSE 0)),
                         A!ToWord(A!W - 1 - l + 1))
<1>1. A!SIGNBIT(m1) = A!SIGNBIT(m2) <=> (m1 >= Mid <=> m2 >= Mid)
  BY DEF A!SIGNBIT, Mid
<1>2. A!HiLo(h, l).hi = h /\ A!HiLo(h, l).lo = l
  BY OutFields
<1>3. QED
  BY <1>1, <1>2 DEF A!SignMult, Abs

LEMMA SignedProductWords ==
  ASSUME NEW m1 \in A!Word, NEW m2 \in A!Word
  PROVE  \E h, l \in A!Word : A!SignMult(m1, m2) = A!HiLo(h, l)
<1>1. PICK h \in A!Word, l \in A!Word : A!UnsMult(Abs(m1), Abs(m2)) = A!HiLo(h, l)
  BY AbsOf, ProductWords
<1>2. /\ A!ToWord(A!W - 1 - h + (IF A!W - 1 - l + 1 = A!W THEN 1 ELSE 0)) \in A!Word
      /\ A!ToWord(A!W - 1 - l + 1) \in A!Word
  BY Wrapped, SignOf, WordSize
<1>3. QED
  BY <1>1, <1>2, SignedProductIs

LEMMA SmallSigned ==
  ASSUME NEW m1 \in A!Word, NEW m2 \in A!Word, m1 < A!H \/ m2 < A!H
  PROVE  A!Signed(A!SignMult(m1, m2).hi) * A!W + A!SignMult(m1, m2).lo = A!Signed(m1) * A!Signed(m2)
<1>1. PICK h \in A!Word, l \in A!Word : A!UnsMult(Abs(m1), Abs(m2)) = A!HiLo(h, l)
  BY AbsOf, ProductWords
<1>2. PICK p1 \in Nat, p2 \in Nat : p1 = Abs(m1) /\ p2 = Abs(m2)
  BY AbsOf, SignOf
<1>3. p1 <= Mid /\ p2 <= Mid /\ (p1 < A!H \/ p2 < A!H)
  BY <1>2, AbsOf
<1>4. h * A!W + l = p1 * p2
  <2>1. Abs(m1) \in A!Word /\ Abs(m2) \in A!Word /\ (Abs(m1) < A!H \/ Abs(m2) < A!H)
    BY AbsOf
  <2>2. A!UnsMult(Abs(m1), Abs(m2)).hi * A!W + A!UnsMult(Abs(m1), Abs(m2)).lo = Abs(m1) * Abs(m2)
    BY <2>1, SmallUnsigned
  <2>3. QED
    BY <1>1, <1>2, <2>2, OutFields
<1>5. PICK W \in Nat, M \in Nat : W = A!W /\ M = Mid /\ W = 2 * M /\ M >= 2 /\ A!H <= M
  BY WordSize
<1>6. h \in Nat /\ l \in Nat /\ h < W /\ l < W
  BY <1>5, SignOf
<1>7. h < M
  <2>1. p1 * p2 <= M * M
    BY <1>3, <1>5, TimesBound
  <2>2. M * M < M * W
    BY <1>5
  <2>3. M <= h => M * W <= h * W
    BY <1>5, <1>6
  <2>4. M * M \in Nat /\ M * W \in Nat /\ h * W \in Nat /\ p1 * p2 \in Nat
    BY <1>5, <1>6
  <2>5. QED
    BY <1>4, <1>5, <1>6, <2>1, <2>2, <2>3, <2>4
<1>8. PICK s1 \in Int, s2 \in Int : s1 = A!Signed(m1) /\ s2 = A!Signed(m2)
  BY SignOf
<1>9. p1 = (IF m1 >= Mid THEN -s1 ELSE s1) /\ p2 = (IF m2 >= Mid THEN -s2 ELSE s2)
  BY <1>2, <1>8, AbsOf
<1>10. CASE m1 >= Mid <=> m2 >= Mid
  <2>1. A!SignMult(m1, m2).hi = h /\ A!SignMult(m1, m2).lo = l
    BY <1>1, <1>10, SignedProductIs, OutFields
  <2>2. A!Signed(h) = h
    BY <1>5, <1>7, SignOf
  <2>3. p1 * p2 = s1 * s2
    <3>1. (p1 = -s1 /\ p2 = -s2) \/ (p1 = s1 /\ p2 = s2)
      BY <1>9, <1>10
    <3>2. QED
      BY <3>1
  <2>4. QED
    BY <1>4, <1>8, <2>1, <2>2, <2>3
<1>11. CASE ~(m1 >= Mid <=> m2 >= Mid)
  <2> DEFINE h2 == A!ToWord(W - 1 - h + (IF W - 1 - l + 1 = W THEN 1 ELSE 0))
             l2 == A!ToWord(W - 1 - l + 1)
  <2>1. A!SignMult(m1, m2) = A!HiLo(h2, l2)
    BY <1>1, <1>5, <1>11, SignedProductIs
  <2>2. h2 \in A!Word /\ l2 \in A!Word
    BY <1>5, <1>6, Wrapped
  <2>3. p1 * p2 = -(s1 * s2)
    <3>1. (p1 = -s1 /\ p2 = s2) \/ (p1 = s1 /\ p2 = -s2)
      BY <1>9, <1>11
    <3>2. QED
      BY <3>1
  <2>4. CASE l = 0
    <3>1. W - 1 - l + 1 = W /\ W - 1 - h + (IF W - 1 - l + 1 = W THEN 1 ELSE 0) = W - h
      BY <1>5, <1>6, <2>4
    <3>2. A!ToWord(W) = 0 /\ A!ToWord(W - h) = IF h = 0 THEN 0 ELSE W - h
      BY <1>5, <1>6, Wrapped
    <3>3. l2 = 0 /\ h2 = IF h = 0 THEN 0 ELSE W - h
      BY <3>1, <3>2
    <3>4. A!Signed(h2) = -h
      BY <1>5, <1>6, <1>7, <2>2, <3>3, SignOf
    <3>5. (-h) * W + 0 = -(h * W + l)
      BY <1>5, <1>6, <2>4
    <3>6. QED
      BY <1>4, <1>5, <1>8, <2>1, <2>2, <2>3, <3>3, <3>4, <3>5, OutFields
  <2>5. CASE l > 0
    <3>1. W - 1 - l + 1 = W - l /\ W - 1 - h + (IF W - 1 - l + 1 = W THEN 1 ELSE 0) = W - 1 - h
      BY <1>5, <1>6, <2>5
    <3>2. A!ToWord(W - l) = W - l /\ A!ToWord(W - 1 - h) = W - 1 - h
      BY <1>5, <1>6, <2>5, Wrapped
    <3>3. l2 = W - l /\ h2 = W - 1 - h
      BY <3>1, <3>2
    <3>4. A!Signed(h2) = -1 - h
      BY <1>5, <1>6, <1>7, <2>2, <3>3, SignOf
    <3>5. (-1 - h) * W + (W - l) = -(h * W + l)
      BY <1>5, <1>6
    <3>6. QED
      BY <1>4, <1>5, <1>8, <2>1, <2>2, <2>3, <3>3, <3>4, <3>5, OutFields
  <2>6. QED
    BY <1>6, <2>4, <2>5
<1>12. QED
  BY <1>10, <1>11

(* The quotient is truncated towards zero. *)
LEMMA Truncated ==
  ASSUME NEW n \in Int, NEW d \in Int, d # 0
  PROVE  \E q, r \in Int :
           /\ A!Div(n, d) = A!HiLo(A!ToWord(r), A!ToWord(q))
           /\ n = q * d + r
           /\ IF d < 0 THEN r < -d /\ -r < -d ELSE r < d /\ -r < d
           /\ IF n < 0 THEN r <= 0 /\ n <= q /\ q <= -n ELSE r >= 0 /\ -n <= q /\ q <= n
           /\ (q = n \/ q = -n) /\ n # 0 => d \in {1, -1}
           /\ n >= 0 /\ d > 0 => q >= 0
           /\ n < 0 /\ d > 0 => q <= 0
<1>1. PICK u \in Nat : u = IF n < 0 THEN -n ELSE n
  OBVIOUS
<1>2. PICK v \in Nat \ {0} : v = IF d < 0 THEN -d ELSE d
  OBVIOUS
<1>3. PICK k : k = u \div v
  OBVIOUS
<1>4. PICK e \in Nat : e < v /\ u = k * v + e /\ k \in Int
  <2>1. (u \div v) \in Int /\ (u % v) \in Nat /\ (u % v) < v /\ u = (u \div v) * v + (u % v)
    BY Divided
  <2>2. QED
    BY <1>3, <2>1
<1>5. k \in Nat /\ k <= u /\ (k = u /\ u # 0 => v = 1)
  <2>1. k * v \in Int
    BY <1>4
  <2>2. k >= 0
    <3>1. k <= -1 => k * v <= (-1) * v
      BY <1>4
    <3>2. QED
      BY <1>4, <2>1, <3>1
  <2>3. k <= k * v
    BY <2>2, <1>4
  <2>4. v >= 2 => 2 * k <= k * v
    BY <2>2, <1>4
  <2>5. QED
    BY <1>4, <2>1, <2>2, <2>3, <2>4
<1>6. PICK q \in Int : q = IF (n < 0 /\ d < 0) \/ (n >= 0 /\ d > 0) THEN k ELSE -k
  BY <1>5
<1>7. PICK r \in Int : r = IF n < 0 THEN -e ELSE e
  OBVIOUS
<1>8. k * v \in Nat
  BY <1>5
<1>9. q * d = IF n < 0 THEN -(k * v) ELSE k * v
  <2>1. CASE n < 0 /\ d < 0
    <3>1. q = k /\ d = -v
      BY <1>2, <1>6, <2>1
    <3>2. k * (-v) = -(k * v)
      BY <1>5
    <3>3. QED
      BY <2>1, <3>1, <3>2
  <2>2. CASE n < 0 /\ d > 0
    <3>1. q = -k /\ d = v
      BY <1>2, <1>6, <2>2
    <3>2. (-k) * v = -(k * v)
      BY <1>5
    <3>3. QED
      BY <2>2, <3>1, <3>2
  <2>3. CASE n >= 0 /\ d < 0
    <3>1. q = -k /\ d = -v
      BY <1>2, <1>6, <2>3
    <3>2. (-k) * (-v) = k * v
      BY <1>5
    <3>3. QED
      BY <2>3, <3>1, <3>2
  <2>4. CASE n >= 0 /\ d > 0
    <3>1. q = k /\ d = v
      BY <1>2, <1>6, <2>4
    <3>2. QED
      BY <2>4, <3>1
  <2>5. QED
    BY <2>1, <2>2, <2>3, <2>4
<1>10. n = q * d + r
  BY <1>1, <1>4, <1>7, <1>8, <1>9
<1>11. n - d * q = r
  <2>1. d * q = q * d /\ q * d \in Int
    OBVIOUS
  <2>2. QED
    BY <1>10, <2>1
<1>12. A!Div(n, d) = A!HiLo(A!ToWord(n - d * q), A!ToWord(q))
  <2>1. ((n < 0) = (d < 0)) <=> ((n < 0 /\ d < 0) \/ (n >= 0 /\ d > 0))
    OBVIOUS
  <2>2. A!Div(n, d) = A!HiLo(A!ToWord(n - d * (IF (n < 0) = (d < 0) THEN k ELSE -k)),
                             A!ToWord(IF (n < 0) = (d < 0) THEN k ELSE -k))
    BY <1>1, <1>2, <1>3 DEF A!Div
  <2>3. QED
    BY <1>6, <2>1, <2>2
<1>13. /\ IF d < 0 THEN r < -d /\ -r < -d ELSE r < d /\ -r < d
       /\ IF n < 0 THEN r <= 0 /\ n <= q /\ q <= -n ELSE r >= 0 /\ -n <= q /\ q <= n
       /\ (q = n \/ q = -n) /\ n # 0 => d \in {1, -1}
       /\ n >= 0 /\ d > 0 => q >= 0
       /\ n < 0 /\ d > 0 => q <= 0
  BY <1>1, <1>2, <1>4, <1>5, <1>6, <1>7
<1>14. QED
  BY <1>10, <1>11, <1>12, <1>13

LEMMA SmallerSquare ==
  ASSUME NEW r \in Int, NEW d \in Int, IF d < 0 THEN r < -d /\ -r < -d ELSE r < d /\ -r < d
  PROVE  r * r < d * d
<1>1. PICK u \in Nat, v \in Nat : u = (IF r < 0 THEN -r ELSE r) /\ v = (IF d < 0 THEN -d ELSE d) /\ u < v
  OBVIOUS
<1>2. u * u = r * r /\ v * v = d * d
  <2>1. (u = r \/ u = -r) /\ (v = d \/ v = -d)
    BY <1>1
  <2>2. (-r) * (-r) = r * r /\ (-d) * (-d) = d * d
    OBVIOUS
  <2>3. QED
    BY <2>1, <2>2
<1>3. u * u <= u * v /\ u * v < v * v
  BY <1>1
<1>4. u * u \in Nat /\ u * v \in Nat /\ v * v \in Nat
  OBVIOUS
<1>5. QED
  BY <1>2, <1>3, <1>4

Remains(n, d, q, r) == n = q * d + r /\ r * r < d * d /\ (r # 0 => ((r < 0) = (n < 0)))

LEMMA SignedDivision ==
  ASSUME NEW m1 \in A!Word, NEW m2 \in A!Word, m2 # 0,
         ~(A!Signed(m1) = -Mid /\ A!Signed(m2) = -1)
  PROVE  LET o == A!Div(A!Signed(m1), A!Signed(m2)) IN
         Remains(A!Signed(m1), A!Signed(m2), A!Signed(o.lo), A!Signed(o.hi))
<1>1. PICK n \in Int, d \in Int : /\ n = A!Signed(m1) /\ d = A!Signed(m2)
                                  /\ -Mid <= n /\ n < Mid /\ -Mid <= d /\ d < Mid /\ d # 0
  BY SignOf, WordSize
<1>2. PICK q \in Int, r \in Int :
           /\ A!Div(n, d) = A!HiLo(A!ToWord(r), A!ToWord(q))
           /\ n = q * d + r
           /\ IF d < 0 THEN r < -d /\ -r < -d ELSE r < d /\ -r < d
           /\ IF n < 0 THEN r <= 0 /\ n <= q /\ q <= -n ELSE r >= 0 /\ -n <= q /\ q <= n
           /\ (q = n \/ q = -n) /\ n # 0 => d \in {1, -1}
           /\ n >= 0 /\ d > 0 => q >= 0
           /\ n < 0 /\ d > 0 => q <= 0
  <2>1. d # 0
    BY <1>1
  <2>2. QED
    BY <2>1, Truncated
<1>3. -Mid <= r /\ r < Mid
  BY <1>1, <1>2, WordSize
<1>4. -Mid <= q /\ q < Mid
  <2>1. q <= Mid /\ -Mid <= q
    BY <1>1, <1>2, WordSize
  <2>2. q # Mid
    <3>1. SUFFICES ASSUME q = Mid
                   PROVE  FALSE
      OBVIOUS
    <3>2. n = -Mid /\ n < 0
      BY <1>1, <1>2, <3>1, WordSize
    <3>3. d = 1
      BY <1>1, <1>2, <3>1, <3>2, WordSize
    <3>4. QED
      BY <1>2, <3>1, <3>2, <3>3, WordSize
  <2>3. QED
    BY <2>1, <2>2, WordSize
<1>5. A!Signed(A!ToWord(r)) = r /\ A!Signed(A!ToWord(q)) = q
  BY <1>3, <1>4, SignedBack
<1>6. A!Div(n, d).hi = A!ToWord(r) /\ A!Div(n, d).lo = A!ToWord(q)
  BY <1>2, <1>3, <1>4, SignedBack, OutFields
<1>7. r * r < d * d
  BY <1>2, SmallerSquare
<1>8. r # 0 => ((r < 0) = (n < 0))
  BY <1>2
<1>9. QED
  BY <1>1, <1>2, <1>5, <1>6, <1>7, <1>8 DEF Remains

LEMMA UnsignedDivision ==
  ASSUME NEW m1 \in A!Word, NEW m2 \in A!Word, m2 # 0
  PROVE  LET o == A!Div(m1, m2) IN m1 = o.lo * m2 + o.hi /\ o.hi < m2
<1>1. m1 \in Nat /\ m2 \in Nat \ {0} /\ m1 < A!W /\ m2 < A!W
  BY SignOf
<1>2. PICK q \in Int, r \in Int :
           /\ A!Div(m1, m2) = A!HiLo(A!ToWord(r), A!ToWord(q))
           /\ m1 = q * m2 + r /\ r < m2 /\ r >= 0 /\ q <= m1 /\ q >= 0
  BY <1>1, Truncated
<1>3. A!ToWord(r) = r /\ A!ToWord(q) = q /\ r \in A!Word /\ q \in A!Word
  <2>1. 0 <= r /\ r < A!W /\ 0 <= q /\ q < A!W
    BY <1>1, <1>2, WordSize
  <2>2. A!ToWord(r) = r /\ A!ToWord(q) = q
    BY <2>1, Wrapped
  <2>3. QED
    BY <2>1, <2>2, WordSize DEF A!Word
<1>4. A!Div(m1, m2).hi = r /\ A!Div(m1, m2).lo = q
  BY <1>2, <1>3, OutFields
<1>5. QED
  BY <1>2, <1>4

LEMMA ShiftedDown ==
  ASSUME NEW w \in A!Word, NEW n \in Nat \ {0}
  PROVE  /\ A!ArithmeticShift(w, n) \in A!Word
         /\ A!Signed(A!ArithmeticShift(w, n)) * n <= A!Signed(w)
         /\ A!Signed(w) < A!Signed(A!ArithmeticShift(w, n)) * n + n
         /\ (w \div n) \in A!Word
<1>1. PICK s \in Int : s = A!Signed(w) /\ -Mid <= s /\ s < Mid
  BY SignOf
<1>2. PICK q : q = s \div n
  OBVIOUS
<1>3. PICK r \in Nat : q \in Int /\ r < n /\ s = q * n + r
  BY <1>2, Divided
<1>4. -Mid <= q /\ q < Mid
  <2>1. q * n \in Int
    BY <1>3
  <2>2. q >= 0 => q <= q * n
    BY <1>3
  <2>3. q <= -1 => q * n + n <= q + 1
    <3>1. q <= -1 => (q + 1) * n <= (q + 1) * 1
      BY <1>3
    <3>2. (q + 1) * n = q * n + n
      BY <1>3
    <3>3. QED
      BY <1>3, <2>1, <3>1, <3>2
  <2>4. QED
    BY <1>1, <1>3, <2>1, <2>2, <2>3, WordSize
<1>5. A!ArithmeticShift(w, n) = A!ToWord(q)
  BY <1>1, <1>2 DEF A!ArithmeticShift
<1>6. A!ToWord(q) \in A!Word /\ A!Signed(A!ToWord(q)) = q
  BY <1>3, <1>4, SignedBack
<1>7. q * n <= s /\ s < q * n + n
  <2>1. q * n \in Int
    BY <1>3
  <2>2. QED
    BY <1>3, <2>1
<1>8. (w \div n) \in A!Word
  <2>1. PICK k : k = w \div n
    OBVIOUS
  <2>2. PICK e \in Nat : k \in Int /\ e < n /\ w = k * n + e
    <3>1. w \in Int
      BY SignOf
    <3>2. (w \div n) \in Int /\ (w % n) \in Nat /\ (w % n) < n /\ w = (w \div n) * n + (w % n)
      BY <3>1, Divided
    <3>3. QED
      BY <2>1, <3>2
  <2>3. k * n \in Int /\ (k <= -1 => k * n <= (-1) * n) /\ (k >= 0 => k <= k * n)
    BY <2>2
  <2>4. k >= 0 /\ k <= w
    BY <2>2, <2>3, SignOf
  <2>5. QED
    BY <2>1, <2>2, <2>4, SignOf, WordSize DEF A!Word
<1>9. QED
  BY <1>1, <1>5, <1>6, <1>7, <1>8

Outs == [rd : A!Word, hi : A!Word, lo : A!Word, ov : BOOLEAN]

LEMMA OutTypes ==
  /\ 0 \in A!Word /\ 1 \in A!Word /\ A!Overflow \in Outs
  /\ \A r \in A!Word : A!Result(r) \in Outs
  /\ \A h, l \in A!Word : A!HiLo(h, l) \in Outs
<1>1. 0 \in A!Word /\ 1 \in A!Word
  BY WordSize DEF A!Word
<1>2. QED
  BY <1>1 DEF Outs, A!Overflow, A!Result, A!HiLo

LEMMA SumTypes ==
  ASSUME NEW i \in A!Word, NEW j \in A!Word
  PROVE  A!SignAdd(i, j) \in Outs /\ A!SignSub(i, j) \in Outs
<1>1. A!ToWord(i + j) \in A!Word /\ A!ToWord(i - j) \in A!Word
  BY SignOf, Wrapped
<1>2. QED
  BY <1>1, OutTypes DEF A!SignAdd, A!SignSub

LEMMA QuotientTypes ==
  ASSUME NEW n \in Int, NEW d \in Int, d # 0
  PROVE  A!Div(n, d) \in Outs
<1>1. PICK q \in Int, r \in Int : A!Div(n, d) = A!HiLo(A!ToWord(r), A!ToWord(q))
  BY Truncated
<1>2. QED
  BY <1>1, Wrapped, OutTypes

LEMMA RegOf ==
  ASSUME NEW i, NEW j
  PROVE  /\ A!execRegInstr("add", i, j) = A!SignAdd(i, j)
         /\ A!execRegInstr("addu", i, j) = A!Result(A!ToWord(i + j))
         /\ A!execRegInstr("sub", i, j) = A!SignSub(i, j)
         /\ A!execRegInstr("subu", i, j) = A!Result(A!ToWord(i - j))
         /\ A!execRegInstr("slt", i, j) = A!Result(IF A!Signed(i) < A!Signed(j) THEN 1 ELSE 0)
         /\ A!execRegInstr("sltu", i, j) = A!Result(IF i < j THEN 1 ELSE 0)
         /\ A!execRegInstr("sll", i, j) = A!Result(A!ToWord(i * A!Shift(j)))
         /\ A!execRegInstr("srl", i, j) = A!Result(i \div A!Shift(j))
         /\ A!execRegInstr("sra", i, j) = A!Result(A!ArithmeticShift(i, A!Shift(j)))
         /\ A!execRegInstr("mult", i, j) = A!SignMult(i, j)
         /\ A!execRegInstr("multu", i, j) = A!UnsMult(i, j)
         /\ A!execRegInstr("div", i, j) = IF j = 0 THEN A!DividedByZero ELSE A!Div(A!Signed(i), A!Signed(j))
         /\ A!execRegInstr("divu", i, j) = IF j = 0 THEN A!DividedByZero ELSE A!Div(i, j)
  BY DEF A!execRegInstr

LEMMA RegTypes ==
  ASSUME NEW o \in A!RegOps, NEW i \in A!Word, NEW j \in A!Word
  PROVE  A!execRegInstr(o, i, j) \in Outs
<1>1. i \in Nat /\ j \in Nat /\ A!Signed(i) \in Int /\ A!Signed(j) \in Int /\ (A!Signed(j) = 0 => j = 0)
  BY SignOf, WordSize
<1>2. PICK n \in Nat \ {0} : n = A!Shift(j)
  BY <1>1, ShiftSize
<1>3. /\ A!ToWord(i + j) \in A!Word /\ A!ToWord(i - j) \in A!Word /\ A!ToWord(i * n) \in A!Word
      /\ (i \div n) \in A!Word /\ A!ArithmeticShift(i, n) \in A!Word
  <2>1. i + j \in Int /\ i - j \in Int /\ i * n \in Int
    BY <1>1
  <2>2. A!ToWord(i + j) \in A!Word /\ A!ToWord(i - j) \in A!Word /\ A!ToWord(i * n) \in A!Word
    BY <2>1, Wrapped
  <2>3. (i \div n) \in A!Word /\ A!ArithmeticShift(i, n) \in A!Word
    BY ShiftedDown
  <2>4. QED
    BY <2>2, <2>3
<1>4. A!SignMult(i, j) \in Outs /\ A!UnsMult(i, j) \in Outs
  <2>1. PICK h, l \in A!Word : A!SignMult(i, j) = A!HiLo(h, l)
    BY SignedProductWords
  <2>2. PICK h2, l2 \in A!Word : A!UnsMult(i, j) = A!HiLo(h2, l2)
    BY ProductWords
  <2>3. QED
    BY <2>1, <2>2, OutTypes
<1>5. A!DividedByZero \in Outs
  <2>1. Mid - 1 \in A!Word
    BY WordSize DEF A!Word
  <2>2. QED
    BY <2>1, OutTypes DEF A!DividedByZero, Mid
<1>6. j # 0 => A!Div(A!Signed(i), A!Signed(j)) \in Outs /\ A!Div(i, j) \in Outs
  BY <1>1, QuotientTypes
<1>7. CASE o \in {"add", "addu", "sub", "subu", "slt", "sltu"}
  <2>1. /\ A!SignAdd(i, j) \in Outs /\ A!SignSub(i, j) \in Outs
        /\ A!Result(A!ToWord(i + j)) \in Outs /\ A!Result(A!ToWord(i - j)) \in Outs
    BY <1>3, SumTypes, OutTypes
  <2>2. /\ A!execRegInstr("add", i, j) = A!SignAdd(i, j)
        /\ A!execRegInstr("addu", i, j) = A!Result(A!ToWord(i + j))
        /\ A!execRegInstr("sub", i, j) = A!SignSub(i, j)
        /\ A!execRegInstr("subu", i, j) = A!Result(A!ToWord(i - j))
    BY RegOf
  <2>3. A!execRegInstr("slt", i, j) \in Outs
    <3>1. A!execRegInstr("slt", i, j) = A!Result(1) \/ A!execRegInstr("slt", i, j) = A!Result(0)
      BY RegOf
    <3>2. QED
      BY <3>1, OutTypes
  <2>4. A!execRegInstr("sltu", i, j) \in Outs
    <3>1. A!execRegInstr("sltu", i, j) = A!Result(1) \/ A!execRegInstr("sltu", i, j) = A!Result(0)
      BY RegOf
    <3>2. QED
      BY <3>1, OutTypes
  <2>5. QED
    BY <1>7, <2>1, <2>2, <2>3, <2>4
<1>8. CASE o \in {"sll", "srl", "sra"}
  <2>1. /\ A!Result(A!ToWord(i * n)) \in Outs /\ A!Result(i \div n) \in Outs
        /\ A!Result(A!ArithmeticShift(i, n)) \in Outs
    BY <1>3, OutTypes
  <2>2. /\ A!execRegInstr("sll", i, j) = A!Result(A!ToWord(i * n))
        /\ A!execRegInstr("srl", i, j) = A!Result(i \div n)
        /\ A!execRegInstr("sra", i, j) = A!Result(A!ArithmeticShift(i, n))
    BY <1>2, RegOf
  <2>3. QED
    BY <1>8, <2>1, <2>2
<1>9. CASE o \in {"mult", "multu", "div", "divu"}
  BY <1>4, <1>5, <1>6, <1>9, RegOf
<1>10. QED
  BY <1>7, <1>8, <1>9 DEF A!RegOps

LEMMA ImmTypes ==
  ASSUME NEW o \in A!ImmOps, NEW i \in A!Word, NEW j \in A!Word
  PROVE  /\ A!execImmInstr("addi", i, j) = A!SignAdd(i, A!SignExtImm(j))
         /\ A!execImmInstr(o, i, j) \in Outs
<1>1. A!SignExtImm(j) \in A!Word
  BY ImmediateOf
<1>2. A!ToWord(i + A!SignExtImm(j)) \in A!Word
  BY <1>1, SignOf, Wrapped
<1>3. A!SignAdd(i, A!SignExtImm(j)) \in Outs
  BY <1>1, SumTypes
<1>4. QED
  BY <1>2, <1>3, OutTypes DEF A!ImmOps, A!execImmInstr

(* What a register or immediate instruction leaves. *)
ArithInv ==
  /\ x \in A!Word /\ y \in A!Word
  /\ \/ op = "none" /\ out = A!Result(0)
     \/ op \in A!RegOps /\ A!Defined(op) /\ out = A!execRegInstr(op, x, y)
     \/ op \in A!ImmOps /\ out = A!execImmInstr(op, x, y)

LEMMA InitArith == A!Init => ArithInv
  BY DEF A!Init, ArithInv

LEMMA NextArith == ArithInv /\ [A!Next]_A!vars => ArithInv'
<1> SUFFICES ASSUME ArithInv, [A!Next]_A!vars
             PROVE  ArithInv'
  OBVIOUS
<1>1. CASE UNCHANGED A!vars
  BY <1>1 DEF A!vars, ArithInv, A!Defined
<1>2. CASE \E o \in A!RegOps : A!ExecReg(o)
  BY <1>2 DEF A!ExecReg, ArithInv, A!Defined
<1>3. CASE \E o \in A!ImmOps : A!ExecImm(o)
  BY <1>3 DEF A!ExecImm, ArithInv
<1>4. CASE A!Retire
  BY <1>4 DEF A!Retire, ArithInv
<1>5. QED
  BY <1>1, <1>2, <1>3, <1>4 DEF A!Next

LEMMA ArithTyped == ArithInv => A!TypeOK
<1> SUFFICES ASSUME ArithInv
             PROVE  A!TypeOK
  OBVIOUS
<1>1. out \in Outs
  BY RegTypes, ImmTypes, OutTypes DEF ArithInv
<1>2. QED
  BY <1>1 DEF ArithInv, A!TypeOK, Outs

LEMMA ArithSums == ArithInv => A!ExactSum
<1> SUFFICES ASSUME ArithInv
             PROVE  A!ExactSum
  OBVIOUS
<1>1. x \in A!Word /\ y \in A!Word
  BY DEF ArithInv
<1>2. ASSUME op = "add"
      PROVE  Exact(out, A!Signed(x) + A!Signed(y))
  <2>1. out = A!SignAdd(x, y)
    BY <1>2, RegOf DEF ArithInv, A!ImmOps
  <2>2. QED
    BY <1>1, <2>1, ExactAdd
<1>3. ASSUME op = "sub"
      PROVE  Exact(out, A!Signed(x) - A!Signed(y))
  <2>1. out = A!SignSub(x, y)
    BY <1>3, RegOf DEF ArithInv, A!ImmOps
  <2>2. QED
    BY <1>1, <2>1, ExactSub
<1>4. ASSUME op = "addi"
      PROVE  Exact(out, A!Signed(x) + IF (y % A!H) >= (A!H \div 2) THEN (y % A!H) - A!H ELSE (y % A!H))
  <2>1. out = A!SignAdd(x, A!SignExtImm(y))
    BY <1>1, <1>4 DEF ArithInv, A!RegOps, A!execImmInstr
  <2>2. QED
    BY <1>1, <2>1, ExactAdd, ImmediateOf
<1>5. QED
  BY <1>2, <1>3, <1>4 DEF A!ExactSum, Exact, Mid

LEMMA ArithProducts == ArithInv => A!SmallProduct
<1> SUFFICES ASSUME ArithInv, x < A!H \/ y < A!H
             PROVE  /\ op = "multu" => out.hi * A!W + out.lo = x * y
                    /\ op = "mult" => A!Signed(out.hi) * A!W + out.lo = A!Signed(x) * A!Signed(y)
  BY DEF A!SmallProduct
<1>1. x \in A!Word /\ y \in A!Word
  BY DEF ArithInv
<1>2. op = "multu" => out = A!UnsMult(x, y)
  BY RegOf DEF ArithInv, A!ImmOps
<1>3. op = "mult" => out = A!SignMult(x, y)
  BY RegOf DEF ArithInv, A!ImmOps
<1>4. QED
  BY <1>1, <1>2, <1>3, SmallUnsigned, SmallSigned

LEMMA ArithQuotients == ArithInv => A!Division
<1> SUFFICES ASSUME ArithInv
             PROVE  A!Division
  OBVIOUS
<1>1. x \in A!Word /\ y \in A!Word
  BY DEF ArithInv
<1>2. ASSUME op = "div", y # 0
      PROVE  Remains(A!Signed(x), A!Signed(y), A!Signed(out.lo), A!Signed(out.hi))
  <2>1. out = A!Div(A!Signed(x), A!Signed(y)) /\ A!Defined("div")
    BY <1>2, RegOf DEF ArithInv, A!ImmOps
  <2>2. ~(A!Signed(x) = -Mid /\ A!Signed(y) = -1)
    BY <2>1 DEF A!Defined, Mid
  <2>3. QED
    BY <1>1, <1>2, <2>1, <2>2, SignedDivision
<1>3. ASSUME op = "divu", y # 0
      PROVE  x = out.lo * y + out.hi /\ out.hi < y
  <2>1. out = A!Div(x, y)
    BY <1>3, RegOf DEF ArithInv, A!ImmOps
  <2>2. QED
    BY <1>1, <1>3, <2>1, UnsignedDivision
<1>4. ASSUME op = "sra"
      PROVE  /\ A!Signed(out.rd) * A!Shift(y) <= A!Signed(x)
             /\ A!Signed(x) < A!Signed(out.rd) * A!Shift(y) + A!Shift(y)
  <2>1. PICK n \in Nat \ {0} : n = A!Shift(y)
    BY <1>1, SignOf, ShiftSize
  <2>2. out = A!Result(A!ArithmeticShift(x, n))
    BY <1>4, <2>1, RegOf DEF ArithInv, A!ImmOps
  <2>3. out.rd = A!ArithmeticShift(x, n)
    BY <1>1, <2>2, ShiftedDown, OutFields
  <2>4. QED
    BY <1>1, <2>1, <2>3, ShiftedDown
<1>5. QED
  BY <1>2, <1>3, <1>4 DEF A!Division, Remains

-----------------------------------------------------------------------------
(* Loads and stores of part of a word. *)
(* The address of the byte i of a register that is in memory from a on.    *)
ByteOf(a, i) == a + (IF big THEN 3 - i ELSE i)
SameWord(a, b) == (a \div 4) = (b \div 4)

LEMMA WordOf ==
  \A a \in Nat : /\ (a \div 4) \in Nat /\ (a % 4) \in 0..3
                 /\ a = 4 * (a \div 4) + (a % 4)
  OBVIOUS

LEMMA InWord ==
  \A k \in Nat, q \in 0..3 : ((4 * k + q) \div 4) = k /\ ((4 * k + q) % 4) = q
  OBVIOUS

(* The four bytes from a are in one word or in two. *)
LEMMA Span ==
  ASSUME NEW k \in Nat, NEW q \in 0..3, NEW j \in 0..3
  PROVE  /\ ((4 * k + q + j) \div 4) = IF q + j <= 3 THEN k ELSE k + 1
         /\ ((4 * k + q + j) % 4) = IF q + j <= 3 THEN q + j ELSE q + j - 4
<1>1. CASE q + j <= 3
  BY <1>1, InWord
<1>2. CASE q + j > 3
  <2>1. 4 * k + q + j = 4 * (k + 1) + (q + j - 4) /\ (q + j - 4) \in 0..3
    BY <1>2
  <2>2. QED
    BY <1>2, <2>1, InWord
<1>3. QED
  BY <1>1, <1>2

LEMMA OfMemory ==
  \A a \in B!Address : /\ a \in Nat
                       /\ (a \div 4) \in 0..(MemSize \div 4)-1
  BY BytesAssumption DEF B!Address

LEMMA Places ==
  ASSUME B!TypeOK
  PROVE  /\ \A a \in B!Address : B!Position(a) \in 0..3
         /\ \A a, b \in B!Address : SameWord(a, b) /\ B!Position(a) = B!Position(b) => a = b
<1>1. \A a \in B!Address : (a % 4) \in 0..3 /\ a \in Nat /\ a = 4 * (a \div 4) + (a % 4)
  BY OfMemory, WordOf
<1>2. \A a, b \in B!Address : B!Position(a) = B!Position(b) => (a % 4) = (b % 4)
  BY <1>1 DEF B!TypeOK, B!Position
<1>3. ASSUME NEW a \in B!Address, NEW b \in B!Address, (a \div 4) = (b \div 4), (a % 4) = (b % 4)
      PROVE  a = b
  BY <1>1, <1>3
<1>4. QED
  BY <1>1, <1>2, <1>3 DEF B!TypeOK, B!Position, SameWord

LEMMA UnalignedPlaces ==
  ASSUME B!TypeOK, NEW a \in B!Address, a + 3 \in B!Address
  PROVE  /\ B!Left(a) \in B!Address /\ B!Right(a) \in B!Address
         /\ \A i \in 0..3 : /\ ByteOf(a, i) \in B!Address
                            /\ SameWord(ByteOf(a, i), B!Left(a)) \/ SameWord(ByteOf(a, i), B!Right(a))
  BY OfMemory, BytesAssumption DEF B!TypeOK, B!Left, B!Right, ByteOf, SameWord, B!Address

LEMMA LeftLoaded ==
  ASSUME B!TypeOK, NEW a \in B!Address, a + 3 \in B!Address, NEW i \in 0..3
  PROVE  B!execLoadInstr("lwl", B!Left(a))[i]
           = IF SameWord(ByteOf(a, i), B!Left(a)) THEN B!ByteAt(ByteOf(a, i)) ELSE reg[i]
<1> DEFINE w == mem[B!Left(a) \div 4]
           p == B!Left(a) % 4
<1>1. B!execLoadInstr("lwl", B!Left(a))[i]
        = IF i >= 3 - (IF big THEN 3 - p ELSE p) THEN w[i - (3 - (IF big THEN 3 - p ELSE p))] ELSE reg[i]
  BY DEF B!execLoadInstr, B!merge
<1>2. PICK k \in Nat, q \in 0..3 : a = 4 * k + q
  BY OfMemory, WordOf
<1>3. \A j \in 0..3 : /\ ((a + j) \div 4) = IF q + j <= 3 THEN k ELSE k + 1
                      /\ ((a + j) % 4) = IF q + j <= 3 THEN q + j ELSE q + j - 4
  BY <1>2, Span
<1>4. a + 0 = a
  BY <1>2
<1>5. CASE big
  BY <1>1, <1>2, <1>3, <1>4, <1>5 DEF B!Left, ByteOf, SameWord, B!ByteAt, B!Position
<1>6. CASE ~big
  BY <1>1, <1>2, <1>3, <1>4, <1>6 DEF B!Left, ByteOf, SameWord, B!ByteAt, B!Position
<1>7. QED
  BY <1>5, <1>6

LEMMA RightLoaded ==
  ASSUME B!TypeOK, NEW a \in B!Address, a + 3 \in B!Address, NEW i \in 0..3
  PROVE  B!execLoadInstr("lwr", B!Right(a))[i]
           = IF SameWord(ByteOf(a, i), B!Right(a)) THEN B!ByteAt(ByteOf(a, i)) ELSE reg[i]
<1> DEFINE w == mem[B!Right(a) \div 4]
           p == B!Right(a) % 4
<1>1. B!execLoadInstr("lwr", B!Right(a))[i]
        = IF i <= 3 - (IF big THEN 3 - p ELSE p) THEN w[i + (IF big THEN 3 - p ELSE p)] ELSE reg[i]
  BY DEF B!execLoadInstr, B!merge
<1>2. PICK k \in Nat, q \in 0..3 : a = 4 * k + q
  BY OfMemory, WordOf
<1>3. \A j \in 0..3 : /\ ((a + j) \div 4) = IF q + j <= 3 THEN k ELSE k + 1
                      /\ ((a + j) % 4) = IF q + j <= 3 THEN q + j ELSE q + j - 4
  BY <1>2, Span
<1>4. a + 0 = a
  BY <1>2
<1>5. CASE big
  BY <1>1, <1>2, <1>3, <1>4, <1>5 DEF B!Right, ByteOf, SameWord, B!ByteAt, B!Position
<1>6. CASE ~big
  BY <1>1, <1>2, <1>3, <1>4, <1>6 DEF B!Right, ByteOf, SameWord, B!ByteAt, B!Position
<1>7. QED
  BY <1>5, <1>6

LEMMA LeftStored ==
  ASSUME B!TypeOK, NEW a \in B!Address, a + 3 \in B!Address,
         NEW b \in B!Address, SameWord(b, B!Left(a))
  PROVE  B!execStoreInstr("swl", B!Left(a))[B!Position(b)]
           = IF b \in a..a+3 THEN B!InMemory(reg, 4, b - a) ELSE B!ByteAt(b)
<1> DEFINE w == mem[B!Left(a) \div 4]
           p == B!Left(a) % 4
           n == IF ~big THEN 3 - p ELSE p
<1>1. \A i \in 0..3 : B!execStoreInstr("swl", B!Left(a))[i] = IF i <= 3 - n THEN reg[i + n] ELSE w[i]
  BY DEF B!execStoreInstr, B!merge
<1>2. B!execStoreInstr("swl", B!Left(a))[B!Position(b)]
        = IF B!Position(b) <= 3 - n THEN reg[B!Position(b) + n] ELSE w[B!Position(b)]
  BY <1>1, Places
<1>3. w[B!Position(b)] = B!ByteAt(b)
  BY DEF SameWord, B!ByteAt
<1>4. PICK k \in Nat, q \in 0..3 : a = 4 * k + q
  BY OfMemory, WordOf
<1>5. PICK l \in Nat, r \in 0..3 : b = 4 * l + r
  BY OfMemory, WordOf
<1>6. \A j \in 0..3 : /\ ((a + j) \div 4) = IF q + j <= 3 THEN k ELSE k + 1
                      /\ ((a + j) % 4) = IF q + j <= 3 THEN q + j ELSE q + j - 4
  BY <1>4, Span
<1>7. a + 0 = a /\ (b \div 4) = l /\ (b % 4) = r
  BY <1>4, <1>5, InWord
<1> HIDE DEF w
<1>8. CASE big
  BY <1>2, <1>3, <1>4, <1>5, <1>6, <1>7, <1>8 DEF B!Left, SameWord, B!Position, B!InMemory
<1>9. CASE ~big
  BY <1>2, <1>3, <1>4, <1>5, <1>6, <1>7, <1>9 DEF B!Left, SameWord, B!Position, B!InMemory
<1>10. QED
  BY <1>8, <1>9

LEMMA RightStored ==
  ASSUME B!TypeOK, NEW a \in B!Address, a + 3 \in B!Address,
         NEW b \in B!Address, SameWord(b, B!Right(a))
  PROVE  B!execStoreInstr("swr", B!Right(a))[B!Position(b)]
           = IF b \in a..a+3 THEN B!InMemory(reg, 4, b - a) ELSE B!ByteAt(b)
<1> DEFINE w == mem[B!Right(a) \div 4]
           p == B!Right(a) % 4
           n == IF ~big THEN 3 - p ELSE p
<1>1. \A i \in 0..3 : B!execStoreInstr("swr", B!Right(a))[i] = IF i >= 3 - n THEN reg[i - (3 - n)] ELSE w[i]
  BY DEF B!execStoreInstr, B!merge
<1>2. B!execStoreInstr("swr", B!Right(a))[B!Position(b)]
        = IF B!Position(b) >= 3 - n THEN reg[B!Position(b) - (3 - n)] ELSE w[B!Position(b)]
  BY <1>1, Places
<1>3. w[B!Position(b)] = B!ByteAt(b)
  BY DEF SameWord, B!ByteAt
<1>4. PICK k \in Nat, q \in 0..3 : a = 4 * k + q
  BY OfMemory, WordOf
<1>5. PICK l \in Nat, r \in 0..3 : b = 4 * l + r
  BY OfMemory, WordOf
<1>6. \A j \in 0..3 : /\ ((a + j) \div 4) = IF q + j <= 3 THEN k ELSE k + 1
                      /\ ((a + j) % 4) = IF q + j <= 3 THEN q + j ELSE q + j - 4
  BY <1>4, Span
<1>7. a + 0 = a /\ (b \div 4) = l /\ (b % 4) = r
  BY <1>4, <1>5, InWord
<1> HIDE DEF w
<1>8. CASE big
  <2>1. CASE q = 0
    BY <2>1, <1>2, <1>3, <1>4, <1>5, <1>6, <1>7, <1>8 DEF B!Right, SameWord, B!Position, B!InMemory
  <2>2. CASE q > 0
    BY <2>2, <1>2, <1>3, <1>4, <1>5, <1>6, <1>7, <1>8 DEF B!Right, SameWord, B!Position, B!InMemory
  <2>3. QED
    BY <2>1, <2>2
<1>9. CASE ~big
  <2>1. CASE q = 0
    BY <2>1, <1>2, <1>3, <1>4, <1>5, <1>6, <1>7, <1>9 DEF B!Right, SameWord, B!Position, B!InMemory
  <2>2. CASE q > 0
    BY <2>2, <1>2, <1>3, <1>4, <1>5, <1>6, <1>7, <1>9 DEF B!Right, SameWord, B!Position, B!InMemory
  <2>3. QED
    BY <2>1, <2>2
<1>10. QED
  BY <1>8, <1>9

(* The guest's view of memory agrees with its words. *)
Seen == \A b \in B!Address : B!ByteAt(b) = bytes[b]

LEMMA AlignedLoaded ==
  ASSUME B!TypeOK, Seen, NEW a \in B!Address, NEW o \in B!Aligned \cap B!Loads, (a % B!Width(o)) = 0
  PROVE  B!execLoadInstr(o, a) = B!Expected(a, B!Width(o), o \in {"lb", "lh"})
<1> DEFINE w == mem[a \div 4]
<1>1. PICK k \in Nat, q \in 0..3 : a = 4 * k + q
  BY OfMemory, WordOf
<1>2. (a \div 4) = k /\ (a % 4) = q
  BY <1>1, InWord
<1>3. \A j \in 0..3-q : a + j \in B!Address /\ bytes[a + j] = w[IF big THEN 3 - (q + j) ELSE q + j]
  <2> SUFFICES ASSUME NEW j \in 0..3-q
               PROVE  a + j \in B!Address /\ bytes[a + j] = w[IF big THEN 3 - (q + j) ELSE q + j]
    OBVIOUS
  <2>1. a + j \in B!Address
    BY <1>1, BytesAssumption DEF B!Address
  <2>2. ((a + j) \div 4) = k /\ ((a + j) % 4) = q + j
    BY <1>1, Span
  <2>3. QED
    BY <1>2, <2>1, <2>2 DEF Seen, B!ByteAt, B!Position
<1>4. w \in B!Word
  BY OfMemory DEF B!TypeOK
<1>5. a + 0 = a
  BY <1>1
<1> HIDE DEF w
<1>6. CASE o \in {"lb", "lbu"}
  <2>1. bytes[a] = w[IF big THEN 3 - q ELSE q]
    BY <1>3, <1>5, <1>1
  <2>2. B!execLoadInstr(o, a) = IF o = "lb" THEN B!signExtByte(w, q) ELSE B!zExtByte(w, q)
    BY <1>6, <1>2 DEF B!execLoadInstr, w
  <2>3. B!Width(o) = 1
    BY <1>6 DEF B!Width
  <2>4. \A i \in {0} : a + (IF big THEN 1 - 1 - i ELSE i) = a
    BY <1>1
  <2>5. B!Expected(a, 1, o \in {"lb", "lh"}) = [i \in 0..3 |-> IF i < 1 THEN bytes[a] ELSE IF o = "lb" THEN bytes[a] ELSE 0]
    BY <1>6, <1>1 DEF B!Expected
  <2>6. QED
    BY <1>6, <2>1, <2>2, <2>3, <2>5 DEF B!signExtByte, B!zExtByte
<1>7. CASE o \in {"lh", "lhu"}
  <2>1. B!Width(o) = 2 /\ q \in {0, 2}
    BY <1>7, <1>1 DEF B!Width
  <2>2. /\ bytes[a] = w[IF big THEN 3 - q ELSE q]
        /\ bytes[a + 1] = w[IF big THEN 3 - (q + 1) ELSE q + 1]
    BY <1>3, <1>5, <1>1, <2>1
  <2>3. (q \div 2) = IF q = 0 THEN 0 ELSE 1
    BY <2>1
  <2>4. B!execLoadInstr(o, a) = IF o = "lh" THEN B!signExtHWord(w, q \div 2) ELSE B!zExtHWord(w, q \div 2)
    BY <1>7, <1>2 DEF B!execLoadInstr, w
  <2>5. B!Expected(a, 2, o \in {"lb", "lh"})
          = [i \in 0..3 |-> IF i < 2 THEN bytes[a + (IF big THEN 1 - i ELSE i)]
                            ELSE IF o = "lh" THEN bytes[a + (IF big THEN 0 ELSE 1)] ELSE 0]
    BY <1>7, <1>1 DEF B!Expected
  <2>6. QED
    BY <1>7, <1>5, <2>1, <2>2, <2>3, <2>4, <2>5 DEF B!signExtHWord, B!zExtHWord, B!HalfOf
<1>8. CASE o = "lw"
  <2>1. B!Width(o) = 4 /\ q = 0
    BY <1>8, <1>1, <1>2 DEF B!Width
  <2>2. \A i \in 0..3 : bytes[a + (IF big THEN 3 - i ELSE i)] = w[i]
    BY <1>3, <2>1
  <2>3. B!Expected(a, 4, o \in {"lb", "lh"}) = [i \in 0..3 |-> bytes[a + (IF big THEN 3 - i ELSE i)]]
    BY <1>1 DEF B!Expected
  <2>4. w = [i \in 0..3 |-> w[i]]
    BY <1>4 DEF B!Word
  <2>5. B!execLoadInstr(o, a) = w
    BY <1>8 DEF B!execLoadInstr, w
  <2>6. QED
    BY <2>1, <2>2, <2>3, <2>4, <2>5
<1>9. QED
  BY <1>6, <1>7, <1>8 DEF B!Aligned, B!Loads

LEMMA AlignedStored ==
  ASSUME B!TypeOK, NEW a \in B!Address, NEW o \in B!Aligned \cap B!Stores, (a % B!Width(o)) = 0,
         NEW b \in B!Address
  PROVE  /\ SameWord(b, a) => B!execStoreInstr(o, a)[B!Position(b)]
                                = IF b \in a..a + B!Width(o) - 1 THEN B!InMemory(reg, B!Width(o), b - a)
                                  ELSE B!ByteAt(b)
         /\ b \in a..a + B!Width(o) - 1 => SameWord(b, a)
<1> DEFINE w == mem[a \div 4]
<1>1. PICK k \in Nat, q \in 0..3 : a = 4 * k + q
  BY OfMemory, WordOf
<1>2. PICK l \in Nat, r \in 0..3 : b = 4 * l + r
  BY OfMemory, WordOf
<1>3. /\ (a \div 4) = k /\ (a % 4) = q
      /\ (b \div 4) = l /\ (b % 4) = r
  BY <1>1, <1>2, InWord
<1>4. w \in B!Word
  BY OfMemory DEF B!TypeOK
<1>5. SameWord(b, a) => w[B!Position(b)] = B!ByteAt(b)
  BY DEF SameWord, B!ByteAt
<1>6. B!Position(b) = IF big THEN 3 - r ELSE r
  BY <1>3 DEF B!Position
<1> HIDE DEF w
<1>7. CASE o = "sb"
  <2>1. B!Width(o) = 1 /\ B!execStoreInstr(o, a) = B!mergeByte(w, reg, q)
    BY <1>7, <1>3 DEF B!Width, B!execStoreInstr, w
  <2>2. b \in a..a + 1 - 1 <=> b = a
    BY <1>1, <1>2
  <2>3. CASE b = a
    <3>1. l = k /\ r = q
      BY <2>3, <1>3
    <3>2. SameWord(b, a) /\ B!InMemory(reg, 1, b - a) = reg[0]
      BY <1>1, <2>3 DEF SameWord, B!InMemory
    <3>3. B!mergeByte(w, reg, q)[B!Position(b)] = reg[0]
      BY <3>1, <1>4, <1>6 DEF B!mergeByte, B!Word
    <3>4. QED
      BY <2>1, <2>2, <2>3, <3>2, <3>3
  <2>4. CASE b # a
    <3>1. SameWord(b, a) => l = k /\ r # q
      BY <1>1, <1>2, <1>3, <2>4 DEF SameWord
    <3>2. SameWord(b, a) => B!mergeByte(w, reg, q)[B!Position(b)] = w[B!Position(b)]
      BY <3>1, <1>4, <1>6 DEF B!mergeByte, B!Word
    <3>3. QED
      BY <2>1, <2>2, <2>4, <3>2, <1>5
  <2>5. QED
    BY <2>3, <2>4
<1>8. CASE o = "sh"
  <2>1. B!Width(o) = 2 /\ q \in {0, 2} /\ B!execStoreInstr(o, a) = B!mergeHWord(w, reg, q \div 2)
    BY <1>8, <1>1, <1>3 DEF B!Width, B!execStoreInstr, w
  <2>2. (q \div 2) = IF q = 0 THEN 0 ELSE 1
    BY <2>1
  <2>3. b \in a..a + 2 - 1 <=> l = k /\ r \in {q, q + 1}
    BY <1>1, <1>2, <2>1
  <2>4. SameWord(b, a) <=> l = k
    BY <1>3 DEF SameWord
  <2>5. l = k => b - a = r - q
    BY <1>1, <1>2
  <2>6. l = k => B!mergeHWord(w, reg, q \div 2)[B!Position(b)]
                   = IF r \in {q, q + 1} THEN B!InMemory(reg, 2, r - q) ELSE w[B!Position(b)]
    <3>1. CASE q = 0
      BY <3>1, <2>2, <1>4, <1>6 DEF B!mergeHWord, B!Word, B!InMemory
    <3>2. CASE q = 2
      BY <3>2, <2>2, <1>4, <1>6 DEF B!mergeHWord, B!Word, B!InMemory
    <3>3. QED
      BY <3>1, <3>2, <2>1
  <2>7. QED
    BY <2>1, <2>3, <2>4, <2>5, <2>6, <1>5
<1>9. CASE o = "sw"
  <2>1. B!Width(o) = 4 /\ q = 0 /\ B!execStoreInstr(o, a) = reg
    BY <1>9, <1>1, <1>3 DEF B!Width, B!execStoreInstr
  <2>2. b \in a..a + 4 - 1 <=> l = k
    BY <1>1, <1>2, <2>1
  <2>3. l = k => b - a = r
    BY <1>1, <1>2, <2>1
  <2>4. SameWord(b, a) <=> l = k
    BY <1>3 DEF SameWord
  <2>5. reg[B!Position(b)] = B!InMemory(reg, 4, r)
    BY <1>6 DEF B!InMemory
  <2>6. QED
    BY <2>1, <2>2, <2>3, <2>4, <2>5
<1>10. QED
  BY <1>7, <1>8, <1>9 DEF B!Aligned, B!Stores

LEMMA WordsMade ==
  ASSUME B!TypeOK, NEW a \in B!Address
  PROVE  /\ \A o \in B!Loads : B!execLoadInstr(o, a) \in B!Word
         /\ \A o \in B!Stores : B!execStoreInstr(o, a) \in B!Word
<1> DEFINE w == mem[a \div 4]
           p == a % 4
<1>1. w \in B!Word /\ p \in 0..3 /\ (p \div 2) \in {0, 1} /\ reg \in B!Word /\ big \in BOOLEAN
  <2>1. p \in 0..3
    BY OfMemory, WordOf
  <2>2. (p \div 2) \in {0, 1}
    BY <2>1
  <2>3. QED
    BY <2>1, <2>2, OfMemory DEF B!TypeOK
<1> HIDE DEF w, p
<1>2. /\ B!signExtByte(w, p) \in B!Word /\ B!zExtByte(w, p) \in B!Word
      /\ B!signExtHWord(w, p \div 2) \in B!Word /\ B!zExtHWord(w, p \div 2) \in B!Word
      /\ B!mergeByte(w, reg, p) \in B!Word /\ B!mergeHWord(w, reg, p \div 2) \in B!Word
  BY <1>1 DEF B!Word, B!Byte, B!signExtByte, B!zExtByte, B!signExtHWord, B!zExtHWord, B!HalfOf, B!mergeByte, B!mergeHWord
<1>3. ASSUME NEW d \in B!Word, NEW s \in B!Word, NEW lb \in BOOLEAN, NEW left \in BOOLEAN
      PROVE  B!merge(d, s, p, lb, left) \in B!Word
  BY <1>1, <1>3 DEF B!Word, B!Byte, B!merge
<1>4. ASSUME NEW o \in B!Loads
      PROVE  B!execLoadInstr(o, a) \in B!Word
  BY <1>1, <1>2, <1>3 DEF B!Loads, B!execLoadInstr, w, p
<1>5. ASSUME NEW o \in B!Stores
      PROVE  B!execStoreInstr(o, a) \in B!Word
  BY <1>1, <1>2, <1>3 DEF B!Stores, B!execStoreInstr, w, p
<1>6. QED
  BY <1>4, <1>5

LEMMA Written ==
  ASSUME B!TypeOK, big' = big, NEW c \in B!Address, NEW v \in B!Word,
         mem' = [mem EXCEPT ![c \div 4] = v]
  PROVE  /\ mem' \in [0..(MemSize \div 4)-1 -> B!Word]
         /\ \A b \in B!Address : B!ByteAt(b)' = IF SameWord(b, c) THEN v[B!Position(b)] ELSE B!ByteAt(b)
  BY OfMemory DEF B!TypeOK, B!ByteAt, B!Position, SameWord

(* Between the two halves of an unaligned access, the bytes on the side    *)
(* where it began are moved.                                               *)
HalfLoaded(a) ==
  /\ Seen
  /\ \A i \in 0..3 : /\ want[i] = bytes[ByteOf(a, i)]
                     /\ SameWord(ByteOf(a, i), B!Left(a)) => reg[i] = want[i]
HalfStored(a) ==
  /\ reg = want
  /\ \A b \in B!Address :
       /\ b \in a..a+3 => bytes[b] = B!InMemory(reg, 4, b - a)
       /\ SameWord(b, B!Left(a)) \/ b \notin a..a+3 => B!ByteAt(b) = bytes[b]

BytesInv ==
  /\ B!TypeOK
  /\ \/ pair = B!NoPair /\ Seen /\ reg = want
     \/ \E a \in B!Address : /\ a + 3 \in B!Address
                             /\ \/ pair = [op |-> "lwr", a |-> a] /\ HalfLoaded(a)
                                \/ pair = [op |-> "swr", a |-> a] /\ HalfStored(a)

LEMMA BytesDistinct == /\ \A a \in B!Address : /\ [op |-> "lwr", a |-> a] # B!NoPair
                                               /\ [op |-> "swr", a |-> a] # B!NoPair
                       /\ \A a \in B!Address : [op |-> "lwr", a |-> a].op = "lwr" /\ [op |-> "lwr", a |-> a].a = a
                       /\ \A a \in B!Address : [op |-> "swr", a |-> a].op = "swr" /\ [op |-> "swr", a |-> a].a = a
<1>1. \A a \in B!Address : [op |-> "lwr", a |-> a].op # B!NoPair.op /\ [op |-> "swr", a |-> a].op # B!NoPair.op
  BY DEF B!NoPair
<1>2. QED
  BY <1>1

LEMMA ExpectedWord ==
  ASSUME B!TypeOK, NEW a \in B!Address, NEW n \in {1, 2, 4}, a + n - 1 \in B!Address, NEW s \in BOOLEAN
  PROVE  B!Expected(a, n, s) \in B!Word
<1>1. \A i \in 0..3 : i < n => a + (IF big THEN n - 1 - i ELSE i) \in B!Address
  BY BytesAssumption DEF B!Address
<1>2. \A b \in B!Address : bytes[b] \in B!Byte
  BY DEF B!TypeOK
<1>3. \A i \in 0..3 : i < n => bytes[a + (IF big THEN n - 1 - i ELSE i)] \in B!Byte
  BY <1>1, <1>2
<1>4. n - 1 \in 0..3 /\ n - 1 < n
  OBVIOUS
<1>5. QED
  BY <1>3, <1>4 DEF B!Expected, B!Word, B!Byte

LEMMA StoredBytes ==
  ASSUME B!TypeOK, NEW a \in B!Address, NEW n \in {1, 2, 4}
  PROVE  /\ B!Stored(a, n) \in [B!Address -> B!Byte]
         /\ \A b \in B!Address : B!Stored(a, n)[b] = IF b \in a..a + n - 1 THEN B!InMemory(reg, n, b - a) ELSE bytes[b]
<1>1. \A b \in B!Address : b \in a..a + n - 1 => b - a \in 0..3 /\ n - 1 - (b - a) \in 0..3
  BY OfMemory
<1>2. \A b \in B!Address : b \in a..a + n - 1 => B!InMemory(reg, n, b - a) \in B!Byte
  BY <1>1 DEF B!TypeOK, B!Word, B!InMemory
<1>3. QED
  BY <1>2 DEF B!Stored, B!TypeOK

LEMMA Widths ==
  \A o \in B!Aligned : B!Width(o) \in {1, 2, 4}
  BY DEF B!Aligned, B!Width

LEMMA WithinMemory ==
  ASSUME NEW a \in B!Address, NEW n \in {1, 2, 4}, (a % n) = 0
  PROVE  a + n - 1 \in B!Address
<1>1. PICK m \in Nat : MemSize = 4 * m
  BY BytesAssumption, WordOf
<1>2. PICK k \in Nat, q \in 0..3 : a = 4 * k + q
  BY OfMemory, WordOf
<1>3. CASE n = 1
  BY <1>3, OfMemory
<1>4. CASE n = 2
  BY <1>1, <1>2, <1>4 DEF B!Address
<1>5. CASE n = 4
  BY <1>1, <1>2, <1>5 DEF B!Address
<1>6. QED
  BY <1>3, <1>4, <1>5

LEMMA LoadStep ==
  ASSUME BytesInv, NEW a \in B!Address, NEW o \in B!Loads, B!Load(o, a)
  PROVE  BytesInv'
<1>1. B!TypeOK /\ pair = B!NoPair /\ Seen /\ reg = want
  BY BytesDistinct DEF BytesInv, B!Load
<1>2. B!Width(o) \in {1, 2, 4} /\ a + B!Width(o) - 1 \in B!Address
  BY Widths, WithinMemory DEF B!Load
<1>3. reg' = want' /\ reg' \in B!Word
  BY <1>1, AlignedLoaded, WordsMade DEF B!Load
<1>4. B!TypeOK'
  BY <1>1, <1>3 DEF B!Load, B!TypeOK
<1>5. Seen'
  BY <1>1 DEF B!Load, Seen, B!ByteAt, B!Position
<1>6. QED
  BY <1>1, <1>3, <1>4, <1>5 DEF B!Load, BytesInv

LEMMA StoreStep ==
  ASSUME BytesInv, NEW a \in B!Address, NEW o \in B!Stores, B!Store(o, a)
  PROVE  BytesInv'
<1>1. B!TypeOK /\ pair = B!NoPair /\ Seen /\ reg = want
  BY BytesDistinct DEF BytesInv, B!Store
<1>2. B!Width(o) \in {1, 2, 4}
  BY Widths DEF B!Store
<1> DEFINE v == B!execStoreInstr(o, a)
<1>3. /\ mem' \in [0..(MemSize \div 4)-1 -> B!Word]
      /\ \A b \in B!Address : B!ByteAt(b)' = IF SameWord(b, a) THEN v[B!Position(b)] ELSE B!ByteAt(b)
  BY <1>1, WordsMade, Written DEF B!Store
<1>4. /\ bytes' \in [B!Address -> B!Byte]
      /\ \A b \in B!Address :
           bytes'[b] = IF b \in a..a + B!Width(o) - 1 THEN B!InMemory(reg, B!Width(o), b - a) ELSE bytes[b]
  <2>1. PICK n \in {1, 2, 4} : n = B!Width(o)
    BY <1>2
  <2>2. bytes' = B!Stored(a, n)
    BY <2>1 DEF B!Store
  <2>3. /\ B!Stored(a, n) \in [B!Address -> B!Byte]
        /\ \A b \in B!Address : B!Stored(a, n)[b] = IF b \in a..a + n - 1 THEN B!InMemory(reg, n, b - a) ELSE bytes[b]
    BY <1>1, StoredBytes
  <2> HIDE DEF v
  <2>4. QED
    BY <2>1, <2>2, <2>3
<1>5. B!TypeOK'
  BY <1>1, <1>3, <1>4 DEF B!Store, B!TypeOK
<1>6. Seen'
  <2>1. \A b \in B!Address : B!ByteAt(b) = bytes[b]
    BY <1>1 DEF Seen
  <2>2. \A b \in B!Address :
          /\ SameWord(b, a) => v[B!Position(b)] = IF b \in a..a + B!Width(o) - 1 THEN B!InMemory(reg, B!Width(o), b - a)
                                                  ELSE B!ByteAt(b)
          /\ b \in a..a + B!Width(o) - 1 => SameWord(b, a)
    BY <1>1, AlignedStored DEF B!Store
  <2>3. \A b \in B!Address : B!ByteAt(b)' = bytes'[b]
    BY <2>1, <2>2, <1>3, <1>4
  <2>4. QED
    BY <2>3 DEF Seen
<1>7. QED
  BY <1>1, <1>5, <1>6 DEF B!Store, BytesInv

LEMMA BeginLoadStep ==
  ASSUME BytesInv, NEW a \in B!Address, B!BeginUnaligned(a), pair' = [op |-> "lwr", a |-> a]
  PROVE  BytesInv'
<1>1. B!TypeOK /\ pair = B!NoPair /\ Seen /\ reg = want /\ a + 3 \in B!Address
  BY BytesDistinct DEF BytesInv, B!BeginUnaligned
<1>2. /\ reg' = B!execLoadInstr("lwl", B!Left(a)) /\ want' = B!Expected(a, 4, FALSE)
      /\ UNCHANGED <<big, mem, bytes>>
  <2>1. [op |-> "lwr", a |-> a].op # [op |-> "swr", a |-> a].op
    OBVIOUS
  <2>2. QED
    BY <2>1 DEF B!BeginUnaligned
<1>3. B!Left(a) \in B!Address /\ \A i \in 0..3 : ByteOf(a, i) \in B!Address
  BY <1>1, UnalignedPlaces
<1>4. reg' \in B!Word
  BY <1>1, <1>2, <1>3, WordsMade DEF B!Loads
<1>5. want' \in B!Word
  <2>1. a + 4 - 1 = a + 3
    BY OfMemory
  <2>2. QED
    BY <1>1, <1>2, <2>1, ExpectedWord
<1>6. B!TypeOK'
  BY <1>1, <1>2, <1>4, <1>5 DEF B!TypeOK
<1>7. Seen'
  BY <1>1, <1>2 DEF Seen, B!ByteAt, B!Position
<1>8. \A i \in 0..3 : want'[i] = bytes[ByteOf(a, i)]
  BY <1>2 DEF B!Expected, ByteOf
<1>9. \A i \in 0..3 : SameWord(ByteOf(a, i), B!Left(a)) => reg'[i] = B!ByteAt(ByteOf(a, i))
  BY <1>1, <1>2, LeftLoaded
<1>10. \A i \in 0..3 : B!ByteAt(ByteOf(a, i)) = bytes[ByteOf(a, i)]
  BY <1>1, <1>3 DEF Seen
<1>11. HalfLoaded(a)'
  BY <1>2, <1>7, <1>8, <1>9, <1>10 DEF HalfLoaded, ByteOf, SameWord, B!Left
<1>12. QED
  BY <1>1, <1>6, <1>11 DEF BytesInv

LEMMA BeginStoreStep ==
  ASSUME BytesInv, NEW a \in B!Address, B!BeginUnaligned(a), pair' = [op |-> "swr", a |-> a]
  PROVE  BytesInv'
<1>1. B!TypeOK /\ pair = B!NoPair /\ Seen /\ reg = want /\ a + 3 \in B!Address
  BY BytesDistinct DEF BytesInv, B!BeginUnaligned
<1>2. /\ mem' = [mem EXCEPT ![B!Left(a) \div 4] = B!execStoreInstr("swl", B!Left(a))]
      /\ bytes' = B!Stored(a, 4)
      /\ UNCHANGED <<big, reg, want>>
  <2>1. [op |-> "lwr", a |-> a].op # [op |-> "swr", a |-> a].op
    OBVIOUS
  <2>2. QED
    BY <2>1 DEF B!BeginUnaligned
<1>3. B!Left(a) \in B!Address
  BY <1>1, UnalignedPlaces
<1> DEFINE v == B!execStoreInstr("swl", B!Left(a))
<1>4. v \in B!Word
  BY <1>1, <1>3, WordsMade DEF B!Stores
<1>5. /\ mem' \in [0..(MemSize \div 4)-1 -> B!Word]
      /\ \A b \in B!Address : B!ByteAt(b)' = IF SameWord(b, B!Left(a)) THEN v[B!Position(b)] ELSE B!ByteAt(b)
  BY <1>1, <1>2, <1>3, <1>4, Written
<1>6. /\ bytes' \in [B!Address -> B!Byte]
      /\ \A b \in B!Address : bytes'[b] = IF b \in a..a + 3 THEN B!InMemory(reg, 4, b - a) ELSE bytes[b]
  BY <1>1, <1>2, StoredBytes
<1>7. B!TypeOK'
  BY <1>1, <1>2, <1>5, <1>6 DEF B!TypeOK
<1>8. \A b \in B!Address : SameWord(b, B!Left(a)) => v[B!Position(b)] = IF b \in a..a+3 THEN B!InMemory(reg, 4, b - a) ELSE B!ByteAt(b)
  BY <1>1, LeftStored
<1>9. \A b \in B!Address : B!ByteAt(b) = bytes[b]
  BY <1>1 DEF Seen
<1>10. \A b \in B!Address : SameWord(b, B!Left(a)) \/ b \notin a..a+3 => B!ByteAt(b)' = bytes'[b]
  BY <1>5, <1>6, <1>8, <1>9
<1>11. \A b \in B!Address : SameWord(b, B!Left(a))' <=> SameWord(b, B!Left(a))
  BY <1>2 DEF SameWord, B!Left
<1>12. \A b \in B!Address : b \in a..a+3 => bytes'[b] = B!InMemory(reg, 4, b - a)'
  BY <1>2, <1>6 DEF B!InMemory
<1>13. HalfStored(a)'
  BY <1>1, <1>2, <1>10, <1>11, <1>12 DEF HalfStored
<1>14. QED
  BY <1>1, <1>7, <1>13 DEF BytesInv

LEMMA EndLoadStep ==
  ASSUME BytesInv, B!EndUnaligned, NEW a \in B!Address, a + 3 \in B!Address,
         pair = [op |-> "lwr", a |-> a], HalfLoaded(a)
  PROVE  BytesInv'
<1>1. /\ reg' = B!execLoadInstr("lwr", B!Right(a))
      /\ pair' = B!NoPair /\ UNCHANGED <<big, mem, bytes, want>>
  BY DEF B!EndUnaligned
<1>2. B!TypeOK
  BY DEF BytesInv
<1>3. /\ B!Right(a) \in B!Address
      /\ \A i \in 0..3 : /\ ByteOf(a, i) \in B!Address
                         /\ SameWord(ByteOf(a, i), B!Left(a)) \/ SameWord(ByteOf(a, i), B!Right(a))
  BY <1>2, UnalignedPlaces
<1>4. reg' \in B!Word
  BY <1>1, <1>2, <1>3, WordsMade DEF B!Loads
<1>5. \A i \in 0..3 : reg'[i] = IF SameWord(ByteOf(a, i), B!Right(a)) THEN B!ByteAt(ByteOf(a, i)) ELSE reg[i]
  BY <1>1, <1>2, RightLoaded
<1>6. \A i \in 0..3 : reg'[i] = want[i]
  BY <1>3, <1>5 DEF HalfLoaded, Seen
<1>7. reg' = want
  BY <1>2, <1>4, <1>6 DEF B!TypeOK, B!Word
<1>8. B!TypeOK' /\ Seen'
  BY <1>1, <1>2, <1>4 DEF B!TypeOK, HalfLoaded, Seen, B!ByteAt, B!Position
<1>9. QED
  BY <1>1, <1>7, <1>8 DEF BytesInv

LEMMA EndStoreStep ==
  ASSUME BytesInv, B!EndUnaligned, NEW a \in B!Address, a + 3 \in B!Address,
         pair = [op |-> "swr", a |-> a], HalfStored(a)
  PROVE  BytesInv'
<1> DEFINE v == B!execStoreInstr("swr", B!Right(a))
<1>1. /\ mem' = [mem EXCEPT ![B!Right(a) \div 4] = v]
      /\ pair' = B!NoPair /\ UNCHANGED <<big, reg, bytes, want>>
  BY DEF B!EndUnaligned
<1>2. B!TypeOK
  BY DEF BytesInv
<1>3. /\ B!Right(a) \in B!Address
      /\ \A b \in B!Address : b \in a..a+3 => SameWord(b, B!Left(a)) \/ SameWord(b, B!Right(a))
  <2>1. ASSUME NEW b \in B!Address, b \in a..a+3
        PROVE  SameWord(b, B!Left(a)) \/ SameWord(b, B!Right(a))
    <3>1. PICK i \in 0..3 : b = ByteOf(a, i)
      <4>1. b - a \in 0..3 /\ 3 - (b - a) \in 0..3
        BY <2>1, OfMemory
      <4>2. b = a + (b - a) /\ b = a + (3 - (3 - (b - a)))
        BY <2>1, OfMemory
      <4>3. CASE big
        <5>1. b = ByteOf(a, 3 - (b - a))
          BY <4>2, <4>3 DEF ByteOf
        <5>2. QED
          BY <4>1, <5>1
      <4>4. CASE ~big
        <5>1. b = ByteOf(a, b - a)
          BY <4>2, <4>4 DEF ByteOf
        <5>2. QED
          BY <4>1, <5>1
      <4>5. QED
        BY <4>3, <4>4
    <3>2. QED
      BY <1>2, <3>1, UnalignedPlaces
  <2>2. QED
    BY <1>2, <2>1, UnalignedPlaces
<1>4. v \in B!Word
  BY <1>2, <1>3, WordsMade DEF B!Stores
<1>5. /\ mem' \in [0..(MemSize \div 4)-1 -> B!Word]
      /\ \A b \in B!Address : B!ByteAt(b)' = IF SameWord(b, B!Right(a)) THEN v[B!Position(b)] ELSE B!ByteAt(b)
  BY <1>1, <1>2, <1>3, <1>4, Written
<1>6. \A b \in B!Address : SameWord(b, B!Right(a)) => v[B!Position(b)] = IF b \in a..a+3 THEN B!InMemory(reg, 4, b - a) ELSE B!ByteAt(b)
  BY <1>2, RightStored
<1>7. \A b \in B!Address : B!ByteAt(b)' = bytes[b]
  BY <1>3, <1>5, <1>6 DEF HalfStored
<1>8. B!TypeOK' /\ Seen'
  BY <1>1, <1>2, <1>5, <1>7 DEF B!TypeOK, Seen
<1>9. reg' = want'
  BY <1>1 DEF HalfStored
<1>10. QED
  BY <1>1, <1>8, <1>9 DEF BytesInv

LEMMA InitBytes == B!Init => BytesInv
<1> SUFFICES ASSUME B!Init
             PROVE  BytesInv
  OBVIOUS
<1>1. reg \in B!Word /\ want = reg
  BY DEF B!Init, B!Word, B!Byte
<1>2. big \in BOOLEAN /\ mem \in [0..(MemSize \div 4)-1 -> B!Word]
  BY DEF B!Init
<1>3. \A a \in B!Address : B!ByteAt(a) \in B!Byte
  <2> SUFFICES ASSUME NEW a \in B!Address
               PROVE  B!ByteAt(a) \in B!Byte
    OBVIOUS
  <2>1. B!Position(a) \in 0..3
    BY <1>2, OfMemory, WordOf DEF B!Position
  <2>2. QED
    BY <1>2, <2>1, OfMemory DEF B!ByteAt, B!Word
<1>4. bytes \in [B!Address -> B!Byte] /\ Seen
  BY <1>3 DEF B!Init, Seen
<1>5. QED
  BY <1>1, <1>2, <1>4 DEF B!Init, BytesInv, B!TypeOK

LEMMA NextBytes == BytesInv /\ [B!Next]_B!vars => BytesInv'
<1> SUFFICES ASSUME BytesInv, [B!Next]_B!vars
             PROVE  BytesInv'
  OBVIOUS
<1>1. CASE UNCHANGED B!vars
  BY <1>1 DEF B!vars, BytesInv, B!TypeOK, Seen, B!ByteAt, B!Position, HalfLoaded, HalfStored,
              ByteOf, SameWord, B!Left, B!InMemory
<1>2. CASE \E a \in B!Address : \E o \in B!Loads : B!Load(o, a)
  BY <1>2, LoadStep
<1>3. CASE \E a \in B!Address : \E o \in B!Stores : B!Store(o, a)
  BY <1>3, StoreStep
<1>4. CASE \E a \in B!Address : B!BeginUnaligned(a)
  <2>1. PICK a \in B!Address : B!BeginUnaligned(a)
    BY <1>4
  <2>2. pair' = [op |-> "lwr", a |-> a] \/ pair' = [op |-> "swr", a |-> a]
    BY <2>1 DEF B!BeginUnaligned
  <2>3. QED
    BY <2>1, <2>2, BeginLoadStep, BeginStoreStep
<1>5. CASE B!EndUnaligned
  <2>1. pair # B!NoPair
    BY <1>5 DEF B!EndUnaligned
  <2>2. PICK a \in B!Address : /\ a + 3 \in B!Address
                               /\ \/ pair = [op |-> "lwr", a |-> a] /\ HalfLoaded(a)
                                  \/ pair = [op |-> "swr", a |-> a] /\ HalfStored(a)
    BY <2>1 DEF BytesInv
  <2>3. QED
    BY <1>5, <2>2, EndLoadStep, EndStoreStep
<1>6. QED
  BY <1>1, <1>2, <1>3, <1>4, <1>5 DEF B!Next

LEMMA BytesMean == BytesInv => B!TypeOK /\ B!BytesMoved
  BY BytesDistinct DEF BytesInv, B!BytesMoved, Seen

LEMMA InitResults == MCInit => (active = "arithmetic" => ArithInv) /\ (active = "bytes" => BytesInv)
  BY InitArith, InitBytes DEF MCInit

LEMMA NextResults ==
  ((active = "arithmetic" => ArithInv) /\ (active = "bytes" => BytesInv)) /\ [MCNext]_allVars
    => ((active = "arithmetic" => ArithInv) /\ (active = "bytes" => BytesInv))'
<1> SUFFICES ASSUME active = "arithmetic" => ArithInv, active = "bytes" => BytesInv, [MCNext]_allVars
             PROVE  (active' = "arithmetic" => ArithInv') /\ (active' = "bytes" => BytesInv')
  OBVIOUS
<1>1. active' = active
  BY OneRuns
<1>2. ASSUME active = "arithmetic"
      PROVE  ArithInv'
  <2>1. A!Next \/ UNCHANGED aVars
    BY <1>2 DEF MCNext, allVars
  <2>2. [A!Next]_A!vars
    BY <2>1 DEF aVars, A!vars
  <2>3. QED
    BY <1>2, <2>2, NextArith
<1>3. ASSUME active = "bytes"
      PROVE  BytesInv'
  <2>1. B!Next \/ UNCHANGED bVars
    BY <1>3 DEF MCNext, allVars
  <2>2. [B!Next]_B!vars
    BY <2>1 DEF bVars, B!vars
  <2>3. QED
    BY <1>3, <2>2, NextBytes
<1>4. QED
  BY <1>1, <1>2, <1>3

(* For words of any even size, SignAdd and SignSub raise an overflow       *)
(* exactly when they must, the product of UnsMult and SignMult is exact if *)
(* a factor fits in a half word, and quotients, remainders and arithmetic  *)
(* shifts are what they should be; in a memory of any size, of either      *)
(* endianness, execLoadInstr and execStoreInstr move the bytes the guest   *)
(* named and no other, LWL, LWR, SWL and SWR in pairs.                     *)
THEOREM ResultsAreExact == MCSpec => []ResultsExact
<1>1. (active = "arithmetic" => ArithInv) /\ (active = "bytes" => BytesInv) => ResultsExact
  BY ArithTyped, ArithSums, ArithProducts, ArithQuotients, BytesMean DEF ResultsExact
<1>2. QED
  BY <1>1, InitResults, NextResults, PTL DEF MCSpec, allVars

-----------------------------------------------------------------------------
(* The decoder and the disassembler, for the instructions of any fields. *)
(* The tables of names of the disassembler, at each code. *)
RegName(f) ==
  CASE f \in 0..7   -> <<"sll", "", "srl", "sra", "sllv", "", "srlv", "srav">>[f + 1]
    [] f \in 8..15  -> <<"jr", "jalr", "", "cas", "syscall", "break", "", "">>[f - 7]
    [] f \in 16..19 -> <<"mfhi", "mthi", "mflo", "mtlo">>[f - 15]
    [] f \in 24..27 -> <<"mult", "multu", "div", "divu">>[f - 23]
    [] f \in 32..43 -> <<"add", "addu", "sub", "subu", "and", "or", "xor", "nor", "", "", "slt", "sltu">>[f - 31]
    [] OTHER        -> ""

OpName(o) ==
  CASE o \in 0..7   -> <<"bltz", "bgez", "j", "jal", "beq", "bne", "blez", "bgtz">>[o + 1]
    [] o \in 8..17  -> <<"addi", "addiu", "slti", "sltiu", "andi", "ori", "xori", "lui", "bltzal", "bgezal">>[o - 7]
    [] o \in 32..38 -> <<"lb", "lh", "lwl", "lw", "lbu", "lhu", "lwr">>[o - 31]
    [] o \in 40..46 -> <<"sb", "sh", "swl", "sw", "", "", "swr">>[o - 39]
    [] OTHER        -> ""

(* The disassembler names a code as the processor does. *)
LEMMA RegisterNames == \A n \in DOMAIN D!SFN : D!SFN[n] \in 0..63 /\ D!regIName[D!SFN[n]] = n
<1>1. DOMAIN D!SFN = {"add", "addu", "sub", "subu", "and", "or", "xor", "nor", "slt", "sltu",
                    "sll", "srl", "sra", "sllv", "srlv", "srav", "jr", "jalr", "cas", "syscall",
                    "break", "mfhi", "mthi", "mflo", "mtlo", "mult", "multu", "div", "divu"}
  BY DEF D!SFN
<1>2. \A f \in 0..63 : D!regIName[f] = RegName(f)
  BY DEF D!regIName, RegName
<1>3. /\ D!SFN["add"] = 32 /\ D!SFN["addu"] = 33 /\ D!SFN["sub"] = 34 /\ D!SFN["subu"] = 35
      /\ D!SFN["and"] = 36 /\ D!SFN["or"] = 37 /\ D!SFN["xor"] = 38 /\ D!SFN["nor"] = 39
      /\ D!SFN["slt"] = 42 /\ D!SFN["sltu"] = 43 /\ D!SFN["sll"] = 0 /\ D!SFN["srl"] = 2
      /\ D!SFN["sra"] = 3 /\ D!SFN["sllv"] = 4 /\ D!SFN["srlv"] = 6 /\ D!SFN["srav"] = 7
      /\ D!SFN["jr"] = 8 /\ D!SFN["jalr"] = 9 /\ D!SFN["cas"] = 11 /\ D!SFN["syscall"] = 12
      /\ D!SFN["break"] = 13 /\ D!SFN["mfhi"] = 16 /\ D!SFN["mthi"] = 17 /\ D!SFN["mflo"] = 18
      /\ D!SFN["mtlo"] = 19 /\ D!SFN["mult"] = 24 /\ D!SFN["multu"] = 25 /\ D!SFN["div"] = 26
      /\ D!SFN["divu"] = 27
  BY DEF D!SFN
<1>4. /\ RegName(32) = "add" /\ RegName(33) = "addu" /\ RegName(34) = "sub" /\ RegName(35) = "subu"
      /\ RegName(36) = "and" /\ RegName(37) = "or" /\ RegName(38) = "xor" /\ RegName(39) = "nor"
      /\ RegName(42) = "slt" /\ RegName(43) = "sltu" /\ RegName(0) = "sll" /\ RegName(2) = "srl"
      /\ RegName(3) = "sra" /\ RegName(4) = "sllv" /\ RegName(6) = "srlv" /\ RegName(7) = "srav"
      /\ RegName(8) = "jr" /\ RegName(9) = "jalr" /\ RegName(11) = "cas" /\ RegName(12) = "syscall"
      /\ RegName(13) = "break" /\ RegName(16) = "mfhi" /\ RegName(17) = "mthi" /\ RegName(18) = "mflo"
      /\ RegName(19) = "mtlo" /\ RegName(24) = "mult" /\ RegName(25) = "multu" /\ RegName(26) = "div"
      /\ RegName(27) = "divu"
  BY DEF RegName
<1>5. \A n \in DOMAIN D!SFN : D!SFN[n] \in 0..63 /\ RegName(D!SFN[n]) = n
  BY <1>1, <1>3, <1>4
<1>6. QED
  BY <1>2, <1>5

LEMMA Opcodes ==
  /\ DOMAIN D!OP = {"j", "jal", "beq", "bne", "blez", "bgtz", "addi", "addiu", "slti", "sltiu",
                    "andi", "ori", "xori", "lui", "lb", "lh", "lwl", "lw", "lbu", "lhu",
                    "lwr", "sb", "sh", "swl", "sw", "swr"}
  /\ D!OP["j"] = 2 /\ D!OP["jal"] = 3 /\ D!OP["beq"] = 4 /\ D!OP["bne"] = 5
  /\ D!OP["blez"] = 6 /\ D!OP["bgtz"] = 7 /\ D!OP["addi"] = 8 /\ D!OP["addiu"] = 9
  /\ D!OP["slti"] = 10 /\ D!OP["sltiu"] = 11 /\ D!OP["andi"] = 12 /\ D!OP["ori"] = 13
  /\ D!OP["xori"] = 14 /\ D!OP["lui"] = 15 /\ D!OP["lb"] = 32 /\ D!OP["lh"] = 33
  /\ D!OP["lwl"] = 34 /\ D!OP["lw"] = 35 /\ D!OP["lbu"] = 36 /\ D!OP["lhu"] = 37
  /\ D!OP["lwr"] = 38 /\ D!OP["sb"] = 40 /\ D!OP["sh"] = 41 /\ D!OP["swl"] = 42
  /\ D!OP["sw"] = 43 /\ D!OP["swr"] = 46
  BY DEF D!OP

LEMMA OpcodeNames == \A n \in DOMAIN D!OP : D!OP[n] \in 0..63 /\ D!iName[D!OP[n]] = n
<1>2. \A f \in 0..63 : D!iName[f] = OpName(f)
  BY DEF D!iName, OpName
<1>4. /\ OpName(2) = "j" /\ OpName(3) = "jal" /\ OpName(4) = "beq" /\ OpName(5) = "bne"
      /\ OpName(6) = "blez" /\ OpName(7) = "bgtz" /\ OpName(8) = "addi" /\ OpName(9) = "addiu"
      /\ OpName(10) = "slti" /\ OpName(11) = "sltiu" /\ OpName(12) = "andi" /\ OpName(13) = "ori"
      /\ OpName(14) = "xori" /\ OpName(15) = "lui" /\ OpName(32) = "lb" /\ OpName(33) = "lh"
      /\ OpName(34) = "lwl" /\ OpName(35) = "lw" /\ OpName(36) = "lbu" /\ OpName(37) = "lhu"
      /\ OpName(38) = "lwr" /\ OpName(40) = "sb" /\ OpName(41) = "sh" /\ OpName(42) = "swl"
      /\ OpName(43) = "sw" /\ OpName(46) = "swr"
  BY DEF OpName
<1>5. \A n \in DOMAIN D!OP : D!OP[n] \in 0..63 /\ OpName(D!OP[n]) = n
  BY Opcodes, <1>4
<1>6. QED
  BY <1>2, <1>5

LEMMA LinkNames ==
  /\ DOMAIN D!LinkBranch = {"bltz", "bgez", "bltzal", "bgezal"}
  /\ \A n \in DOMAIN D!LinkBranch : D!LinkBranch[n] \in 0..63 /\ D!iName[D!LinkBranch[n]] = n
<1>1. DOMAIN D!LinkBranch = {"bltz", "bgez", "bltzal", "bgezal"}
  BY DEF D!LinkBranch
<1>2. \A f \in 0..63 : D!iName[f] = OpName(f)
  BY DEF D!iName, OpName
<1>3. /\ D!LinkBranch["bltz"] = 0 /\ D!LinkBranch["bgez"] = 1
      /\ D!LinkBranch["bltzal"] = 16 /\ D!LinkBranch["bgezal"] = 17
  BY DEF D!LinkBranch
<1>4. OpName(0) = "bltz" /\ OpName(1) = "bgez" /\ OpName(16) = "bltzal" /\ OpName(17) = "bgezal"
  BY DEF OpName
<1>5. QED
  BY <1>1, <1>2, <1>3, <1>4

LEMMA RegisterKinds ==
  \A n \in DOMAIN D!SFN :
    n \in D!ThreeRegisters \cup D!VariableShifts \cup D!Shifts \cup D!HiLoPair
          \cup {"jalr", "mfhi", "mflo", "jr", "mthi", "mtlo", "syscall", "break"}
  BY DEF D!SFN, D!ThreeRegisters, D!VariableShifts, D!Shifts, D!HiLoPair

Encoding == [op : 0..63, rs : 0..31, rt : 0..31, rd : 0..31, shamt : 0..31, funct : 0..63]

(* What is shown and what is done, where they are not exempt, agree. *)
Agree(i, p, t, e) ==
  \/ t.name = "tlbclr" /\ (i.shamt # 0 \/ i.funct # 0)
  \/ t = D!Illegal /\ e.raises \in {"RI", "CPU"}
  \/ t.name = "nop" /\ e.does = "sll" /\ e.writes = 0
  \/ /\ t # D!Illegal /\ e.raises \notin {"RI", "CPU"} /\ t.name = e.does
     /\ \/ t.args = e.args
        \/ t.name \in D!VariableShifts /\ t.args = <<i.rd, i.rs, i.rt>>
     /\ \/ t.dest \in {D!NoDest, e.dest}
        \/ t.name \in {"j", "jal"} /\ ((p + 1) % D!Region) = 0
Sound(e) == e.writes # 0 => e.result

LEMMA Texts ==
  \A n, args : /\ D!Text(n, args).name = n /\ D!Text(n, args).args = args /\ D!Text(n, args).dest = D!NoDest
               /\ n # "illegal" => D!Text(n, args) # D!Illegal
<1>1. \A n, args : D!Text(n, args).name = n /\ D!Text(n, args).args = args /\ D!Text(n, args).dest = D!NoDest
  BY DEF D!Text
<1>2. D!Illegal.name = "illegal"
  BY <1>1 DEF D!Illegal
<1>3. QED
  BY <1>1, <1>2

LEMMA Refused ==
  ASSUME NEW i, NEW p, NEW x1 \in {"RI", "CPU"}
  PROVE  Agree(i, p, D!Illegal, D!SignalExc(x1)) /\ Sound(D!SignalExc(x1))
<1>1. D!SignalExc(x1).raises = x1 /\ D!SignalExc(x1).writes = 0
  BY DEF D!SignalExc, D!Effect
<1>2. QED
  BY <1>1 DEF Agree, Sound

LEMMA Effects ==
  \A n, args : /\ D!Effect(n, args).does = n /\ D!Effect(n, args).args = args
               /\ D!Effect(n, args).writes = 0 /\ ~ D!Effect(n, args).result
               /\ D!Effect(n, args).dest = D!NoDest /\ D!Effect(n, args).raises = "none"
  BY DEF D!Effect

(* An operation shown with its own operands. *)
LEMMA Same ==
  ASSUME NEW i, NEW p, NEW n, NEW args, n # "illegal", NEW e,
         e.does = n, e.args = args, e.raises \notin {"RI", "CPU"}
  PROVE  Agree(i, p, D!Text(n, args), e)
  BY Texts DEF Agree

LEMMA OneName ==
  ASSUME NEW f, NEW n \in D!Coded(D!SFN, f)
  PROVE  /\ D!Coded(D!SFN, f) = {n} /\ n \in DOMAIN D!SFN /\ D!regIName[f] = n
         /\ (CHOOSE m \in D!Coded(D!SFN, f) : TRUE) = n
<1>1. \A m \in D!Coded(D!SFN, f) : m \in DOMAIN D!SFN /\ D!SFN[m] = f
  BY DEF D!Coded
<1>2. \A m \in D!Coded(D!SFN, f) : D!regIName[f] = m
  BY <1>1, RegisterNames
<1>3. D!Coded(D!SFN, f) = {n}
  BY <1>2
<1>4. QED
  BY <1>1, <1>2, <1>3

LEMMA OneOpcode ==
  ASSUME NEW o, NEW n \in D!Coded(D!OP, o)
  PROVE  /\ D!Coded(D!OP, o) = {n} /\ n \in DOMAIN D!OP /\ D!iName[o] = n
         /\ (CHOOSE m \in D!Coded(D!OP, o) : TRUE) = n
<1>1. \A m \in D!Coded(D!OP, o) : m \in DOMAIN D!OP /\ D!OP[m] = o
  BY DEF D!Coded
<1>2. \A m \in D!Coded(D!OP, o) : D!iName[o] = m
  BY <1>1, OpcodeNames
<1>3. D!Coded(D!OP, o) = {n}
  BY <1>2
<1>4. QED
  BY <1>1, <1>2, <1>3

LEMMA OneLink ==
  ASSUME NEW o, NEW n \in D!Coded(D!LinkBranch, o)
  PROVE  /\ D!Coded(D!LinkBranch, o) = {n} /\ n \in DOMAIN D!LinkBranch /\ D!iName[o] = n
         /\ (CHOOSE m \in D!Coded(D!LinkBranch, o) : TRUE) = n
<1>1. \A m \in D!Coded(D!LinkBranch, o) : m \in DOMAIN D!LinkBranch /\ D!LinkBranch[m] = o
  BY DEF D!Coded
<1>2. \A m \in D!Coded(D!LinkBranch, o) : D!iName[o] = m
  BY <1>1, LinkNames
<1>3. D!Coded(D!LinkBranch, o) = {n}
  BY <1>2
<1>4. QED
  BY <1>1, <1>2, <1>3

LEMMA RegShown ==
  ASSUME NEW i, NEW n, D!Coded(D!SFN, i.funct) = {n}, D!regIName[i.funct] = n, ~ D!InvalidRegInstr(i)
  PROVE  /\ n \in D!ThreeRegisters \cup D!VariableShifts => D!strRegInstr(i) = D!Text(n, <<i.rd, i.rs, i.rt>>)
         /\ n \in D!Shifts => D!strRegInstr(i) = IF i.funct = 0 /\ i.rt = 0 /\ i.rd = 0 /\ i.shamt = 0
                                                 THEN D!Text("nop", <<>>)
                                                 ELSE D!Text(n, <<i.rd, i.rt, i.shamt>>)
         /\ n \in D!HiLoPair => D!strRegInstr(i) = D!Text(n, <<i.rs, i.rt>>)
         /\ n = "jalr" => D!strRegInstr(i) = D!Text(n, <<i.rd, i.rs>>)
         /\ n \in {"mfhi", "mflo"} => D!strRegInstr(i) = D!Text(n, <<i.rd>>)
         /\ n \in {"jr", "mthi", "mtlo"} => D!strRegInstr(i) = D!Text(n, <<i.rs>>)
         /\ n \in {"break", "syscall"} => D!strRegInstr(i) = D!Text(n, D!CALLVAL(i))
<1>1. \A g : (D!Coded(D!SFN, i.funct) \cap g # {}) <=> n \in g
  OBVIOUS
<1> DEFINE In(g) == D!Coded(D!SFN, i.funct) \cap g # {}
<1>2. D!strRegInstr(i) =
        CASE In(D!ThreeRegisters \cup D!VariableShifts) -> D!Text(n, <<i.rd, i.rs, i.rt>>)
          [] In(D!Shifts) -> (IF i.funct = 0 /\ i.rt = 0 /\ i.rd = 0 /\ i.shamt = 0 THEN D!Text("nop", <<>>)
                              ELSE D!Text(n, <<i.rd, i.rt, i.shamt>>))
          [] In(D!HiLoPair) -> D!Text(n, <<i.rs, i.rt>>)
          [] In({"jalr"}) -> D!Text(n, <<i.rd, i.rs>>)
          [] In({"mfhi", "mflo"}) -> D!Text(n, <<i.rd>>)
          [] In({"jr", "mthi", "mtlo"}) -> D!Text(n, <<i.rs>>)
          [] In({"break", "syscall"}) -> D!Text(n, D!CALLVAL(i))
          [] OTHER -> D!Illegal
  BY DEF D!strRegInstr
<1>3. /\ In(D!ThreeRegisters \cup D!VariableShifts) <=> n \in D!ThreeRegisters \cup D!VariableShifts
      /\ In(D!Shifts) <=> n \in D!Shifts
      /\ In(D!HiLoPair) <=> n \in D!HiLoPair
      /\ In({"jalr"}) <=> n = "jalr"
      /\ In({"mfhi", "mflo"}) <=> n \in {"mfhi", "mflo"}
      /\ In({"jr", "mthi", "mtlo"}) <=> n \in {"jr", "mthi", "mtlo"}
      /\ In({"break", "syscall"}) <=> n \in {"break", "syscall"}
  BY <1>1
<1> HIDE DEF In
<1>4. QED
  BY <1>2, <1>3 DEF D!ThreeRegisters, D!VariableShifts, D!Shifts, D!HiLoPair

(* The fields of an effect. *)
Shape(e, n, args, writes, result, raises) ==
  /\ e.does = n /\ e.args = args /\ e.writes = writes /\ e.result = result /\ e.raises = raises

LEMMA Shapes ==
  \A n, args, w :
    /\ Shape(D!Effect(n, args), n, args, 0, FALSE, "none")
    /\ Shape([D!Effect(n, args) EXCEPT !.writes = w], n, args, w, FALSE, "none")
    /\ Shape([[D!Effect(n, args) EXCEPT !.result = TRUE] EXCEPT !.writes = w], n, args, w, TRUE, "none")
    /\ Shape(D!Result(D!Effect(n, args), w), n, args, w, TRUE, "none")
    /\ Shape([D!Effect(n, args) EXCEPT !.raises = w], n, args, 0, FALSE, w)
  BY DEF Shape, D!Effect, D!Result

LEMMA RegDone ==
  ASSUME NEW i, NEW n, D!Coded(D!SFN, i.funct) = {n}, ~ D!InvalidRegInstr(i)
  PROVE  LET e == D!execRegInstr(i) IN
         /\ n \in D!ThreeRegisters => Shape(e, n, <<i.rd, i.rs, i.rt>>, i.rd, TRUE, "none")
         /\ n \in D!VariableShifts => Shape(e, n, <<i.rd, i.rt, i.rs>>, i.rd, TRUE, "none")
         /\ n \in D!Shifts => Shape(e, n, <<i.rd, i.rt, i.shamt>>, i.rd, TRUE, "none")
         /\ n \in {"mfhi", "mflo"} => Shape(e, n, <<i.rd>>, i.rd, TRUE, "none")
         /\ n = "jalr" => Shape(e, n, <<i.rd, i.rs>>, i.rd, TRUE, "none")
         /\ n \in D!HiLoPair => Shape(e, n, <<i.rs, i.rt>>, i.rd, FALSE, "none")
         /\ n \in {"jr", "mthi", "mtlo"} => Shape(e, n, <<i.rs>>, i.rd, FALSE, "none")
         /\ n = "syscall" => Shape(e, n, D!CALLVAL(i), 0, FALSE, "SYS")
         /\ n = "break" => Shape(e, n, D!CALLVAL(i), 0, FALSE, "BP")
<1> DEFINE Yields(m, args) == [D!Effect(m, args) EXCEPT !.result = TRUE]
           Operation(m) ==
             CASE m \in D!ThreeRegisters -> Yields(m, <<i.rd, i.rs, i.rt>>)
               [] m \in D!VariableShifts -> Yields(m, <<i.rd, i.rt, i.rs>>)
               [] m \in D!Shifts         -> Yields(m, <<i.rd, i.rt, i.shamt>>)
               [] m \in {"mfhi", "mflo"} -> Yields(m, <<i.rd>>)
               [] m = "jalr"             -> Yields(m, <<i.rd, i.rs>>)
               [] m \in D!HiLoPair       -> D!Effect(m, <<i.rs, i.rt>>)
               [] m \in {"jr", "mthi", "mtlo"} -> D!Effect(m, <<i.rs>>)
               [] m = "syscall"          -> [D!Effect(m, D!CALLVAL(i)) EXCEPT !.raises = "SYS"]
               [] m = "break"            -> [D!Effect(m, D!CALLVAL(i)) EXCEPT !.raises = "BP"]
           Chosen == CHOOSE m \in D!Coded(D!SFN, i.funct) : TRUE
<1>1. Chosen = n /\ D!Coded(D!SFN, i.funct) # {}
  OBVIOUS
<1>2. D!execRegInstr(i) =
        IF D!InvalidRegInstr(i) \/ D!Coded(D!SFN, i.funct) = {} THEN D!SignalExc("RI")
        ELSE IF Operation(Chosen).raises # "none" THEN Operation(Chosen)
             ELSE [Operation(Chosen) EXCEPT !.writes = i.rd]
  BY DEF D!execRegInstr
<1>3. PICK e0 : e0 = Operation(n)
  OBVIOUS
<1>4. D!execRegInstr(i) = IF e0.raises # "none" THEN e0 ELSE [e0 EXCEPT !.writes = i.rd]
  <2> HIDE DEF Chosen, Operation
  <2>1. QED
    BY <1>1, <1>2, <1>3
<1>5. \A m, args : Yields(m, args).raises = "none" /\ D!Effect(m, args).raises = "none"
  BY DEF D!Effect
<1>6. /\ n \in D!ThreeRegisters => e0 = Yields(n, <<i.rd, i.rs, i.rt>>)
      /\ n \in D!VariableShifts => e0 = Yields(n, <<i.rd, i.rt, i.rs>>)
      /\ n \in D!Shifts         => e0 = Yields(n, <<i.rd, i.rt, i.shamt>>)
      /\ n \in {"mfhi", "mflo"} => e0 = Yields(n, <<i.rd>>)
      /\ n = "jalr"             => e0 = Yields(n, <<i.rd, i.rs>>)
      /\ n \in D!HiLoPair       => e0 = D!Effect(n, <<i.rs, i.rt>>)
      /\ n \in {"jr", "mthi", "mtlo"} => e0 = D!Effect(n, <<i.rs>>)
      /\ n = "syscall"          => e0 = [D!Effect(n, D!CALLVAL(i)) EXCEPT !.raises = "SYS"]
      /\ n = "break"            => e0 = [D!Effect(n, D!CALLVAL(i)) EXCEPT !.raises = "BP"]
  <2> DEFINE Y(args) == Yields(n, args)
             E(args) == D!Effect(n, args)
             R(x1) == [D!Effect(n, D!CALLVAL(i)) EXCEPT !.raises = x1]
  <2>1. e0 = CASE n \in D!ThreeRegisters -> Y(<<i.rd, i.rs, i.rt>>)
               [] n \in D!VariableShifts -> Y(<<i.rd, i.rt, i.rs>>)
               [] n \in D!Shifts         -> Y(<<i.rd, i.rt, i.shamt>>)
               [] n \in {"mfhi", "mflo"} -> Y(<<i.rd>>)
               [] n = "jalr"             -> Y(<<i.rd, i.rs>>)
               [] n \in D!HiLoPair       -> E(<<i.rs, i.rt>>)
               [] n \in {"jr", "mthi", "mtlo"} -> E(<<i.rs>>)
               [] n = "syscall"          -> R("SYS")
               [] n = "break"            -> R("BP")
    BY <1>3
  <2>2. /\ n \in D!ThreeRegisters => e0 = Y(<<i.rd, i.rs, i.rt>>)
        /\ n \in D!VariableShifts => e0 = Y(<<i.rd, i.rt, i.rs>>)
        /\ n \in D!Shifts         => e0 = Y(<<i.rd, i.rt, i.shamt>>)
        /\ n \in {"mfhi", "mflo"} => e0 = Y(<<i.rd>>)
        /\ n = "jalr"             => e0 = Y(<<i.rd, i.rs>>)
        /\ n \in D!HiLoPair       => e0 = E(<<i.rs, i.rt>>)
        /\ n \in {"jr", "mthi", "mtlo"} => e0 = E(<<i.rs>>)
        /\ n = "syscall"          => e0 = R("SYS")
        /\ n = "break"            => e0 = R("BP")
    <3> HIDE DEF Y, E, R, Operation, Chosen
    <3>1. QED
      BY <2>1 DEF D!ThreeRegisters, D!VariableShifts, D!Shifts, D!HiLoPair
  <2>3. QED
    BY <2>2
<1>7. \A args : e0 = Yields(n, args) => Shape(D!execRegInstr(i), n, args, i.rd, TRUE, "none")
  <2> SUFFICES ASSUME NEW args, e0 = Yields(n, args)
               PROVE  Shape(D!execRegInstr(i), n, args, i.rd, TRUE, "none")
    OBVIOUS
  <2>1. e0.raises = "none"
    BY <1>5
  <2>2. D!execRegInstr(i) = [e0 EXCEPT !.writes = i.rd]
    <3> HIDE DEF Operation, Chosen
    <3>1. QED
      BY <2>1, <1>4
  <2>3. D!execRegInstr(i) = [[D!Effect(n, args) EXCEPT !.result = TRUE] EXCEPT !.writes = i.rd]
    BY <2>2
  <2>4. Shape([[D!Effect(n, args) EXCEPT !.result = TRUE] EXCEPT !.writes = i.rd], n, args, i.rd, TRUE, "none")
    BY Shapes
  <2>5. QED
    BY <2>3, <2>4, Zenon
<1>8. \A args : e0 = D!Effect(n, args) => Shape(D!execRegInstr(i), n, args, i.rd, FALSE, "none")
  <2> SUFFICES ASSUME NEW args, e0 = D!Effect(n, args)
               PROVE  Shape(D!execRegInstr(i), n, args, i.rd, FALSE, "none")
    OBVIOUS
  <2>1. e0.raises = "none"
    BY <1>5
  <2>2. D!execRegInstr(i) = [e0 EXCEPT !.writes = i.rd]
    <3> HIDE DEF Operation, Chosen
    <3>1. QED
      BY <2>1, <1>4
  <2>3. D!execRegInstr(i) = [D!Effect(n, args) EXCEPT !.writes = i.rd]
    BY <2>2
  <2>4. Shape([D!Effect(n, args) EXCEPT !.writes = i.rd], n, args, i.rd, FALSE, "none")
    BY Shapes
  <2>5. QED
    BY <2>3, <2>4, Zenon
<1>9. \A args : \A x1 \in {"SYS", "BP"} : e0 = [D!Effect(n, args) EXCEPT !.raises = x1] =>
        Shape(D!execRegInstr(i), n, args, 0, FALSE, x1)
  <2> SUFFICES ASSUME NEW args, NEW x1 \in {"SYS", "BP"}, e0 = [D!Effect(n, args) EXCEPT !.raises = x1]
               PROVE  Shape(D!execRegInstr(i), n, args, 0, FALSE, x1)
    OBVIOUS
  <2>1. Shape(e0, n, args, 0, FALSE, x1)
    BY Shapes
  <2>2. e0.raises # "none"
    BY <2>1 DEF Shape
  <2>3. D!execRegInstr(i) = e0
    <3> HIDE DEF Operation, Chosen
    <3>1. QED
      BY <2>2, <1>4
  <2>4. QED
    BY <2>1, <2>3
<1> HIDE DEF Yields, Operation, Chosen
<1>10. QED
  BY <1>6, <1>7, <1>8, <1>9

LEMMA Done ==
  ASSUME NEW i, NEW p, NEW n, NEW args, NEW w, NEW r, NEW x1, NEW e,
         Shape(e, n, args, w, r, x1), n # "illegal", x1 \notin {"RI", "CPU"}, w # 0 => r
  PROVE  Agree(i, p, D!Text(n, args), e) /\ Sound(e)
<1>1. e.does = n /\ e.args = args /\ e.writes = w /\ e.result = r /\ e.raises = x1
  BY DEF Shape
<1>2. Agree(i, p, D!Text(n, args), e)
  BY <1>1, Same
<1>3. QED
  BY <1>1, <1>2 DEF Sound

LEMMA DoneNormally ==
  ASSUME NEW i, NEW p, NEW n, n # "illegal", NEW args, NEW w, NEW r, NEW e,
         Shape(e, n, args, w, r, "none"), w # 0 => r
  PROVE  Agree(i, p, D!Text(n, args), e) /\ Sound(e)
<1>1. "none" \notin {"RI", "CPU"}
  OBVIOUS
<1>2. QED
  BY <1>1, Done

(* A register instruction, of any fields, is shown as it is executed. *)
LEMMA RegDecoded ==
  ASSUME NEW i \in Encoding, NEW p
  PROVE  Agree(i, p, D!strRegInstr(i), D!execRegInstr(i)) /\ Sound(D!execRegInstr(i))
<1>1. CASE D!InvalidRegInstr(i) \/ D!Coded(D!SFN, i.funct) = {}
  <2>1. D!execRegInstr(i) = D!SignalExc("RI")
    BY <1>1 DEF D!execRegInstr
  <2>2. D!strRegInstr(i) = D!Illegal
    <3>1. CASE D!InvalidRegInstr(i)
      BY <3>1 DEF D!strRegInstr
    <3>2. CASE D!Coded(D!SFN, i.funct) = {}
      BY <3>2 DEF D!strRegInstr
    <3>3. QED
      BY <1>1, <3>1, <3>2
  <2>3. QED
    BY <2>1, <2>2, Refused
<1>2. CASE ~ D!InvalidRegInstr(i) /\ D!Coded(D!SFN, i.funct) # {}
  <2>1. PICK n \in D!Coded(D!SFN, i.funct) : TRUE
    BY <1>2
  <2>2. D!Coded(D!SFN, i.funct) = {n} /\ n \in DOMAIN D!SFN /\ D!regIName[i.funct] = n
    BY OneName
  <2>3. n \in D!ThreeRegisters \cup D!VariableShifts \cup D!Shifts \cup D!HiLoPair
              \cup {"jalr", "mfhi", "mflo", "jr", "mthi", "mtlo", "syscall", "break"}
    BY <2>2, RegisterKinds
  <2>4. n # "illegal"
    BY <2>3 DEF D!ThreeRegisters, D!VariableShifts, D!Shifts, D!HiLoPair
  <2>5. n \in D!HiLoPair \cup {"jr", "mthi", "mtlo"} => i.rd = 0
    BY <1>2 DEF D!InvalidRegInstr
  <2> DEFINE t == D!strRegInstr(i)
             e == D!execRegInstr(i)
  <2>6. /\ n \in D!ThreeRegisters \cup D!VariableShifts => t = D!Text(n, <<i.rd, i.rs, i.rt>>)
        /\ n \in D!Shifts => t = IF i.funct = 0 /\ i.rt = 0 /\ i.rd = 0 /\ i.shamt = 0
                                 THEN D!Text("nop", <<>>)
                                 ELSE D!Text(n, <<i.rd, i.rt, i.shamt>>)
        /\ n \in D!HiLoPair => t = D!Text(n, <<i.rs, i.rt>>)
        /\ n = "jalr" => t = D!Text(n, <<i.rd, i.rs>>)
        /\ n \in {"mfhi", "mflo"} => t = D!Text(n, <<i.rd>>)
        /\ n \in {"jr", "mthi", "mtlo"} => t = D!Text(n, <<i.rs>>)
        /\ n \in {"break", "syscall"} => t = D!Text(n, D!CALLVAL(i))
    BY <1>2, <2>2, RegShown
  <2>7. /\ n \in D!ThreeRegisters => Shape(e, n, <<i.rd, i.rs, i.rt>>, i.rd, TRUE, "none")
        /\ n \in D!VariableShifts => Shape(e, n, <<i.rd, i.rt, i.rs>>, i.rd, TRUE, "none")
        /\ n \in D!Shifts => Shape(e, n, <<i.rd, i.rt, i.shamt>>, i.rd, TRUE, "none")
        /\ n \in {"mfhi", "mflo"} => Shape(e, n, <<i.rd>>, i.rd, TRUE, "none")
        /\ n = "jalr" => Shape(e, n, <<i.rd, i.rs>>, i.rd, TRUE, "none")
        /\ n \in D!HiLoPair => Shape(e, n, <<i.rs, i.rt>>, i.rd, FALSE, "none")
        /\ n \in {"jr", "mthi", "mtlo"} => Shape(e, n, <<i.rs>>, i.rd, FALSE, "none")
        /\ n = "syscall" => Shape(e, n, D!CALLVAL(i), 0, FALSE, "SYS")
        /\ n = "break" => Shape(e, n, D!CALLVAL(i), 0, FALSE, "BP")
    BY <1>2, <2>2, RegDone
  <2> HIDE DEF t, e
  <2>8. \A args, w, r : \A x1 \in {"none", "SYS", "BP"} :
          (w # 0 => r) /\ t = D!Text(n, args) /\ Shape(e, n, args, w, r, x1) =>
            Agree(i, p, t, e) /\ Sound(e)
    BY <2>4, Done
  <2>9. CASE n \in D!VariableShifts
    <3>1. t.name = n /\ t.args = <<i.rd, i.rs, i.rt>> /\ t.dest = D!NoDest /\ t # D!Illegal
      BY <2>9, <2>6, <2>4, Texts
    <3>2. e.does = n /\ e.writes = i.rd /\ e.result = TRUE /\ e.raises = "none"
      BY <2>9, <2>7 DEF Shape
    <3>3. QED
      BY <2>9, <3>1, <3>2 DEF Agree, Sound, t, e
  <2>10. CASE n \in D!Shifts
    <3>1. CASE i.funct = 0 /\ i.rt = 0 /\ i.rd = 0 /\ i.shamt = 0
      <4>1. n = "sll"
        <5>1. \A f \in 0..63 : D!regIName[f] = RegName(f)
          BY DEF D!regIName, RegName
        <5>2. RegName(0) = "sll"
          BY DEF RegName
        <5>3. QED
          BY <5>1, <5>2, <3>1, <2>2
      <4>2. t.name = "nop"
        BY <2>10, <2>6, <3>1, Texts
      <4>3. e.does = "sll" /\ e.writes = 0
        BY <2>10, <2>7, <3>1, <4>1 DEF Shape
      <4>4. QED
        BY <4>2, <4>3 DEF Agree, Sound, t, e
    <3>2. CASE ~ (i.funct = 0 /\ i.rt = 0 /\ i.rd = 0 /\ i.shamt = 0)
      BY <2>10, <3>2, <2>6, <2>7, <2>8 DEF t, e
    <3>3. QED
      BY <3>1, <3>2
  <2>11. CASE n \in D!ThreeRegisters
    BY <2>11, <2>6, <2>7, <2>8 DEF t, e
  <2>12. CASE n \in D!HiLoPair
    BY <2>12, <2>5, <2>6, <2>7, <2>8 DEF t, e
  <2>13. CASE n = "jalr"
    BY <2>13, <2>6, <2>7, <2>8 DEF t, e
  <2>14. CASE n \in {"mfhi", "mflo"}
    BY <2>14, <2>6, <2>7, <2>8 DEF t, e
  <2>15. CASE n \in {"jr", "mthi", "mtlo"}
    BY <2>15, <2>5, <2>6, <2>7, <2>8 DEF t, e
  <2>16. CASE n = "syscall"
    BY <2>16, <2>6, <2>7, <2>8 DEF t, e
  <2>17. CASE n = "break"
    BY <2>17, <2>6, <2>7, <2>8 DEF t, e
  <2>18. QED
    BY <2>3, <2>9, <2>10, <2>11, <2>12, <2>13, <2>14, <2>15, <2>16, <2>17
<1>3. QED
  BY <1>1, <1>2

(* Which operations the opcodes of a group are. *)
LEMMA OpcodeGroups ==
  /\ \A n \in DOMAIN D!OP :
       /\ D!OP[n] \in 8..15 => n \in {"addi", "addiu", "slti", "sltiu", "andi", "ori", "xori", "lui"}
       /\ D!OP[n] \in 1..7 => n \in {"j", "jal", "beq", "bne", "blez", "bgtz"}
       /\ n # "illegal"
  /\ \A o \in 8..15 : D!Coded(D!OP, o) # {}
  /\ \A o \in 2..7 : D!Coded(D!OP, o) # {}
<1>1. \A n \in DOMAIN D!OP :
        /\ D!OP[n] \in 8..15 => n \in {"addi", "addiu", "slti", "sltiu", "andi", "ori", "xori", "lui"}
        /\ D!OP[n] \in 1..7 => n \in {"j", "jal", "beq", "bne", "blez", "bgtz"}
        /\ n # "illegal"
  BY Opcodes
<1>2. \A o \in 2..15 : \E n \in DOMAIN D!OP : D!OP[n] = o
  BY Opcodes
<1>3. QED
  BY <1>1, <1>2 DEF D!Coded

LEMMA ImmDecoded ==
  ASSUME NEW i \in Encoding, i.op \in 8..15, NEW p
  PROVE  Agree(i, p, D!strImmInstr(i), D!execImmInstr(i)) /\ Sound(D!execImmInstr(i))
<1>1. PICK n \in D!Coded(D!OP, i.op) : TRUE
  BY OpcodeGroups
<1>2. /\ D!Coded(D!OP, i.op) = {n} /\ n \in DOMAIN D!OP /\ D!iName[i.op] = n /\ D!OP[n] = i.op
      /\ (CHOOSE m \in D!Coded(D!OP, i.op) : TRUE) = n
  BY OneOpcode DEF D!Coded
<1>3. n \in {"addi", "addiu", "slti", "sltiu", "andi", "ori", "xori", "lui"} /\ n # "illegal"
  BY <1>2, OpcodeGroups
<1> DEFINE t == D!strImmInstr(i)
           e == D!execImmInstr(i)
           In(g) == D!Coded(D!OP, i.op) \cap g # {}
<1>4. \A g : In(g) <=> n \in g
  BY <1>2
<1>5. t = CASE In({"addi", "addiu", "slti", "sltiu"}) -> D!Text(n, <<i.rt, i.rs, D!SignExtImm(i)>>)
            [] In({"andi", "ori", "xori"}) -> D!Text(n, <<i.rt, i.rs, D!ZEXTIMM(i)>>)
            [] In({"lui"}) -> (IF i.rs = 0 THEN D!Text(n, <<i.rt, D!ZEXTIMM(i)>>) ELSE D!Illegal)
            [] OTHER -> D!Illegal
  BY <1>2 DEF D!strImmInstr
<1> HIDE DEF In
<1>6. /\ n \in {"addi", "addiu", "slti", "sltiu"} => t = D!Text(n, <<i.rt, i.rs, D!SignExtImm(i)>>)
      /\ n \in {"andi", "ori", "xori"} => t = D!Text(n, <<i.rt, i.rs, D!ZEXTIMM(i)>>)
      /\ n = "lui" => t = IF i.rs = 0 THEN D!Text(n, <<i.rt, D!ZEXTIMM(i)>>) ELSE D!Illegal
  <2>1. /\ In({"addi", "addiu", "slti", "sltiu"}) <=> n \in {"addi", "addiu", "slti", "sltiu"}
        /\ In({"andi", "ori", "xori"}) <=> n \in {"andi", "ori", "xori"}
        /\ In({"lui"}) <=> n = "lui"
    BY <1>4
  <2> HIDE DEF t
  <2>2. QED
    BY <1>5, <2>1
<1> DEFINE R(args) == D!Result(D!Effect(n, args), i.rt)
<1>7. e = CASE n \in {"addi", "addiu", "slti", "sltiu"} -> R(<<i.rt, i.rs, D!SignExtImm(i)>>)
            [] n \in {"andi", "ori", "xori"} -> R(<<i.rt, i.rs, D!ZEXTIMM(i)>>)
            [] n = "lui" -> IF i.rs = 0 THEN R(<<i.rt, D!ZEXTIMM(i)>>) ELSE D!SignalExc("RI")
  BY <1>2 DEF D!execImmInstr
<1>8. \A args : Shape(R(args), n, args, i.rt, TRUE, "none")
  BY Shapes
<1> HIDE DEF t, e, R
<1>9. /\ n \in {"addi", "addiu", "slti", "sltiu"} => e = R(<<i.rt, i.rs, D!SignExtImm(i)>>)
      /\ n \in {"andi", "ori", "xori"} => e = R(<<i.rt, i.rs, D!ZEXTIMM(i)>>)
      /\ n = "lui" => e = IF i.rs = 0 THEN R(<<i.rt, D!ZEXTIMM(i)>>) ELSE D!SignalExc("RI")
  BY <1>7
<1>10. \A args : t = D!Text(n, args) /\ e = R(args) => Agree(i, p, t, e) /\ Sound(e)
  <2> SUFFICES ASSUME NEW args, t = D!Text(n, args), e = R(args)
               PROVE  Agree(i, p, t, e) /\ Sound(e)
    OBVIOUS
  <2>1. Shape(e, n, args, i.rt, TRUE, "none")
    BY <1>8
  <2>2. QED
    BY <2>1, <1>3, DoneNormally
<1>11. CASE n = "lui" /\ i.rs # 0
  <2>1. t = D!Illegal /\ e = D!SignalExc("RI")
    BY <1>6, <1>9, <1>11
  <2>2. QED
    BY <2>1, Refused DEF t, e
<1>12. CASE ~ (n = "lui" /\ i.rs # 0)
  BY <1>12, <1>3, <1>6, <1>9, <1>10 DEF t, e
<1>13. QED
  BY <1>11, <1>12

LEMMA LSDecoded ==
  ASSUME NEW i \in Encoding, NEW p
  PROVE  LET n == CHOOSE m \in D!Coded(D!OP, i.op) : TRUE
             loads == IF D!Coded(D!OP, i.op) = {} THEN D!SignalExc("RI")
                      ELSE D!Result(D!Effect(n, <<i.rt, D!SignExtImm(i), i.rs>>), i.rt)
             stores == IF D!Coded(D!OP, i.op) = {} THEN D!SignalExc("RI")
                       ELSE D!Effect(n, <<i.rt, D!SignExtImm(i), i.rs>>)
         IN  /\ Agree(i, p, D!strLSInstr(i), loads) /\ Sound(loads)
             /\ Agree(i, p, D!strLSInstr(i), stores) /\ Sound(stores)
<1>1. CASE D!Coded(D!OP, i.op) = {}
  <2>1. D!strLSInstr(i) = D!Illegal
    BY <1>1 DEF D!strLSInstr
  <2>2. QED
    BY <1>1, <2>1, Refused
<1>2. CASE D!Coded(D!OP, i.op) # {}
  <2>1. PICK n \in D!Coded(D!OP, i.op) : TRUE
    BY <1>2
  <2>2. n \in DOMAIN D!OP /\ D!iName[i.op] = n /\ (CHOOSE m \in D!Coded(D!OP, i.op) : TRUE) = n
    BY OneOpcode
  <2>3. n # "illegal"
    BY <2>2, OpcodeGroups
  <2>4. PICK args : args = <<i.rt, D!SignExtImm(i), i.rs>>
    OBVIOUS
  <2>5. D!strLSInstr(i) = D!Text(n, args)
    BY <1>2, <2>2, <2>4 DEF D!strLSInstr
  <2>6. Shape(D!Result(D!Effect(n, args), i.rt), n, args, i.rt, TRUE, "none")
    BY Shapes
  <2>7. Shape(D!Effect(n, args), n, args, 0, FALSE, "none")
    BY Shapes
  <2>8. \A e, w, r : Shape(e, n, args, w, r, "none") /\ (w # 0 => r) => Agree(i, p, D!Text(n, args), e) /\ Sound(e)
    BY <2>3, DoneNormally
  <2>9. /\ Agree(i, p, D!Text(n, args), D!Result(D!Effect(n, args), i.rt)) /\ Sound(D!Result(D!Effect(n, args), i.rt))
        /\ Agree(i, p, D!Text(n, args), D!Effect(n, args)) /\ Sound(D!Effect(n, args))
    BY <2>6, <2>7, <2>8
  <2>10. QED
    BY <1>2, <2>2, <2>4, <2>5, <2>9
<1>3. QED
  BY <1>1, <1>2

LEMMA OpTypes ==
  ASSUME NEW i \in Encoding
  PROVE  /\ i.op = 0 => D!OpType(i) = "reg"
         /\ i.op \in 1..7 => D!OpType(i) = "branch"
         /\ i.op \in 8..15 => D!OpType(i) = "imm"
         /\ i.op \in 16..23 => D!OpType(i) = "cop"
         /\ i.op \in 24..31 => D!OpType(i) = "unknown"
         /\ i.op \in 32..39 => D!OpType(i) = "load"
         /\ i.op \in 40..47 => D!OpType(i) = "store"
         /\ i.op \in 48..55 => D!OpType(i) = "loadcop"
         /\ i.op \in 56..63 => D!OpType(i) = "storecop"
<1> DEFINE group == <<"branch", "imm", "cop", "unknown", "load", "store", "loadcop", "storecop">>
<1>1. D!OpType(i) = IF i.op = 0 THEN "reg" ELSE group[i.op \div 8 + 1]
  BY DEF D!OpType
<1>2. /\ i.op \in 1..7 => i.op \div 8 + 1 = 1 /\ i.op # 0
      /\ i.op \in 8..15 => i.op \div 8 + 1 = 2 /\ i.op # 0
      /\ i.op \in 16..23 => i.op \div 8 + 1 = 3 /\ i.op # 0
      /\ i.op \in 24..31 => i.op \div 8 + 1 = 4 /\ i.op # 0
      /\ i.op \in 32..39 => i.op \div 8 + 1 = 5 /\ i.op # 0
      /\ i.op \in 40..47 => i.op \div 8 + 1 = 6 /\ i.op # 0
      /\ i.op \in 48..55 => i.op \div 8 + 1 = 7 /\ i.op # 0
      /\ i.op \in 56..63 => i.op \div 8 + 1 = 8 /\ i.op # 0
  BY DEF Encoding
<1>3. /\ group[1] = "branch" /\ group[2] = "imm" /\ group[3] = "cop" /\ group[4] = "unknown"
      /\ group[5] = "load" /\ group[6] = "store" /\ group[7] = "loadcop" /\ group[8] = "storecop"
  OBVIOUS
<1> HIDE DEF group
<1>4. QED
  BY <1>1, <1>2, <1>3

Wrap(q) == q % D!Space

LEMMA Branches ==
  ASSUME NEW n, NEW args, NEW q, NEW e, e = D!Branch(D!Effect(n, args), q)
  PROVE  Shape(e, n, args, 0, FALSE, "none") /\ e.dest = Wrap(q)
  BY DEF Shape, D!Effect, D!Branch, Wrap

LEMMA Linked ==
  ASSUME NEW n, NEW args, NEW q, NEW w, NEW e, e = D!Result(D!Branch(D!Effect(n, args), q), w)
  PROVE  Shape(e, n, args, w, TRUE, "none")
  BY DEF Shape, D!Effect, D!Result, D!Branch

LEMMA LinkedDest == \A n, args, q, w : D!Result(D!Branch(D!Effect(n, args), q), w).dest = Wrap(q)
  BY DEF D!Effect, D!Result, D!Branch, Wrap

(* A jump is shown with the target it has, but in the last word of a region. *)
LEMMA JumpTarget ==
  ASSUME NEW i \in Encoding, NEW p \in 0..127, ((p + 1) % D!Region) # 0
  PROVE  D!JUMPTO(p, i) = D!JUMPTO(p + 1, i) % D!Space
<1>1. p \div 64 \in 0..1 /\ (p + 1) \div 64 = p \div 64
  BY DEF D!Region
<1>2. i.funct \in 0..63
  BY DEF Encoding
<1>3. PICK k \in 0..1 : k = p \div 64
  BY <1>1
<1>4. D!JUMPTO(p, i) = 64 * k + i.funct /\ D!JUMPTO(p + 1, i) = 64 * k + i.funct
  BY <1>1, <1>3 DEF D!JUMPTO, D!Region
<1>5. D!Space = 128
  BY DEF D!Space, D!Region
<1>6. (64 * k + i.funct) % 128 = 64 * k + i.funct
  BY <1>2
<1>7. QED
  BY <1>4, <1>5, <1>6

(* What the processor does at a branch, case by case. *)
LEMMA BranchDone ==
  ASSUME NEW i, NEW q
  PROVE  LET links == D!Coded(D!LinkBranch, i.rt)
             m == CHOOSE n \in links : TRUE
             n0 == CHOOSE n \in D!Coded(D!OP, i.op) : TRUE
             e == D!execBranchInstr(i, q)
             dest == q + D!SignExtImm(i)
             b == D!Branch(D!Effect(m, <<i.rs, D!SignExtImm(i)>>), dest)
             jump == D!Branch(D!Effect(n0, <<>>), D!JUMPTO(q, i))
         IN  /\ i.op = 1 /\ links = {} => e = D!SignalExc("RI")
             /\ i.op = 1 /\ links # {} => e = b \/ e = D!Result(b, D!LINKREG)
             /\ i.op \in {4, 5} => e = D!Branch(D!Effect(n0, <<i.rs, i.rt>>), dest)
             /\ i.op \in {6, 7} => e = IF i.rt = 0 THEN D!Branch(D!Effect(n0, <<i.rs, D!SignExtImm(i)>>), dest)
                                       ELSE D!SignalExc("RI")
             /\ i.op \in {2, 3} => e = jump \/ e = D!Result(jump, D!LINKREG)
<1> DEFINE links == D!Coded(D!LinkBranch, i.rt)
           m == CHOOSE n \in links : TRUE
           n0 == CHOOSE n \in D!Coded(D!OP, i.op) : TRUE
           n1 == CHOOSE n \in (IF i.op = D!BGL THEN links ELSE D!Coded(D!OP, i.op)) : TRUE
           e == D!execBranchInstr(i, q)
           dest == q + D!SignExtImm(i)
           Rel(n, args) == D!Branch(D!Effect(n, args), dest)
           b == Rel(m, <<i.rs, D!SignExtImm(i)>>)
           Jump(n) == D!Branch(D!Effect(n, <<>>), D!JUMPTO(q, i))
           Link(e1) == D!Result(e1, D!LINKREG)
<1>1. e = CASE i.op = D!BGL /\ links = {} -> D!SignalExc("RI")
            [] i.op = D!BGL /\ links # {} -> (IF n1 \in {"bltzal", "bgezal"}
                                              THEN Link(Rel(n1, <<i.rs, D!SignExtImm(i)>>))
                                              ELSE Rel(n1, <<i.rs, D!SignExtImm(i)>>))
            [] i.op \in {D!OP.beq, D!OP.bne} -> Rel(n1, <<i.rs, i.rt>>)
            [] i.op \in {D!OP.blez, D!OP.bgtz} -> (IF i.rt = 0 THEN Rel(n1, <<i.rs, D!SignExtImm(i)>>)
                                                   ELSE D!SignalExc("RI"))
            [] i.op = D!OP.j   -> Jump(n1)
            [] i.op = D!OP.jal -> Link(Jump(n1))
  BY DEF D!execBranchInstr
<1>2. D!OP.beq = 4 /\ D!OP.bne = 5 /\ D!OP.j = 2 /\ D!OP.jal = 3 /\ D!OP.blez = 6 /\ D!OP.bgtz = 7 /\ D!BGL = 1
  BY Opcodes DEF D!BGL
<1>3. (i.op = D!BGL => n1 = m) /\ (i.op # D!BGL => n1 = n0)
  OBVIOUS
<1> HIDE DEF links, m, n0, n1, e, dest, Rel, b, Jump, Link
<1>4. /\ i.op = 1 /\ links = {} => e = D!SignalExc("RI")
      /\ i.op = 1 /\ links # {} => \/ e = Rel(m, <<i.rs, D!SignExtImm(i)>>)
                                   \/ e = Link(Rel(m, <<i.rs, D!SignExtImm(i)>>))
      /\ i.op \in {4, 5} => e = Rel(n0, <<i.rs, i.rt>>)
      /\ i.op \in {6, 7} => e = IF i.rt = 0 THEN Rel(n0, <<i.rs, D!SignExtImm(i)>>) ELSE D!SignalExc("RI")
      /\ i.op = 2 => e = Jump(n0)
      /\ i.op = 3 => e = Link(Jump(n0))
  BY <1>1, <1>2, <1>3
<1>5. QED
  BY <1>4 DEF links, m, n0, e, dest, Rel, b, Jump, Link

LEMMA NamedOpcode ==
  ASSUME NEW i \in Encoding, i.op \in 2..7
  PROVE  \E n \in DOMAIN D!OP : /\ D!iName[i.op] = n /\ D!OP[n] = i.op /\ n # "illegal"
                                /\ (CHOOSE m \in D!Coded(D!OP, i.op) : TRUE) = n
<1>1. D!Coded(D!OP, i.op) # {}
  BY OpcodeGroups
<1>2. PICK n \in D!Coded(D!OP, i.op) : TRUE
  BY <1>1
<1>3. QED
  BY OneOpcode, OpcodeGroups DEF D!Coded

LEMMA BranchDecoded ==
  ASSUME NEW i \in Encoding, i.op \in 1..7, NEW p \in 0..127
  PROVE  Agree(i, p, D!disassemble(i, p), D!execBranchInstr(i, p + 1)) /\ Sound(D!execBranchInstr(i, p + 1))
<1>1. D!OpType(i) = "branch"
  BY OpTypes
<1>2. D!OP.beq = 4 /\ D!OP.bne = 5 /\ D!OP.j = 2 /\ D!OP.jal = 3 /\ D!OP.blez = 6 /\ D!OP.bgtz = 7 /\ D!BGL = 1
  BY Opcodes DEF D!BGL
<1>3. D!InstructionMnemonic(i) = D!iName[i.op]
  BY <1>1 DEF D!InstructionMnemonic
<1>4. CASE i.op \in {4, 5}
  <2>0. i.op \in 2..7
    BY <1>4
  <2>1. PICK n \in DOMAIN D!OP : /\ D!iName[i.op] = n /\ D!OP[n] = i.op /\ n # "illegal"
                                 /\ (CHOOSE m \in D!Coded(D!OP, i.op) : TRUE) = n
    BY <2>0, NamedOpcode
  <2>2. D!iName[i.op] = n /\ (CHOOSE m \in D!Coded(D!OP, i.op) : TRUE) = n
    BY <2>1
  <2>3. n # "illegal"
    BY <2>1
  <2>4. D!disassemble(i, p) = [name |-> n, args |-> <<i.rs, i.rt>>, dest |-> Wrap(p + 1 + D!SignExtImm(i))]
    BY <1>2, <1>3, <1>4, <2>2 DEF D!disassemble, D!disasmBranch, Wrap
  <2>5. D!execBranchInstr(i, p + 1) = D!Branch(D!Effect(n, <<i.rs, i.rt>>), p + 1 + D!SignExtImm(i))
    BY <1>4, <2>2, BranchDone
  <2> DEFINE t == D!disassemble(i, p)
             e == D!execBranchInstr(i, p + 1)
  <2>6. t.name = n /\ t.args = <<i.rs, i.rt>> /\ t.dest = Wrap(p + 1 + D!SignExtImm(i))
    BY <2>4
  <2>7. Shape(e, n, <<i.rs, i.rt>>, 0, FALSE, "none") /\ e.dest = Wrap(p + 1 + D!SignExtImm(i))
    BY <2>5, Branches
  <2>8. D!Illegal.name = "illegal"
    BY DEF D!Illegal, D!Text
  <2> HIDE DEF t, e
  <2>9. Agree(i, p, t, e) /\ Sound(e)
    BY <2>3, <2>6, <2>7, <2>8 DEF Agree, Sound, Shape
  <2>10. QED
    BY <2>9 DEF t, e
<1>5. CASE i.op \in {2, 3}
  <2>0. i.op \in 2..7
    BY <1>5
  <2>1. PICK n \in DOMAIN D!OP : /\ D!iName[i.op] = n /\ D!OP[n] = i.op /\ n # "illegal"
                                 /\ (CHOOSE m \in D!Coded(D!OP, i.op) : TRUE) = n
    BY <2>0, NamedOpcode
  <2>2. /\ n \in DOMAIN D!OP /\ D!iName[i.op] = n /\ D!OP[n] = i.op
        /\ (CHOOSE m \in D!Coded(D!OP, i.op) : TRUE) = n
    BY <2>1
  <2>3. n \in {"j", "jal"}
    BY <1>5, <2>2, Opcodes
  <2>4. D!disassemble(i, p) = [name |-> n, args |-> <<>>, dest |-> D!JUMPTO(p, i)]
    BY <1>2, <1>3, <1>5, <2>2 DEF D!disassemble, D!disasmJump
  <2> DEFINE t == D!disassemble(i, p)
             e == D!execBranchInstr(i, p + 1)
             b == D!Branch(D!Effect(n, <<>>), D!JUMPTO(p + 1, i))
  <2>5. e = b \/ e = D!Result(b, D!LINKREG)
    BY <1>5, <2>2, BranchDone
  <2>6. t.name = n /\ t.args = <<>> /\ t.dest = D!JUMPTO(p, i)
    BY <2>4
  <2>7. /\ \/ Shape(e, n, <<>>, 0, FALSE, "none")
           \/ Shape(e, n, <<>>, D!LINKREG, TRUE, "none")
        /\ e.dest = Wrap(D!JUMPTO(p + 1, i))
    <3>1. Shape(b, n, <<>>, 0, FALSE, "none") /\ Shape(D!Result(b, D!LINKREG), n, <<>>, D!LINKREG, TRUE, "none")
      BY Branches, Linked
    <3>2. b.dest = Wrap(D!JUMPTO(p + 1, i))
      BY Branches
    <3>3. D!Result(b, D!LINKREG).dest = Wrap(D!JUMPTO(p + 1, i))
      BY LinkedDest
    <3> HIDE DEF e, b
    <3>4. QED
      BY <2>5, <3>1, <3>2, <3>3
  <2>8. D!Illegal.name = "illegal"
    BY DEF D!Illegal, D!Text
  <2>9. ((p + 1) % D!Region) = 0 \/ t.dest = e.dest
    BY <2>6, <2>7, JumpTarget DEF Wrap
  <2> HIDE DEF t, e
  <2>10. Agree(i, p, t, e) /\ Sound(e)
    BY <2>3, <2>6, <2>7, <2>8, <2>9 DEF Agree, Sound, Shape
  <2>11. QED
    BY <2>10 DEF t, e
<1>6. CASE i.op \in {6, 7}
  <2>0. i.op \in 2..7
    BY <1>6
  <2>1. PICK n \in DOMAIN D!OP : /\ D!iName[i.op] = n /\ D!OP[n] = i.op /\ n # "illegal"
                                 /\ (CHOOSE m \in D!Coded(D!OP, i.op) : TRUE) = n
    BY <2>0, NamedOpcode
  <2>2. D!iName[i.op] = n /\ (CHOOSE m \in D!Coded(D!OP, i.op) : TRUE) = n
    BY <2>1
  <2>3. n # "illegal"
    BY <2>1
  <2>4. PICK args : args = <<i.rs, D!SignExtImm(i)>>
    OBVIOUS
  <2>5. D!disassemble(i, p) = D!strBranchInstr(i)
    BY <1>1, <1>2, <1>6 DEF D!disassemble, D!StrInstr
  <2>6. D!strBranchInstr(i) = IF i.rt = 0 THEN D!Text(n, args) ELSE D!Illegal
    BY <1>2, <1>6, <2>2, <2>4 DEF D!strBranchInstr
  <2>7. D!execBranchInstr(i, p + 1) =
          IF i.rt = 0 THEN D!Branch(D!Effect(n, args), p + 1 + D!SignExtImm(i)) ELSE D!SignalExc("RI")
    BY <1>6, <2>2, <2>4, BranchDone
  <2>8. CASE i.rt = 0
    <3>1. PICK e : e = D!Branch(D!Effect(n, args), p + 1 + D!SignExtImm(i))
      OBVIOUS
    <3>2. Shape(e, n, args, 0, FALSE, "none")
      BY <3>1, Branches
    <3>3. Agree(i, p, D!Text(n, args), e) /\ Sound(e)
      BY <3>2, <2>3, DoneNormally
    <3>4. QED
      BY <3>1, <3>3, <2>5, <2>6, <2>7, <2>8
  <2>9. CASE i.rt # 0
    BY <2>5, <2>6, <2>7, <2>9, Refused
  <2>10. QED
    BY <2>8, <2>9
<1>7. CASE i.op = 1
  <2>1. D!disassemble(i, p) = D!strBranchInstr(i)
    BY <1>1, <1>2, <1>7 DEF D!disassemble, D!StrInstr
  <2>2. CASE D!Coded(D!LinkBranch, i.rt) = {}
    <3>1. D!strBranchInstr(i) = D!Illegal
      BY <1>2, <1>7, <2>2 DEF D!strBranchInstr
    <3>2. D!execBranchInstr(i, p + 1) = D!SignalExc("RI")
      BY <1>7, <2>2, BranchDone
    <3>3. QED
      BY <2>1, <3>1, <3>2, Refused
  <2>3. CASE D!Coded(D!LinkBranch, i.rt) # {}
    <3>1. PICK n \in D!Coded(D!LinkBranch, i.rt) : TRUE
      BY <2>3
    <3>2. n \in DOMAIN D!LinkBranch /\ D!iName[i.rt] = n /\ (CHOOSE m \in D!Coded(D!LinkBranch, i.rt) : TRUE) = n
      BY OneLink
    <3>3. n # "illegal"
      BY <3>2, LinkNames
    <3>4. PICK args : args = <<i.rs, D!SignExtImm(i)>>
      OBVIOUS
    <3>5. D!strBranchInstr(i) = D!Text(n, args)
      BY <1>2, <1>7, <2>3, <3>2, <3>4 DEF D!strBranchInstr
    <3> DEFINE b == D!Branch(D!Effect(n, args), p + 1 + D!SignExtImm(i))
    <3>6. D!execBranchInstr(i, p + 1) = b \/ D!execBranchInstr(i, p + 1) = D!Result(b, D!LINKREG)
      BY <1>7, <2>3, <3>2, <3>4, BranchDone
    <3>7. Shape(b, n, args, 0, FALSE, "none") /\ Shape(D!Result(b, D!LINKREG), n, args, D!LINKREG, TRUE, "none")
      BY Branches, Linked
    <3> HIDE DEF b
    <3>8. \A e, w, r : Shape(e, n, args, w, r, "none") /\ (w # 0 => r) => Agree(i, p, D!Text(n, args), e) /\ Sound(e)
      BY <3>3, DoneNormally
    <3>9. QED
      BY <2>1, <3>5, <3>6, <3>7, <3>8
  <2>4. QED
    BY <2>2, <2>3
<1>8. QED
  BY <1>4, <1>5, <1>6, <1>7

(* The operations of coprocessor 0, as they are named. *)
LEMMA CopNames ==
  /\ D!cp0IName[0] = "mfc0" /\ D!cp0IName[4] = "mtc0"
  /\ \A n \in DOMAIN D!COFUN :
       \/ n = "rfe" /\ D!COFUN[n] = 16
       \/ n = "wait" /\ D!COFUN[n] = 32
       \/ D!COFUN[n] \in {1, 2, 6, 8} /\ D!cp0IName[D!COFUN[n]] = n /\ n # "illegal"
  /\ D!COFUN.rfe = 16 /\ D!COFUN.wait = 32 /\ D!COFUN.tlbp = 8 /\ D!COFUN.tlbr = 1 /\ D!COFUN.tlbwi = 2
  /\ D!COFUN.tlbwr = 6
  /\ \A f \in {16, 32, 1, 2, 6, 8} : D!Coded(D!COFUN, f) # {}
<1>1. /\ DOMAIN D!COFUN = {"tlbr", "tlbwi", "tlbwr", "tlbp", "rfe", "wait"}
      /\ D!COFUN["rfe"] = 16 /\ D!COFUN["wait"] = 32 /\ D!COFUN["tlbp"] = 8 /\ D!COFUN["tlbr"] = 1
      /\ D!COFUN["tlbwi"] = 2 /\ D!COFUN["tlbwr"] = 6
  BY DEF D!COFUN
<1>2. \A c \in {0, 1, 2, 4, 6, 8} : D!cp0IName[c] = CASE c = 0 -> "mfc0" [] c = 1 -> "tlbr" [] c = 2 -> "tlbwi"
                                                    [] c = 4 -> "mtc0" [] c = 6 -> "tlbwr" [] c = 8 -> "tlbp"
  BY DEF D!cp0IName
<1>3. /\ D!cp0IName[0] = "mfc0" /\ D!cp0IName[4] = "mtc0" /\ D!cp0IName[1] = "tlbr" /\ D!cp0IName[2] = "tlbwi"
      /\ D!cp0IName[6] = "tlbwr" /\ D!cp0IName[8] = "tlbp"
  BY <1>2
<1>4. \A f \in {16, 32, 1, 2, 6, 8} : \E n \in DOMAIN D!COFUN : D!COFUN[n] = f
  BY <1>1
<1>5. \A f \in {16, 32, 1, 2, 6, 8} : D!Coded(D!COFUN, f) # {}
  BY <1>4 DEF D!Coded
<1>6. QED
  BY <1>1, <1>3, <1>5

LEMMA CopShown ==
  ASSUME NEW i
  PROVE  LET moves == D!ValidCP0Reg(i.rd) /\ i.shamt = 0 /\ i.funct = 0
             t == D!strCopInstr(i)
         IN  /\ i.op # 16 => t = D!Illegal
             /\ i.op = 16 /\ i.rs = 16 /\ (i.rt # 0 \/ i.rd # 0 \/ i.shamt # 0 \/ i.funct \notin {16, 32, 1, 2, 6, 8}) =>
                  t = D!Illegal
             /\ i.op = 16 /\ i.rs = 16 /\ i.rt = 0 /\ i.rd = 0 /\ i.shamt = 0 =>
                  /\ i.funct = 16 => t = D!Text("rfe", <<>>)
                  /\ i.funct = 32 => t = D!Text("wait", <<>>)
                  /\ i.funct \in {1, 2, 6, 8} => t = D!Text(D!cp0IName[i.funct], <<>>)
             /\ i.op = 16 /\ i.rs = 8 => t = IF i.rt \in {0, 1}
                                             THEN D!Text(<<"bc0f", "bc0t">>[i.rt + 1], <<D!SignExtImm(i)>>)
                                             ELSE D!Illegal
             /\ i.op = 16 /\ i.rs \in {0, 4} /\ moves => t = D!Text(D!cp0IName[i.rs], <<i.rt, D!CP0Index[i.rd]>>)
             /\ i.op = 16 /\ i.rs = 0 /\ ~ moves => t = D!Illegal
             /\ i.op = 16 /\ i.rs = 4 /\ ~ moves => t = IF i.rd = 4 THEN D!Text("tlbclr", <<>>) ELSE D!Illegal
             /\ i.op = 16 /\ i.rs \notin {0, 4, 8, 16} => t = D!Illegal
<1> DEFINE moves == D!ValidCP0Reg(i.rd) /\ i.shamt = 0 /\ i.funct = 0
           t == D!strCopInstr(i)
           named(n) == D!Text(n, <<>>)
           zero == IF i.rt # 0 \/ i.rd # 0 \/ i.shamt # 0 THEN D!Illegal
                   ELSE CASE i.funct = D!COFUN.rfe -> named("rfe")
                          [] i.funct = D!COFUN.wait -> named("wait")
                          [] i.funct \in {D!COFUN.tlbp, D!COFUN.tlbr, D!COFUN.tlbwi, D!COFUN.tlbwr} ->
                               named(D!cp0IName[i.funct])
                          [] OTHER -> D!Illegal
           bc == D!Text(<<"bc0f", "bc0t">>[i.rt + 1], <<D!SignExtImm(i)>>)
           move == D!Text(D!cp0IName[i.rs], <<i.rt, D!CP0Index[i.rd]>>)
<1>1. t = CASE i.op # D!COP0SEL -> D!Illegal
            [] i.op = D!COP0SEL /\ i.rs = D!CO0 -> zero
            [] i.op = D!COP0SEL /\ i.rs = D!BC0 -> (IF i.rt \in {0, 1} THEN bc ELSE D!Illegal)
            [] i.op = D!COP0SEL /\ i.rs \in {D!MFC0, D!MTC0} /\ moves -> move
            [] i.op = D!COP0SEL /\ i.rs = D!MTC0 /\ ~ moves /\ i.rd = D!CONTEXTREG -> named("tlbclr")
            [] OTHER -> D!Illegal
  BY DEF D!strCopInstr
<1>2. /\ D!COP0SEL = 16 /\ D!CO0 = 16 /\ D!BC0 = 8 /\ D!MFC0 = 0 /\ D!MTC0 = 4 /\ D!CONTEXTREG = 4
      /\ D!COFUN.rfe = 16 /\ D!COFUN.wait = 32 /\ D!COFUN.tlbp = 8 /\ D!COFUN.tlbr = 1 /\ D!COFUN.tlbwi = 2
      /\ D!COFUN.tlbwr = 6
  BY CopNames DEF D!COP0SEL, D!CO0, D!BC0, D!MFC0, D!MTC0, D!CONTEXTREG
<1>3. /\ (i.rt # 0 \/ i.rd # 0 \/ i.shamt # 0 \/ i.funct \notin {16, 32, 1, 2, 6, 8}) => zero = D!Illegal
      /\ i.rt = 0 /\ i.rd = 0 /\ i.shamt = 0 =>
           /\ i.funct = 16 => zero = named("rfe")
           /\ i.funct = 32 => zero = named("wait")
           /\ i.funct \in {1, 2, 6, 8} => zero = named(D!cp0IName[i.funct])
  <2> HIDE DEF t, bc, move, named
  <2>1. QED
    BY <1>2
<1> HIDE DEF moves, t, named, zero, bc, move
<1>4. /\ i.op # 16 => t = D!Illegal
      /\ i.op = 16 /\ i.rs = 16 => t = zero
      /\ i.op = 16 /\ i.rs = 8 => t = IF i.rt \in {0, 1} THEN bc ELSE D!Illegal
      /\ i.op = 16 /\ i.rs \in {0, 4} /\ moves => t = move
      /\ i.op = 16 /\ i.rs = 0 /\ ~ moves => t = D!Illegal
      /\ i.op = 16 /\ i.rs = 4 /\ ~ moves => t = IF i.rd = 4 THEN named("tlbclr") ELSE D!Illegal
      /\ i.op = 16 /\ i.rs \notin {0, 4, 8, 16} => t = D!Illegal
  BY <1>1, <1>2
<1>5. QED
  BY <1>3, <1>4 DEF moves, t, named, bc, move

LEMMA CopDone ==
  ASSUME NEW i, NEW q
  PROVE  LET ops == D!Coded(D!COFUN, i.funct)
             moves == D!ValidCP0Reg(i.rd) /\ i.shamt = 0 /\ i.funct = 0
             e == D!execCopInstr(i, q)
         IN  /\ i.op # 16 \/ ~ usable => e = D!SignalExc("CPU")
             /\ i.op = 16 /\ usable /\ i.rs = 16 =>
                  e = IF i.rt # 0 \/ i.rd # 0 \/ i.shamt # 0 \/ ops = {} THEN D!SignalExc("CPU")
                      ELSE D!Effect(CHOOSE n \in ops : TRUE, <<>>)
             /\ i.op = 16 /\ usable /\ i.rs = 8 =>
                  /\ i.rt = 0 => e = D!Branch(D!Effect("bc0f", <<D!SignExtImm(i)>>), q + D!SignExtImm(i))
                  /\ i.rt = 1 => e = D!Effect("bc0t", <<D!SignExtImm(i)>>)
                  /\ i.rt \notin {0, 1} => e = D!SignalExc("CPU")
             /\ i.op = 16 /\ usable /\ i.rs = 0 =>
                  e = IF moves THEN D!Result(D!Effect("mfc0", <<i.rt, D!CP0Index[i.rd]>>), i.rt) ELSE D!SignalExc("CPU")
             /\ i.op = 16 /\ usable /\ i.rs = 4 =>
                  /\ moves => e = D!Effect("mtc0", <<i.rt, D!CP0Index[i.rd]>>)
                  /\ ~ moves /\ i.rd = 4 /\ i.shamt = 0 /\ i.funct = 0 => e = D!Effect("tlbclr", <<>>)
                  /\ ~ moves /\ ~ (i.rd = 4 /\ i.shamt = 0 /\ i.funct = 0) => e = D!SignalExc("CPU")
             /\ i.op = 16 /\ i.rs \notin {0, 4, 8, 16} => e = D!SignalExc("CPU")
<1> DEFINE ops == D!Coded(D!COFUN, i.funct)
           moves == D!ValidCP0Reg(i.rd) /\ i.shamt = 0 /\ i.funct = 0
           e == D!execCopInstr(i, q)
           refused == D!SignalExc("CPU")
           some == D!Effect(CHOOSE n \in ops : TRUE, <<>>)
           bf == D!Branch(D!Effect("bc0f", <<D!SignExtImm(i)>>), q + D!SignExtImm(i))
           bt == D!Effect("bc0t", <<D!SignExtImm(i)>>)
           mf == D!Result(D!Effect("mfc0", <<i.rt, D!CP0Index[i.rd]>>), i.rt)
           mt == D!Effect("mtc0", <<i.rt, D!CP0Index[i.rd]>>)
           clr == D!Effect("tlbclr", <<>>)
           bc == CASE i.rt = 0 -> bf [] i.rt = 1 -> bt [] OTHER -> refused
           mtc == CASE moves -> mt [] i.rd = D!CONTEXTREG /\ i.shamt = 0 /\ i.funct = 0 -> clr [] OTHER -> refused
<1>1. e = CASE i.op # D!COP0SEL \/ ~ usable -> refused
            [] i.op = D!COP0SEL /\ usable /\ i.rs = D!CO0 ->
                 (IF i.rt # 0 \/ i.rd # 0 \/ i.shamt # 0 \/ ops = {} THEN refused ELSE some)
            [] i.op = D!COP0SEL /\ usable /\ i.rs = D!BC0 -> bc
            [] i.op = D!COP0SEL /\ usable /\ i.rs = D!MFC0 -> (IF moves THEN mf ELSE refused)
            [] i.op = D!COP0SEL /\ usable /\ i.rs = D!MTC0 -> mtc
            [] OTHER -> refused
  BY DEF D!execCopInstr
<1>2. /\ D!COP0SEL = 16 /\ D!CO0 = 16 /\ D!BC0 = 8 /\ D!MFC0 = 0 /\ D!MTC0 = 4 /\ D!CONTEXTREG = 4
  BY DEF D!COP0SEL, D!CO0, D!BC0, D!MFC0, D!MTC0, D!CONTEXTREG
<1>3. moves => ~ (i.rd = D!CONTEXTREG /\ i.shamt = 0 /\ i.funct = 0)
  BY <1>2 DEF D!ValidCP0Reg, D!CP0Index
<1> HIDE DEF ops, moves, e, refused, some, bf, bt, mf, mt, clr
<1>4. /\ i.rt = 0 => bc = bf
      /\ i.rt = 1 => bc = bt
      /\ i.rt \notin {0, 1} => bc = refused
      /\ moves => mtc = mt
      /\ ~ moves /\ i.rd = 4 /\ i.shamt = 0 /\ i.funct = 0 => mtc = clr
      /\ ~ moves /\ ~ (i.rd = 4 /\ i.shamt = 0 /\ i.funct = 0) => mtc = refused
  BY <1>2, <1>3
<1> HIDE DEF bc, mtc
<1>5. /\ i.op # 16 \/ ~ usable => e = refused
      /\ i.op = 16 /\ usable /\ i.rs = 16 =>
           e = IF i.rt # 0 \/ i.rd # 0 \/ i.shamt # 0 \/ ops = {} THEN refused ELSE some
      /\ i.op = 16 /\ usable /\ i.rs = 8 => e = bc
      /\ i.op = 16 /\ usable /\ i.rs = 0 => e = IF moves THEN mf ELSE refused
      /\ i.op = 16 /\ usable /\ i.rs = 4 => e = mtc
      /\ i.op = 16 /\ i.rs \notin {0, 4, 8, 16} => e = refused
  BY <1>1, <1>2
<1>6. QED
  BY <1>4, <1>5 DEF ops, moves, e, refused, some, bf, bt, mf, mt, clr

LEMMA OneCop ==
  ASSUME NEW f, D!Coded(D!COFUN, f) # {}
  PROVE  LET n == CHOOSE m \in D!Coded(D!COFUN, f) : TRUE
         IN  /\ f \in {16, 32, 1, 2, 6, 8} /\ n # "illegal"
             /\ f = 16 => n = "rfe"
             /\ f = 32 => n = "wait"
             /\ f \in {1, 2, 6, 8} => n = D!cp0IName[f]
<1>1. PICK n : n = CHOOSE m \in D!Coded(D!COFUN, f) : TRUE
  OBVIOUS
<1>2. n \in DOMAIN D!COFUN /\ D!COFUN[n] = f
  BY <1>1 DEF D!Coded
<1>3. \/ n = "rfe" /\ f = 16
      \/ n = "wait" /\ f = 32
      \/ f \in {1, 2, 6, 8} /\ D!cp0IName[f] = n /\ n # "illegal"
  BY <1>2, CopNames
<1>4. /\ f \in {16, 32, 1, 2, 6, 8} /\ n # "illegal"
      /\ f = 16 => n = "rfe"
      /\ f = 32 => n = "wait"
      /\ f \in {1, 2, 6, 8} => n = D!cp0IName[f]
  BY <1>3
<1>5. QED
  BY <1>1, <1>4

LEMMA CopDecoded ==
  ASSUME NEW i \in Encoding, NEW p, NEW q
  PROVE  /\ usable => Agree(i, p, D!strCopInstr(i), D!execCopInstr(i, q))
         /\ Sound(D!execCopInstr(i, q))
<1> DEFINE moves == D!ValidCP0Reg(i.rd) /\ i.shamt = 0 /\ i.funct = 0
           t == D!strCopInstr(i)
           e == D!execCopInstr(i, q)
<1>0. \A n, args, w, r, e1 :
        n # "illegal" /\ Shape(e1, n, args, w, r, "none") /\ (w # 0 => r) => Agree(i, p, D!Text(n, args), e1) /\ Sound(e1)
  BY DoneNormally
<1>1. CASE i.op # 16 \/ ~ usable
  <2>1. e = D!SignalExc("CPU")
    BY <1>1, CopDone
  <2>2. usable => t = D!Illegal
    BY <1>1, CopShown
  <2>3. QED
    BY <2>1, <2>2, Refused
<1>2. CASE i.op = 16 /\ usable /\ i.rs \notin {0, 4, 8, 16}
  <2>1. e = D!SignalExc("CPU") /\ t = D!Illegal
    BY <1>2, CopDone, CopShown
  <2>2. QED
    BY <2>1, Refused
<1>3. CASE i.op = 16 /\ usable /\ i.rs = 16
  <2> DEFINE n == CHOOSE m \in D!Coded(D!COFUN, i.funct) : TRUE
  <2>1. CASE i.rt # 0 \/ i.rd # 0 \/ i.shamt # 0 \/ D!Coded(D!COFUN, i.funct) = {}
    <3>1. e = D!SignalExc("CPU")
      BY <1>3, <2>1, CopDone
    <3>2. D!Coded(D!COFUN, i.funct) = {} => i.funct \notin {16, 32, 1, 2, 6, 8}
      BY CopNames
    <3>3. t = D!Illegal
      BY <1>3, <2>1, <3>2, CopShown
    <3>4. QED
      BY <3>1, <3>3, Refused
  <2>2. CASE i.rt = 0 /\ i.rd = 0 /\ i.shamt = 0 /\ D!Coded(D!COFUN, i.funct) # {}
    <3>1. e = D!Effect(n, <<>>)
      BY <1>3, <2>2, CopDone
    <3>2. /\ i.funct \in {16, 32, 1, 2, 6, 8} /\ n # "illegal"
          /\ i.funct = 16 => n = "rfe"
          /\ i.funct = 32 => n = "wait"
          /\ i.funct \in {1, 2, 6, 8} => n = D!cp0IName[i.funct]
      BY <2>2, OneCop
    <3>3. /\ i.funct = 16 => t = D!Text("rfe", <<>>)
          /\ i.funct = 32 => t = D!Text("wait", <<>>)
          /\ i.funct \in {1, 2, 6, 8} => t = D!Text(D!cp0IName[i.funct], <<>>)
      BY <1>3, <2>2, CopShown
    <3> HIDE DEF n, t, e
    <3>4. t = D!Text(n, <<>>)
      BY <3>2, <3>3
    <3>5. Shape(e, n, <<>>, 0, FALSE, "none")
      BY <3>1, Shapes
    <3>6. QED
      BY <1>0, <3>2, <3>4, <3>5 DEF t, e
  <2>3. QED
    BY <2>1, <2>2
<1>4. CASE i.op = 16 /\ usable /\ i.rs = 8
  <2>1. PICK args : args = <<D!SignExtImm(i)>>
    OBVIOUS
  <2>2. t = IF i.rt \in {0, 1} THEN D!Text(<<"bc0f", "bc0t">>[i.rt + 1], args) ELSE D!Illegal
    BY <1>4, <2>1, CopShown
  <2>3. /\ i.rt = 0 => e = D!Branch(D!Effect("bc0f", args), q + D!SignExtImm(i))
        /\ i.rt = 1 => e = D!Effect("bc0t", args)
        /\ i.rt \notin {0, 1} => e = D!SignalExc("CPU")
    BY <1>4, <2>1, CopDone
  <2> HIDE DEF t, e
  <2>4. CASE i.rt = 0
    <3>1. <<"bc0f", "bc0t">>[i.rt + 1] = "bc0f"
      BY <2>4
    <3>2. t = D!Text("bc0f", args)
      BY <2>2, <2>4, <3>1
    <3>3. Shape(e, "bc0f", args, 0, FALSE, "none")
      BY <2>3, <2>4, Branches
    <3>4. QED
      BY <1>0, <3>2, <3>3 DEF t, e
  <2>5. CASE i.rt = 1
    <3>1. <<"bc0f", "bc0t">>[i.rt + 1] = "bc0t"
      BY <2>5
    <3>2. t = D!Text("bc0t", args)
      BY <2>2, <2>5, <3>1
    <3>3. Shape(e, "bc0t", args, 0, FALSE, "none")
      <4>1. e = D!Effect("bc0t", args)
        BY <2>3, <2>5
      <4>2. QED
        BY <4>1, Shapes
    <3>4. QED
      BY <1>0, <3>2, <3>3 DEF t, e
  <2>6. CASE i.rt \notin {0, 1}
    BY <2>2, <2>3, <2>6, Refused DEF t, e
  <2>7. QED
    BY <2>4, <2>5, <2>6
<1>5. CASE i.op = 16 /\ usable /\ i.rs \in {0, 4} /\ moves
  <2>1. PICK args : args = <<i.rt, D!CP0Index[i.rd]>>
    OBVIOUS
  <2>2. t = D!Text(D!cp0IName[i.rs], args)
    BY <1>5, <2>1, CopShown
  <2>3. CASE i.rs = 0
    <3>1. e = D!Result(D!Effect("mfc0", args), i.rt)
      BY <1>5, <2>1, <2>3, CopDone
    <3>2. t = D!Text("mfc0", args)
      BY <2>2, <2>3, CopNames
    <3>3. Shape(e, "mfc0", args, i.rt, TRUE, "none")
      BY <3>1, Shapes
    <3> HIDE DEF t, e
    <3>4. QED
      BY <1>0, <3>2, <3>3 DEF t, e
  <2>4. CASE i.rs = 4
    <3>1. e = D!Effect("mtc0", args)
      BY <1>5, <2>1, <2>4, CopDone
    <3>2. t = D!Text("mtc0", args)
      BY <2>2, <2>4, CopNames
    <3>3. Shape(e, "mtc0", args, 0, FALSE, "none")
      BY <3>1, Shapes
    <3> HIDE DEF t, e
    <3>4. QED
      BY <1>0, <3>2, <3>3 DEF t, e
  <2>5. QED
    BY <1>5, <2>3, <2>4
<1>6. CASE i.op = 16 /\ usable /\ i.rs = 0 /\ ~ moves
  <2>1. e = D!SignalExc("CPU") /\ t = D!Illegal
    BY <1>6, CopDone, CopShown
  <2>2. QED
    BY <2>1, Refused
<1>7. CASE i.op = 16 /\ usable /\ i.rs = 4 /\ ~ moves
  <2>1. CASE i.rd = 4 /\ i.shamt = 0 /\ i.funct = 0
    <3>1. e = D!Effect("tlbclr", <<>>) /\ t = D!Text("tlbclr", <<>>)
      BY <1>7, <2>1, CopDone, CopShown
    <3>2. Shape(e, "tlbclr", <<>>, 0, FALSE, "none")
      BY <3>1, Shapes
    <3> HIDE DEF e, t
    <3>3. QED
      BY <1>0, <3>1, <3>2 DEF e, t
  <2>2. CASE i.rd = 4 /\ ~ (i.shamt = 0 /\ i.funct = 0)
    <3>1. e = D!SignalExc("CPU") /\ t = D!Text("tlbclr", <<>>)
      BY <1>7, <2>2, CopDone, CopShown
    <3>2. t.name = "tlbclr" /\ Sound(e)
      BY <3>1, Texts, Refused
    <3>3. QED
      BY <2>2, <3>2 DEF Agree
  <2>3. CASE i.rd # 4
    <3>1. e = D!SignalExc("CPU") /\ t = D!Illegal
      BY <1>7, <2>3, CopDone, CopShown
    <3>2. QED
      BY <3>1, Refused
  <2>4. QED
    BY <2>1, <2>2, <2>3
<1>8. QED
  BY <1>1, <1>2, <1>3, <1>4, <1>5, <1>6, <1>7

(* Whatever the fields of an instruction and wherever it stands, the code  *)
(* view shows what the processor does, but for the three exempt cases, and *)
(* no register receives a result that was not computed.                    *)
THEOREM DecodersAgree ==
  ASSUME NEW i \in Encoding, NEW p \in 0..127
  PROVE  /\ usable => Agree(i, p, D!disassemble(i, p), D!execInstr(i, p))
         /\ Sound(D!execInstr(i, p))
<1>1. D!OP.beq = 4 /\ D!OP.bne = 5 /\ D!OP.j = 2 /\ D!OP.jal = 3
  BY Opcodes
<1>2. i.op \notin 1..7 => D!disassemble(i, p) = D!StrInstr(i)
  BY <1>1 DEF D!disassemble
<1> DEFINE ty == D!OpType(i)
           n == CHOOSE m \in D!Coded(D!OP, i.op) : TRUE
           loads == IF D!Coded(D!OP, i.op) = {} THEN D!SignalExc("RI")
                    ELSE D!Result(D!Effect(n, <<i.rt, D!SignExtImm(i), i.rs>>), i.rt)
           stores == IF D!Coded(D!OP, i.op) = {} THEN D!SignalExc("RI")
                     ELSE D!Effect(n, <<i.rt, D!SignExtImm(i), i.rs>>)
           cop == D!SignalExc(IF D!DWCOP(i) THEN "RI" ELSE "CPU")
<1>3. D!execInstr(i, p) =
        CASE ty = "reg"    -> D!execRegInstr(i)
          [] ty = "imm"    -> D!execImmInstr(i)
          [] ty = "branch" -> D!execBranchInstr(i, p + 1)
          [] ty = "cop"    -> D!execCopInstr(i, p + 1)
          [] ty = "load"   -> loads
          [] ty = "store"  -> stores
          [] ty \in {"loadcop", "storecop"} -> cop
          [] ty = "unknown" -> D!SignalExc("RI")
  BY DEF D!execInstr
<1>4. D!StrInstr(i) =
        CASE ty = "reg"    -> D!strRegInstr(i)
          [] ty = "imm"    -> D!strImmInstr(i)
          [] ty = "branch" -> D!strBranchInstr(i)
          [] ty \in {"load", "store"} -> D!strLSInstr(i)
          [] ty \in {"cop", "loadcop", "storecop"} -> D!strCopInstr(i)
          [] ty = "unknown" -> D!Illegal
  BY DEF D!StrInstr
<1>5. Agree(i, p, D!strLSInstr(i), loads) /\ Sound(loads) /\ Agree(i, p, D!strLSInstr(i), stores) /\ Sound(stores)
  BY LSDecoded
<1>6. Agree(i, p, D!Illegal, cop) /\ Sound(cop)
  <2>1. CASE D!DWCOP(i)
    BY <2>1, Refused
  <2>2. CASE ~ D!DWCOP(i)
    BY <2>2, Refused
  <2>3. QED
    BY <2>1, <2>2
<1> HIDE DEF ty, loads, stores, cop
<1>7. CASE i.op = 0
  <2>1. ty = "reg"
    BY <1>7, OpTypes DEF ty
  <2>2. D!execInstr(i, p) = D!execRegInstr(i) /\ D!disassemble(i, p) = D!strRegInstr(i)
    BY <1>2, <1>3, <1>4, <1>7, <2>1
  <2>3. QED
    BY <2>2, RegDecoded
<1>8. CASE i.op \in 1..7
  <2>1. ty = "branch"
    BY <1>8, OpTypes DEF ty
  <2>2. D!execInstr(i, p) = D!execBranchInstr(i, p + 1)
    BY <1>3, <2>1
  <2>3. QED
    BY <1>8, <2>2, BranchDecoded
<1>9. CASE i.op \in 8..15
  <2>1. ty = "imm" /\ i.op \notin 1..7
    BY <1>9, OpTypes DEF ty
  <2>2. D!execInstr(i, p) = D!execImmInstr(i) /\ D!disassemble(i, p) = D!strImmInstr(i)
    BY <1>2, <1>3, <1>4, <2>1
  <2>3. QED
    BY <1>9, <2>2, ImmDecoded
<1>10. CASE i.op \in 16..23
  <2>1. ty = "cop" /\ i.op \notin 1..7
    BY <1>10, OpTypes DEF ty
  <2>2. D!execInstr(i, p) = D!execCopInstr(i, p + 1) /\ D!disassemble(i, p) = D!strCopInstr(i)
    BY <1>2, <1>3, <1>4, <2>1
  <2>3. QED
    BY <2>2, CopDecoded
<1>11. CASE i.op \in 24..31
  <2>1. ty = "unknown" /\ i.op \notin 1..7
    BY <1>11, OpTypes DEF ty
  <2>2. D!execInstr(i, p) = D!SignalExc("RI") /\ D!disassemble(i, p) = D!Illegal
    BY <1>2, <1>3, <1>4, <2>1
  <2>3. QED
    BY <2>2, Refused
<1>12. CASE i.op \in 32..39
  <2>1. ty = "load" /\ i.op \notin 1..7
    BY <1>12, OpTypes DEF ty
  <2>2. D!execInstr(i, p) = loads /\ D!disassemble(i, p) = D!strLSInstr(i)
    BY <1>2, <1>3, <1>4, <2>1
  <2>3. QED
    BY <1>5, <2>2
<1>13. CASE i.op \in 40..47
  <2>1. ty = "store" /\ i.op \notin 1..7
    BY <1>13, OpTypes DEF ty
  <2>2. D!execInstr(i, p) = stores /\ D!disassemble(i, p) = D!strLSInstr(i)
    BY <1>2, <1>3, <1>4, <2>1
  <2>3. QED
    BY <1>5, <2>2
<1>14. CASE i.op \in 48..63
  <2>1. ty \in {"loadcop", "storecop"} /\ i.op \notin 1..7 /\ i.op # 16
    BY <1>14, OpTypes DEF ty
  <2>2. D!execInstr(i, p) = cop /\ D!disassemble(i, p) = D!strCopInstr(i)
    BY <1>2, <1>3, <1>4, <2>1
  <2>3. D!strCopInstr(i) = D!Illegal
    BY <2>1, CopShown
  <2>4. QED
    BY <1>6, <2>2, <2>3
<1>15. i.op \in 0..63
  BY DEF Encoding
<1>16. QED
  BY <1>7, <1>8, <1>9, <1>10, <1>11, <1>12, <1>13, <1>14, <1>15

(* What is shown is what the disassembler makes of the instruction, and    *)
(* what is done agrees with it.                                            *)
DecInv ==
  /\ instr \in Encoding /\ pc \in 0..127
  /\ text = D!Nothing \/ text = D!disassemble(instr, pc)
  /\ \/ effect = D!None
     \/ Sound(effect) /\ (usable => Agree(instr, pc, D!disassemble(instr, pc), effect))

LEMMA InitDecoder == D!Init => DecInv
<1>1. Instruction \subseteq Encoding
  BY DEF Instruction, Fields, Encoding
<1>2. QED
  BY <1>1 DEF D!Init, DecInv

LEMMA NextDecoder == DecInv /\ [D!Next]_D!vars => DecInv'
<1> SUFFICES ASSUME DecInv, [D!Next]_D!vars
             PROVE  DecInv'
  OBVIOUS
<1>1. CASE D!Show
  BY <1>1 DEF D!Show, DecInv
<1>2. CASE D!Execute
  <2>1. Sound(effect') /\ (usable => Agree(instr, pc, D!disassemble(instr, pc), effect'))
    BY <1>2, DecodersAgree DEF D!Execute, DecInv
  <2>2. QED
    BY <1>2, <2>1 DEF D!Execute, DecInv
<1>3. CASE D!Repeat
  BY <1>3 DEF D!Repeat, DecInv
<1>4. CASE UNCHANGED D!vars
  BY <1>4 DEF D!vars, DecInv
<1>5. QED
  BY <1>1, <1>2, <1>3, <1>4 DEF D!Next

LEMMA DecoderMeans == DecInv => D!ShownAsExecuted /\ D!NoJunkWritten
<1> SUFFICES ASSUME DecInv
             PROVE  D!ShownAsExecuted /\ D!NoJunkWritten
  OBVIOUS
<1>1. D!ShownAsExecuted
  <2> SUFFICES ASSUME text # D!Nothing, effect # D!None, usable
               PROVE  Agree(instr, pc, text, effect)
    BY DEF D!ShownAsExecuted, Agree
  <2>1. QED
    BY DEF DecInv
<1>2. D!None.writes = 0
  BY Effects DEF D!None
<1>3. D!NoJunkWritten
  BY <1>2 DEF D!NoJunkWritten, DecInv, Sound
<1>4. QED
  BY <1>1, <1>3

LEMMA InitDecoded == MCInit => (active = "decoder" => DecInv)
  BY InitDecoder DEF MCInit

LEMMA NextDecoded == (active = "decoder" => DecInv) /\ [MCNext]_allVars => (active = "decoder" => DecInv)'
<1> SUFFICES ASSUME active = "decoder" => DecInv, [MCNext]_allVars, active' = "decoder"
             PROVE  DecInv'
  OBVIOUS
<1>1. active = "decoder"
  BY DEF MCNext, allVars
<1>2. D!Next \/ UNCHANGED dVars
  BY <1>1 DEF MCNext, allVars
<1>3. [D!Next]_D!vars
  BY <1>2 DEF dVars, D!vars
<1>4. QED
  BY <1>1, <1>3, NextDecoder

(* At every step of the decoder, what StrInstr and the code view showed of *)
(* the instruction is what execInstr did with it in a mode that may use    *)
(* coprocessor 0, and a register that received a result received one that  *)
(* was computed.                                                           *)
THEOREM InstructionsAreShown == MCSpec => []ShownAsExecuted
<1>1. (active = "decoder" => DecInv) => ShownAsExecuted
  BY DecoderMeans DEF ShownAsExecuted
<1>2. QED
  BY <1>1, InitDecoded, NextDecoded, PTL DEF MCSpec, allVars
==============================================================================
