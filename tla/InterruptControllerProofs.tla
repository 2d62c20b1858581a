----------------------- MODULE InterruptControllerProofs -----------------------
(***************************************************************************)
(* Proofs about InterruptController, for every number of cores, every set  *)
(* of sources and any number of messages in flight.                        *)
(***************************************************************************)
EXTENDS InterruptController, TLAPS

(* The inductive invariant: it is its own strengthening, because each      *)
(* conjunct needs the others.  TargetPending is preserved by EndIRQ of     *)
(* another source only because the bitmap and the mask agree.              *)
IInv == /\ TypeOK
        /\ MaskMatchesState
        /\ TargetPending
        /\ NoPhantomIRQ
        /\ OnePerOrigin

(* The line of a source is never the one of inter-processor interrupts,    *)
(* and a line that is not shared has one source.                           *)
LEMMA SourceFacts ==
  /\ \A s \in Source : Line(s) # IL_IPI /\ Line(s) \in Lines
  /\ \A s, o \in Source : Line(s) = Line(o) /\ ~Shared(Line(s)) => s = o
  /\ ~Shared(IL_IPI) /\ IL_IPI \in Lines
<1>1. \A s \in Source : s = <<2, 0>> \/ (s[1] \in 3..7 /\ s = <<s[1], s[2]>>)
  BY SourceAssumption DEF IL_TIMER, SharedILBase
<1>2. QED
  BY <1>1 DEF Line, Lines, Shared, IL_IPI, SharedILBase

LEMMA InitIInv == Init => IInv
<1> SUFFICES ASSUME Init
             PROVE  IInv
  OBVIOUS
<1>1. [policy |-> "fixed", dest |-> {0}] \in Route
  BY NAssumption DEF Route, Cpu
<1>2. 0 \in Cpu /\ 15 \in Prio
  BY NAssumption, PrioAssumption DEF Cpu
<1>3. <<>> \in Seq(IpiMessage) /\ <<>> \in Seq(Outbox)
  OBVIOUS
<1>4. TypeOK
  BY <1>1, <1>2, <1>3 DEF Init, TypeOK
<1>5. TargetPending
  BY NoneAssumption DEF Init, TargetPending, Cpu
<1>6. MaskMatchesState /\ NoPhantomIRQ /\ OnePerOrigin
  BY DEF Init, MaskMatchesState, NoPhantomIRQ, OnePerOrigin
<1>7. QED
  BY <1>4, <1>5, <1>6 DEF IInv

-----------------------------------------------------------------------------

LEMMA StartIRQIInv ==
  ASSUME IInv, NEW s \in Source, StartIRQ(s)
  PROVE  IInv'
<1> USE DEF IInv
<1>0. UNCHANGED <<route, taskPriority, ipiInbox, flight>>
  BY DEF StartIRQ
<1>1. CASE UNCHANGED <<lastTarget, arbiter, ipMask, idb, cause, leftAt>>
  BY <1>0, <1>1 DEF TypeOK, MaskMatchesState, TargetPending, NoPhantomIRQ, OnePerOrigin
<1>2. ASSUME NEW t \in Cpu, Deliver(s, t)
      PROVE  IInv'
  <2>1. /\ lastTarget' = [lastTarget EXCEPT ![s] = t]
        /\ ipMask' = [ipMask EXCEPT ![t] = @ \cup {Line(s)}]
        /\ idb' = IF Shared(Line(s)) THEN [idb EXCEPT ![t] = @ \cup {s}] ELSE idb
        /\ cause' = [cause EXCEPT ![t] = @ \cup {Line(s)}]
        /\ leftAt' = [leftAt EXCEPT ![s] = (@ \cup ({lastTarget[s]} \cap Cpu)) \ {t}]
    BY <1>2 DEF Deliver, AssertIRQ, Leaves
  <2>2. arbiter' \in Cpu
    <3>1. (t + 1) % N \in Cpu
      BY NAssumption DEF Cpu
    <3>2. QED
      BY <1>2, <3>1 DEF Deliver, TypeOK
  <2>3. TypeOK'
    BY <1>0, <2>1, <2>2, SourceFacts DEF TypeOK
  <2>4. MaskMatchesState'
    BY <1>0, <2>1, SourceFacts DEF TypeOK, MaskMatchesState
  <2>5. TargetPending'
    BY <1>0, <2>1, SourceFacts DEF TypeOK, TargetPending
  <2>6. NoPhantomIRQ' /\ OnePerOrigin'
    BY <1>0, <2>1 DEF TypeOK, NoPhantomIRQ, OnePerOrigin
  <2>7. QED
    BY <2>3, <2>4, <2>5, <2>6
<1>3. QED
  BY <1>1, <1>2 DEF StartIRQ

LEMMA EndIRQIInv ==
  ASSUME IInv, NEW s \in Source, EndIRQ(s)
  PROVE  IInv'
<1> USE DEF IInv
<1>0. UNCHANGED <<route, arbiter, taskPriority, ipiInbox, flight, leftAt>>
  BY DEF EndIRQ
<1>1. CASE UNCHANGED <<lastTarget, ipMask, idb, cause>>
  BY <1>0, <1>1 DEF TypeOK, MaskMatchesState, TargetPending, NoPhantomIRQ, OnePerOrigin
<1>2. ASSUME NEW t \in Cpu, lastTarget[s] = t,
             idb' = IF Shared(Line(s)) THEN [idb EXCEPT ![t] = @ \ {s}] ELSE idb,
             IF Shared(Line(s)) /\ OthersPending(s, t) # {}
             THEN UNCHANGED <<ipMask, cause>>
             ELSE /\ ipMask' = [ipMask EXCEPT ![t] = @ \ {Line(s)}]
                  /\ DeassertIRQ(Line(s), t),
             lastTarget' = [lastTarget EXCEPT ![s] = None]
      PROVE  IInv'
  <2>1. CASE Shared(Line(s)) /\ OthersPending(s, t) # {}
    <3>1. UNCHANGED <<ipMask, cause>> /\ idb' = [idb EXCEPT ![t] = @ \ {s}]
      BY <1>2, <2>1
    <3>2. TypeOK'
      BY <1>0, <1>2, <3>1 DEF TypeOK
    <3>3. MaskMatchesState'
      BY <1>0, <1>2, <2>1, <3>1 DEF TypeOK, MaskMatchesState, OthersPending
    <3>4. TargetPending'
      BY <1>0, <1>2, <3>1, NoneAssumption DEF TypeOK, TargetPending, Cpu
    <3>5. NoPhantomIRQ' /\ OnePerOrigin'
      BY <1>0, <3>1 DEF NoPhantomIRQ, OnePerOrigin
    <3>6. QED
      BY <3>2, <3>3, <3>4, <3>5
  <2>2. CASE ~(Shared(Line(s)) /\ OthersPending(s, t) # {})
    <3>1. /\ ipMask' = [ipMask EXCEPT ![t] = @ \ {Line(s)}]
          /\ cause' = [cause EXCEPT ![t] = @ \ {Line(s)}]
      BY <1>2, <2>2 DEF DeassertIRQ
    <3>2. TypeOK'
      BY <1>0, <1>2, <3>1 DEF TypeOK
    <3>3. MaskMatchesState'
      BY <1>0, <1>2, <2>2, <3>1, SourceFacts DEF TypeOK, MaskMatchesState, OthersPending
    <3>4. TargetPending'
      <4> SUFFICES ASSUME NEW o \in Source, NEW c \in Cpu, lastTarget'[o] = c
                   PROVE  /\ Line(o) \in ipMask'[c]
                          /\ Shared(Line(o)) => o \in idb'[c]
        BY DEF TargetPending
      <4>1. o # s /\ lastTarget[o] = c
        BY <1>2, NoneAssumption DEF TypeOK, Cpu
      <4>2. Line(o) \in ipMask[c] /\ (Shared(Line(o)) => o \in idb[c])
        BY <4>1 DEF TargetPending
      <4>3. c = t => Line(o) # Line(s)
        BY <2>2, <4>1, <4>2, SourceFacts DEF OthersPending
      <4>4. QED
        BY <1>2, <3>1, <4>1, <4>2, <4>3 DEF TypeOK
    <3>5. NoPhantomIRQ' /\ OnePerOrigin'
      BY <1>0, <3>1 DEF TypeOK, NoPhantomIRQ, OnePerOrigin
    <3>6. QED
      BY <3>2, <3>3, <3>4, <3>5
  <2>3. QED
    BY <2>1, <2>2
<1>3. QED
  BY <1>1, <1>2 DEF EndIRQ

LEMMA DeliverIPIIInv ==
  ASSUME IInv, NEW o \in Cpu, deliverIPI(o)
  PROVE  IInv'
<1> USE DEF IInv
<1> DEFINE m == [origin |-> o, msg |-> Head(flight[o]).msg]
           got == {c \in Head(flight[o]).recipients : HasSlot(c, o)}
<1>1. /\ ipiInbox' = [c \in Cpu |-> IF c \in got THEN Append(ipiInbox[c], m) ELSE ipiInbox[c]]
      /\ ipMask' = [c \in Cpu |-> IF c \in got THEN ipMask[c] \cup {IL_IPI} ELSE ipMask[c]]
      /\ cause' = [c \in Cpu |-> IF c \in got THEN cause[c] \cup {IL_IPI} ELSE cause[c]]
      /\ flight' = [flight EXCEPT ![o] = Tail(@)]
      /\ UNCHANGED <<route, lastTarget, arbiter, taskPriority, idb, leftAt>>
  BY DEF deliverIPI
<1>2. Head(flight[o]) \in Outbox /\ Tail(flight[o]) \in Seq(Outbox)
  BY DEF deliverIPI, TypeOK
<1>3. m \in IpiMessage /\ m.origin = o
  BY <1>2 DEF IpiMessage, Outbox
<1>4. TypeOK'
  <2>1. ipiInbox' \in [Cpu -> Seq(IpiMessage)]
    BY <1>1, <1>3 DEF TypeOK
  <2>2. flight' \in [Cpu -> Seq(Outbox)]
    BY <1>1, <1>2 DEF TypeOK
  <2>3. QED
    BY <1>1, <2>1, <2>2, SourceFacts DEF TypeOK
<1>5. MaskMatchesState'
  <2> SUFFICES ASSUME NEW c \in Cpu
               PROVE  /\ IL_IPI \in ipMask'[c] <=> ipiInbox'[c] # <<>>
                      /\ \A l \in Lines : Shared(l) => (l \in ipMask'[c] <=> \E s \in idb[c] : Line(s) = l)
    BY <1>1 DEF MaskMatchesState
  <2>1. CASE c \in got
    <3>1. Append(ipiInbox[c], m) # <<>>
      <4>1. ipiInbox[c] \in Seq(IpiMessage)
        BY DEF TypeOK
      <4>2. Len(Append(ipiInbox[c], m)) = Len(ipiInbox[c]) + 1
        BY <1>3, <4>1
      <4>3. QED
        BY <4>1, <4>2
    <3>2. ipiInbox'[c] # <<>> /\ ipMask'[c] = ipMask[c] \cup {IL_IPI}
      BY <1>1, <2>1, <3>1
    <3>3. QED
      BY <3>2, SourceFacts DEF MaskMatchesState
  <2>2. CASE c \notin got
    BY <1>1, <2>2 DEF MaskMatchesState
  <2>3. QED
    BY <2>1, <2>2
<1>6. TargetPending'
  BY <1>1 DEF TypeOK, TargetPending
<1>7. NoPhantomIRQ'
  BY <1>1 DEF NoPhantomIRQ
<1>8. OnePerOrigin'
  <2> SUFFICES ASSUME NEW c \in Cpu,
                      NEW i \in DOMAIN ipiInbox'[c], NEW j \in DOMAIN ipiInbox'[c],
                      ipiInbox'[c][i].origin = ipiInbox'[c][j].origin
               PROVE  i = j
    BY DEF OnePerOrigin
  <2>1. CASE c \in got
    <3> DEFINE q == ipiInbox[c]
    <3>1. ipiInbox'[c] = Append(q, m) /\ q \in Seq(IpiMessage)
      BY <1>1, <2>1 DEF TypeOK
    <3>2. /\ Len(q) \in Nat
          /\ DOMAIN q = 1..Len(q)
          /\ DOMAIN ipiInbox'[c] = 1..Len(q)+1
          /\ \A k \in 1..Len(q) : ipiInbox'[c][k] = q[k]
          /\ ipiInbox'[c][Len(q)+1] = m
      <4> HIDE DEF q, m
      <4> QED
        BY <1>3, <3>1
    <3>3. \A k \in 1..Len(q) : q[k].origin # o
      <4>1. HasSlot(c, o)
        BY <2>1
      <4>2. QED
        BY <3>2, <4>1 DEF HasSlot
    <3>4. \A k, l \in 1..Len(q) : q[k].origin = q[l].origin => k = l
      <4>1. \A k, l \in DOMAIN q : q[k].origin = q[l].origin => k = l
        BY DEF OnePerOrigin
      <4>2. DOMAIN q = 1..Len(q)
        BY <3>2
      <4>3. QED
        BY <4>1, <4>2
    <3>5. CASE i \in 1..Len(q) /\ j \in 1..Len(q)
      BY <3>2, <3>4, <3>5
    <3>6. CASE i \in 1..Len(q) /\ j = Len(q)+1
      BY <1>3, <3>2, <3>3, <3>6
    <3>7. CASE i = Len(q)+1 /\ j \in 1..Len(q)
      BY <1>3, <3>2, <3>3, <3>7
    <3>8. QED
      BY <3>2, <3>5, <3>6, <3>7
  <2>2. CASE c \notin got
    BY <1>1, <2>2 DEF OnePerOrigin
  <2>3. QED
    BY <2>1, <2>2
<1>9. QED
  BY <1>4, <1>5, <1>6, <1>7, <1>8

LEMMA WriteInboxIInv ==
  ASSUME IInv, NEW c \in Cpu, WriteInbox(c)
  PROVE  IInv'
<1> USE DEF IInv
<1> DEFINE q == ipiInbox[c]
<1>1. /\ q # <<>>
      /\ ipiInbox' = [ipiInbox EXCEPT ![c] = Tail(q)]
      /\ UNCHANGED <<route, lastTarget, arbiter, taskPriority, idb, flight, leftAt>>
  BY DEF WriteInbox
<1>2. /\ q \in Seq(IpiMessage) /\ Tail(q) \in Seq(IpiMessage)
      /\ Len(q) \in Nat /\ DOMAIN q = 1..Len(q) /\ DOMAIN Tail(q) = 1..(Len(q) - 1)
      /\ \A k \in 1..(Len(q) - 1) : Tail(q)[k] = q[k+1]
  BY <1>1 DEF TypeOK
<1>3. OnePerOrigin'
  <2> SUFFICES ASSUME NEW d \in Cpu,
                      NEW i \in DOMAIN ipiInbox'[d], NEW j \in DOMAIN ipiInbox'[d],
                      ipiInbox'[d][i].origin = ipiInbox'[d][j].origin
               PROVE  i = j
    BY DEF OnePerOrigin
  <2>1. CASE d = c
    <3>1. ipiInbox'[d] = Tail(q)
      BY <1>1, <2>1 DEF TypeOK
    <3>2. i+1 \in DOMAIN q /\ j+1 \in DOMAIN q /\ q[i+1].origin = q[j+1].origin
      BY <1>2, <3>1
    <3>3. i+1 = j+1
      BY <3>2 DEF OnePerOrigin
    <3>4. QED
      BY <1>2, <3>1, <3>3
  <2>2. CASE d # c
    BY <1>1, <2>2 DEF TypeOK, OnePerOrigin
  <2>3. QED
    BY <2>1, <2>2
<1>4. CASE Tail(q) = <<>>
  <2>1. /\ ipMask' = [ipMask EXCEPT ![c] = @ \ {IL_IPI}]
        /\ cause' = [cause EXCEPT ![c] = @ \ {IL_IPI}]
    BY <1>4 DEF WriteInbox, DeassertIRQ
  <2>2. TypeOK'
    BY <1>1, <1>2, <2>1 DEF TypeOK
  <2>3. MaskMatchesState'
    BY <1>1, <1>4, <2>1, SourceFacts DEF TypeOK, MaskMatchesState
  <2>4. TargetPending' /\ NoPhantomIRQ'
    BY <1>1, <2>1, SourceFacts DEF TypeOK, TargetPending, NoPhantomIRQ
  <2>5. QED
    BY <1>3, <2>2, <2>3, <2>4
<1>5. CASE Tail(q) # <<>>
  <2>1. UNCHANGED <<ipMask, cause>>
    BY <1>5 DEF WriteInbox
  <2>2. TypeOK'
    BY <1>1, <1>2, <2>1 DEF TypeOK
  <2>3. MaskMatchesState'
    BY <1>1, <1>5, <2>1 DEF TypeOK, MaskMatchesState
  <2>4. TargetPending' /\ NoPhantomIRQ'
    BY <1>1, <2>1 DEF TargetPending, NoPhantomIRQ
  <2>5. QED
    BY <1>3, <2>2, <2>3, <2>4
<1>6. QED
  BY <1>4, <1>5

(* The guest's writes that only touch the routing table, a priority or     *)
(* post a message, and the reset of a core.                                *)
LEMMA RegisterIInv ==
  ASSUME IInv,
         \/ \E s \in Source : WriteIRT(s)
         \/ \E c \in Cpu : WriteTPR(c) \/ WriteOutbox(c) \/ ResetCpu(c)
  PROVE  IInv'
<1> USE DEF IInv
<1>1. ASSUME NEW s \in Source, WriteIRT(s)
      PROVE  IInv'
  BY <1>1 DEF WriteIRT, TypeOK, MaskMatchesState, TargetPending, NoPhantomIRQ, OnePerOrigin
<1>2. ASSUME NEW c \in Cpu, WriteTPR(c)
      PROVE  IInv'
  BY <1>2 DEF WriteTPR, TypeOK, MaskMatchesState, TargetPending, NoPhantomIRQ, OnePerOrigin
<1>3. ASSUME NEW c \in Cpu, WriteOutbox(c)
      PROVE  IInv'
  BY <1>3 DEF WriteOutbox, TypeOK, MaskMatchesState, TargetPending, NoPhantomIRQ, OnePerOrigin
<1>4. ASSUME NEW c \in Cpu, ResetCpu(c)
      PROVE  IInv'
  BY <1>4 DEF ResetCpu, TypeOK, MaskMatchesState, TargetPending, NoPhantomIRQ, OnePerOrigin
<1>5. QED
  BY <1>1, <1>2, <1>3, <1>4

LEMMA NextIInv == IInv /\ [Next]_vars => IInv'
<1> SUFFICES ASSUME IInv, [Next]_vars
             PROVE  IInv'
  OBVIOUS
<1>1. CASE UNCHANGED vars
  BY <1>1 DEF vars, IInv, TypeOK, MaskMatchesState, TargetPending, NoPhantomIRQ, OnePerOrigin
<1>2. CASE Next
  BY <1>2, StartIRQIInv, EndIRQIInv, DeliverIPIIInv, WriteInboxIInv, RegisterIInv DEF Next
<1>3. QED
  BY <1>1, <1>2

LEMMA SpecIInv == Spec => []IInv
  BY InitIInv, NextIInv, PTL DEF Spec

(* Type correctness of the controller. *)
THEOREM TypeCorrect == Spec => []TypeOK
<1>1. IInv => TypeOK
  BY DEF IInv
<1>2. QED
  BY <1>1, SpecIInv, PTL

(* The pending mask of a core is exactly what its inbox and its device     *)
(* bitmap justify, under any routing, rerouting and reset.                 *)
THEOREM MaskCoherent == Spec => []MaskMatchesState
<1>1. IInv => MaskMatchesState
  BY DEF IInv
<1>2. QED
  BY <1>1, SpecIInv, PTL

(* An acknowledgement always finds the interrupt it acknowledges.          *)
THEOREM AckFindsTarget == Spec => []TargetPending
<1>1. IInv => TargetPending
  BY DEF IInv
<1>2. QED
  BY <1>1, SpecIInv, PTL

(* No core sees an interrupt that is not pending for it. *)
THEOREM NoPhantom == Spec => []NoPhantomIRQ
<1>1. IInv => NoPhantomIRQ
  BY DEF IInv
<1>2. QED
  BY <1>1, SpecIInv, PTL

(* The inbox of a core never grows beyond one message of each sender.      *)
THEOREM InboxBounded == Spec => []OnePerOrigin
<1>1. IInv => OnePerOrigin
  BY DEF IInv
<1>2. QED
  BY <1>1, SpecIInv, PTL

-----------------------------------------------------------------------------

(* The core that the acknowledgement goes to is not one that was left      *)
(* behind: what is acknowledged there is pending there no more.            *)
TargetNotLeft == \A s \in Source : lastTarget[s] \notin leftAt[s]

(* The interrupt of a source is pending exactly at the core its            *)
(* acknowledgement goes to and at those that a later interrupt of the      *)
(* source left behind (StartIRQ overwrites lastTarget, EndIRQ uses it),    *)
(* whatever is rerouted and whatever other sources do.                     *)
THEOREM AckExact == Spec => []AckReaches
<1>1. Init => AckReaches /\ TargetNotLeft
  BY NoneAssumption DEF Init, AckReaches, PendingAt, TargetNotLeft, Cpu
<1>2. ASSUME IInv, AckReaches, TargetNotLeft, [Next]_vars
      PROVE  AckReaches' /\ TargetNotLeft'
  <2> USE <1>2 DEF IInv
  <2>1. ASSUME NEW s \in Source, StartIRQ(s)
        PROVE  AckReaches' /\ TargetNotLeft'
    <3>1. CASE UNCHANGED <<lastTarget, arbiter, ipMask, idb, cause, leftAt>>
      BY <3>1 DEF AckReaches, PendingAt, TargetNotLeft
    <3>2. ASSUME NEW t \in Cpu, Deliver(s, t)
          PROVE  AckReaches' /\ TargetNotLeft'
      <4>1. /\ lastTarget' = [lastTarget EXCEPT ![s] = t]
            /\ ipMask' = [ipMask EXCEPT ![t] = @ \cup {Line(s)}]
            /\ idb' = IF Shared(Line(s)) THEN [idb EXCEPT ![t] = @ \cup {s}] ELSE idb
            /\ leftAt' = [leftAt EXCEPT ![s] = (@ \cup ({lastTarget[s]} \cap Cpu)) \ {t}]
        BY <3>2 DEF Deliver, Leaves
      <4>2. TargetNotLeft'
        BY <4>1 DEF TypeOK, TargetNotLeft
      <4>3. ASSUME NEW o \in Source, NEW c \in Cpu
            PROVE  PendingAt(o, c)' <=> lastTarget'[o] = c \/ c \in leftAt'[o]
        <5>1. PendingAt(o, c) <=> lastTarget[o] = c \/ c \in leftAt[o]
          BY DEF AckReaches
        <5>2. CASE o = s
          <6>1. PendingAt(s, c)' <=> PendingAt(s, c) \/ c = t
            BY <4>1 DEF TypeOK, PendingAt
          <6>2. QED
            BY <4>1, <5>1, <5>2, <6>1 DEF TypeOK
        <5>3. CASE o # s
          <6>1. PendingAt(o, c)' <=> PendingAt(o, c)
            BY <4>1, <5>3, SourceFacts DEF TypeOK, PendingAt
          <6>2. QED
            BY <4>1, <5>1, <5>3, <6>1 DEF TypeOK
        <5>4. QED
          BY <5>2, <5>3
      <4>4. QED
        BY <4>2, <4>3 DEF AckReaches
    <3>3. QED
      BY <2>1, <3>1, <3>2 DEF StartIRQ
  <2>2. ASSUME NEW s \in Source, EndIRQ(s)
        PROVE  AckReaches' /\ TargetNotLeft'
    <3>0. leftAt' = leftAt
      BY <2>2 DEF EndIRQ
    <3>1. CASE UNCHANGED <<lastTarget, ipMask, idb, cause>>
      BY <3>0, <3>1 DEF AckReaches, PendingAt, TargetNotLeft
    <3>2. ASSUME NEW t \in Cpu, lastTarget[s] = t,
                 idb' = IF Shared(Line(s)) THEN [idb EXCEPT ![t] = @ \ {s}] ELSE idb,
                 IF Shared(Line(s)) /\ OthersPending(s, t) # {}
                 THEN UNCHANGED <<ipMask, cause>>
                 ELSE /\ ipMask' = [ipMask EXCEPT ![t] = @ \ {Line(s)}]
                      /\ DeassertIRQ(Line(s), t),
                 lastTarget' = [lastTarget EXCEPT ![s] = None]
          PROVE  AckReaches' /\ TargetNotLeft'
      <4>1. TargetNotLeft'
        BY <3>0, <3>2, NoneAssumption DEF TypeOK, TargetNotLeft, Cpu
      <4>2. ASSUME NEW o \in Source, NEW c \in Cpu
            PROVE  PendingAt(o, c)' <=> lastTarget'[o] = c \/ c \in leftAt[o]
        <5>1. PendingAt(o, c) <=> lastTarget[o] = c \/ c \in leftAt[o]
          BY DEF AckReaches
        <5>2. CASE o = s
          <6>1. PendingAt(s, c)' <=> PendingAt(s, c) /\ c # t
            BY <3>2 DEF TypeOK, PendingAt
          <6>2. t \notin leftAt[s]
            BY <3>2 DEF TargetNotLeft
          <6>3. lastTarget'[s] # c
            BY <3>2, NoneAssumption DEF TypeOK, Cpu
          <6>4. QED
            BY <3>2, <5>1, <5>2, <6>1, <6>2, <6>3
        <5>3. CASE o # s
          <6>1. PendingAt(o, c)' <=> PendingAt(o, c)
            <7>1. Shared(Line(o)) => idb'[c] \ {s} = idb[c] \ {s}
              BY <3>2 DEF TypeOK
            <7>2. ~Shared(Line(o)) => (Line(o) \in ipMask'[c] <=> Line(o) \in ipMask[c])
              <8>1. ipMask' = ipMask \/ ipMask' = [ipMask EXCEPT ![t] = @ \ {Line(s)}]
                BY <3>2
              <8>2. ~Shared(Line(o)) => Line(o) # Line(s)
                BY <5>3, SourceFacts
              <8>3. ipMask \in [Cpu -> SUBSET Lines]
                BY DEF TypeOK
              <8>4. QED
                BY <8>1, <8>2, <8>3
            <7>3. QED
              BY <5>3, <7>1, <7>2 DEF PendingAt
          <6>2. lastTarget'[o] = lastTarget[o]
            BY <3>2, <5>3 DEF TypeOK
          <6>3. QED
            BY <5>1, <6>1, <6>2
        <5>4. QED
          BY <5>2, <5>3
      <4>3. QED
        BY <3>0, <4>1, <4>2 DEF AckReaches
    <3>3. QED
      BY <2>2, <3>1, <3>2 DEF EndIRQ
  <2>3. CASE \E c \in Cpu : deliverIPI(c) \/ WriteInbox(c)
    <3>1. /\ UNCHANGED <<lastTarget, idb, leftAt>>
          /\ \A c \in Cpu : \A l \in Lines : l # IL_IPI => (l \in ipMask'[c] <=> l \in ipMask[c])
      <4>1. ASSUME NEW o \in Cpu, deliverIPI(o)
            PROVE  /\ UNCHANGED <<lastTarget, idb, leftAt>>
                   /\ \A c \in Cpu : \A l \in Lines : l # IL_IPI => (l \in ipMask'[c] <=> l \in ipMask[c])
        BY <4>1 DEF deliverIPI, TypeOK
      <4>2. ASSUME NEW d \in Cpu, WriteInbox(d)
            PROVE  /\ UNCHANGED <<lastTarget, idb, leftAt>>
                   /\ \A c \in Cpu : \A l \in Lines : l # IL_IPI => (l \in ipMask'[c] <=> l \in ipMask[c])
        BY <4>2 DEF WriteInbox, TypeOK
      <4>3. QED
        BY <2>3, <4>1, <4>2
    <3>2. \A s \in Source : \A c \in Cpu : PendingAt(s, c)' <=> PendingAt(s, c)
      BY <3>1, SourceFacts DEF PendingAt
    <3>3. QED
      BY <3>1, <3>2 DEF AckReaches, TargetNotLeft
  <2>4. CASE \/ \E s \in Source : WriteIRT(s)
             \/ \E c \in Cpu : WriteTPR(c) \/ WriteOutbox(c) \/ ResetCpu(c)
             \/ UNCHANGED vars
    <3>1. UNCHANGED <<lastTarget, ipMask, idb, leftAt>>
      BY <2>4 DEF WriteIRT, WriteTPR, WriteOutbox, ResetCpu, vars
    <3>2. QED
      BY <3>1 DEF AckReaches, PendingAt, TargetNotLeft
  <2>5. QED
    BY <2>1, <2>2, <2>3, <2>4 DEF Next
<1>3. QED
  BY <1>1, <1>2, SpecIInv, PTL DEF Spec

(* The reset of a core is the only step after which a core no longer sees  *)
(* an interrupt that is pending for it.                                    *)
THEOREM OnlyResetLoses == Spec => OnlyResetLosesIRQ
<1>1. ASSUME IInv, [Next]_vars, NEW c \in Cpu,
             ipMask[c] \subseteq cause[c], ~ResetCpu(c)
      PROVE  ipMask'[c] \subseteq cause'[c]
  <2> USE <1>1 DEF IInv
  <2>1. ASSUME NEW s \in Source, StartIRQ(s)
        PROVE  ipMask'[c] \subseteq cause'[c]
    <3>1. CASE UNCHANGED <<ipMask, cause>>
      BY <3>1
    <3>2. ASSUME NEW t \in Cpu,
                 ipMask' = [ipMask EXCEPT ![t] = @ \cup {Line(s)}],
                 cause' = [cause EXCEPT ![t] = @ \cup {Line(s)}]
          PROVE  ipMask'[c] \subseteq cause'[c]
      BY <3>2 DEF TypeOK
    <3>3. QED
      BY <2>1, <3>1, <3>2 DEF StartIRQ, Deliver, AssertIRQ
  <2>2. ASSUME NEW s \in Source, EndIRQ(s)
        PROVE  ipMask'[c] \subseteq cause'[c]
    <3>1. CASE UNCHANGED <<ipMask, cause>>
      BY <3>1
    <3>2. ASSUME NEW t \in Cpu,
                 ipMask' = [ipMask EXCEPT ![t] = @ \ {Line(s)}],
                 cause' = [cause EXCEPT ![t] = @ \ {Line(s)}]
          PROVE  ipMask'[c] \subseteq cause'[c]
      BY <3>2 DEF TypeOK
    <3>3. QED
      BY <2>2, <3>1, <3>2 DEF EndIRQ, DeassertIRQ
  <2>3. ASSUME NEW o \in Cpu, deliverIPI(o)
        PROVE  ipMask'[c] \subseteq cause'[c]
    <3> DEFINE got == {r \in Head(flight[o]).recipients : HasSlot(r, o)}
    <3>1. /\ ipMask' = [r \in Cpu |-> IF r \in got THEN ipMask[r] \cup {IL_IPI} ELSE ipMask[r]]
          /\ cause' = [r \in Cpu |-> IF r \in got THEN cause[r] \cup {IL_IPI} ELSE cause[r]]
      BY <2>3 DEF deliverIPI
    <3>2. QED
      <4> HIDE DEF got
      <4> QED
        BY <3>1
  <2>4. ASSUME NEW d \in Cpu, WriteInbox(d)
        PROVE  ipMask'[c] \subseteq cause'[c]
    <3>1. CASE UNCHANGED <<ipMask, cause>>
      BY <3>1
    <3>2. ASSUME ipMask' = [ipMask EXCEPT ![d] = @ \ {IL_IPI}],
                 cause' = [cause EXCEPT ![d] = @ \ {IL_IPI}]
          PROVE  ipMask'[c] \subseteq cause'[c]
      BY <3>2 DEF TypeOK
    <3>3. QED
      BY <2>4, <3>1, <3>2 DEF WriteInbox, DeassertIRQ
  <2>5. ASSUME NEW d \in Cpu, ResetCpu(d)
        PROVE  ipMask'[c] \subseteq cause'[c]
    <3>1. d # c
      BY <2>5
    <3>2. QED
      BY <2>5, <3>1 DEF ResetCpu, TypeOK
  <2>6. CASE \/ \E s \in Source : WriteIRT(s)
             \/ \E d \in Cpu : WriteTPR(d) \/ WriteOutbox(d)
             \/ UNCHANGED vars
    BY <2>6 DEF WriteIRT, WriteTPR, WriteOutbox, vars
  <2>7. QED
    BY <2>1, <2>2, <2>3, <2>4, <2>5, <2>6 DEF Next
<1>2. IInv /\ [Next]_vars =>
        [\A c \in Cpu : (ipMask[c] \subseteq cause[c] /\ ~(ipMask'[c] \subseteq cause'[c]))
                          => ResetCpu(c)]_vars
  BY <1>1
<1>3. QED
  BY <1>2, SpecIInv, PTL DEF Spec, OnlyResetLosesIRQ
(* The scan from the arbiter visits every core once. *)
LEMMA DistanceFacts ==
  ASSUME NEW a \in Cpu, NEW c \in Cpu
  PROVE  (c + N - a) % N = IF c >= a THEN c - a ELSE c + N - a
<1> USE NAssumption DEF Cpu
<1>1. CASE c >= a
  <2>1. c - a \in 0..N-1 /\ c + N - a = N * 1 + (c - a)
    BY <1>1
  <2>2. (N * 1 + (c - a)) % N = c - a
    BY <2>1
  <2>3. QED
    BY <1>1, <2>1, <2>2
<1>2. CASE c < a
  <2>1. c + N - a \in 0..N-1
    BY <1>2
  <2>2. (c + N - a) % N = c + N - a
    BY <2>1
  <2>3. QED
    BY <1>2, <2>2
<1>3. QED
  BY <1>1, <1>2

LEMMA NextArbiter ==
  ASSUME NEW t \in Cpu
  PROVE  (t + 1) % N = IF t + 1 = N THEN 0 ELSE t + 1
  BY NAssumption DEF Cpu

(* The arbiter moves behind the core elected, which then is the last of    *)
(* the scan: among candidates of the same priority each gets its turn      *)
(* (InterruptController::StartIRQ).                                        *)
THEOREM ElectionRotates == Spec => TiesRotate
<1>1. ASSUME IInv, NEW s \in Source, NEW t \in Cpu, StartIRQ(s), Elected(s, t),
             route[s].policy = "dynamic", NEW c \in route[s].dest \ {t},
             taskPriority[c] = taskPriority[t]
      PROVE  (~Elected(s, t))'
  <2>1. arbiter \in Cpu /\ route[s].dest \subseteq Cpu /\ \A d \in Cpu : taskPriority[d] \in Nat
    <3>1. route[s] \in Route /\ arbiter \in Cpu /\ taskPriority \in [Cpu -> Prio]
      BY <1>1 DEF IInv, TypeOK
    <3>2. Prio \subseteq Nat
      BY PrioAssumption
    <3>3. QED
      BY <3>1, <3>2 DEF Route
  <2>2. t \in route[s].dest /\ c \in Cpu /\ c # t
    BY <1>1, <2>1 DEF Elected
  <2>3. PICK e \in Cpu : Elected(s, e) /\ Deliver(s, e)
    BY <1>1, <2>2 DEF StartIRQ
  <2>4. e = t
    <3>1. e \in route[s].dest
      BY <2>3 DEF Elected
    <3>2. Distance(e) = Distance(t)
      <4>1. Distance(e) \in Nat /\ Distance(t) \in Nat
        BY <2>1, DistanceFacts, NAssumption DEF Distance, Cpu
      <4>2. \/ taskPriority[t] < taskPriority[e]
            \/ taskPriority[t] = taskPriority[e] /\ Distance(e) <= Distance(t)
        BY <1>1, <2>2, <2>3 DEF Elected
      <4>3. \/ taskPriority[e] < taskPriority[t]
            \/ taskPriority[e] = taskPriority[t] /\ Distance(t) <= Distance(e)
        BY <1>1, <3>1 DEF Elected
      <4>4. taskPriority[t] \in Nat /\ taskPriority[e] \in Nat
        BY <2>1
      <4>5. QED
        BY <4>1, <4>2, <4>3, <4>4
    <3>3. /\ Distance(e) = IF e >= arbiter THEN e - arbiter ELSE e + N - arbiter
          /\ Distance(t) = IF t >= arbiter THEN t - arbiter ELSE t + N - arbiter
      BY <2>1, DistanceFacts DEF Distance
    <3>4. e \in 0..N-1 /\ t \in 0..N-1 /\ arbiter \in 0..N-1 /\ N \in Nat
      BY <2>1, NAssumption DEF Cpu
    <3>5. \A x, y, a \in 0..N-1 :
            (IF x >= a THEN x - a ELSE x + N - a) = (IF y >= a THEN y - a ELSE y + N - a) => x = y
      BY <3>4
    <3>6. QED
      BY <3>2, <3>3, <3>4, <3>5
  <2>5. arbiter' = (t + 1) % N /\ route' = route /\ taskPriority' = taskPriority
    BY <1>1, <2>3, <2>4 DEF StartIRQ, Deliver
  <2>6. arbiter' = (IF t + 1 = N THEN 0 ELSE t + 1) /\ arbiter' \in Cpu
    BY <2>5, NextArbiter, NAssumption DEF Cpu
  <2>7. Distance(c)' < Distance(t)'
    <3>1. /\ Distance(c)' = IF c >= arbiter' THEN c - arbiter' ELSE c + N - arbiter'
          /\ Distance(t)' = IF t >= arbiter' THEN t - arbiter' ELSE t + N - arbiter'
      BY <2>2, <2>6, DistanceFacts DEF Distance
    <3>2. c \in 0..N-1 /\ t \in 0..N-1 /\ c # t /\ N \in Nat
      BY <2>2, NAssumption DEF Cpu
    <3>3. CASE t + 1 = N
      BY <2>6, <3>1, <3>2, <3>3
    <3>4. CASE t + 1 # N
      BY <2>6, <3>1, <3>2, <3>4
    <3>5. QED
      BY <3>3, <3>4
  <2>8. QED
    <3>1. Distance(c)' \in Nat /\ Distance(t)' \in Nat
      BY <2>2, <2>6, DistanceFacts, NAssumption DEF Distance, Cpu
    <3>2. taskPriority[c] = taskPriority[t] /\ taskPriority[t] \in Nat
      BY <1>1, <2>1
    <3>3. SUFFICES ASSUME Elected(s, t)'
                   PROVE  FALSE
      OBVIOUS
    <3>4. \/ taskPriority[c] < taskPriority[t]
          \/ Distance(t)' <= Distance(c)'
      BY <1>1, <2>5, <3>3 DEF Elected
    <3>5. QED
      BY <2>7, <3>1, <3>2, <3>4
<1>2. IInv /\ [Next]_vars => [\A s \in Source : \A t \in Cpu :
         StartIRQ(s) /\ Elected(s, t) /\ route[s].policy = "dynamic" =>
           \A c \in route[s].dest \ {t} :
             taskPriority[c] = taskPriority[t] => (~Elected(s, t))']_vars
  BY <1>1
<1>3. QED
  BY <1>2, SpecIInv, PTL DEF Spec, TiesRotate
=============================================================================
