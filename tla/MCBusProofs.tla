----------------------------- MODULE MCBusProofs -----------------------------
(***************************************************************************)
(* Proofs about the event queue, for every set of events, every set of     *)
(* positive delays and every time bound, about the address space, whatever *)
(* the sizes of its areas, about the symbol table, and about the files of  *)
(* the tools and the documents of the configuration.                       *)
(***************************************************************************)
EXTENDS MCBus, FiniteSetTheorems, TLAPS

(* Which element is being fired, if any; and nothing in the queue is past  *)
(* its deadline in any phase.                                              *)
FiringPhase == firing # None <=> phase = "callback"

NotOverdue == \A i \in DOMAIN queue :
                IF phase = "run" THEN queue[i].deadline > tod
                                 ELSE queue[i].deadline >= tod

(* The inductive invariant. *)
IInv == /\ TypeOK
        /\ Sorted
        /\ LastInsLive
        /\ HeadIsFiring
        /\ OnTime
        /\ FiringPhase
        /\ NotOverdue

-----------------------------------------------------------------------------

(* The typing facts about the elements of the queue. *)
LEMMA QueueFacts ==
  ASSUME TypeOK
  PROVE  /\ Len(queue) \in Nat
         /\ DOMAIN queue = 1..Len(queue)
         /\ \A i \in 1..Len(queue) : /\ queue[i] \in Element
                                     /\ queue[i].deadline \in Nat
                                     /\ queue[i].ev \in Event
         /\ ~IsEmpty => /\ 1 \in DOMAIN queue
                        /\ Head(queue) = queue[1]
         /\ IsEmpty <=> Len(queue) = 0
<1>1. queue \in Seq(Element)
  BY DEF TypeOK
<1>2. Len(queue) \in Nat /\ DOMAIN queue = 1..Len(queue)
  BY <1>1
<1>3. \A i \in 1..Len(queue) : queue[i] \in Element
  BY <1>1
<1>4. \A x \in Element : x.deadline \in Nat /\ x.ev \in Event
  BY DEF Element
<1>5. queue # <<>> => Len(queue) > 0 /\ Head(queue) = queue[1]
  BY <1>1
<1>6. QED
  BY <1>1, <1>2, <1>3, <1>4, <1>5 DEF IsEmpty

(* InsertAfter yields a sequence of one more element, the inserted one at  *)
(* k + 1 and the others in their order around it.                          *)
LEMMA InsertAfterFacts ==
  ASSUME TypeOK, NEW k \in 0..Len(queue), NEW x \in Element
  PROVE  LET r == InsertAfter(k, x) IN
         /\ r \in Seq(Element)
         /\ Len(r) = Len(queue) + 1
         /\ r[k+1] = x
         /\ \A i \in 1..k : r[i] = queue[i]
         /\ \A i \in k+2..Len(queue)+1 : r[i] = queue[i-1]
<1> DEFINE r == InsertAfter(k, x)
<1>1. \A i \in 1..Len(queue)+1 : r[i] \in Element
  BY DEF TypeOK, InsertAfter
<1>2. r \in Seq(Element) /\ Len(r) = Len(queue) + 1
  BY <1>1 DEF TypeOK, InsertAfter
<1>3. QED
  BY <1>2 DEF TypeOK, InsertAfter

(* The place InsertQ chooses in a sorted queue: nothing before it is later *)
(* than the new deadline, nothing after it earlier.                        *)
LEMMA PlaceFacts ==
  ASSUME TypeOK, Sorted, NEW d \in Nat, NEW k \in 0..Len(queue), Place(d, k)
  PROVE  /\ \A i \in 1..k : queue[i].deadline <= d
         /\ \A i \in k+1..Len(queue) : d <= queue[i].deadline
         /\ k = 0 => IsEmpty \/ d <= Head(queue).deadline
<1>1. CASE IsEmpty \/ d <= Head(queue).deadline
  <2>1. k = 0
    BY <1>1 DEF Place
  <2>2. \A i \in 1..Len(queue) : d <= queue[i].deadline
    <3> SUFFICES ASSUME NEW i \in 1..Len(queue)
                 PROVE  d <= queue[i].deadline
      OBVIOUS
    <3>1. ~IsEmpty /\ d <= queue[1].deadline
      BY <1>1, QueueFacts
    <3>2. queue[1].deadline <= queue[i].deadline
      BY QueueFacts DEF Sorted
    <3>3. QED
      BY <3>1, <3>2, QueueFacts
  <2>3. QED
    BY <1>1, <2>1, <2>2
<1>2. CASE ~(IsEmpty \/ d <= Head(queue).deadline)
  <2>1. PICK s \in DOMAIN queue : /\ s <= k
                                  /\ \A i \in s..k : queue[i].deadline <= d
                                  /\ k < Len(queue) => queue[k+1].deadline > d
    BY <1>2 DEF Place
  <2>2. k \in 1..Len(queue) /\ queue[k].deadline <= d
    BY <2>1, QueueFacts
  <2>3. \A i \in 1..k : queue[i].deadline <= d
    <3> SUFFICES ASSUME NEW i \in 1..k
                 PROVE  queue[i].deadline <= d
      OBVIOUS
    <3>1. queue[i].deadline <= queue[k].deadline
      BY <2>2, QueueFacts DEF Sorted
    <3>2. QED
      BY <2>2, <3>1, QueueFacts
  <2>4. \A i \in k+1..Len(queue) : d <= queue[i].deadline
    <3> SUFFICES ASSUME NEW i \in k+1..Len(queue)
                 PROVE  d <= queue[i].deadline
      OBVIOUS
    <3>1. k+1 \in 1..Len(queue) /\ d < queue[k+1].deadline /\ i \in 1..Len(queue)
      BY <2>1, <2>2, QueueFacts
    <3>2. queue[k+1].deadline <= queue[i].deadline
      BY <3>1, QueueFacts DEF Sorted
    <3>3. QED
      BY <3>1, <3>2, QueueFacts
  <2>5. QED
    BY <2>2, <2>3, <2>4
<1>3. QED
  BY <1>1, <1>2

(* Inserting a fresh event keeps the queue sorted and duplicate-free, and  *)
(* leaves in it what was there and nothing else but the new element.       *)
LEMMA InsertQFacts ==
  ASSUME TypeOK, Sorted, NEW x \in Element, ~Queued(x.ev), InsertQ(x)
  PROVE  /\ queue' \in Seq(Element)
         /\ Sorted'
         /\ \A i \in DOMAIN queue' : queue'[i] = x \/ \E j \in DOMAIN queue : queue'[i] = queue[j]
         /\ \A j \in DOMAIN queue : \E i \in DOMAIN queue' : queue'[i] = queue[j]
         /\ \E i \in DOMAIN queue' : queue'[i] = x
         /\ queue' # <<>>
         /\ (~IsEmpty /\ Head(queue).deadline < x.deadline) => Head(queue') = Head(queue)
<1>1. PICK k \in 0..Len(queue) : Place(x.deadline, k) /\ queue' = InsertAfter(k, x)
  BY DEF InsertQ
<1> DEFINE r == queue'
<1>2. /\ r \in Seq(Element)
      /\ Len(r) = Len(queue) + 1
      /\ r[k+1] = x
      /\ \A i \in 1..k : r[i] = queue[i]
      /\ \A i \in k+2..Len(queue)+1 : r[i] = queue[i-1]
  BY <1>1, InsertAfterFacts
<1>3. x.deadline \in Nat
  BY DEF Element
<1>4. /\ \A i \in 1..k : queue[i].deadline <= x.deadline
      /\ \A i \in k+1..Len(queue) : x.deadline <= queue[i].deadline
      /\ k = 0 => IsEmpty \/ x.deadline <= Head(queue).deadline
  BY <1>1, <1>3, PlaceFacts
<1>5. \A i \in DOMAIN r : r[i] = x \/ \E j \in DOMAIN queue : r[i] = queue[j]
  <2> SUFFICES ASSUME NEW i \in DOMAIN r
               PROVE  r[i] = x \/ \E j \in DOMAIN queue : r[i] = queue[j]
    OBVIOUS
  <2>1. CASE i \in 1..k
    BY <1>2, <2>1, QueueFacts
  <2>2. CASE i = k+1
    BY <1>2, <2>2
  <2>3. CASE i \in k+2..Len(queue)+1
    <3>1. i-1 \in DOMAIN queue /\ r[i] = queue[i-1]
      BY <1>2, <2>3 DEF TypeOK
    <3>2. QED
      BY <3>1
  <2>4. QED
    BY <1>2, <2>1, <2>2, <2>3
<1>6. \A j \in DOMAIN queue : \E i \in DOMAIN r : r[i] = queue[j]
  <2> SUFFICES ASSUME NEW j \in DOMAIN queue
               PROVE  \E i \in DOMAIN r : r[i] = queue[j]
    OBVIOUS
  <2>1. CASE j <= k
    BY <1>2, <2>1 DEF TypeOK
  <2>2. CASE j > k
    <3>1. j+1 \in DOMAIN r /\ j+1 \in k+2..Len(queue)+1 /\ (j+1)-1 = j
      BY <1>2, <2>2 DEF TypeOK
    <3>2. r[j+1] = queue[j]
      BY <1>2, <3>1
    <3>3. QED
      BY <3>1, <3>2
  <2>3. QED
    BY <2>1, <2>2 DEF TypeOK
<1>7. Sorted'
  <2> SUFFICES ASSUME NEW i \in DOMAIN r, NEW j \in DOMAIN r, i < j
               PROVE  r[i].deadline <= r[j].deadline /\ r[i].ev # r[j].ev
    BY DEF Sorted
  <2>0. i \in 1..Len(queue)+1 /\ j \in 1..Len(queue)+1
    BY <1>2
  <2>1. CASE i <= k /\ j <= k
    BY <1>2, <2>0, <2>1 DEF TypeOK, Sorted
  <2>2. CASE i <= k /\ j = k+1
    BY <1>2, <1>4, <2>0, <2>2 DEF TypeOK, Queued
  <2>3. CASE i <= k /\ j > k+1
    <3>1. i \in DOMAIN queue /\ j-1 \in DOMAIN queue /\ i < j-1
      BY <2>0, <2>3 DEF TypeOK
    <3>2. r[i] = queue[i] /\ r[j] = queue[j-1]
      BY <1>2, <2>0, <2>3
    <3>3. QED
      BY <3>1, <3>2 DEF Sorted
  <2>4. CASE i = k+1 /\ j > k+1
    <3>1. j-1 \in DOMAIN queue /\ j-1 \in k+1..Len(queue)
      BY <2>0, <2>4 DEF TypeOK
    <3>2. r[i] = x /\ r[j] = queue[j-1]
      BY <1>2, <2>0, <2>4
    <3>3. QED
      BY <1>4, <3>1, <3>2 DEF Queued
  <2>5. CASE i > k+1
    <3>1. i-1 \in DOMAIN queue /\ j-1 \in DOMAIN queue /\ i-1 < j-1
      BY <2>0, <2>5 DEF TypeOK
    <3>2. i \in k+2..Len(queue)+1 /\ j \in k+2..Len(queue)+1
      BY <2>0, <2>5
    <3>3. r[i] = queue[i-1] /\ r[j] = queue[j-1]
      BY <1>2, <3>2
    <3>4. QED
      BY <3>1, <3>3 DEF Sorted
  <2>6. QED
    BY <2>0, <2>1, <2>2, <2>3, <2>4, <2>5
<1>8. (~IsEmpty /\ Head(queue).deadline < x.deadline) => Head(r) = Head(queue)
  <2> SUFFICES ASSUME ~IsEmpty, Head(queue).deadline < x.deadline
               PROVE  Head(r) = Head(queue)
    OBVIOUS
  <2>1. queue # <<>> /\ Head(queue) \in Element /\ Head(queue) = queue[1]
    BY DEF IsEmpty, TypeOK
  <2>2. k # 0
    BY <1>3, <1>4, <2>1 DEF Element
  <2>3. QED
    BY <1>2, <2>1, <2>2
<1>9. r # <<>> /\ k+1 \in DOMAIN r
  BY <1>2
<1>10. QED
  BY <1>2, <1>5, <1>6, <1>7, <1>8, <1>9

-----------------------------------------------------------------------------

LEMMA InitIInv == Init => IInv
  BY DEF Init, IInv, TypeOK, Sorted, LastInsLive, HeadIsFiring, OnTime,
         FiringPhase, NotOverdue, IsEmpty

(* Scheduling an event, between two ticks or from inside a callback.       *)
LEMMA ScheduleIInv ==
  ASSUME IInv, NEW e \in Event, scheduleEvent(e)
  PROVE  IInv'
<1> USE DEF IInv
<1>1. PICK d \in Delays : InsertQ([ev |-> e, deadline |-> tod + d])
  BY DEF scheduleEvent
<1> DEFINE x == [ev |-> e, deadline |-> tod + d]
<1>2. d \in Nat /\ d > 0 /\ tod \in Nat
  BY DelaysAssumption DEF TypeOK
<1>3. x \in Element /\ x.ev = e /\ x.deadline = tod + d /\ x.deadline > tod
  BY <1>2 DEF Element
<1>4. /\ queue' \in Seq(Element)
      /\ Sorted'
      /\ \A i \in DOMAIN queue' : queue'[i] = x \/ \E j \in DOMAIN queue : queue'[i] = queue[j]
      /\ \E i \in DOMAIN queue' : queue'[i] = x
      /\ queue' # <<>>
      /\ (~IsEmpty /\ Head(queue).deadline < x.deadline) => Head(queue') = Head(queue)
  BY <1>1, <1>3, InsertQFacts DEF scheduleEvent
<1>5. /\ UNCHANGED <<tod, phase, firing>>
      /\ lastIns' = x
      /\ phase \in {"run", "callback"}
  BY <1>1 DEF scheduleEvent, InsertQ, TypeOK
<1>6. TypeOK'
  BY <1>3, <1>4, <1>5 DEF TypeOK
<1>7. LastInsLive'
  <2>1. lastIns' # None
    BY <1>3, <1>5, NoneAssumption DEF Element
  <2>2. QED
    BY <2>1, <1>4, <1>5 DEF LastInsLive, IsEmpty
<1>8. HeadIsFiring'
  <2> SUFFICES ASSUME phase = "callback"
               PROVE  queue' # <<>> /\ Head(queue') = firing
    BY <1>5 DEF HeadIsFiring, IsEmpty
  <2>1. ~IsEmpty /\ Head(queue) = firing
    BY DEF HeadIsFiring
  <2>2. firing.deadline = tod
    BY <2>1, NoneAssumption, QueueFacts DEF OnTime, FiringPhase
  <2>3. Head(queue).deadline < x.deadline
    BY <1>3, <2>1, <2>2
  <2>4. QED
    BY <1>4, <2>1, <2>3
<1>9. NotOverdue'
  BY <1>2, <1>3, <1>4, <1>5 DEF NotOverdue
<1>10. OnTime'
  BY <1>2, <1>3, <1>4, <1>5 DEF OnTime, NotOverdue
<1>11. FiringPhase'
  BY <1>5 DEF FiringPhase
<1>12. QED
  BY <1>4, <1>6, <1>7, <1>8, <1>9, <1>10, <1>11

(* Removing the head, which is the event that was fired.                   *)
LEMMA RemoveHeadIInv ==
  ASSUME IInv, RemoveHead
  PROVE  IInv'
<1> USE DEF IInv
<1>1. /\ phase = "callback" /\ phase' = "drain" /\ firing' = None /\ tod' = tod
      /\ queue' = Tail(queue)
      /\ ~IsEmpty
  BY DEF RemoveHead, HeadIsFiring
<1>2. /\ queue' \in Seq(Element)
      /\ Len(queue') = Len(queue) - 1
      /\ \A i \in 1..Len(queue') : queue'[i] = queue[i+1]
  BY <1>1 DEF TypeOK, IsEmpty
<1>3. DOMAIN queue' = 1..Len(queue') /\ Len(queue') \in Nat
      /\ \A i \in DOMAIN queue' : i+1 \in DOMAIN queue
  BY <1>2, QueueFacts
<1>4. Sorted'
  <2> SUFFICES ASSUME NEW i \in DOMAIN queue', NEW j \in DOMAIN queue', i < j
               PROVE  /\ queue'[i].deadline <= queue'[j].deadline
                      /\ queue'[i].ev # queue'[j].ev
    BY DEF Sorted
  <2>1. i+1 \in DOMAIN queue /\ j+1 \in DOMAIN queue /\ i+1 < j+1
    BY <1>3
  <2>2. QED
    BY <1>2, <1>3, <2>1 DEF Sorted
<1>5. /\ LastInsLive'
      /\ lastIns' \in Element \cup {None}
  <2>1. CASE Head(queue) # lastIns
    <3>1. lastIns' = lastIns /\ lastIns # None
      BY <1>1, <2>1 DEF RemoveHead, LastInsLive
    <3>2. PICK i \in DOMAIN queue : queue[i] = lastIns
      BY <3>1 DEF LastInsLive
    <3>3. i # 1 /\ i-1 \in DOMAIN queue' /\ (i-1)+1 = i
      BY <1>1, <1>2, <1>3, <2>1, <3>2, QueueFacts
    <3>4. queue'[i-1] = lastIns
      BY <1>2, <1>3, <3>2, <3>3
    <3>5. queue' # <<>>
      BY <1>2, <3>3
    <3>6. QED
      BY <3>1, <3>3, <3>4, <3>5 DEF LastInsLive, IsEmpty, TypeOK
  <2>2. CASE Head(queue) = lastIns /\ queue' = <<>>
    BY <1>1, <2>2 DEF RemoveHead, LastInsLive, IsEmpty
  <2>3. CASE Head(queue) = lastIns /\ queue' # <<>>
    <3>1. lastIns' = Head(queue') /\ 1 \in DOMAIN queue' /\ Head(queue') = queue'[1]
      BY <1>1, <1>2, <1>3, <2>3 DEF RemoveHead
    <3>2. queue'[1] \in Element
      BY <1>2, <3>1
    <3>3. QED
      BY <3>1, <3>2, <2>3, NoneAssumption DEF LastInsLive, IsEmpty, Element
  <2>4. QED
    BY <2>1, <2>2, <2>3
<1>6. TypeOK'
  BY <1>1, <1>2, <1>5 DEF TypeOK
<1>7. NotOverdue'
  <2> SUFFICES ASSUME NEW i \in DOMAIN queue'
               PROVE  queue'[i].deadline >= tod
    BY <1>1 DEF NotOverdue
  <2>1. QED
    BY <1>1, <1>2, <1>3 DEF NotOverdue
<1>8. HeadIsFiring' /\ OnTime' /\ FiringPhase'
  BY <1>1 DEF HeadIsFiring, OnTime, FiringPhase
<1>9. QED
  BY <1>4, <1>5, <1>6, <1>7, <1>8

(* A skip stops short of the deadline at the head.                         *)
LEMMA SkipIInv ==
  ASSUME IInv, Skip
  PROVE  IInv'
<1> USE DEF IInv
<1>1. PICK k \in 1..IdleCycles : tod + k <= MaxTod /\ tod' = tod + k
  BY DEF Skip
<1>2. UNCHANGED <<queue, lastIns, phase, firing>> /\ phase = "run" /\ firing = None
  BY DEF Skip, FiringPhase
<1>3. tod \in Nat /\ IdleCycles \in Int /\ k \in Nat
  BY QueueFacts, MaxTodAssumption DEF IdleCycles, TypeOK
<1>4. \A i \in DOMAIN queue : queue[i].deadline > tod'
  <2> SUFFICES ASSUME NEW i \in DOMAIN queue
               PROVE  queue[i].deadline > tod + k
    BY <1>1
  <2>1. ~IsEmpty /\ i \in 1..Len(queue)
    BY QueueFacts
  <2>2. queue[1].deadline > tod /\ queue[1].deadline \in Nat /\ Head(queue) = queue[1]
    BY <1>2, <2>1, QueueFacts DEF NotOverdue
  <2>3. IdleCycles = queue[1].deadline - tod - 1
    BY <2>1, <2>2 DEF IdleCycles
  <2>4. queue[1].deadline <= queue[i].deadline /\ queue[i].deadline \in Nat
    BY <2>1, QueueFacts DEF Sorted
  <2>5. QED
    BY <1>1, <1>3, <2>2, <2>3, <2>4
<1>5. TypeOK'
  BY <1>1, <1>2, <1>3 DEF TypeOK
<1>6. Sorted' /\ LastInsLive' /\ HeadIsFiring' /\ OnTime' /\ FiringPhase' /\ NotOverdue'
  BY <1>2, <1>4 DEF Sorted, LastInsLive, HeadIsFiring, OnTime, FiringPhase,
                    NotOverdue, IsEmpty
<1>7. QED
  BY <1>5, <1>6

(* The steps of ClockTick's loop that leave the queue alone.               *)
LEMMA LoopIInv ==
  ASSUME IInv, ClockTick \/ RunCallback \/ EndClockTick
  PROVE  IInv'
<1> USE DEF IInv
<1>1. CASE ClockTick
  <2>1. /\ UNCHANGED <<queue, lastIns, firing>>
        /\ phase = "run" /\ phase' = "drain" /\ tod' = tod + 1 /\ tod \in Nat
    BY <1>1 DEF ClockTick, TypeOK
  <2>2. NotOverdue'
    BY <2>1, QueueFacts DEF NotOverdue
  <2>3. TypeOK' /\ Sorted' /\ LastInsLive' /\ HeadIsFiring' /\ OnTime' /\ FiringPhase'
    BY <2>1 DEF TypeOK, Sorted, LastInsLive, HeadIsFiring, OnTime, FiringPhase, IsEmpty
  <2>4. QED
    BY <2>2, <2>3
<1>2. CASE RunCallback
  <2>1. /\ UNCHANGED <<queue, lastIns, tod>>
        /\ phase = "drain" /\ phase' = "callback"
        /\ firing' = Head(queue) /\ ~IsEmpty /\ Head(queue).deadline <= tod
    BY <1>2 DEF RunCallback, HeadDue
  <2>2. /\ 1 \in DOMAIN queue /\ Head(queue) = queue[1]
        /\ queue[1] \in Element /\ queue[1].deadline \in Nat /\ tod \in Nat
    BY <2>1, QueueFacts DEF TypeOK
  <2>3. queue[1].deadline = tod
    BY <2>1, <2>2 DEF NotOverdue
  <2>4. firing' # None
    BY <2>1, <2>2, NoneAssumption DEF Element
  <2>5. TypeOK' /\ Sorted' /\ LastInsLive' /\ HeadIsFiring' /\ OnTime'
    BY <2>1, <2>2, <2>3 DEF TypeOK, Sorted, LastInsLive, HeadIsFiring, OnTime, IsEmpty
  <2>6. FiringPhase' /\ NotOverdue'
    BY <2>1, <2>4 DEF FiringPhase, NotOverdue
  <2>7. QED
    BY <2>5, <2>6
<1>3. CASE EndClockTick
  <2>1. /\ UNCHANGED <<queue, lastIns, tod, firing>>
        /\ phase = "drain" /\ phase' = "run" /\ ~HeadDue
    BY <1>3 DEF EndClockTick
  <2>2. \A i \in DOMAIN queue : queue[i].deadline > tod
    <3> SUFFICES ASSUME NEW i \in DOMAIN queue
                 PROVE  queue[i].deadline > tod
      OBVIOUS
    <3>1. ~IsEmpty /\ i \in 1..Len(queue) /\ tod \in Nat
      BY QueueFacts DEF TypeOK
    <3>2. queue[1].deadline > tod
      BY <2>1, <3>1, QueueFacts DEF HeadDue
    <3>3. queue[1].deadline <= queue[i].deadline
      BY <3>1, QueueFacts DEF Sorted
    <3>4. QED
      BY <3>1, <3>2, <3>3, QueueFacts
  <2>3. TypeOK' /\ Sorted' /\ LastInsLive' /\ HeadIsFiring' /\ FiringPhase'
    BY <2>1 DEF TypeOK, Sorted, LastInsLive, HeadIsFiring, FiringPhase, IsEmpty
  <2>4. OnTime' /\ NotOverdue'
    BY <2>1, <2>2 DEF OnTime, NotOverdue, FiringPhase
  <2>5. QED
    BY <2>3, <2>4
<1>4. QED
  BY <1>1, <1>2, <1>3

LEMMA NextIInv == IInv /\ [Next]_vars => IInv'
<1> SUFFICES ASSUME IInv, [Next]_vars
             PROVE  IInv'
  OBVIOUS
<1>1. CASE \E e \in Event : scheduleEvent(e)
  BY <1>1, ScheduleIInv
<1>2. CASE ClockTick \/ RunCallback \/ EndClockTick
  BY <1>2, LoopIInv
<1>3. CASE RemoveHead
  BY <1>3, RemoveHeadIInv
<1>4. CASE Skip
  BY <1>4, SkipIInv
<1>5. CASE UNCHANGED vars
  BY <1>5 DEF vars, IInv, TypeOK, Sorted, LastInsLive, HeadIsFiring, OnTime,
              FiringPhase, NotOverdue, IsEmpty
<1>6. QED
  BY <1>1, <1>2, <1>3, <1>4, <1>5 DEF Next

(* The inductive invariant holds of every behaviour. *)
LEMMA SpecIInv == Spec => []IInv
  BY InitIInv, NextIInv, PTL DEF Spec

(* Type correctness of the queue and of the loop that drives it. *)
THEOREM TypeCorrect == Spec => []TypeOK
<1>1. IInv => TypeOK
  BY DEF IInv
<1>2. QED
  BY <1>1, SpecIInv, PTL

(* The list is always sorted by deadline, without duplicates: InsertQ's    *)
(* shortcut through lastIns never misplaces an event.                      *)
THEOREM QueueSorted == Spec => []Sorted
<1>1. IInv => Sorted
  BY DEF IInv
<1>2. QED
  BY <1>1, SpecIInv, PTL

(* lastIns never dangles, although RemoveHead frees list elements. *)
THEOREM LastInsNeverDangles == Spec => []LastInsLive
<1>1. IInv => LastInsLive
  BY DEF IInv
<1>2. QED
  BY <1>1, SpecIInv, PTL

(* The loop of ClockTick always removes the event whose callback it ran.   *)
THEOREM RemovesWhatItFired == Spec => []HeadIsFiring
<1>1. IInv => HeadIsFiring
  BY DEF IInv
<1>2. QED
  BY <1>1, SpecIInv, PTL

(* Callbacks run at exactly their deadline, whatever the machine skips.    *)
THEOREM CallbacksOnTime == Spec => []OnTime
<1>1. IInv => OnTime
  BY DEF IInv
<1>2. QED
  BY <1>1, SpecIInv, PTL

-----------------------------------------------------------------------------

(* The deadline an event has in the abstract schedule is the one of its    *)
(* element in the queue.                                                   *)
DeadlinesMatch ==
  /\ \A i \in DOMAIN queue : Pending[queue[i].ev] = queue[i].deadline
  /\ \A e \in Event : (\A i \in DOMAIN queue : queue[i].ev # e) => Pending[e] = None
  /\ \A e \in Event : Queued(e) =>
       \E i \in DOMAIN queue : queue[i].ev = e /\ Pending[e] = queue[i].deadline

LEMMA DeadlineOfFacts == TypeOK /\ Sorted => DeadlinesMatch
<1> SUFFICES ASSUME TypeOK, Sorted
             PROVE  DeadlinesMatch
  OBVIOUS
<1>1. ASSUME NEW i \in DOMAIN queue
      PROVE  Pending[queue[i].ev] = queue[i].deadline
  <2> DEFINE Q == {queue[j] : j \in DOMAIN queue}
             e == queue[i].ev
  <2>1. Queued(e)
    BY DEF Queued
  <2>2. \A x \in Q : x.ev = e => x = queue[i]
    <3> SUFFICES ASSUME NEW j \in DOMAIN queue, queue[j].ev = e
                 PROVE  queue[j] = queue[i]
      OBVIOUS
    <3>1. i = j
      BY QueueFacts DEF Sorted
    <3>2. QED
      BY <3>1
  <2>3. queue[i] \in Q /\ queue[i].ev = e
    OBVIOUS
  <2>4. (CHOOSE x \in Q : x.ev = e) = queue[i]
    BY <2>2, <2>3
  <2>5. QED
    BY <2>1, <2>4, QueueFacts DEF Pending
<1>2. \A e \in Event : (\A i \in DOMAIN queue : queue[i].ev # e) => Pending[e] = None
  BY DEF Pending, Queued
<1>3. QED
  BY <1>1, <1>2 DEF Queued, DeadlinesMatch

LEMMA PendingFunction == Pending = [e \in Event |-> Pending[e]]
  BY DEF Pending

LEMMA PendingFunctionPrimed == Pending' = [e \in Event |-> Pending'[e]]
  BY DEF Pending

LEMMA DeadlineOfFactsPrimed == TypeOK' /\ Sorted' => DeadlinesMatch'
  BY DeadlineOfFacts, PTL

(* Every step of the queue is a step of the schedule, or a stutter.        *)
LEMMA StepRefines ==
  ASSUME IInv, IInv', [Next]_vars
  PROVE  [Schedule!Next]_(Schedule!vars)
<1> DEFINE fire == IF firing = None THEN None ELSE firing.ev
<1> USE DEF IInv
<1>a. /\ \A i \in DOMAIN queue : Pending[queue[i].ev] = queue[i].deadline
      /\ \A e \in Event : (\A i \in DOMAIN queue : queue[i].ev # e) => Pending[e] = None
      /\ \A e \in Event : Queued(e) =>
           \E i \in DOMAIN queue : queue[i].ev = e /\ Pending[e] = queue[i].deadline
  BY DeadlineOfFacts DEF DeadlinesMatch
<1>b. /\ \A i \in DOMAIN queue' : Pending'[queue'[i].ev] = queue'[i].deadline
      /\ \A f \in Event : (\A i \in DOMAIN queue' : queue'[i].ev # f) => Pending'[f] = None
  BY DeadlineOfFactsPrimed DEF DeadlinesMatch
<1>1. ASSUME NEW e \in Event, scheduleEvent(e)
      PROVE  Schedule!Post(e)
  <2>1. PICK d \in Delays : InsertQ([ev |-> e, deadline |-> tod + d])
    BY <1>1 DEF scheduleEvent
  <2> DEFINE x == [ev |-> e, deadline |-> tod + d]
  <2>2. x \in Element /\ x.ev = e /\ x.deadline = tod + d
    BY DelaysAssumption DEF TypeOK, Element
  <2>3. /\ \A i \in DOMAIN queue' : queue'[i] = x \/ \E j \in DOMAIN queue : queue'[i] = queue[j]
        /\ \A j \in DOMAIN queue : \E i \in DOMAIN queue' : queue'[i] = queue[j]
        /\ \E i \in DOMAIN queue' : queue'[i] = x
    BY <1>1, <2>1, <2>2, InsertQFacts DEF scheduleEvent
  <2>4. \A f \in Event : Pending'[f] = IF f = e THEN tod + d ELSE Pending[f]
    <3> SUFFICES ASSUME NEW f \in Event
                 PROVE  Pending'[f] = IF f = e THEN tod + d ELSE Pending[f]
      OBVIOUS
    <3>1. CASE f = e
      BY <2>2, <2>3, <1>b, <3>1
    <3>2. CASE f # e /\ Queued(f)
      <4>1. PICK j \in DOMAIN queue : queue[j].ev = f
        BY <3>2 DEF Queued
      <4>2. PICK i \in DOMAIN queue' : queue'[i] = queue[j]
        BY <2>3
      <4>3. QED
        BY <1>a, <1>b, <3>2, <4>1, <4>2
    <3>3. CASE f # e /\ ~Queued(f)
      <4>1. \A i \in DOMAIN queue' : queue'[i].ev # f
        BY <2>2, <2>3, <3>3 DEF Queued
      <4>2. QED
        BY <1>a, <1>b, <3>3, <4>1 DEF Queued
    <3>4. QED
      BY <3>1, <3>2, <3>3
  <2>5. Pending' = [Pending EXCEPT ![e] = tod + d]
    BY <2>4, PendingFunction, PendingFunctionPrimed
  <2>6. Pending[e] = None /\ tod' = tod /\ fire' = fire
    BY <1>a, <1>1 DEF scheduleEvent, Queued
  <2>7. QED
    BY <2>5, <2>6 DEF Schedule!Post
<1>2. ASSUME ClockTick \/ Skip
      PROVE  Schedule!Advance
  <2>1. /\ UNCHANGED <<queue, firing>> /\ phase = "run" /\ firing = None
        /\ tod \in Nat /\ tod' \in Nat
    BY <1>2 DEF ClockTick, Skip, FiringPhase, TypeOK
  <2>2. tod' > tod
    <3>1. IdleCycles \in Int
      BY MaxTodAssumption, QueueFacts, <2>1 DEF IdleCycles
    <3>2. QED
      BY <1>2, <2>1, <3>1 DEF ClockTick, Skip
  <2>3. \A i \in DOMAIN queue : queue[i].deadline >= tod'
    BY <1>2, <2>1, QueueFacts DEF ClockTick, Skip, NotOverdue
  <2>4. \A e \in Event : Pending[e] # None => tod' <= Pending[e]
    BY <1>a, <2>1, <2>3, QueueFacts
  <2>5. Pending' = Pending /\ fire' = fire /\ fire = None
    BY <2>1 DEF Pending, Queued
  <2>6. QED
    BY <2>1, <2>2, <2>4, <2>5 DEF Schedule!Advance
<1>3. ASSUME RunCallback
      PROVE  \E e \in Event : Schedule!Fire(e)
  <2>1. /\ ~IsEmpty /\ firing = None /\ firing' = Head(queue)
        /\ UNCHANGED <<queue, tod>>
        /\ Head(queue) = queue[1] /\ 1 \in DOMAIN queue /\ queue[1] \in Element
        /\ queue[1].ev \in Event
    BY <1>3, QueueFacts DEF RunCallback, HeadDue, FiringPhase
  <2>2. firing' # None /\ firing'.deadline = tod
    BY <2>1, NoneAssumption DEF OnTime, Element
  <2>3. Pending[queue[1].ev] = tod
    BY <1>a, <2>1, <2>2
  <2>4. Pending' = Pending /\ fire = None /\ fire' = queue[1].ev
    BY <2>1, <2>2 DEF Pending, Queued
  <2>5. QED
    BY <2>1, <2>3, <2>4 DEF Schedule!Fire
<1>4. ASSUME RemoveHead
      PROVE  Schedule!Retire
  <2>1. /\ ~IsEmpty /\ firing = Head(queue) /\ firing' = None /\ tod' = tod
        /\ queue' = Tail(queue) /\ firing # None
    BY <1>4 DEF RemoveHead, HeadIsFiring, FiringPhase
  <2>2. /\ firing = queue[1] /\ 1 \in DOMAIN queue /\ queue[1].ev \in Event
        /\ Len(queue) \in Nat /\ DOMAIN queue = 1..Len(queue)
        /\ DOMAIN queue' = 1..(Len(queue) - 1)
        /\ \A i \in DOMAIN queue' : queue'[i] = queue[i+1]
    BY <2>1, QueueFacts DEF TypeOK, IsEmpty
  <2>3. \A f \in Event : Pending'[f] = IF f = firing.ev THEN None ELSE Pending[f]
    <3> SUFFICES ASSUME NEW f \in Event
                 PROVE  Pending'[f] = IF f = firing.ev THEN None ELSE Pending[f]
      OBVIOUS
    <3>1. CASE f = firing.ev
      <4>1. \A i \in DOMAIN queue' : queue'[i].ev # f
        <5> SUFFICES ASSUME NEW i \in DOMAIN queue'
                     PROVE  queue'[i].ev # f
          OBVIOUS
        <5>1. i+1 \in DOMAIN queue /\ 1 < i+1
          BY <2>2
        <5>2. QED
          BY <2>2, <3>1, <5>1 DEF Sorted
      <4>2. QED
        BY <1>b, <3>1, <4>1
    <3>2. CASE f # firing.ev /\ Queued(f)
      <4>1. PICK j \in DOMAIN queue : queue[j].ev = f
        BY <3>2 DEF Queued
      <4>2. j # 1 /\ j-1 \in DOMAIN queue' /\ (j-1)+1 = j
        BY <2>2, <3>2, <4>1
      <4>3. queue'[j-1] = queue[j]
        BY <2>2, <4>2
      <4>4. QED
        BY <1>a, <1>b, <3>2, <4>1, <4>2, <4>3
    <3>3. CASE f # firing.ev /\ ~Queued(f)
      <4>1. \A i \in DOMAIN queue' : queue'[i].ev # f
        <5> SUFFICES ASSUME NEW i \in DOMAIN queue'
                     PROVE  queue'[i].ev # f
          OBVIOUS
        <5>1. i+1 \in DOMAIN queue
          BY <2>2
        <5>2. QED
          BY <2>2, <3>3, <5>1 DEF Queued
      <4>2. QED
        BY <1>a, <1>b, <3>3, <4>1 DEF Queued
    <3>4. QED
      BY <3>1, <3>2, <3>3
  <2>4. fire = firing.ev /\ fire # None /\ fire' = None
    BY <2>1, <2>2, NoneAssumption
  <2>5. Pending' = [Pending EXCEPT ![fire] = None]
    BY <2>2, <2>3, <2>4, PendingFunction, PendingFunctionPrimed
  <2>6. QED
    BY <2>1, <2>4, <2>5 DEF Schedule!Retire
<1>5. ASSUME EndClockTick \/ UNCHANGED vars
      PROVE  UNCHANGED <<Pending, tod, fire>>
  <2>1. queue' = queue /\ tod' = tod /\ firing' = firing
    BY <1>5 DEF EndClockTick, vars
  <2>2. Pending' = Pending /\ fire' = fire
    BY <2>1 DEF Pending, Queued
  <2>3. QED
    BY <2>1, <2>2
<1>6. QED
  BY <1>1, <1>2, <1>3, <1>4, <1>5 DEF Next, Schedule!Next, Schedule!vars

(* The queue implements the abstract schedule: every scheduled event fires *)
(* exactly once, at exactly its tick, whatever the order of insertion and  *)
(* however the machine mixes ticks and skips.                              *)
THEOREM QueueImplementsSchedule == Spec => ImplementsSchedule
<1>1. Init => Schedule!Init
  BY DEF Init, Schedule!Init, Pending, Queued
<1>2. IInv /\ IInv' /\ [Next]_vars => [Schedule!Next]_(Schedule!vars)
  BY StepRefines
<1>3. QED
  BY <1>1, <1>2, SpecIInv, PTL DEF Spec, ImplementsSchedule, Schedule!Spec
-----------------------------------------------------------------------------

-----------------------------------------------------------------------------
(* A behaviour of MCSpec runs one component. *)
LEMMA OneRuns == [MCNext]_allVars => active' = active
  BY DEF MCNext, allVars

(* The queue runs alone or rests, so that what is proved of it is true of  *)
(* every behaviour that is checked.                                        *)
THEOREM QueueRuns == MCSpec => Spec
<1>1. MCInit => Init
  BY DEF MCInit
<1>2. [MCNext]_allVars => [Next]_vars
  BY DEF MCNext, allVars
<1>3. QED
  BY <1>1, <1>2, PTL DEF MCSpec, Spec

-----------------------------------------------------------------------------
(* The address space of the bus.                                           *)
(* Each store holds what was stored last under the names it is for.        *)
BusInv ==
  /\ DOMAIN memory = B!MemoryName /\ DOMAIN device = B!DeviceName /\ DOMAIN control = B!BootName
  /\ DOMAIN stored = B!Name \ B!Constant /\ DOMAIN block = 0..BLOCKSIZE-1
  /\ \A n \in B!MemoryName : memory[n] = stored[n]
  /\ \A n \in B!DeviceName : device[n] = stored[n]
  /\ \A n \in B!BootName : control[n] = stored[n]

-----------------------------------------------------------------------------
(* Quotient and remainder are what they must be. *)
LEMMA Quotient ==
  ASSUME NEW x \in Nat, NEW k \in Nat \ {0}, NEW q \in Nat, NEW r \in Nat, r < k, x = q * k + r
  PROVE  x \div k = q /\ x % k = r
<1>1. PICK d : d = x \div k
  OBVIOUS
<1>2. PICK m : m = x % k
  OBVIOUS
<1>3. d \in Nat /\ m \in Nat /\ m < k /\ x = d * k + m
  BY <1>1, <1>2
<1>4. ~(d < q)
  <2>1. d < q => (d + 1) * k <= q * k
    BY <1>3
  <2>2. (d + 1) * k = d * k + k /\ d * k \in Nat /\ q * k \in Nat
    BY <1>3
  <2>3. QED
    BY <1>3, <2>1, <2>2
<1>5. ~(q < d)
  <2>1. q < d => (q + 1) * k <= d * k
    BY <1>3
  <2>2. (q + 1) * k = q * k + k /\ d * k \in Nat /\ q * k \in Nat
    BY <1>3
  <2>3. QED
    BY <1>3, <2>1, <2>2
<1>6. d = q
  BY <1>3, <1>4, <1>5
<1>7. m = r
  <2>1. q * k \in Nat
    OBVIOUS
  <2>2. x = q * k + m /\ x = q * k + r
    BY <1>3, <1>6
  <2>3. QED
    BY <1>3, <2>1, <2>2
<1>8. QED
  BY <1>1, <1>2, <1>6, <1>7

(* A number of digits below their bases is below the product.              *)
LEMMA Below ==
  ASSUME NEW q \in Nat, NEW k \in Nat \ {0}, NEW r \in Nat, r < k, NEW b \in Nat, q < b
  PROVE  q * k + r \in Nat /\ q * k + r < b * k
<1>1. (q + 1) * k <= b * k
  OBVIOUS
<1>2. (q + 1) * k = q * k + k /\ q * k \in Nat /\ b * k \in Nat
  OBVIOUS
<1>3. QED
  BY <1>1, <1>2

LEMMA Above ==
  ASSUME NEW x \in Nat, NEW k \in Nat \ {0}, NEW b \in Nat, x < b * k
  PROVE  /\ x \div k \in Nat /\ x \div k < b /\ x % k \in Nat /\ x % k < k
         /\ x = (x \div k) * k + (x % k)
<1>1. PICK d : d = x \div k
  OBVIOUS
<1>2. PICK m : m = x % k
  OBVIOUS
<1>3. d \in Nat /\ m \in Nat /\ m < k /\ x = d * k + m
  BY <1>1, <1>2
<1>4. d < b
  <2>1. b <= d => b * k <= d * k
    BY <1>3
  <2>2. b * k \in Nat /\ d * k \in Nat
    BY <1>3
  <2>3. QED
    BY <1>3, <2>1, <2>2
<1>5. QED
  BY <1>1, <1>2, <1>3, <1>4

-----------------------------------------------------------------------------
(* The map of the bus. *)
LEMMA Areas ==
  /\ B!BIOSBASE = 0 /\ B!BIOSDATABASE = RomWords + 1 /\ B!BIOSDATABASE \in Nat
  /\ B!MMIO_BASE = B!BIOSDATABASE + DataWords /\ B!MMIO_BASE \in Nat
  /\ B!IDEV_BITMAP_BASE = B!MMIO_BASE + 1 /\ B!IDEV_BITMAP_BASE \in Nat
  /\ B!CDEV_BITMAP_BASE = B!IDEV_BITMAP_BASE + Line /\ B!CDEV_BITMAP_BASE \in Nat
  /\ B!DEV_REG_START = B!CDEV_BITMAP_BASE + Line /\ B!DEV_REG_START \in Nat
  /\ (Line * Dev) * Field \in Nat /\ B!DEV_REG_END = B!DEV_REG_START + (Line * Dev) * Field /\ B!DEV_REG_END \in Nat
  /\ B!CPUCTL_BASE = B!DEV_REG_END + 1 /\ B!CPUCTL_BASE \in Nat
  /\ B!MCTL_BASE = B!CPUCTL_BASE + 2 /\ B!MCTL_BASE \in Nat
  /\ B!MMIO_END = B!MCTL_BASE + 4 /\ B!MMIO_END \in Nat
  /\ B!RAMBASE = B!MMIO_END + 1 /\ B!RAMBASE \in Nat
<1>1. B!BIOSBASE = 0 /\ B!BIOSDATABASE = RomWords + 1 /\ B!BIOSDATABASE \in Nat
  BY BusAssumption DEF B!BIOSBASE, B!BIOSDATABASE
<1>2. B!MMIO_BASE = B!BIOSDATABASE + DataWords /\ B!MMIO_BASE \in Nat
  BY <1>1, BusAssumption DEF B!MMIO_BASE
<1>3. B!IDEV_BITMAP_BASE = B!MMIO_BASE + 1 /\ B!IDEV_BITMAP_BASE \in Nat
  BY <1>2 DEF B!IDEV_BITMAP_BASE
<1>4. /\ B!CDEV_BITMAP_BASE = B!IDEV_BITMAP_BASE + Line /\ B!CDEV_BITMAP_BASE \in Nat
      /\ B!DEV_REG_START = B!CDEV_BITMAP_BASE + Line /\ B!DEV_REG_START \in Nat
  BY <1>3, BusAssumption DEF B!CDEV_BITMAP_BASE, B!DEV_REG_START
<1>5. (Line * Dev) * Field \in Nat
  <2>1. Line * Dev \in Nat
    BY BusAssumption
  <2>2. QED
    BY <2>1, BusAssumption
<1>6. B!DEV_REG_END = B!DEV_REG_START + (Line * Dev) * Field /\ B!DEV_REG_END \in Nat
  BY <1>4, <1>5 DEF B!DEV_REG_END
<1>7. /\ B!CPUCTL_BASE = B!DEV_REG_END + 1 /\ B!CPUCTL_BASE \in Nat
      /\ B!MCTL_BASE = B!CPUCTL_BASE + 2 /\ B!MCTL_BASE \in Nat
  BY <1>6 DEF B!CPUCTL_BASE, B!MCTL_BASE
<1>8. B!MMIO_END = B!MCTL_BASE + 4 /\ B!MMIO_END \in Nat
  BY <1>7 DEF B!MMIO_END
<1>9. B!RAMBASE = B!MMIO_END + 1 /\ B!RAMBASE \in Nat
  BY <1>8 DEF B!RAMBASE
<1>10. QED
  BY <1>1, <1>2, <1>3, <1>4, <1>5, <1>6, <1>7, <1>8, <1>9

(* Where each kind of name is. *)
LEMMA Places ==
  /\ \A i \in Nat : B!AddressOf(<<"rom", i>>) = B!BIOSBASE + i
  /\ \A i \in Nat : B!AddressOf(<<"data", i>>) = B!BIOSDATABASE + i
  /\ \A i \in Nat : B!AddressOf(<<"ram", i>>) = B!RAMBASE + i
  /\ \A l \in Nat : B!AddressOf(<<"idev", l>>) = B!IDEV_BITMAP_BASE + l
  /\ \A l, d, f \in Nat : B!AddressOf(<<"dev", l, d, f>>) = B!DEV_REG_START + l * Dev * Field + d * Field + f
  /\ B!AddressOf(<<"ram size">>) = B!MMIO_BASE /\ B!AddressOf(<<"ncpus">>) = B!MCTL_BASE
  /\ B!AddressOf(<<"boot", "pc">>) = B!MCTL_BASE + 2 /\ B!AddressOf(<<"boot", "sp">>) = B!MCTL_BASE + 3
  BY DEF B!AddressOf

(* A register lies among the registers, and is found there.                *)
LEMMA Registers ==
  ASSUME NEW l \in 0..Line-1, NEW d \in 0..Dev-1, NEW f \in 0..Field-1
  PROVE  /\ B!AddressOf(<<"dev", l, d, f>>) \in Nat
         /\ B!InBounds(B!AddressOf(<<"dev", l, d, f>>), B!DEV_REG_START, B!DEV_REG_END)
         /\ B!DeviceAreaAddress(B!AddressOf(<<"dev", l, d, f>>)) = <<"dev", l, d, f>>
<1>1. l \in Nat /\ d \in Nat /\ f \in Nat /\ l < Line /\ d < Dev /\ f < Field
      /\ Line \in Nat /\ Dev \in Nat \ {0} /\ Field \in Nat \ {0}
  BY BusAssumption
<1>2. PICK reg : reg = l * Dev + d
  OBVIOUS
<1>3. reg \in Nat /\ reg < Line * Dev
  BY <1>1, <1>2, Below
<1>4. PICK word : word = reg * Field + f
  OBVIOUS
<1>5. word \in Nat /\ word < (Line * Dev) * Field
  <2>1. Line * Dev \in Nat
    BY <1>1
  <2>2. QED
    BY <1>1, <1>3, <1>4, <2>1, Below
<1>6. reg \div Dev = l /\ reg % Dev = d
  BY <1>1, <1>2, <1>3, Quotient
<1>7. word \div Field = reg /\ word % Field = f
  BY <1>1, <1>3, <1>4, <1>5, Quotient
<1>8. B!AddressOf(<<"dev", l, d, f>>) = B!DEV_REG_START + word
  <2>1. reg * Field = l * Dev * Field + d * Field
    BY <1>1, <1>2
  <2>2. l * Dev * Field \in Nat /\ d * Field \in Nat
    <3>1. l * Dev \in Nat
      BY <1>1
    <3>2. QED
      BY <1>1, <3>1
  <2>3. B!AddressOf(<<"dev", l, d, f>>) = B!DEV_REG_START + l * Dev * Field + d * Field + f
    BY <1>1, Places
  <2>4. QED
    BY <1>1, <1>4, <2>1, <2>2, <2>3, Areas
<1>9. PICK x : x = B!DEV_REG_START + word
  OBVIOUS
<1>10. x - B!DEV_REG_START = word
  BY <1>5, <1>9, Areas
<1>11. B!DeviceAreaAddress(x) = <<"dev", (word \div Field) \div Dev, (word \div Field) % Dev, word % Field>>
  BY <1>10, Zenon DEF B!DeviceAreaAddress
<1>12. x \in Nat /\ B!InBounds(x, B!DEV_REG_START, B!DEV_REG_END)
  BY <1>5, <1>9, Areas DEF B!InBounds
<1>13. QED
  BY <1>6, <1>7, <1>8, <1>9, <1>11, <1>12

(* Whatever lies among the registers is one.                               *)
LEMMA OnlyRegisters ==
  ASSUME NEW x \in Nat, B!InBounds(x, B!DEV_REG_START, B!DEV_REG_END)
  PROVE  B!DeviceAreaAddress(x) \in B!DeviceName /\ B!AddressOf(B!DeviceAreaAddress(x)) = x
<1>1. PICK word : word = x - B!DEV_REG_START
  OBVIOUS
<1>2. word \in Nat /\ word < (Line * Dev) * Field /\ x = B!DEV_REG_START + word
  BY <1>1, Areas DEF B!InBounds
<1>3. Line \in Nat /\ Dev \in Nat \ {0} /\ Field \in Nat \ {0} /\ Line * Dev \in Nat
  BY BusAssumption
<1>4. PICK reg : reg = word \div Field
  OBVIOUS
<1>5. PICK f : f = word % Field
  OBVIOUS
<1>6. reg \in Nat /\ reg < Line * Dev /\ f \in Nat /\ f < Field /\ word = reg * Field + f
  BY <1>2, <1>3, <1>4, <1>5, Above
<1>7. PICK l : l = reg \div Dev
  OBVIOUS
<1>8. PICK d : d = reg % Dev
  OBVIOUS
<1>9. l \in Nat /\ l < Line /\ d \in Nat /\ d < Dev /\ reg = l * Dev + d
  BY <1>3, <1>6, <1>7, <1>8, Above
<1>10. B!DeviceAreaAddress(x) = <<"dev", l, d, f>>
  BY <1>1, <1>4, <1>5, <1>7, <1>8 DEF B!DeviceAreaAddress
<1>11. <<"dev", l, d, f>> \in B!DeviceName
  BY <1>3, <1>6, <1>9 DEF B!DeviceName
<1>12. reg * Field = l * Dev * Field + d * Field
  BY <1>3, <1>9
<1>13. l * Dev * Field \in Nat /\ d * Field \in Nat
  <2>1. l * Dev \in Nat
    BY <1>3, <1>9
  <2>2. QED
    BY <1>3, <1>9, <2>1
<1>14. B!AddressOf(<<"dev", l, d, f>>) = B!DEV_REG_START + l * Dev * Field + d * Field + f
  BY <1>6, <1>9, Places
<1>15. B!DEV_REG_START + l * Dev * Field + d * Field + f = x
  BY <1>2, <1>6, <1>12, <1>13, Areas
<1>16. QED
  BY <1>10, <1>11, <1>14, <1>15

-----------------------------------------------------------------------------
(* The areas follow one another. *)
LEMMA InTurn ==
  /\ B!BIOSBASE = 0 /\ RomWords \in Nat /\ B!BIOSDATABASE \in Nat /\ DataWords \in Nat /\ B!MMIO_BASE \in Nat
  /\ B!IDEV_BITMAP_BASE \in Nat /\ B!CDEV_BITMAP_BASE \in Nat /\ B!DEV_REG_START \in Nat /\ B!DEV_REG_END \in Nat
  /\ B!MCTL_BASE \in Nat
  /\ B!MMIO_END \in Nat /\ B!RAMBASE \in Nat /\ RamWords \in Nat
  /\ RomWords < B!BIOSDATABASE /\ B!BIOSDATABASE + DataWords <= B!MMIO_BASE /\ B!MMIO_BASE < B!IDEV_BITMAP_BASE
  /\ B!IDEV_BITMAP_BASE <= B!CDEV_BITMAP_BASE /\ B!CDEV_BITMAP_BASE <= B!DEV_REG_START
  /\ B!DEV_REG_START <= B!DEV_REG_END /\ B!DEV_REG_END < B!MCTL_BASE
  /\ B!MCTL_BASE + 4 = B!MMIO_END /\ B!MMIO_END < B!RAMBASE
  /\ B!IDEV_BITMAP_BASE + Line = B!CDEV_BITMAP_BASE /\ Line \in Nat
  BY Areas, BusAssumption

(* The eight kinds of names. *)
LEMMA Kinds ==
  ASSUME NEW n \in B!Name
  PROVE  \/ \E i \in Nat : i < RamWords /\ n = <<"ram", i>>
         \/ \E i \in Nat : i < DataWords /\ n = <<"data", i>>
         \/ \E i \in Nat : i < RomWords /\ n = <<"rom", i>>
         \/ \E l \in 0..Line-1, d \in 0..Dev-1, f \in 0..Field-1 : n = <<"dev", l, d, f>>
         \/ \E l \in Nat : l < Line /\ n = <<"idev", l>>
         \/ n = <<"ram size">> \/ n = <<"ncpus">> \/ n = <<"boot", "pc">> \/ n = <<"boot", "sp">>
<1>1. CASE n \in B!MemoryName
  <2>1. (\E i \in 0..RamWords-1 : n = <<"ram", i>>) \/ (\E i \in 0..DataWords-1 : n = <<"data", i>>)
    BY <1>1, Zenon DEF B!MemoryName
  <2>2. (\A i \in 0..RamWords-1 : i \in Nat /\ i < RamWords) /\ (\A i \in 0..DataWords-1 : i \in Nat /\ i < DataWords)
    BY BusAssumption
  <2>3. QED
    BY <2>1, <2>2, Zenon
<1>2. CASE n \in B!DeviceName
  <2>1. \E l \in 0..Line-1, d \in 0..Dev-1, f \in 0..Field-1 : n = <<"dev", l, d, f>>
    BY <1>2 DEF B!DeviceName
  <2>2. QED
    BY <2>1, Zenon
<1>3. CASE n \in B!BootName
  BY <1>3, Zenon DEF B!BootName
<1>4. CASE n \in B!Constant
  <2>1. \/ \E i \in 0..RomWords-1 : n = <<"rom", i>>
        \/ \E l \in 0..Line-1 : n = <<"idev", l>>
        \/ n = <<"ram size">> \/ n = <<"ncpus">>
    BY <1>4, Zenon DEF B!Constant
  <2>2. (\A i \in 0..RomWords-1 : i \in Nat /\ i < RomWords) /\ (\A l \in 0..Line-1 : l \in Nat /\ l < Line)
    BY BusAssumption
  <2>3. QED
    BY <2>1, <2>2, Zenon
<1>5. QED
  BY <1>1, <1>2, <1>3, <1>4 DEF B!Name

(* The name of an address. *)
NameAt(x) ==
  IF B!InBounds(x, B!RAMBASE, B!RAMBASE + RamWords) THEN <<"ram", x - B!RAMBASE>>
  ELSE IF B!InBounds(x, B!BIOSDATABASE, B!BIOSDATABASE + DataWords) THEN <<"data", x - B!BIOSDATABASE>>
  ELSE IF B!InBounds(x, B!BIOSBASE, B!BIOSBASE + RomWords) THEN <<"rom", x - B!BIOSBASE>>
  ELSE IF B!InBounds(x, B!DEV_REG_START, B!DEV_REG_END) THEN B!DeviceAreaAddress(x)
  ELSE IF B!InBounds(x, B!IDEV_BITMAP_BASE, B!CDEV_BITMAP_BASE) THEN <<"idev", x - B!IDEV_BITMAP_BASE>>
  ELSE IF x = B!MMIO_BASE THEN <<"ram size">>
  ELSE IF x = B!MCTL_BASE THEN <<"ncpus">>
  ELSE IF x = B!MCTL_BASE + 2 THEN <<"boot", "pc">> ELSE <<"boot", "sp">>

(* What is read at a name, in a memory as the invariant says.              *)
Held(n) == IF n \in B!MemoryName THEN memory[n]
           ELSE IF n \in B!DeviceName THEN device[n]
           ELSE IF n \in B!BootName THEN control[n] ELSE Fixed[n]

(* A name is in one store. *)
LEMMA Stores ==
  /\ \A i \in Nat : i < RamWords => <<"ram", i>> \in B!MemoryName
  /\ \A i \in Nat : i < DataWords => <<"data", i>> \in B!MemoryName
  /\ \A n \in B!MemoryName : n[1] = "ram" \/ n[1] = "data"
  /\ \A n \in B!DeviceName : n[1] = "dev"
  /\ \A n \in B!BootName : n[1] = "boot"
  /\ \A n \in B!Constant : n[1] \in {"rom", "idev", "ram size", "ncpus"}
<1>1. (\A i \in Nat : i < RamWords => <<"ram", i>> \in B!MemoryName) /\ (\A i \in Nat : i < DataWords => <<"data", i>> \in B!MemoryName)
  BY BusAssumption DEF B!MemoryName
<1>2. \A n \in B!MemoryName : n[1] = "ram" \/ n[1] = "data"
  BY DEF B!MemoryName
<1>3. \A n \in B!DeviceName : n[1] = "dev"
  BY DEF B!DeviceName
<1>4. \A n \in B!BootName : n[1] = "boot"
  BY DEF B!BootName
<1>5. \A n \in B!Constant : n[1] \in {"rom", "idev", "ram size", "ncpus"}
  <2> SUFFICES ASSUME NEW n \in B!Constant
               PROVE  n[1] \in {"rom", "idev", "ram size", "ncpus"}
    OBVIOUS
  <2>1. (\E i \in 0..RomWords-1 : n = <<"rom", i>>) \/ (\E l \in 0..Line-1 : n = <<"idev", l>>)
        \/ n = <<"ram size">> \/ n = <<"ncpus">>
    BY Zenon DEF B!Constant
  <2>2. n[1] = "rom" \/ n[1] = "idev" \/ n[1] = "ram size" \/ n[1] = "ncpus"
    <3>1. (\E i \in 0..RomWords-1 : n = <<"rom", i>>) => n[1] = "rom"
      OBVIOUS
    <3>2. (\E l \in 0..Line-1 : n = <<"idev", l>>) => n[1] = "idev"
      OBVIOUS
    <3>3. (n = <<"ram size">> => n[1] = "ram size") /\ (n = <<"ncpus">> => n[1] = "ncpus")
      <4>1. <<"ram size">>[1] = "ram size" /\ <<"ncpus">>[1] = "ncpus"
        OBVIOUS
      <4>2. QED
        BY <4>1, Zenon
    <3>4. QED
      BY <2>1, <3>1, <3>2, <3>3
  <2>3. QED
    BY <2>2
<1>6. QED
  BY <1>1, <1>2, <1>3, <1>4, <1>5

(* The address of a name leads to it and to nothing else.                  *)
LEMMA Found ==
  ASSUME NEW n \in B!Name
  PROVE  B!AddressOf(n) \in Nat /\ NameAt(B!AddressOf(n)) = n /\ B!busRead(B!AddressOf(n)) = Held(n)
<1>1. ASSUME NEW i \in Nat, i < RamWords, n = <<"ram", i>>
      PROVE  B!AddressOf(n) \in Nat /\ NameAt(B!AddressOf(n)) = n /\ B!busRead(B!AddressOf(n)) = Held(n)
  <2>1. PICK x : x = B!RAMBASE + i /\ B!AddressOf(n) = x
    BY <1>1, Places
  <2>2. x \in Nat /\ x - B!RAMBASE = i /\ B!InBounds(x, B!RAMBASE, B!RAMBASE + RamWords) /\ B!AddressOf(n) = x
    BY <1>1, <2>1, InTurn DEF B!InBounds
  <2>3. NameAt(x) = n /\ B!busRead(x) = memory[n]
    BY <1>1, <2>2 DEF NameAt, B!busRead
  <2>4. Held(n) = memory[n]
    BY <1>1, Stores DEF Held
  <2>5. QED
    BY <2>2, <2>3, <2>4
<1>2. ASSUME NEW i \in Nat, i < DataWords, n = <<"data", i>>
      PROVE  B!AddressOf(n) \in Nat /\ NameAt(B!AddressOf(n)) = n /\ B!busRead(B!AddressOf(n)) = Held(n)
  <2>1. PICK x : x = B!BIOSDATABASE + i /\ B!AddressOf(n) = x
    BY <1>2, Places
  <2>2. x \in Nat /\ x - B!BIOSDATABASE = i /\ B!InBounds(x, B!BIOSDATABASE, B!BIOSDATABASE + DataWords) /\ B!AddressOf(n) = x
        /\ ~B!InBounds(x, B!RAMBASE, B!RAMBASE + RamWords)
    BY <1>2, <2>1, InTurn DEF B!InBounds
  <2>3. NameAt(x) = n /\ B!busRead(x) = memory[n]
    BY <1>2, <2>2 DEF NameAt, B!busRead
  <2>4. Held(n) = memory[n]
    BY <1>2, Stores DEF Held
  <2>5. QED
    BY <2>2, <2>3, <2>4
<1>3. ASSUME NEW i \in Nat, i < RomWords, n = <<"rom", i>>
      PROVE  B!AddressOf(n) \in Nat /\ NameAt(B!AddressOf(n)) = n /\ B!busRead(B!AddressOf(n)) = Held(n)
  <2>1. PICK x : x = B!BIOSBASE + i /\ B!AddressOf(n) = x
    BY <1>3, Places
  <2>2. x \in Nat /\ x - B!BIOSBASE = i /\ B!InBounds(x, B!BIOSBASE, B!BIOSBASE + RomWords) /\ B!AddressOf(n) = x
        /\ ~B!InBounds(x, B!RAMBASE, B!RAMBASE + RamWords) /\ ~B!InBounds(x, B!BIOSDATABASE, B!BIOSDATABASE + DataWords)
    BY <1>3, <2>1, InTurn DEF B!InBounds
  <2>3. NameAt(x) = n /\ B!busRead(x) = Fixed[n]
    BY <1>3, <2>2 DEF NameAt, B!busRead
  <2>4. n[1] = "rom"
    BY <1>3
  <2>5. Held(n) = Fixed[n]
    BY <2>4, Stores DEF Held
  <2>6. QED
    BY <2>2, <2>3, <2>5
<1>4. ASSUME NEW l \in 0..Line-1, NEW d \in 0..Dev-1, NEW f \in 0..Field-1, n = <<"dev", l, d, f>>
      PROVE  B!AddressOf(n) \in Nat /\ NameAt(B!AddressOf(n)) = n /\ B!busRead(B!AddressOf(n)) = Held(n)
  <2>1. PICK x : x = B!AddressOf(n)
    OBVIOUS
  <2>2. x \in Nat /\ B!InBounds(x, B!DEV_REG_START, B!DEV_REG_END) /\ B!DeviceAreaAddress(x) = n
    BY <1>4, <2>1, Registers
  <2>3. /\ ~B!InBounds(x, B!RAMBASE, B!RAMBASE + RamWords) /\ ~B!InBounds(x, B!BIOSDATABASE, B!BIOSDATABASE + DataWords)
        /\ ~B!InBounds(x, B!BIOSBASE, B!BIOSBASE + RomWords) /\ B!InBounds(x, B!MMIO_BASE, B!MMIO_END)
    BY <2>2, InTurn DEF B!InBounds
  <2>4. NameAt(x) = n /\ B!busRead(x) = device[n]
    BY <2>2, <2>3 DEF NameAt, B!busRead
  <2>5. n[1] = "dev" /\ n \in B!DeviceName
    BY <1>4 DEF B!DeviceName
  <2>6. Held(n) = device[n]
    BY <2>5, Stores DEF Held
  <2>7. QED
    BY <2>1, <2>2, <2>4, <2>6
<1>5. ASSUME NEW l \in Nat, l < Line, n = <<"idev", l>>
      PROVE  B!AddressOf(n) \in Nat /\ NameAt(B!AddressOf(n)) = n /\ B!busRead(B!AddressOf(n)) = Held(n)
  <2>1. PICK x : x = B!IDEV_BITMAP_BASE + l /\ B!AddressOf(n) = x
    BY <1>5, Places
  <2>2. x \in Nat /\ x - B!IDEV_BITMAP_BASE = l /\ B!InBounds(x, B!IDEV_BITMAP_BASE, B!CDEV_BITMAP_BASE) /\ B!AddressOf(n) = x
    BY <1>5, <2>1, InTurn DEF B!InBounds
  <2>3. /\ ~B!InBounds(x, B!RAMBASE, B!RAMBASE + RamWords) /\ ~B!InBounds(x, B!BIOSDATABASE, B!BIOSDATABASE + DataWords)
        /\ ~B!InBounds(x, B!BIOSBASE, B!BIOSBASE + RomWords) /\ B!InBounds(x, B!MMIO_BASE, B!MMIO_END)
        /\ ~B!InBounds(x, B!DEV_REG_START, B!DEV_REG_END)
    BY <2>2, InTurn DEF B!InBounds
  <2>4. NameAt(x) = n /\ B!busRead(x) = Fixed[n]
    BY <1>5, <2>2, <2>3 DEF NameAt, B!busRead
  <2>5. n[1] = "idev"
    BY <1>5
  <2>6. Held(n) = Fixed[n]
    BY <2>5, Stores DEF Held
  <2>7. QED
    BY <2>2, <2>4, <2>6
<1>6. ASSUME n \in {<<"ram size">>, <<"ncpus">>, <<"boot", "pc">>, <<"boot", "sp">>}
      PROVE  B!AddressOf(n) \in Nat /\ NameAt(B!AddressOf(n)) = n /\ B!busRead(B!AddressOf(n)) = Held(n)
  <2>1. PICK x : x = B!AddressOf(n)
    OBVIOUS
  <2>2. /\ n = <<"ram size">> => x = B!MMIO_BASE
        /\ n = <<"ncpus">> => x = B!MCTL_BASE
        /\ n = <<"boot", "pc">> => x = B!MCTL_BASE + 2
        /\ n = <<"boot", "sp">> => x = B!MCTL_BASE + 3
    BY <2>1, Places
  <2>3. x \in Nat /\ (x = B!MMIO_BASE \/ x = B!MCTL_BASE \/ x = B!MCTL_BASE + 2 \/ x = B!MCTL_BASE + 3)
    <3>1. x = B!MMIO_BASE \/ x = B!MCTL_BASE \/ x = B!MCTL_BASE + 2 \/ x = B!MCTL_BASE + 3
      BY <1>6, <2>2, Zenon
    <3>2. QED
      BY <3>1, InTurn
  <2>4. /\ ~B!InBounds(x, B!RAMBASE, B!RAMBASE + RamWords) /\ ~B!InBounds(x, B!BIOSDATABASE, B!BIOSDATABASE + DataWords)
        /\ ~B!InBounds(x, B!BIOSBASE, B!BIOSBASE + RomWords) /\ B!InBounds(x, B!MMIO_BASE, B!MMIO_END)
        /\ ~B!InBounds(x, B!DEV_REG_START, B!DEV_REG_END) /\ ~B!InBounds(x, B!IDEV_BITMAP_BASE, B!CDEV_BITMAP_BASE)
    BY <2>3, InTurn DEF B!InBounds
  <2>5. B!MMIO_BASE # B!MCTL_BASE /\ B!MMIO_BASE # B!MCTL_BASE + 2 /\ B!MMIO_BASE # B!MCTL_BASE + 3
        /\ B!MCTL_BASE + 2 # B!MCTL_BASE /\ B!MCTL_BASE + 3 # B!MCTL_BASE /\ B!MCTL_BASE + 3 # B!MCTL_BASE + 2
    BY InTurn
  <2>6. CASE n = <<"ram size">>
    <3>1. NameAt(x) = n /\ B!busRead(x) = Fixed[n]
      BY <2>2, <2>4, <2>6 DEF NameAt, B!busRead
    <3>2. n[1] = "ram size"
      BY <2>6
    <3>3. Held(n) = Fixed[n]
      BY <3>2, Stores DEF Held
    <3>4. QED
      BY <2>1, <2>3, <3>1, <3>3
  <2>7. CASE n = <<"ncpus">>
    <3>1. NameAt(x) = n /\ B!busRead(x) = Fixed[n]
      BY <2>2, <2>4, <2>5, <2>7 DEF NameAt, B!busRead
    <3>2. n[1] = "ncpus"
      BY <2>7
    <3>3. Held(n) = Fixed[n]
      BY <3>2, Stores DEF Held
    <3>4. QED
      BY <2>1, <2>3, <3>1, <3>3
  <2>8. CASE n = <<"boot", "pc">> \/ n = <<"boot", "sp">>
    <3>1. NameAt(x) = n /\ B!busRead(x) = control[n]
      BY <2>2, <2>4, <2>5, <2>8 DEF NameAt, B!busRead
    <3>2. n[1] = "boot" /\ n \in B!BootName
      BY <2>8 DEF B!BootName
    <3>3. Held(n) = control[n]
      BY <3>2, Stores DEF Held
    <3>4. QED
      BY <2>1, <2>3, <3>1, <3>3
  <2>9. QED
    BY <1>6, <2>6, <2>7, <2>8
<1>7. QED
  BY <1>1, <1>2, <1>3, <1>4, <1>5, <1>6, Kinds

LEMMA Injective ==
  ASSUME NEW m \in B!Name, NEW n \in B!Name, B!AddressOf(m) = B!AddressOf(n)
  PROVE  m = n
  BY Found

(* A name that is not constant is in one of the three stores.              *)
LEMMA Partition ==
  /\ B!Name \ B!Constant = B!MemoryName \cup B!DeviceName \cup B!BootName
  /\ B!MemoryName \cap B!DeviceName = {} /\ B!MemoryName \cap B!BootName = {} /\ B!DeviceName \cap B!BootName = {}
<1>1. \A n \in B!MemoryName : n \notin B!DeviceName /\ n \notin B!BootName /\ n \notin B!Constant
  BY Stores
<1>2. \A n \in B!DeviceName : n \notin B!BootName /\ n \notin B!Constant
  BY Stores
<1>3. \A n \in B!BootName : n \notin B!Constant
  BY Stores
<1>4. QED
  BY <1>1, <1>2, <1>3, Zenon DEF B!Name

(* The addresses of the words of memory. *)
LEMMA Words ==
  ASSUME NEW x \in Nat
  PROVE  /\ B!InBounds(x, B!RAMBASE, B!RAMBASE + RamWords) \/ B!InBounds(x, B!BIOSDATABASE, B!BIOSDATABASE + DataWords)
            <=> \E m \in B!MemoryName : B!AddressOf(m) = x
         /\ \A m \in B!MemoryName : x = B!AddressOf(m) <=> x = (IF m[1] = "ram" THEN B!RAMBASE ELSE B!BIOSDATABASE) + m[2]
<1>1. ASSUME NEW m \in B!MemoryName
      PROVE  /\ B!AddressOf(m) = (IF m[1] = "ram" THEN B!RAMBASE ELSE B!BIOSDATABASE) + m[2]
             /\ B!AddressOf(m) = x => \/ B!InBounds(x, B!RAMBASE, B!RAMBASE + RamWords)
                                    \/ B!InBounds(x, B!BIOSDATABASE, B!BIOSDATABASE + DataWords)
  <2>1. (\E i \in 0..RamWords-1 : m = <<"ram", i>>) \/ (\E i \in 0..DataWords-1 : m = <<"data", i>>)
    BY Zenon DEF B!MemoryName
  <2>2. ASSUME NEW i \in 0..RamWords-1, m = <<"ram", i>>
        PROVE  /\ B!AddressOf(m) = (IF m[1] = "ram" THEN B!RAMBASE ELSE B!BIOSDATABASE) + m[2]
               /\ B!AddressOf(m) = x => B!InBounds(x, B!RAMBASE, B!RAMBASE + RamWords)
    <3>1. i \in Nat /\ i < RamWords
      BY BusAssumption
    <3>2. B!AddressOf(m) = B!RAMBASE + i /\ m[1] = "ram" /\ m[2] = i
      BY <2>2, <3>1, Places
    <3>3. B!RAMBASE + i = x => B!InBounds(x, B!RAMBASE, B!RAMBASE + RamWords)
      BY <3>1, InTurn DEF B!InBounds
    <3>4. QED
      BY <3>2, <3>3
  <2>3. ASSUME NEW i \in 0..DataWords-1, m = <<"data", i>>
        PROVE  /\ B!AddressOf(m) = (IF m[1] = "ram" THEN B!RAMBASE ELSE B!BIOSDATABASE) + m[2]
               /\ B!AddressOf(m) = x => B!InBounds(x, B!BIOSDATABASE, B!BIOSDATABASE + DataWords)
    <3>1. i \in Nat /\ i < DataWords
      BY BusAssumption
    <3>2. B!AddressOf(m) = B!BIOSDATABASE + i /\ m[1] # "ram" /\ m[2] = i
      BY <2>3, <3>1, Places
    <3>3. B!BIOSDATABASE + i = x => B!InBounds(x, B!BIOSDATABASE, B!BIOSDATABASE + DataWords)
      BY <3>1, InTurn DEF B!InBounds
    <3>4. QED
      BY <3>2, <3>3
  <2>4. QED
    BY <2>1, <2>2, <2>3
<1>2. ASSUME B!InBounds(x, B!RAMBASE, B!RAMBASE + RamWords)
      PROVE  \E m \in B!MemoryName : B!AddressOf(m) = x
  <2>1. PICK i : i = x - B!RAMBASE
    OBVIOUS
  <2>2. i \in Nat /\ i < RamWords /\ x = B!RAMBASE + i
    BY <1>2, <2>1, InTurn DEF B!InBounds
  <2>3. <<"ram", i>> \in B!MemoryName
    BY <2>2, Stores
  <2>4. B!AddressOf(<<"ram", i>>) = x
    BY <2>2, Places
  <2>5. QED
    BY <2>3, <2>4
<1>3. ASSUME B!InBounds(x, B!BIOSDATABASE, B!BIOSDATABASE + DataWords)
      PROVE  \E m \in B!MemoryName : B!AddressOf(m) = x
  <2>1. PICK i : i = x - B!BIOSDATABASE
    OBVIOUS
  <2>2. i \in Nat /\ i < DataWords /\ x = B!BIOSDATABASE + i
    BY <1>3, <2>1, InTurn DEF B!InBounds
  <2>3. <<"data", i>> \in B!MemoryName
    BY <2>2, Stores
  <2>4. B!AddressOf(<<"data", i>>) = x
    BY <2>2, Places
  <2>5. QED
    BY <2>3, <2>4
<1>4. QED
  BY <1>1, <1>2, <1>3

(* The places of the other two stores. *)
LEMMA Others ==
  /\ \A m \in B!DeviceName : B!InBounds(B!AddressOf(m), B!DEV_REG_START, B!DEV_REG_END)
  /\ \A m \in B!BootName : B!AddressOf(m) = B!MCTL_BASE + 2 \/ B!AddressOf(m) = B!MCTL_BASE + 3
  /\ B!AddressOf(<<"boot", "pc">>) = B!MCTL_BASE + 2 /\ B!AddressOf(<<"boot", "sp">>) = B!MCTL_BASE + 3
<1>1. ASSUME NEW m \in B!DeviceName
      PROVE  B!InBounds(B!AddressOf(m), B!DEV_REG_START, B!DEV_REG_END)
  <2>1. \E l \in 0..Line-1, d \in 0..Dev-1, f \in 0..Field-1 : m = <<"dev", l, d, f>>
    BY DEF B!DeviceName
  <2>2. QED
    BY <2>1, Registers
<1>2. \A m \in B!BootName : B!AddressOf(m) = B!MCTL_BASE + 2 \/ B!AddressOf(m) = B!MCTL_BASE + 3
  BY Places DEF B!BootName
<1>3. QED
  BY <1>1, <1>2, Places

(* What can be stored to can be written. *)
LEMMA Stored ==
  ASSUME NEW n \in B!Name \ B!Constant
  PROVE  B!AddressOf(n) \in Nat /\ B!Writable(B!AddressOf(n))
<1>1. B!AddressOf(n) \in Nat
  BY Found
<1>2. CASE n \in B!MemoryName
  BY <1>1, <1>2, Words DEF B!Writable
<1>3. CASE n \in B!DeviceName
  <2>1. B!InBounds(B!AddressOf(n), B!MMIO_BASE, B!MMIO_END)
    BY <1>1, <1>3, Others, InTurn DEF B!InBounds
  <2>2. QED
    BY <1>1, <2>1 DEF B!Writable
<1>4. CASE n \in B!BootName
  <2>1. B!InBounds(B!AddressOf(n), B!MMIO_BASE, B!MMIO_END)
    BY <1>1, <1>4, Others, InTurn DEF B!InBounds
  <2>2. QED
    BY <1>1, <2>1 DEF B!Writable
<1>5. QED
  BY <1>1, <1>2, <1>3, <1>4, Partition

-----------------------------------------------------------------------------
(* The memory after words were written: those of the addresses written.    *)
LEMMA MemoryHits ==
  ASSUME NEW w, DOMAIN memory = B!MemoryName
  PROVE  /\ DOMAIN B!MemoryWith(w) = B!MemoryName
         /\ \A m \in B!MemoryName : B!MemoryWith(w)[m] = IF B!AddressOf(m) \in DOMAIN w THEN w[B!AddressOf(m)] ELSE memory[m]
<1>1. DOMAIN B!MemoryWith(w) = B!MemoryName
  BY DEF B!MemoryWith
<1>2. ASSUME NEW m \in B!MemoryName
      PROVE  B!MemoryWith(w)[m] = IF B!AddressOf(m) \in DOMAIN w THEN w[B!AddressOf(m)] ELSE memory[m]
  <2>1. B!AddressOf(m) \in Nat
    BY Found DEF B!Name
  <2>2. B!AddressOf(m) = (IF m[1] = "ram" THEN B!RAMBASE ELSE B!BIOSDATABASE) + m[2]
    BY <2>1, Words
  <2>3. (m[1] = "ram" \/ m[1] = "data") /\ ~(m[1] = "ram" /\ m[1] = "data")
    BY Stores
  <2>4. B!MemoryWith(w)[m] = IF m[1] = "ram" /\ B!RAMBASE + m[2] \in DOMAIN w THEN w[B!RAMBASE + m[2]]
                           ELSE IF m[1] = "data" /\ B!BIOSDATABASE + m[2] \in DOMAIN w THEN w[B!BIOSDATABASE + m[2]]
                           ELSE memory[m]
    BY DEF B!MemoryWith
  <2>5. QED
    BY <2>2, <2>3, <2>4, Zenon
<1>3. QED
  BY <1>1, <1>2

(* So do the registers of the devices, whose addresses lead to them.       *)
LEMMA DeviceHits ==
  ASSUME NEW w, DOMAIN w \subseteq Nat, DOMAIN device = B!DeviceName
  PROVE  /\ DOMAIN B!DeviceWith(w) = B!DeviceName
         /\ \A m \in B!DeviceName : B!DeviceWith(w)[m] = IF B!AddressOf(m) \in DOMAIN w THEN w[B!AddressOf(m)] ELSE device[m]
<1> DEFINE hits == {x \in DOMAIN w : B!InBounds(x, B!DEV_REG_START, B!DEV_REG_END)}
<1> DEFINE last(n) == CHOOSE x \in hits : B!DeviceAreaAddress(x) = n /\ \A y \in hits : B!DeviceAreaAddress(y) = n => y <= x
<1>1. B!DeviceWith(w) = [n \in B!DeviceName |-> IF \E x \in hits : B!DeviceAreaAddress(x) = n THEN w[last(n)] ELSE device[n]]
  BY DEF B!DeviceWith
<1>2. ASSUME NEW m \in B!DeviceName
      PROVE  /\ B!AddressOf(m) \in Nat
             /\ \A x \in hits : B!DeviceAreaAddress(x) = m <=> x = B!AddressOf(m)
             /\ B!AddressOf(m) \in DOMAIN w => B!AddressOf(m) \in hits
  <2>1. PICK l \in 0..Line-1, d \in 0..Dev-1, f \in 0..Field-1 : m = <<"dev", l, d, f>>
    BY DEF B!DeviceName
  <2>2. /\ B!AddressOf(m) \in Nat /\ B!InBounds(B!AddressOf(m), B!DEV_REG_START, B!DEV_REG_END)
        /\ B!DeviceAreaAddress(B!AddressOf(m)) = m
    BY <2>1, Registers
  <2>3. \A x \in hits : B!AddressOf(B!DeviceAreaAddress(x)) = x
    BY OnlyRegisters
  <2>4. QED
    BY <2>2, <2>3
<1>3. ASSUME NEW m \in B!DeviceName
      PROVE  B!DeviceWith(w)[m] = IF B!AddressOf(m) \in DOMAIN w THEN w[B!AddressOf(m)] ELSE device[m]
  <2>1. (\E x \in hits : B!DeviceAreaAddress(x) = m) <=> B!AddressOf(m) \in DOMAIN w
    BY <1>2
  <2>2. ASSUME B!AddressOf(m) \in DOMAIN w
        PROVE  last(m) = B!AddressOf(m)
    <3>1. PICK z \in Nat : z = B!AddressOf(m)
      BY <1>2
    <3>2. z \in hits /\ B!DeviceAreaAddress(z) = m /\ \A y \in hits : B!DeviceAreaAddress(y) = m => y = z
      BY <1>2, <2>2, <3>1
    <3> HIDE DEF hits
    <3>3. z \in hits /\ B!DeviceAreaAddress(z) = m /\ \A y \in hits : B!DeviceAreaAddress(y) = m => y <= z
      BY <3>2
    <3>4. \A x \in hits : (B!DeviceAreaAddress(x) = m /\ \A y \in hits : B!DeviceAreaAddress(y) = m => y <= x) => x = z
      BY <3>2
    <3>5. last(m) = z
      BY <3>3, <3>4
    <3>6. QED
      BY <3>1, <3>5
  <2> HIDE DEF last, hits
  <2>3. B!DeviceWith(w)[m] = IF \E x \in hits : B!DeviceAreaAddress(x) = m THEN w[last(m)] ELSE device[m]
    BY <1>1
  <2>4. QED
    BY <2>1, <2>2, <2>3
<1>4. DOMAIN B!DeviceWith(w) = B!DeviceName
  <2> HIDE DEF last, hits
  <2>1. QED
    BY <1>1
<1>5. QED
  BY <1>3, <1>4

LEMMA ControlHits ==
  ASSUME NEW w, DOMAIN control = B!BootName
  PROVE  /\ DOMAIN B!ControlWith(w) = B!BootName
         /\ \A m \in B!BootName : B!ControlWith(w)[m] = IF B!AddressOf(m) \in DOMAIN w THEN w[B!AddressOf(m)] ELSE control[m]
<1>1. \A m \in B!BootName : B!AddressOf(m) = B!MCTL_BASE + (IF m[2] = "pc" THEN 2 ELSE 3)
  <2>1. <<"boot", "pc">>[2] = "pc" /\ <<"boot", "sp">>[2] # "pc"
    OBVIOUS
  <2>2. QED
    BY <2>1, Others DEF B!BootName
<1>2. DOMAIN B!ControlWith(w) = B!BootName
  BY DEF B!ControlWith
<1>3. ASSUME NEW m \in B!BootName
      PROVE  B!ControlWith(w)[m] = IF B!AddressOf(m) \in DOMAIN w THEN w[B!AddressOf(m)] ELSE control[m]
  <2>1. PICK x : x = B!MCTL_BASE + (IF m[2] = "pc" THEN 2 ELSE 3)
    OBVIOUS
  <2>2. B!ControlWith(w)[m] = IF x \in DOMAIN w THEN w[x] ELSE control[m]
    BY <2>1 DEF B!ControlWith
  <2>3. QED
    BY <1>1, <2>1, <2>2
<1>4. QED
  BY <1>2, <1>3

(* Words written are found where they were written, and nowhere else.      *)
LEMMA WriteHits ==
  ASSUME BusInv, NEW w, DOMAIN w \subseteq Nat, B!busWrite(w)
  PROVE  /\ DOMAIN memory' = B!MemoryName /\ DOMAIN device' = B!DeviceName /\ DOMAIN control' = B!BootName
         /\ \A m \in B!MemoryName : memory'[m] = IF B!AddressOf(m) \in DOMAIN w THEN w[B!AddressOf(m)] ELSE memory[m]
         /\ \A m \in B!DeviceName : device'[m] = IF B!AddressOf(m) \in DOMAIN w THEN w[B!AddressOf(m)] ELSE device[m]
         /\ \A m \in B!BootName : control'[m] = IF B!AddressOf(m) \in DOMAIN w THEN w[B!AddressOf(m)] ELSE control[m]
<1>1. DOMAIN memory = B!MemoryName /\ DOMAIN device = B!DeviceName /\ DOMAIN control = B!BootName
  BY DEF BusInv
<1>2. memory' = B!MemoryWith(w) /\ device' = B!DeviceWith(w) /\ control' = B!ControlWith(w)
  BY DEF B!busWrite
<1>3. QED
  BY <1>1, <1>2, MemoryHits, DeviceHits, ControlHits

(* One word.                                                               *)
LEMMA WriteHitsOne ==
  ASSUME BusInv, NEW x \in Nat, NEW v, B!busWrite([y \in {x} |-> v])
  PROVE  /\ DOMAIN memory' = B!MemoryName /\ DOMAIN device' = B!DeviceName /\ DOMAIN control' = B!BootName
         /\ \A m \in B!MemoryName : memory'[m] = IF B!AddressOf(m) = x THEN v ELSE memory[m]
         /\ \A m \in B!DeviceName : device'[m] = IF B!AddressOf(m) = x THEN v ELSE device[m]
         /\ \A m \in B!BootName : control'[m] = IF B!AddressOf(m) = x THEN v ELSE control[m]
<1>1. PICK w : w = [y \in {x} |-> v]
  OBVIOUS
<1>2. DOMAIN w = {x} /\ DOMAIN w \subseteq Nat /\ w[x] = v
  BY <1>1
<1>3. B!busWrite(w)
  BY <1>1
<1>4. QED
  BY <1>2, <1>3, WriteHits

-----------------------------------------------------------------------------
LEMMA InitBus == B!Init => BusInv
<1> SUFFICES ASSUME B!Init
             PROVE  BusInv
  OBVIOUS
<1>1. /\ memory = [n \in B!MemoryName |-> 0] /\ device = [n \in B!DeviceName |-> 0] /\ control = [n \in B!BootName |-> 0]
      /\ stored = [n \in B!Name \ B!Constant |-> 0] /\ DOMAIN block = 0..BLOCKSIZE-1
  BY DEF B!Init
<1>2. \A n \in B!MemoryName \cup B!DeviceName \cup B!BootName : n \in B!Name \ B!Constant
  BY Partition
<1>3. QED
  BY <1>1, <1>2 DEF BusInv

(* A core or the debugger stores v under name n. *)
LEMMA StoreStep ==
  ASSUME BusInv, NEW n \in B!Name, NEW v, B!DataWrite(n, v)
  PROVE  BusInv'
<1>1. B!AddressOf(n) \in Nat
  BY Found
<1>2. stored' = (IF n \in B!Constant THEN stored ELSE [stored EXCEPT ![n] = v]) /\ block' = block
  BY DEF B!DataWrite
<1>3. DOMAIN stored = B!Name \ B!Constant /\ DOMAIN block = 0..BLOCKSIZE-1
  BY DEF BusInv
<1>4. DOMAIN stored' = B!Name \ B!Constant
      /\ \A m \in B!Name \ B!Constant : stored'[m] = IF m = n THEN v ELSE stored[m]
  BY <1>2, <1>3
<1>5. \A m \in B!MemoryName \cup B!DeviceName \cup B!BootName : m \in B!Name \ B!Constant /\ m \in B!Name
  BY Partition
<1>6. CASE B!busWrite([x \in {B!AddressOf(n)} |-> v])
  <2>1. \A m \in B!Name : B!AddressOf(m) = B!AddressOf(n) <=> m = n
    BY Injective
  <2>2. /\ DOMAIN memory' = B!MemoryName /\ DOMAIN device' = B!DeviceName /\ DOMAIN control' = B!BootName
        /\ \A m \in B!MemoryName : memory'[m] = IF m = n THEN v ELSE memory[m]
        /\ \A m \in B!DeviceName : device'[m] = IF m = n THEN v ELSE device[m]
        /\ \A m \in B!BootName : control'[m] = IF m = n THEN v ELSE control[m]
    BY <1>1, <1>5, <1>6, <2>1, WriteHitsOne
  <2>3. DOMAIN block' = 0..BLOCKSIZE-1
    BY <1>2, <1>3
  <2>4. /\ \A m \in B!MemoryName : memory'[m] = stored'[m]
        /\ \A m \in B!DeviceName : device'[m] = stored'[m]
        /\ \A m \in B!BootName : control'[m] = stored'[m]
    BY <1>4, <1>5, <2>2 DEF BusInv
  <2>5. QED
    BY <1>4, <2>2, <2>3, <2>4 DEF BusInv
<1>7. ASSUME UNCHANGED <<memory, device, control>>, n \in B!Constant
      PROVE  BusInv'
  <2>1. stored' = stored /\ block' = block
    BY <1>2, <1>7
  <2>2. QED
    BY <1>7, <2>1 DEF BusInv
<1>8. n \in B!Constant \/ B!Writable(B!AddressOf(n))
  BY Stored
<1>9. QED
  BY <1>6, <1>7, <1>8 DEF B!DataWrite

(* A store to an address without a name. *)
LEMMA ElsewhereStep ==
  ASSUME BusInv, NEW x \in Nat, x \in B!Unnamed, NEW v, B!DataWriteElsewhere(x, v)
  PROVE  BusInv'
<1>1. \A m \in B!Name : B!AddressOf(m) # x
  BY DEF B!Unnamed
<1>2. stored' = stored /\ block' = block
  BY DEF B!DataWriteElsewhere
<1>3. \A m \in B!MemoryName \cup B!DeviceName \cup B!BootName : m \in B!Name
  BY Partition
<1>4. CASE B!busWrite([y \in {x} |-> v])
  <2>1. /\ DOMAIN memory' = B!MemoryName /\ DOMAIN device' = B!DeviceName /\ DOMAIN control' = B!BootName
        /\ \A m \in B!MemoryName : memory'[m] = memory[m]
        /\ \A m \in B!DeviceName : device'[m] = device[m]
        /\ \A m \in B!BootName : control'[m] = control[m]
    BY <1>1, <1>3, <1>4, WriteHitsOne
  <2>2. QED
    BY <1>2, <2>1 DEF BusInv
<1>5. CASE UNCHANGED <<memory, device, control>>
  BY <1>2, <1>5 DEF BusInv
<1>6. QED
  BY <1>4, <1>5 DEF B!DataWriteElsewhere

LEMMA CompareAndSetStep ==
  ASSUME BusInv, NEW n \in B!MemoryName, NEW old, NEW new, B!CompareAndSet(n, old, new)
  PROVE  BusInv'
<1>1. /\ memory' = [memory EXCEPT ![n] = new] /\ stored' = [stored EXCEPT ![n] = new]
      /\ device' = device /\ control' = control /\ block' = block
  BY DEF B!CompareAndSet
<1>2. n \in B!Name \ B!Constant /\ n \notin B!DeviceName /\ n \notin B!BootName
  BY Partition
<1>3. \A m \in B!MemoryName \cup B!DeviceName \cup B!BootName : m \in B!Name \ B!Constant
  BY Partition
<1>4. QED
  BY <1>1, <1>2, <1>3 DEF BusInv

(* A transfer into memory moves the words before the first that is none.   *)
LEMMA ToMemoryStep ==
  ASSUME BusInv, NEW start \in Nat, NEW len \in Nat, B!DMAToMemory(start, len)
  PROVE  BusInv'
<1>1. PICK moved : moved = B!Moved(start, len, TRUE)
  OBVIOUS
<1>2. moved = {x \in start..start+len-1 : \A y \in start..x : B!Writable(y)}
  BY <1>1 DEF B!Moved
<1>3. PICK w : w = [x \in moved |-> block[x - start]]
  OBVIOUS
<1>4. DOMAIN w = moved /\ (\A x \in moved : w[x] = block[x - start]) /\ DOMAIN w \subseteq Nat
  BY <1>2, <1>3
<1>5. /\ B!busWrite(w) /\ block' = block
      /\ stored' = [n \in DOMAIN stored |-> IF n \in B!Reached(start, len) THEN block[B!AddressOf(n) - start] ELSE stored[n]]
  BY <1>1, <1>3 DEF B!DMAToMemory
<1>6. \A x \in Nat : B!Writable(x) <=> B!InBounds(x, B!MMIO_BASE, B!MMIO_END) \/ \E m \in B!MemoryName : B!AddressOf(m) = x
  BY Words DEF B!Writable
<1>7. DOMAIN stored = B!Name \ B!Constant /\ DOMAIN memory = B!MemoryName
  BY DEF BusInv
<1>8. ASSUME NEW n \in B!Name \ B!Constant
      PROVE  n \in B!Reached(start, len) <=> B!AddressOf(n) \in moved
  <2>1. B!AddressOf(n) \in Nat
    BY Found
  <2>2. n \in B!Reached(start, len) <=>
           /\ B!AddressOf(n) \in start..start+len-1
           /\ \A x \in start..B!AddressOf(n) :
                B!InBounds(x, B!MMIO_BASE, B!MMIO_END) \/ \E m \in B!MemoryName : B!AddressOf(m) = x
    BY <1>7 DEF B!Reached
  <2>3. \A x \in start..B!AddressOf(n) : x \in Nat
    BY <2>1
  <2>4. QED
    BY <1>2, <1>6, <2>2, <2>3
<1>9. \A m \in B!MemoryName \cup B!DeviceName \cup B!BootName : m \in B!Name \ B!Constant
  BY Partition
<1>10. /\ DOMAIN stored' = B!Name \ B!Constant
       /\ \A m \in B!Name \ B!Constant : stored'[m] = IF B!AddressOf(m) \in moved THEN block[B!AddressOf(m) - start] ELSE stored[m]
  BY <1>5, <1>7, <1>8
<1>11. /\ DOMAIN memory' = B!MemoryName /\ DOMAIN device' = B!DeviceName /\ DOMAIN control' = B!BootName
       /\ \A m \in B!MemoryName : memory'[m] = IF B!AddressOf(m) \in moved THEN block[B!AddressOf(m) - start] ELSE memory[m]
       /\ \A m \in B!DeviceName : device'[m] = IF B!AddressOf(m) \in moved THEN block[B!AddressOf(m) - start] ELSE device[m]
       /\ \A m \in B!BootName : control'[m] = IF B!AddressOf(m) \in moved THEN block[B!AddressOf(m) - start] ELSE control[m]
  BY <1>4, <1>5, WriteHits
<1>12. QED
  BY <1>5, <1>9, <1>10, <1>11 DEF BusInv

(* One out of memory, and one that ends the program, change the buffer alone. *)
LEMMA TransferStep ==
  ASSUME BusInv, NEW start \in Nat, NEW len \in Nat, NEW t \in BOOLEAN, B!DMATransfer(start, len, t)
  PROVE  BusInv'
<1>1. CASE memory' = memory /\ stored' = stored /\ device' = device /\ control' = control /\ DOMAIN block' = DOMAIN block
  BY <1>1 DEF BusInv
<1>2. CASE B!DMAToMemory(start, len)
  BY <1>2, ToMemoryStep
<1>3. CASE B!DMAFromMemory(start, len)
  BY <1>1, <1>3 DEF B!DMAFromMemory
<1>4. QED
  BY <1>1, <1>2, <1>3 DEF B!DMATransfer

LEMMA NextBus == BusInv /\ [B!Next]_B!vars => BusInv'
<1> SUFFICES ASSUME BusInv, [B!Next]_B!vars
             PROVE  BusInv'
  OBVIOUS
<1>1. ASSUME NEW n \in B!Name, NEW v \in Value, B!DataWrite(n, v)
      PROVE  BusInv'
  BY <1>1, StoreStep
<1>2. \A x \in B!Address : x \in Nat
  BY InTurn DEF B!Address
<1>3. ASSUME NEW x \in B!Unnamed, NEW v \in Value, B!DataWriteElsewhere(x, v)
      PROVE  BusInv'
  BY <1>2, <1>3, ElsewhereStep DEF B!Unnamed
<1>4. ASSUME NEW n \in B!MemoryName, NEW v \in Value \cup {0}, NEW u \in Value, B!CompareAndSet(n, v, u)
      PROVE  BusInv'
  BY <1>4, CompareAndSetStep
<1>5. ASSUME NEW x \in B!Address, NEW len \in 1..BLOCKSIZE, NEW t \in BOOLEAN, B!DMATransfer(x, len, t)
      PROVE  BusInv'
  <2>1. x \in Nat /\ len \in Nat
    BY <1>2, BusAssumption
  <2>2. QED
    BY <1>5, <2>1, TransferStep
<1>6. CASE UNCHANGED B!vars
  BY <1>6 DEF B!vars, BusInv
<1>7. QED
  BY <1>1, <1>3, <1>4, <1>5, <1>6 DEF B!Next

LEMMA BusMeans == BusInv => B!ReadsLastStored
<1> SUFFICES ASSUME BusInv, NEW n \in B!Name
             PROVE  B!busRead(B!AddressOf(n)) = IF n \in B!Constant THEN Fixed[n] ELSE stored[n]
  BY DEF B!ReadsLastStored
<1>1. B!busRead(B!AddressOf(n)) = Held(n)
  BY Found
<1>2. CASE n \in B!Constant
  <2>1. n \notin B!MemoryName /\ n \notin B!DeviceName /\ n \notin B!BootName
    BY <1>2, Partition
  <2>2. QED
    BY <1>1, <1>2, <2>1 DEF Held
<1>3. CASE n \notin B!Constant
  <2>1. n \in B!MemoryName \/ n \in B!DeviceName \/ n \in B!BootName
    BY <1>3, Partition
  <2>2. QED
    BY <1>1, <1>3, <2>1 DEF Held, BusInv
<1>4. QED
  BY <1>2, <1>3

LEMMA InitMemory == MCInit => (active = "bus" => BusInv)
  BY InitBus DEF MCInit

LEMMA NextMemory == (active = "bus" => BusInv) /\ [MCNext]_allVars => (active = "bus" => BusInv)'
<1> SUFFICES ASSUME active = "bus" => BusInv, [MCNext]_allVars, active' = "bus"
             PROVE  BusInv'
  OBVIOUS
<1>1. active = "bus"
  BY OneRuns
<1>2. B!Next \/ UNCHANGED bVars
  BY <1>1 DEF MCNext, allVars
<1>3. UNCHANGED bVars => UNCHANGED B!vars
  BY DEF bVars, B!vars
<1>4. QED
  BY <1>1, <1>2, <1>3, NextBus

(* Whatever cores, debugger and devices store, of one word or of a block,  *)
(* wherever it goes and wherever a transfer fails: busRead finds under     *)
(* every name what busWrite, the compare-and-set or DMATransfer stored     *)
(* there last, for all sizes of the areas and all numbers of lines,        *)
(* devices and fields.                                                     *)
THEOREM LastStoredIsRead == MCSpec => []ReadsLastStored
<1>1. (active = "bus" => BusInv) => ReadsLastStored
  BY BusMeans DEF ReadsLastStored
<1>2. QED
  BY <1>1, InitMemory, NextMemory, PTL DEF MCSpec

-----------------------------------------------------------------------------
(* The symbol table.                                                       *)
(* A table as the constructor leaves it: sorted.                           *)
Table(t) == t \in Seq(Y!Symbol) /\ Y!InOrder(t)

(* The holders of the address are within the bounds of the search.         *)
Within(t) == \A i \in Y!Holders(t) : a <= i - 1 /\ i - 1 <= c

Searching(t) == a \in Nat /\ c \in Nat /\ a <= c /\ c <= Len(t) - 1 /\ result = Y!NotFound

TableInv ==
  /\ Table(functions) /\ Table(objects) /\ (tidy => Y!Disjoint(functions))
  /\ pos \in Nat /\ fullSearch \in BOOLEAN /\ tidy \in BOOLEAN
  /\ a \in Nat /\ c \in Int /\ result \in Y!Symbol \cup {Y!NotFound}
  /\ stage \in {"idle", "functions", "objects", "done"}
  /\ stage = "functions" => Searching(functions) /\ (tidy => Within(functions))
  /\ stage = "objects" => /\ Searching(objects) /\ fullSearch
                          /\ tidy => Y!Holders(functions) = {}
                          /\ Y!Disjoint(objects) => Within(objects)
  /\ Y!SearchExact

(* Entry i of a sorted table. *)
LEMMA Entries ==
  ASSUME NEW t, Table(t)
  PROVE  /\ Len(t) \in Nat /\ DOMAIN t = 1..Len(t)
         /\ \A i \in DOMAIN t : t[i] \in Y!Symbol /\ t[i].start \in Nat /\ t[i].size \in Nat
         /\ \A i, j \in DOMAIN t : i < j => t[i].start <= t[j].start
<1>1. t \in Seq(Y!Symbol)
  BY DEF Table
<1>2. Len(t) \in Nat /\ DOMAIN t = 1..Len(t) /\ \A i \in DOMAIN t : t[i] \in Y!Symbol
  BY <1>1
<1>3. \A s \in Y!Symbol : s.start \in Nat /\ s.size \in Nat
  BY DEF Y!Symbol
<1>4. QED
  BY <1>2, <1>3 DEF Table, Y!InOrder

-----------------------------------------------------------------------------
(* What is loaded. *)
LEMMA ClampedFacts ==
  ASSUME NEW n \in Nat, NEW t \in Y!Records(n)
  PROVE  /\ Table(Y!Clamped(t)) /\ DOMAIN Y!Clamped(t) = DOMAIN t /\ Len(Y!Clamped(t)) = Len(t)
<1>1. PICK m \in 0..n : t \in [1..m -> [start : 0..LastAddr, size : 0..MaxSize]]
  BY DEF Y!Records
<1>2. Y!InOrder(t)
  BY DEF Y!Records
<1>3. \A i \in 1..m : t[i].start \in Nat /\ t[i].size \in Nat /\ t[i] \in [start : 0..LastAddr, size : 0..MaxSize]
  BY <1>1, FileAssumption
<1>4. \A i \in 1..m : [t[i] EXCEPT !.size = IF @ = 0 THEN 1 ELSE @] \in Y!Symbol
  BY <1>3, FileAssumption DEF Y!Symbol
<1>5. \A i \in 1..m : [t[i] EXCEPT !.size = IF @ = 0 THEN 1 ELSE @].start = t[i].start
  BY <1>3
<1>6. DOMAIN t = 1..m
  BY <1>1
<1>7. Y!Clamped(t) \in [1..m -> Y!Symbol] /\ \A i \in 1..m : Y!Clamped(t)[i].start = t[i].start
  BY <1>4, <1>5, <1>6 DEF Y!Clamped
<1>8. m \in Nat
  BY <1>1
<1>9. Y!Clamped(t) \in Seq(Y!Symbol)
  BY <1>7, <1>8
<1>10. Y!InOrder(Y!Clamped(t))
  BY <1>2, <1>6, <1>7 DEF Y!InOrder
<1>11. Len(Y!Clamped(t)) = m /\ Len(t) = m
  BY <1>1, <1>7, <1>8
<1>12. QED
  BY <1>6, <1>7, <1>9, <1>10, <1>11 DEF Table

(* Extended functions reach the next one at most.                          *)
LEMMA BackpatchedFacts ==
  ASSUME NEW t, Table(t)
  PROVE  Table(Y!Backpatched(t)) /\ (Y!Disjoint(t) => Y!Disjoint(Y!Backpatched(t)))
<1> DEFINE f == Y!Backpatched(t)
<1>1. Len(t) \in Nat /\ DOMAIN t = 1..Len(t)
  BY Entries
<1>2. \A i \in DOMAIN t : t[i] \in Y!Symbol /\ t[i].start \in Nat /\ t[i].size \in Nat
  BY Entries
<1>3. \A i, j \in DOMAIN t : i < j => t[i].start <= t[j].start
  BY Entries
<1>4. \A i \in DOMAIN t : i < Len(t) => i + 1 \in DOMAIN t /\ i < i + 1
  BY <1>1
<1>5. \A i \in DOMAIN t : f[i] \in Y!Symbol /\ f[i].start = t[i].start
                          /\ f[i].size = IF i < Len(t) /\ t[i].size = 1 THEN t[i + 1].start - t[i].start ELSE t[i].size
  <2> SUFFICES ASSUME NEW i \in DOMAIN t
               PROVE  f[i] \in Y!Symbol /\ f[i].start = t[i].start
                      /\ f[i].size = IF i < Len(t) /\ t[i].size = 1 THEN t[i + 1].start - t[i].start ELSE t[i].size
    OBVIOUS
  <2>1. f[i] = IF i < Len(t) /\ t[i].size = 1 THEN [t[i] EXCEPT !.size = t[i + 1].start - t[i].start] ELSE t[i]
    BY DEF Y!Backpatched
  <2>2. CASE i < Len(t) /\ t[i].size = 1
    <3>1. i + 1 \in DOMAIN t /\ t[i].start <= t[i + 1].start
      BY <1>3, <1>4, <2>2
    <3>2. t[i + 1].start - t[i].start \in Nat
      BY <1>2, <3>1
    <3>3. f[i] = [t[i] EXCEPT !.size = t[i + 1].start - t[i].start]
      BY <2>1, <2>2
    <3>4. QED
      BY <1>2, <2>2, <3>2, <3>3 DEF Y!Symbol
  <2>3. CASE ~(i < Len(t) /\ t[i].size = 1)
    BY <1>2, <2>1, <2>3
  <2>4. QED
    BY <2>2, <2>3
<1>6. DOMAIN f = 1..Len(t) /\ f \in [1..Len(t) -> Y!Symbol]
  BY <1>1, <1>5 DEF Y!Backpatched
<1>7. f \in Seq(Y!Symbol) /\ Y!InOrder(f)
  <2>1. f \in Seq(Y!Symbol)
    BY <1>1, <1>6
  <2>2. Y!InOrder(f)
    BY <1>1, <1>3, <1>5, <1>6 DEF Y!InOrder
  <2>3. QED
    BY <2>1, <2>2
<1>8. ASSUME Y!Disjoint(t), NEW i \in DOMAIN t, NEW j \in DOMAIN t, i < j
      PROVE  f[i].start + f[i].size <= f[j].start
  <2>1. t[i].start + t[i].size <= t[j].start
    BY <1>8 DEF Y!Disjoint
  <2>2. CASE i < Len(t) /\ t[i].size = 1
    <3>1. i + 1 \in DOMAIN t /\ (i + 1 = j \/ i + 1 < j)
      BY <1>1, <1>4, <1>8, <2>2
    <3>2. t[i + 1].start <= t[j].start
      BY <1>2, <1>3, <3>1
    <3>3. f[i].start = t[i].start /\ f[i].size = t[i + 1].start - t[i].start /\ f[j].start = t[j].start
      BY <1>5, <2>2
    <3>4. t[i].start \in Nat /\ t[i + 1].start \in Nat /\ t[j].start \in Nat
      BY <1>2, <3>1
    <3>5. QED
      BY <3>2, <3>3, <3>4
  <2>3. CASE ~(i < Len(t) /\ t[i].size = 1)
    <3>1. f[i].start = t[i].start /\ f[i].size = t[i].size /\ f[j].start = t[j].start
      BY <1>5, <2>3
    <3>2. QED
      BY <2>1, <3>1
  <2>4. QED
    BY <2>2, <2>3
<1>9. Y!Disjoint(t) => Y!Disjoint(f)
  BY <1>1, <1>6, <1>8 DEF Y!Disjoint
<1>10. QED
  BY <1>7, <1>9 DEF Table

LEMMA InitTables == Y!Init => TableInv
<1> SUFFICES ASSUME Y!Init
             PROVE  TableInv
  OBVIOUS
<1>1. PICK t \in Y!Records(MaxFun) : functions = Y!Backpatched(Y!Clamped(t)) /\ tidy = Y!Disjoint(Y!Clamped(t))
  BY DEF Y!Init
<1>2. PICK o \in Y!Records(MaxObj) : objects = Y!Clamped(o)
  BY DEF Y!Init
<1>3. Table(Y!Clamped(t)) /\ Table(objects)
  BY <1>2, ClampedFacts, FileAssumption
<1>4. Table(functions) /\ (tidy => Y!Disjoint(functions)) /\ tidy \in BOOLEAN
  <2>1. Table(functions) /\ (Y!Disjoint(Y!Clamped(t)) => Y!Disjoint(functions))
    BY <1>1, <1>3, BackpatchedFacts
  <2>2. tidy \in BOOLEAN
    BY <1>1 DEF Y!Disjoint
  <2>3. QED
    BY <1>1, <2>1, <2>2
<1>5. pos = 0 /\ fullSearch = FALSE /\ a = 0 /\ c = 0 /\ stage = "idle" /\ result = Y!NotFound
  BY DEF Y!Init
<1>6. Y!SearchExact
  BY <1>5 DEF Y!SearchExact
<1>7. pos \in Nat /\ fullSearch \in BOOLEAN /\ a \in Nat /\ c \in Int /\ result \in Y!Symbol \cup {Y!NotFound}
  <2>1. pos \in Nat /\ a \in Nat /\ c \in Int
    BY <1>5, SMT
  <2>2. fullSearch \in BOOLEAN
    BY <1>5, Zenon
  <2>3. result \in Y!Symbol \cup {Y!NotFound}
    BY <1>5, Zenon
  <2>4. QED
    BY <2>1, <2>2, <2>3
<1>8. stage # "functions" /\ stage # "objects"
  BY <1>5
<1>9. QED
  BY <1>3, <1>4, <1>5, <1>6, <1>7, <1>8, Zenon DEF TableInv

-----------------------------------------------------------------------------
(* A round of the search in table t. *)
LEMMA Middle ==
  ASSUME NEW x \in Nat, NEW y \in Nat, x <= y
  PROVE  (x + y) \div 2 \in Nat /\ x <= (x + y) \div 2 /\ (x + y) \div 2 <= y
  OBVIOUS

(* One symbol holds an address at most, if they are disjoint.              *)
LEMMA OneHolder ==
  ASSUME NEW t, Table(t), Y!Disjoint(t), pos \in Nat, NEW i \in Y!Holders(t), NEW j \in Y!Holders(t)
  PROVE  i = j
<1>1. i \in DOMAIN t /\ j \in DOMAIN t /\ i \in Nat /\ j \in Nat /\ Y!Contains(t[i], pos) /\ Y!Contains(t[j], pos)
  BY Entries DEF Y!Holders
<1>2. t[i].start \in Nat /\ t[i].size \in Nat /\ t[j].start \in Nat /\ t[j].size \in Nat
  BY <1>1, Entries
<1>3. ASSUME NEW k \in DOMAIN t, NEW l \in DOMAIN t, k < l, Y!Contains(t[k], pos), Y!Contains(t[l], pos)
      PROVE  FALSE
  <2>1. t[k].start + t[k].size <= t[l].start
    BY <1>3 DEF Y!Disjoint
  <2>2. pos < t[k].start + t[k].size /\ t[l].start <= pos
    BY <1>3 DEF Y!Contains
  <2>3. t[k].start \in Nat /\ t[k].size \in Nat /\ t[l].start \in Nat
    BY <1>3, Entries
  <2>4. QED
    BY <2>1, <2>2, <2>3
<1>4. ~(i < j) /\ ~(j < i)
  BY <1>1, <1>3
<1>5. QED
  BY <1>1, <1>4

(* The half that Narrow keeps has every holder.                            *)
LEMMA Halved ==
  ASSUME NEW t, Table(t), Y!Disjoint(t), pos \in Nat, NEW x \in Nat, NEW y \in Nat, y <= Len(t) - 1,
         \A i \in Y!Holders(t) : x <= i - 1 /\ i - 1 <= y,
         NEW b \in Nat, x <= b, b <= y, ~Y!Contains(t[b + 1], pos)
  PROVE  IF pos < t[b + 1].start THEN \A i \in Y!Holders(t) : x <= i - 1 /\ i - 1 <= b - 1
         ELSE \A i \in Y!Holders(t) : b + 1 <= i - 1 /\ i - 1 <= y
<1>1. Len(t) \in Nat /\ DOMAIN t = 1..Len(t)
  BY Entries
<1>2. b + 1 \in DOMAIN t
  BY <1>1
<1>3. t[b + 1].start \in Nat /\ t[b + 1].size \in Nat
  BY <1>2, Entries
<1>4. ASSUME NEW i \in Y!Holders(t)
      PROVE  IF pos < t[b + 1].start THEN i - 1 <= b - 1 ELSE b + 1 <= i - 1
  <2>1. i \in DOMAIN t /\ i \in Nat /\ t[i].start \in Nat /\ t[i].size \in Nat
    BY <1>1, Entries DEF Y!Holders
  <2>2. t[i].start <= pos /\ pos < t[i].start + t[i].size
    BY DEF Y!Holders, Y!Contains
  <2>3. i # b + 1
    BY DEF Y!Holders
  <2>4. CASE pos < t[b + 1].start
    <3>1. ~(b + 1 < i)
      <4>1. b + 1 < i => t[b + 1].start <= t[i].start
        BY <1>2, <2>1, Entries
      <4>2. QED
        BY <1>3, <2>1, <2>2, <2>4, <4>1
    <3>2. QED
      BY <2>1, <2>3, <2>4, <3>1
  <2>5. CASE ~(pos < t[b + 1].start)
    <3>1. ~(i < b + 1)
      <4>1. i < b + 1 => t[i].start + t[i].size <= t[b + 1].start
        BY <1>2, <2>1 DEF Y!Disjoint
      <4>2. QED
        BY <1>3, <2>1, <2>2, <2>5, <4>1
    <3>2. QED
      BY <2>1, <2>3, <2>5, <3>1
  <2>6. QED
    BY <2>4, <2>5
<1>5. QED
  BY <1>4

LEMMA ProbeStep ==
  ASSUME TableInv, NEW p \in Nat, NEW full \in BOOLEAN, Y!Probe(p, full)
  PROVE  TableInv'
<1>1. UNCHANGED <<functions, objects, tidy>> /\ pos' = p /\ fullSearch' = full /\ result' = Y!NotFound
  BY DEF Y!Probe
<1>2. Table(functions) /\ Table(objects) /\ (tidy => Y!Disjoint(functions))
  BY DEF TableInv
<1>3. /\ Table(functions)' /\ Table(objects)' /\ (tidy => Y!Disjoint(functions))'
      /\ pos' \in Nat /\ fullSearch' \in BOOLEAN /\ tidy' \in BOOLEAN /\ result' \in Y!Symbol \cup {Y!NotFound}
  BY <1>1, <1>2 DEF TableInv, Table, Y!InOrder, Y!Disjoint
<1>4. \A t : Table(t) /\ t # <<>> => 0 <= Len(t) - 1 /\ Len(t) - 1 \in Nat
  <2>1. \A t \in Seq(Y!Symbol) : t # <<>> => Len(t) \in Nat /\ Len(t) > 0
    OBVIOUS
  <2>2. QED
    BY <2>1 DEF Table
<1>5. \A i \in Y!Holders(functions)' : 0 <= i - 1 /\ i - 1 <= Len(functions) - 1
  BY <1>1, <1>2, Entries DEF Y!Holders
<1>6. \A i \in Y!Holders(objects)' : 0 <= i - 1 /\ i - 1 <= Len(objects) - 1
  BY <1>1, <1>2, Entries DEF Y!Holders
<1>7. CASE functions # <<>>
  <2>1. stage' = "functions" /\ a' = 0 /\ c' = Len(functions) - 1
    BY <1>7 DEF Y!Probe
  <2>2. Searching(functions)' /\ Within(functions)'
    BY <1>1, <1>2, <1>4, <1>5, <1>7, <2>1 DEF Searching, Within
  <2>3. a' \in Nat /\ c' \in Int
    BY <1>2, <1>4, <1>7, <2>1
  <2>4. Y!SearchExact'
    BY <2>1 DEF Y!SearchExact
  <2>5. QED
    BY <1>3, <2>1, <2>2, <2>3, <2>4 DEF TableInv
<1>8. CASE functions = <<>>
  <2>1. Y!Holders(functions)' = {}
    BY <1>1, <1>8 DEF Y!Holders
  <2>2. CASE full /\ objects # <<>>
    <3>1. stage' = "objects" /\ a' = 0 /\ c' = Len(objects) - 1
      BY <1>8, <2>2 DEF Y!Probe
    <3>2. Searching(objects)' /\ Within(objects)'
      BY <1>1, <1>2, <1>4, <1>6, <2>2, <3>1 DEF Searching, Within
    <3>3. a' \in Nat /\ c' \in Int
      BY <1>2, <1>4, <2>2, <3>1
    <3>4. Y!SearchExact'
      BY <3>1 DEF Y!SearchExact
    <3>5. QED
      BY <1>1, <1>3, <2>1, <2>2, <3>1, <3>2, <3>3, <3>4 DEF TableInv
  <2>3. CASE ~(full /\ objects # <<>>)
    <3>1. stage' = "done" /\ UNCHANGED <<a, c>>
      BY <1>8, <2>3 DEF Y!Probe
    <3>2. ~fullSearch' \/ Y!Holders(objects)' = {}
      BY <1>1, <2>3 DEF Y!Holders
    <3>3. Y!SearchExact'
      BY <1>1, <2>1, <3>2 DEF Y!SearchExact
    <3>4. QED
      BY <1>3, <3>1, <3>3 DEF TableInv
  <2>4. QED
    BY <2>2, <2>3
<1>9. QED
  BY <1>7, <1>8

(* The holders do not depend on the bounds. *)
LEMMA SameHolders ==
  ASSUME UNCHANGED <<functions, objects, pos>>
  PROVE  Y!Holders(functions)' = Y!Holders(functions) /\ Y!Holders(objects)' = Y!Holders(objects)
  BY DEF Y!Holders

LEMMA RoundStep ==
  ASSUME TableInv, Y!Round
  PROVE  TableInv'
<1>1. UNCHANGED <<functions, objects, pos, fullSearch, tidy>>
  BY DEF Y!Round
<1>2. /\ Table(functions) /\ Table(objects) /\ (tidy => Y!Disjoint(functions))
      /\ pos \in Nat /\ fullSearch \in BOOLEAN /\ tidy \in BOOLEAN
  BY DEF TableInv
<1>3. /\ Table(functions)' /\ Table(objects)' /\ (tidy => Y!Disjoint(functions))'
      /\ pos' \in Nat /\ fullSearch' \in BOOLEAN /\ tidy' \in BOOLEAN
      /\ Y!Disjoint(objects)' = Y!Disjoint(objects)
  BY <1>1, <1>2 DEF Table, Y!InOrder, Y!Disjoint
<1>4. PICK t : t = Y!Searched
  OBVIOUS
<1>5. PICK b : b = (a + c) \div 2
  OBVIOUS
<1>6. PICK s : s = t[b + 1]
  OBVIOUS
<1>7. stage \in {"functions", "objects"} /\ t = IF stage = "functions" THEN functions ELSE objects
  BY <1>4 DEF Y!Round, Y!Searched
<1>8. Searching(t) /\ Table(t)
  BY <1>2, <1>7 DEF TableInv
<1>9. b \in Nat /\ a <= b /\ b <= c /\ a \in Nat /\ c \in Nat /\ c <= Len(t) - 1
  BY <1>5, <1>8, Middle DEF Searching
<1>10. Len(t) \in Nat /\ DOMAIN t = 1..Len(t)
  BY <1>8, Entries
<1>11. b + 1 \in DOMAIN t
  BY <1>9, <1>10
<1>12. s \in Y!Symbol /\ s.start \in Nat /\ s.size \in Nat
  BY <1>6, <1>8, <1>11, Entries
<1>13. \/ Y!Contains(s, pos) /\ result' = s /\ stage' = "done" /\ UNCHANGED <<a, c>>
       \/ /\ ~Y!Contains(s, pos) /\ ((pos < s.start /\ a <= b - 1) \/ (pos >= s.start /\ b + 1 <= c))
          /\ Y!Narrow(b, s) /\ UNCHANGED <<stage, result>>
       \/ /\ ~Y!Contains(s, pos) /\ ~((pos < s.start /\ a <= b - 1) \/ (pos >= s.start /\ b + 1 <= c))
          /\ Y!Missed /\ UNCHANGED result
  BY <1>4, <1>5, <1>6 DEF Y!Round
<1>14. (stage = "functions" /\ tidy) \/ (stage = "objects" /\ Y!Disjoint(objects)) => Y!Disjoint(t) /\ Within(t)
  BY <1>2, <1>7 DEF TableInv
<1>15. stage = "objects" => fullSearch /\ (tidy => Y!Holders(functions) = {})
  BY DEF TableInv
<1>16. CASE Y!Contains(s, pos) /\ result' = s /\ stage' = "done" /\ UNCHANGED <<a, c>>
  <2>1. b + 1 \in Y!Holders(t)
    BY <1>6, <1>11, <1>16 DEF Y!Holders
  <2>2. Y!Disjoint(t) => \A i \in Y!Holders(t) : s = t[i]
    BY <1>2, <1>6, <1>8, <2>1, OneHolder
  <2>3. Y!Contains(result', pos')
    BY <1>1, <1>16
  <2>4. tidy => \A i \in Y!Holders(functions) : s = functions[i]
    BY <1>7, <1>14, <1>15, <2>2
  <2>5. Y!Disjoint(objects) /\ Y!Holders(functions) = {} => \A i \in Y!Holders(objects) : s = objects[i]
    BY <1>7, <1>14, <2>1, <2>2
  <2>6. Y!SearchExact'
    BY <1>1, <1>3, <1>16, <2>3, <2>4, <2>5, SameHolders DEF Y!SearchExact
  <2>7. a' \in Nat /\ c' \in Int /\ result' \in Y!Symbol
    BY <1>9, <1>12, <1>16
  <2>8. QED
    BY <1>3, <1>16, <2>6, <2>7 DEF TableInv
<1>17. ~Y!Contains(s, pos) /\ Y!Disjoint(t) /\ Within(t) =>
         IF pos < s.start THEN \A i \in Y!Holders(t) : a <= i - 1 /\ i - 1 <= b - 1
         ELSE \A i \in Y!Holders(t) : b + 1 <= i - 1 /\ i - 1 <= c
  BY <1>2, <1>6, <1>8, <1>9, Halved DEF Within
<1>18. CASE /\ ~Y!Contains(s, pos) /\ ((pos < s.start /\ a <= b - 1) \/ (pos >= s.start /\ b + 1 <= c))
            /\ Y!Narrow(b, s) /\ UNCHANGED <<stage, result>>
  <2>1. IF pos < s.start THEN a' = a /\ c' = b - 1 /\ a <= b - 1 ELSE a' = b + 1 /\ c' = c /\ b + 1 <= c
    BY <1>2, <1>12, <1>18 DEF Y!Narrow
  <2>2. a' \in Nat /\ c' \in Nat /\ a' <= c' /\ c' <= Len(t) - 1
    BY <1>9, <1>10, <2>1
  <2>3. Y!Disjoint(t) /\ Within(t) => \A i \in Y!Holders(t) : a' <= i - 1 /\ i - 1 <= c'
    BY <1>17, <1>18, <2>1
  <2>4. result' = Y!NotFound /\ stage' = stage
    BY <1>8, <1>18 DEF Searching
  <2>5. CASE stage = "functions"
    <3>1. Searching(functions)' /\ (tidy => Within(functions))'
      BY <1>1, <1>7, <1>14, <2>2, <2>3, <2>4, <2>5, SameHolders DEF Searching, Within
    <3>2. Y!SearchExact'
      BY <2>4, <2>5 DEF Y!SearchExact
    <3>3. QED
      BY <1>3, <2>2, <2>4, <2>5, <3>1, <3>2 DEF TableInv
  <2>6. CASE stage = "objects"
    <3>1. Searching(objects)' /\ (Y!Disjoint(objects) => Within(objects))'
      BY <1>1, <1>3, <1>7, <1>14, <2>2, <2>3, <2>4, <2>6, SameHolders DEF Searching, Within
    <3>2. (fullSearch /\ (tidy => Y!Holders(functions) = {}))'
      BY <1>1, <1>15, <2>6, SameHolders
    <3>3. Y!SearchExact'
      BY <2>4, <2>6 DEF Y!SearchExact
    <3>4. QED
      BY <1>3, <2>2, <2>4, <2>6, <3>1, <3>2, <3>3 DEF TableInv
  <2>7. QED
    BY <1>7, <2>5, <2>6
<1>19. CASE /\ ~Y!Contains(s, pos) /\ ~((pos < s.start /\ a <= b - 1) \/ (pos >= s.start /\ b + 1 <= c))
            /\ Y!Missed /\ UNCHANGED result
  <2>1. Y!Disjoint(t) /\ Within(t) => Y!Holders(t) = {}
    <3> SUFFICES ASSUME Y!Disjoint(t), Within(t), NEW i \in Y!Holders(t)
                 PROVE  FALSE
      OBVIOUS
    <3>1. i \in Nat
      BY <1>10 DEF Y!Holders
    <3>2. IF pos < s.start THEN a <= i - 1 /\ i - 1 <= b - 1 /\ ~(a <= b - 1)
          ELSE b + 1 <= i - 1 /\ i - 1 <= c /\ ~(b + 1 <= c)
      BY <1>2, <1>12, <1>17, <1>19
    <3>3. QED
      BY <1>9, <3>1, <3>2
  <2>2. result' = Y!NotFound
    BY <1>8, <1>19 DEF Searching
  <2>3. CASE stage = "functions" /\ fullSearch /\ objects # <<>>
    <3>1. stage' = "objects" /\ a' = 0 /\ c' = Len(objects) - 1
      BY <1>19, <2>3 DEF Y!Missed
    <3>2. Len(objects) \in Nat /\ Len(objects) > 0 /\ DOMAIN objects = 1..Len(objects)
      <4>1. objects \in Seq(Y!Symbol)
        BY <1>2 DEF Table
      <4>2. QED
        BY <2>3, <4>1
    <3>3. \A i \in Y!Holders(objects) : 0 <= i - 1 /\ i - 1 <= Len(objects) - 1
      BY <3>2 DEF Y!Holders
    <3>4. Searching(objects)'
      BY <1>1, <2>2, <3>1, <3>2 DEF Searching
    <3>5. Within(objects)'
      BY <1>1, <3>1, <3>3, SameHolders DEF Within
    <3>6. (fullSearch /\ (tidy => Y!Holders(functions) = {}))'
      BY <1>1, <1>7, <1>14, <2>1, <2>3, SameHolders
    <3>7. Y!SearchExact'
      BY <3>1 DEF Y!SearchExact
    <3>8. a' \in Nat /\ c' \in Int
      BY <3>1, <3>2
    <3>9. QED
      BY <1>3, <2>2, <3>1, <3>4, <3>5, <3>6, <3>7, <3>8 DEF TableInv
  <2>4. CASE ~(stage = "functions" /\ fullSearch /\ objects # <<>>)
    <3>1. stage' = "done" /\ UNCHANGED <<a, c>>
      BY <1>19, <2>4 DEF Y!Missed
    <3>2. tidy => Y!Holders(functions) = {}
      BY <1>7, <1>14, <1>15, <2>1
    <3>3. Y!Disjoint(objects) /\ fullSearch => Y!Holders(objects) = {}
      <4>1. CASE stage = "objects"
        BY <1>7, <1>14, <2>1, <4>1
      <4>2. CASE stage = "functions" /\ objects = <<>>
        BY <4>2 DEF Y!Holders
      <4>3. QED
        BY <1>7, <2>4, <4>1, <4>2
    <3>4. Y!SearchExact'
      BY <1>1, <1>3, <2>2, <3>2, <3>3, SameHolders DEF Y!SearchExact
    <3>5. a' \in Nat /\ c' \in Int
      BY <1>9, <3>1
    <3>6. QED
      BY <1>3, <2>2, <3>1, <3>4, <3>5 DEF TableInv
  <2>5. QED
    BY <2>3, <2>4
<1>20. QED
  BY <1>13, <1>16, <1>18, <1>19

LEMMA NextTables == TableInv /\ [Y!Next]_Y!vars => TableInv'
<1> SUFFICES ASSUME TableInv, [Y!Next]_Y!vars
             PROVE  TableInv'
  OBVIOUS
<1>1. ASSUME NEW p \in 0..LastAddr + MaxSize, NEW full \in BOOLEAN, Y!Probe(p, full)
      PROVE  TableInv'
  BY <1>1, ProbeStep, FileAssumption
<1>2. CASE Y!Round
  BY <1>2, RoundStep
<1>3. CASE UNCHANGED Y!vars
  BY <1>3 DEF Y!vars, TableInv, Table, Y!InOrder, Y!Disjoint, Searching, Within, Y!Holders, Y!SearchExact
<1>4. QED
  BY <1>1, <1>2, <1>3 DEF Y!Next

LEMMA TablesMean == TableInv => Y!TypeOK /\ Y!SearchExact
  BY DEF TableInv, Y!TypeOK, Table

LEMMA InitSymbols == MCInit => (active = "symbols" => TableInv)
  BY InitTables DEF MCInit

LEMMA NextSymbols == (active = "symbols" => TableInv) /\ [MCNext]_allVars => (active = "symbols" => TableInv)'
<1> SUFFICES ASSUME active = "symbols" => TableInv, [MCNext]_allVars, active' = "symbols"
             PROVE  TableInv'
  OBVIOUS
<1>1. active = "symbols"
  BY OneRuns
<1>2. Y!Next \/ UNCHANGED yVars
  BY <1>1 DEF MCNext, allVars
<1>3. UNCHANGED yVars => UNCHANGED Y!vars
  BY DEF yVars, Y!vars
<1>4. QED
  BY <1>1, <1>2, <1>3, NextTables

(* SymbolTable::Probe returns a symbol that holds the address, and misses  *)
(* none where the symbols of a kind do not overlap, for tables of all      *)
(* lengths: the bounds of the search always enclose what holds it.         *)
THEOREM SymbolIsFound == MCSpec => []SearchExact
<1>1. (active = "symbols" => TableInv) => SearchExact
  BY TablesMean DEF SearchExact
<1>2. QED
  BY <1>1, InitSymbols, NextSymbols, PTL DEF MCSpec

-----------------------------------------------------------------------------
(* Files: what is known of a number of pages, of a sequence of words and   *)
(* of two put together.                                                    *)
LEMMA UpFacts ==
  ASSUME NEW n \in Nat
  PROVE  I!Up(n) \in Nat /\ I!Up(n) >= n /\ (n >= 1 => I!Up(n) >= Page)
<1>1. Page \in Nat \ {0} /\ n + Page - 1 \in Nat
  BY ImagesAssumption
<1>2. PICK d : d = (n + Page - 1) \div Page
  OBVIOUS
<1>3. PICK m : m = (n + Page - 1) % Page
  OBVIOUS
<1>4. d \in Nat /\ m \in Nat /\ m < Page /\ n + Page - 1 = d * Page + m
  BY <1>1, <1>2, <1>3
<1>5. PICK k : k = d * Page
  OBVIOUS
<1>6. k \in Nat /\ n + Page - 1 = k + m
  BY <1>1, <1>4, <1>5
<1>7. k >= n
  BY <1>1, <1>4, <1>6
<1>8. n >= 1 => k >= Page
  <2>1. d = 0 => k = 0
    BY <1>1, <1>5
  <2>2. d >= 1 => k >= Page
    BY <1>1, <1>4, <1>5
  <2>3. QED
    BY <1>4, <1>6, <1>7, <2>1, <2>2
<1>9. I!Up(n) = k
  BY <1>2, <1>5 DEF I!Up
<1>10. QED
  BY <1>6, <1>7, <1>8, <1>9

LEMMA SubSeqIs ==
  ASSUME NEW s \in Seq(Int), NEW o \in Nat, o + Page <= Len(s)
  PROVE  SubSeq(s, o + 1, o + Page) = [i \in 1..Page |-> s[o + i]]
  BY ImagesAssumption

LEMMA CatIs ==
  ASSUME NEW s \in Seq(Int), NEW u \in Seq(Int)
  PROVE  /\ s \o u \in Seq(Int) /\ Len(s \o u) = Len(s) + Len(u)
         /\ \A i \in 1..Len(s) : (s \o u)[i] = s[i]
         /\ \A i \in 1..Len(u) : (s \o u)[Len(s) + i] = u[i]
  OBVIOUS


-----------------------------------------------------------------------------
(* A block device: blocks of Page words in an image, behind BASE words of  *)
(* parameters, each in a place of its own.                                 *)
Kept(im, bl, base, n, at) ==
  /\ im \in Seq(Int) /\ Len(im) = base + n * Page
  /\ bl = [d \in DOMAIN at |-> [i \in 1..Page |-> im[base + at[d] * Page + i]]]
  /\ at \in [DOMAIN at -> 0..n-1]
  /\ \A d, e \in DOMAIN at : at[d] = at[e] => d = e

LEMMA Apart ==
  ASSUME NEW n \in Nat, NEW k \in 0..n-1, NEW j \in 0..n-1, NEW i \in 1..Page
  PROVE  /\ k * Page \in Nat /\ k * Page + Page <= n * Page
         /\ j # k => j * Page + i <= k * Page \/ k * Page + Page < j * Page + i
<1>1. Page \in Nat \ {0}
  BY ImagesAssumption
<1>2. PICK p : p = k * Page
  OBVIOUS
<1>3. PICK q : q = j * Page
  OBVIOUS
<1>4. PICK r : r = n * Page
  OBVIOUS
<1>5. p \in Nat /\ q \in Nat /\ r \in Nat
  BY <1>1, <1>2, <1>3, <1>4
<1>6. p + Page <= r
  <2>1. (k + 1) * Page <= n * Page
    BY <1>1
  <2>2. (k + 1) * Page = p + Page
    BY <1>1, <1>2
  <2>3. QED
    BY <1>4, <2>1, <2>2
<1>7. j < k => q + Page <= p
  <2>1. j < k => (j + 1) * Page <= k * Page
    BY <1>1
  <2>2. (j + 1) * Page = q + Page
    BY <1>1, <1>3
  <2>3. QED
    BY <1>2, <2>1, <2>2
<1>8. k < j => p + Page <= q
  <2>1. k < j => (k + 1) * Page <= j * Page
    BY <1>1
  <2>2. (k + 1) * Page = p + Page
    BY <1>1, <1>2
  <2>3. QED
    BY <1>3, <2>1, <2>2
<1>9. i \in Int /\ 1 <= i /\ i <= Page /\ k \in Int /\ j \in Int
  BY <1>1
<1>10. j # k => q + i <= p \/ p + Page < q + i
  BY <1>1, <1>5, <1>7, <1>8, <1>9
<1>11. QED
  BY <1>2, <1>3, <1>4, <1>5, <1>6, <1>10

LEMMA InPlace ==
  ASSUME NEW n \in Nat, NEW k \in 0..n-1
  PROVE  k * Page \in Nat /\ n * Page \in Nat /\ k * Page + Page <= n * Page
<1>1. Page \in Nat \ {0} /\ 1 \in 1..Page
  BY ImagesAssumption
<1>2. k * Page \in Nat /\ n * Page \in Nat
  BY <1>1
<1>3. QED
  BY <1>1, <1>2, Apart

LEMMA Between ==
  ASSUME NEW q \in Nat, NEW p \in Nat, NEW base \in Nat, NEW size \in Nat, q + Page <= size, NEW len, len = base + size,
         NEW i \in 1..Page
  PROVE  /\ base + q + i \in 1..len
         /\ q + i <= p \/ p + Page < q + i => ~ (base + p < base + q + i /\ base + q + i <= base + p + Page)
         /\ base + q < base + q + i /\ base + q + i <= base + q + Page
  BY ImagesAssumption

Offset(base, at, d) == base + at[d] * Page
WordsWritten(im, o, w) == [i \in 1..(IF Len(im) < o + Page THEN o + Page ELSE Len(im)) |->
                           IF o < i /\ i <= o + Page THEN w ELSE IF i <= Len(im) THEN im[i] ELSE 0]

Refilled(bl, d, w) == [bl EXCEPT ![d] = [i \in 1..Page |-> w]]

LEMMA Overwritten ==
  ASSUME NEW im \in Seq(Int), NEW o \in Nat, o + Page <= Len(im), NEW w \in Int,
         NEW im2, im2 = [i \in 1..Len(im) |-> IF o < i /\ i <= o + Page THEN w ELSE im[i]]
  PROVE  im2 \in Seq(Int) /\ Len(im2) = Len(im)
  OBVIOUS

(* A block that is written keeps the others as they are. *)
LEMMA BlockWritten ==
  ASSUME NEW im, NEW bl, NEW base \in Nat, NEW n \in Nat, NEW at, Kept(im, bl, base, n, at),
         NEW d \in DOMAIN bl, NEW ofs, ofs = Offset(base, at, d), NEW w \in Int,
         NEW im2, im2 = WordsWritten(im, ofs, w),
         NEW bl2, bl2 = Refilled(bl, d, w)
  PROVE  Kept(im2, bl2, base, n, at) /\ \A i \in 1..base : i <= Len(im) => im2[i] = im[i]
<1>1. Page \in Nat \ {0}
  BY ImagesAssumption
<1>0. bl2 = [bl EXCEPT ![d] = [i \in 1..Page |-> w]]
  BY DEF Refilled
<1>2. /\ im \in Seq(Int) /\ Len(im) = base + n * Page /\ d \in DOMAIN at /\ at[d] \in 0..n-1
      /\ bl = [x1 \in DOMAIN at |-> [i \in 1..Page |-> im[base + at[x1] * Page + i]]]
      /\ at \in [DOMAIN at -> 0..n-1]
      /\ \A x1, e \in DOMAIN at : at[x1] = at[e] => x1 = e
  BY DEF Kept
<1>3. PICK k \in 0..n-1 : k = at[d]
  BY <1>2
<1>4. PICK p : p = k * Page
  OBVIOUS
<1>4a. PICK size : size = n * Page
  OBVIOUS
<1>4b. p \in Nat /\ p + Page <= size /\ size \in Nat
  BY <1>4, <1>4a, InPlace
<1>4c. ofs = base + p /\ Len(im) = base + size
  BY <1>2, <1>3, <1>4, <1>4a DEF Offset
<1>5. ofs \in Nat /\ ofs >= base /\ ofs + Page <= Len(im) /\ Len(im) \in Nat
  BY <1>1, <1>4b, <1>4c
<1>6. im2 = [i \in 1..Len(im) |-> IF ofs < i /\ i <= ofs + Page THEN w ELSE im[i]]
  BY <1>1, <1>5 DEF WordsWritten
<1>6a. im \in Seq(Int)
  BY <1>2
<1>7. im2 \in Seq(Int) /\ Len(im2) = Len(im)
  BY <1>5, <1>6, <1>6a, Overwritten
<1>8. \A i \in 1..base : i <= Len(im) => im2[i] = im[i]
  <2>1. \A i \in 1..base : i <= Len(im) => i \in 1..Len(im) /\ ~ (ofs < i /\ i <= ofs + Page)
    BY <1>5
  <2>2. QED
    BY <1>6, <2>1
<1>9. ASSUME NEW e \in DOMAIN at
      PROVE  bl2[e] = [i \in 1..Page |-> im2[base + at[e] * Page + i]]
  <2>1. PICK j \in 0..n-1 : j = at[e]
    BY <1>2
  <2>2. PICK q : q = j * Page
    OBVIOUS
  <2>3. q \in Nat /\ q + Page <= size
    BY <1>4a, <2>2, InPlace
  <2>4. \A i \in 1..Page : base + q + i \in 1..Len(im)
    BY <1>4b, <1>4c, <2>3, Between
  <2>5. CASE e = d
    <3>1. q = p
      BY <1>3, <1>4, <2>1, <2>2, <2>5
    <3>2. \A i \in 1..Page : im2[base + q + i] = w
      <4>1. \A i \in 1..Page : ofs < base + q + i /\ base + q + i <= ofs + Page
        BY <1>4b, <1>4c, <2>3, <3>1, Between
      <4>2. QED
        BY <1>6, <2>4, <4>1
    <3>3. bl2[e] = [i \in 1..Page |-> w]
      BY <1>0, <1>2, <2>5
    <3>4. bl2[e] = [i \in 1..Page |-> im2[base + q + i]]
      BY <3>2, <3>3
    <3>5. QED
      BY <2>1, <2>2, <3>4
  <2>6. CASE e # d
    <3>1. j # k
      BY <1>2, <1>3, <2>1, <2>6
    <3>2. \A i \in 1..Page : q + i <= p \/ p + Page < q + i
      BY <1>4, <2>2, <3>1, Apart
    <3>3. ASSUME NEW i \in 1..Page
          PROVE  ~ (ofs < base + q + i /\ base + q + i <= ofs + Page)
      <4>1. q + i <= p \/ p + Page < q + i
        BY <3>2
      <4>2. QED
        BY <1>1, <1>4b, <1>4c, <2>3, <4>1
    <3>4. \A i \in 1..Page : im2[base + q + i] = im[base + q + i]
      BY <1>6, <2>4, <3>3
    <3>5. bl2[e] = bl[e]
      BY <1>0, <1>2, <2>6
    <3>6. bl[e] = [i \in 1..Page |-> im[base + q + i]]
      BY <1>2, <2>1, <2>2
    <3>7. bl2[e] = [i \in 1..Page |-> im2[base + q + i]]
      BY <3>4, <3>5, <3>6
    <3>8. QED
      BY <2>1, <2>2, <3>7
  <2>7. QED
    BY <2>5, <2>6
<1>10. bl2 = [e \in DOMAIN at |-> [i \in 1..Page |-> im2[base + at[e] * Page + i]]]
  BY <1>0, <1>2, <1>9
<1>11. QED
  BY <1>2, <1>7, <1>8, <1>10 DEF Kept

(* A block that is kept is read as it was written. *)
LEMMA BlockRead ==
  ASSUME NEW im, NEW bl, NEW base \in Nat, NEW n \in Nat, NEW at, Kept(im, bl, base, n, at),
         NEW d \in DOMAIN bl, NEW ofs, ofs = Offset(base, at, d)
  PROVE  ofs \in Nat /\ ofs + Page <= Len(im) /\ SubSeq(im, ofs + 1, ofs + Page) = bl[d]
<1>1. Page \in Nat \ {0}
  BY ImagesAssumption
<1>2. /\ im \in Seq(Int) /\ Len(im) = base + n * Page /\ d \in DOMAIN at /\ at[d] \in 0..n-1
      /\ bl[d] = [i \in 1..Page |-> im[base + at[d] * Page + i]]
  BY DEF Kept
<1>3. PICK k \in 0..n-1 : k = at[d]
  BY <1>2
<1>4. PICK p : p = k * Page
  OBVIOUS
<1>5. PICK size : size = n * Page
  OBVIOUS
<1>6. p \in Nat /\ p + Page <= size /\ size \in Nat
  BY <1>4, <1>5, InPlace
<1>7. ofs = base + p /\ Len(im) = base + size
  BY <1>2, <1>3, <1>4, <1>5 DEF Offset
<1>8. ofs \in Nat /\ ofs + Page <= Len(im)
  BY <1>1, <1>6, <1>7
<1>9. im \in Seq(Int)
  BY <1>2
<1>10. SubSeq(im, ofs + 1, ofs + Page) = [i \in 1..Page |-> im[ofs + i]]
  BY <1>8, <1>9, SubSeqIs
<1>11. bl[d] = [i \in 1..Page |-> im[Offset(base, at, d) + i]]
  BY <1>2 DEF Offset
<1>12. QED
  BY <1>8, <1>10, <1>11

(* An offset that 32 bits hold is kept as it is, if it is not negative.    *)
LEMMA Kept32 ==
  ASSUME NEW x \in Nat
  PROVE  /\ I!SWord(x) \in Int
         /\ x < Span /\ I!SWord(x) >= 0 => I!SWord(x) = x
         /\ x < Span /\ x < Span \div 2 => I!SWord(x) >= 0
<1>1. Span \in Nat \ {0}
  BY ImagesAssumption
<1>2. PICK y : y = x % Span
  OBVIOUS
<1>3. y \in Nat /\ (x < Span => y = x)
  BY <1>1, <1>2
<1>4. I!SWord(x) = IF y < Span \div 2 THEN y ELSE y - Span
  BY <1>2 DEF I!SWord
<1>5. y < Span
  BY <1>1, <1>2
<1>6. QED
  BY <1>1, <1>3, <1>4, <1>5

(* The place of a block of a disk among all: cylinder, head and sector are *)
(* the digits of a number.                                                 *)
Geometry(nc, nh, ns) == (0..nc-1) \X (0..nh-1) \X (0..ns-1)
Track(nc, nh, ns) == [d \in Geometry(nc, nh, ns) |-> d[1] * nh * ns + d[2] * ns + d[3]]

LEMMA TrackDigits ==
  ASSUME NEW nh \in Nat \ {0}, NEW ns \in Nat \ {0}, NEW k \in Nat, NEW l \in Nat, l < nh, NEW m \in Nat, m < ns
  PROVE  /\ k * nh + l \in Nat
         /\ k * nh * ns + l * ns + m = (k * nh + l) * ns + m
         /\ (k * nh * ns + l * ns + m) % ns = m
         /\ (k * nh * ns + l * ns + m) \div ns = k * nh + l
         /\ (k * nh + l) % nh = l /\ (k * nh + l) \div nh = k
<1>1. k * nh \in Nat /\ k * nh + l \in Nat
  OBVIOUS
<1>2. PICK q : q = k * nh
  OBVIOUS
<1>3. q \in Nat
  BY <1>1, <1>2
<1>4. k * nh * ns + l * ns + m = (k * nh + l) * ns + m
  <2>1. q * ns + l * ns = (q + l) * ns
    BY <1>3
  <2>2. QED
    BY <1>2, <2>1
<1>5. PICK r \in Nat : r = k * nh + l
  BY <1>1
<1>6. PICK x1 \in Nat : x1 = r * ns + m
  OBVIOUS
<1>7. x1 \div ns = r /\ x1 % ns = m
  BY <1>6, Quotient
<1>8. r \div nh = k /\ r % nh = l
  BY <1>5, Quotient
<1>9. QED
  BY <1>1, <1>4, <1>5, <1>6, <1>7, <1>8

LEMMA TrackFacts ==
  ASSUME NEW nc \in Nat \ {0}, NEW nh \in Nat \ {0}, NEW ns \in Nat \ {0}
  PROVE  /\ nc * nh * ns \in Nat
         /\ Track(nc, nh, ns) \in [Geometry(nc, nh, ns) -> 0..(nc * nh * ns)-1]
         /\ \A d, e \in Geometry(nc, nh, ns) : Track(nc, nh, ns)[d] = Track(nc, nh, ns)[e] => d = e
<1> DEFINE T(d) == d[1] * nh * ns + d[2] * ns + d[3]
<1>0. nc * nh \in Nat /\ nc * nh * ns \in Nat
  OBVIOUS
<1>1. \A d \in Geometry(nc, nh, ns) :
        /\ d[1] \in Nat /\ d[2] \in Nat /\ d[3] \in Nat /\ d[1] < nc /\ d[2] < nh /\ d[3] < ns
        /\ d = <<d[1], d[2], d[3]>>
  BY DEF Geometry
<1>2. \A d \in Geometry(nc, nh, ns) : T(d) \in 0..(nc * nh * ns)-1
  <2> SUFFICES ASSUME NEW k \in Nat, NEW l \in Nat, NEW m \in Nat, k < nc, l < nh, m < ns
               PROVE  k * nh * ns + l * ns + m \in 0..(nc * nh * ns)-1
    BY <1>1
  <2>1. k * nh + l \in Nat /\ k * nh + l < nc * nh
    BY Below
  <2>2. PICK r \in Nat : r = k * nh + l
    BY <2>1
  <2>3. PICK s1 \in Nat : s1 = nc * nh
    BY <1>0
  <2>4. r * ns + m \in Nat /\ r * ns + m < s1 * ns
    BY <2>1, <2>2, <2>3, Below
  <2>5. k * nh * ns + l * ns + m = r * ns + m
    BY <2>2, TrackDigits
  <2>6. PICK x1 : x1 = k * nh * ns + l * ns + m
    OBVIOUS
  <2>7. PICK y1 : y1 = nc * nh * ns
    OBVIOUS
  <2>8. x1 \in Nat /\ x1 < y1 /\ y1 \in Nat
    <3>1. y1 = s1 * ns /\ x1 = r * ns + m
      BY <2>3, <2>5, <2>6, <2>7
    <3>2. QED
      BY <1>0, <2>4, <2>7, <3>1
  <2>9. x1 \in 0..y1-1
    BY <2>8
  <2>10. QED
    BY <2>6, <2>7, <2>9
<1>3. \A d, e \in Geometry(nc, nh, ns) : T(d) = T(e) => d = e
  <2> SUFFICES ASSUME NEW d \in Geometry(nc, nh, ns), NEW e \in Geometry(nc, nh, ns), T(d) = T(e)
               PROVE  d = e
    OBVIOUS
  <2>1. PICK k \in Nat, l \in Nat, m \in Nat : k = d[1] /\ l = d[2] /\ m = d[3] /\ l < nh /\ m < ns
    BY <1>1
  <2>2. PICK k2 \in Nat, l2 \in Nat, m2 \in Nat : k2 = e[1] /\ l2 = e[2] /\ m2 = e[3] /\ l2 < nh /\ m2 < ns
    BY <1>1
  <2>3. k * nh * ns + l * ns + m = k2 * nh * ns + l2 * ns + m2
    BY <2>1, <2>2
  <2> HIDE DEF T
  <2>4. l < nh /\ m < ns /\ l2 < nh /\ m2 < ns
    BY <2>1, <2>2
  <2>5. k = k2 /\ l = l2 /\ m = m2
    <3>1. PICK r : r = k * nh + l
      OBVIOUS
    <3>2. PICK r2 : r2 = k2 * nh + l2
      OBVIOUS
    <3>3. r \in Nat /\ r2 \in Nat
      BY <3>1, <3>2, TrackDigits
    <3>4. k * nh * ns + l * ns + m = r * ns + m
      BY <2>4, <3>1, TrackDigits
    <3>5. k2 * nh * ns + l2 * ns + m2 = r2 * ns + m2
      BY <2>4, <3>2, TrackDigits
    <3>6. PICK x1 \in Nat : x1 = r * ns + m /\ x1 = r2 * ns + m2
      <4>1. r * ns + m = r2 * ns + m2
        BY <2>3, <3>4, <3>5
      <4>2. r * ns + m \in Nat
        BY <3>3
      <4>3. QED
        BY <4>1, <4>2
    <3>7. x1 \div ns = r /\ x1 % ns = m
      BY <2>4, <3>3, <3>6, Quotient
    <3>8. x1 \div ns = r2 /\ x1 % ns = m2
      BY <2>4, <3>3, <3>6, Quotient
    <3>9. r = r2 /\ m = m2
      BY <3>7, <3>8
    <3>10. r \div nh = k /\ r % nh = l
      BY <2>4, <3>1, <3>3, Quotient
    <3>11. r2 \div nh = k2 /\ r2 % nh = l2
      BY <2>4, <3>2, <3>3, Quotient
    <3>12. QED
      BY <3>9, <3>10, <3>11
  <2>6. QED
    BY <1>1, <2>1, <2>2, <2>5
<1>4. QED
  BY <1>0, <1>2, <1>3 DEF Track

DiskKept(im, bl) ==
  \E nc, nh, ns \in Nat \ {0} :
    im[3] = nh /\ im[4] = ns /\ Kept(im, bl, 7, nc * nh * ns, Track(nc, nh, ns))
FlashKept(im, bl) == \E n \in Nat : Kept(im, bl, 3, n, [d \in 0..n-1 |-> d])

(* What is known of an image while it is in use: that, unless it is larger *)
(* than offsets reach.                                                     *)
KeptOrLarge(im, bl, base, n, at) ==
  /\ DOMAIN bl = DOMAIN at /\ Len(im) \in Nat
  /\ Len(im) > Span \/ Kept(im, bl, base, n, at)

DiskUsed(ps, im, bl) ==
  \E nc, nh, ns \in Nat \ {0} :
    ps[1] = nh /\ ps[2] = ns /\ KeptOrLarge(im, bl, 7, nc * nh * ns, Track(nc, nh, ns))
FlashUsed(im, bl) == \E n \in Nat : KeptOrLarge(im, bl, 3, n, [d \in 0..n-1 |-> d])

LEMMA CatTo ==
  ASSUME NEW s \in Seq(Int), NEW u \in Seq(Int), NEW im, im = s \o u
  PROVE  /\ im \in Seq(Int) /\ Len(im) = Len(s) + Len(u)
         /\ \A i \in 1..Len(s) : im[i] = s[i]
         /\ \A i \in 1..Len(u) : im[Len(s) + i] = u[i]
  BY CatIs

LEMMA DiskMade ==
  ASSUME NEW nc \in Nat \ {0}, NEW nh \in Nat \ {0}, NEW ns \in Nat \ {0}, I!writeDisk(nc, nh, ns)
  PROVE  DiskKept(image', blocks')
<1>1. Page \in Nat \ {0}
  BY ImagesAssumption
<1>2. PICK n \in Nat : n = nc * nh * ns
  BY TrackFacts
<1>3. PICK size : size = n * Page
  OBVIOUS
<1>4. size \in Nat
  BY <1>1, <1>3
<1>5. PICK head : head = <<-4>> \o [i \in 1..6 |-> <<nc, nh, ns, 0, 0, 0>>[i]]
  OBVIOUS
<1>6. head \in Seq(Int) /\ Len(head) = 7 /\ head[3] = nh /\ head[4] = ns
  BY <1>5
<1>7. image' = head \o [i \in 1..size |-> 0]
  BY <1>2, <1>3, <1>5 DEF I!writeDisk, I!Zeros, I!DISKFILEID, I!DISKPNUM
<1>8. /\ image' \in Seq(Int) /\ Len(image') = 7 + size /\ image'[3] = nh /\ image'[4] = ns
      /\ \A i \in 8..7 + size : image'[i] = 0
  <2>1. PICK zeros : zeros = [i \in 1..size |-> 0]
    OBVIOUS
  <2>2. zeros \in Seq(Int) /\ Len(zeros) = size
    BY <1>4, <2>1
  <2>3. image' = head \o zeros
    BY <1>7, <2>1
  <2>4. /\ image' \in Seq(Int) /\ Len(image') = 7 + size
        /\ \A i \in 1..7 : image'[i] = head[i]
        /\ \A i \in 1..size : image'[7 + i] = zeros[i]
    <3>1. /\ image' \in Seq(Int) /\ Len(image') = Len(head) + Len(zeros)
          /\ \A i \in 1..Len(head) : image'[i] = head[i]
          /\ \A i \in 1..Len(zeros) : image'[Len(head) + i] = zeros[i]
      <4>1. PICK im : im = image'
        OBVIOUS
      <4>2. im = head \o zeros
        BY <2>3, <4>1
      <4>3. /\ im \in Seq(Int) /\ Len(im) = Len(head) + Len(zeros)
            /\ \A i \in 1..Len(head) : im[i] = head[i]
            /\ \A i \in 1..Len(zeros) : im[Len(head) + i] = zeros[i]
        <5>1. head \in Seq(Int) /\ zeros \in Seq(Int)
          BY <1>6, <2>2
        <5>2. QED
          BY <5>1, <4>2, CatTo
      <4>4. QED
        BY <4>1, <4>3
    <3>2. QED
      BY <1>6, <2>2, <3>1
  <2>5. \A i \in 8..7 + size : i - 7 \in 1..size /\ 7 + (i - 7) = i
    BY <1>4
  <2>6. \A i \in 8..7 + size : image'[i] = 0
    BY <2>1, <2>4, <2>5
  <2>7. QED
    BY <1>6, <2>4, <2>6
<1>9. blocks' = [d \in Geometry(nc, nh, ns) |-> [i \in 1..Page |-> 0]]
  BY DEF I!writeDisk, I!Zeros, Geometry
<1>10. PICK at1 : at1 = Track(nc, nh, ns)
  OBVIOUS
<1>11. /\ at1 \in [Geometry(nc, nh, ns) -> 0..n-1] /\ DOMAIN at1 = Geometry(nc, nh, ns)
       /\ \A d, e \in DOMAIN at1 : at1[d] = at1[e] => d = e
  BY <1>2, <1>10, TrackFacts
<1>12. ASSUME NEW d \in DOMAIN at1
       PROVE  [i \in 1..Page |-> 0] = [i \in 1..Page |-> image'[7 + at1[d] * Page + i]]
  <2>1. PICK k \in 0..n-1 : k = at1[d]
    BY <1>11
  <2>2. PICK p : p = k * Page
    OBVIOUS
  <2>3. p \in Nat /\ p + Page <= size
    BY <1>3, <2>2, InPlace
  <2>4. \A i \in 1..Page : 7 + p + i \in 8..7 + size
    BY <1>1, <1>4, <2>3
  <2>5. QED
    BY <1>8, <2>1, <2>2, <2>4
<1>13. blocks' = [d \in DOMAIN at1 |-> [i \in 1..Page |-> image'[7 + at1[d] * Page + i]]]
  BY <1>9, <1>11, <1>12
<1>14. Kept(image', blocks', 7, n, at1)
  BY <1>3, <1>8, <1>11, <1>13 DEF Kept
<1>15. QED
  BY <1>2, <1>8, <1>10, <1>14 DEF DiskKept

LEMMA FlashMade ==
  ASSUME file \in Seq(Int), NEW n \in Nat, I!writeFlash(n)
  PROVE  FlashKept(image', blocks')
<1>1. Page \in Nat \ {0}
  BY ImagesAssumption
<1>2. I!Contents \in Seq(Int)
  BY DEF I!Contents
<1> DEFINE CutAt(d) == [i \in 1..Page |-> IF d * Page + i <= Len(I!Contents) THEN I!Contents[d * Page + i] ELSE 0]
<1>3. \A d \in Nat : I!BlockOf(d) = CutAt(d)
  BY DEF I!BlockOf
<1>4. \A d \in Nat : \A i \in 1..Page : CutAt(d)[i] \in Int
  <2> SUFFICES ASSUME NEW d \in Nat, NEW i \in 1..Page
               PROVE  CutAt(d)[i] \in Int
    OBVIOUS
  <2>1. PICK p \in Nat : p = d * Page
    BY <1>1
  <2>2. p + i <= Len(I!Contents) => p + i \in 1..Len(I!Contents)
    BY <1>1, <1>2, <2>1
  <2>3. p + i <= Len(I!Contents) => I!Contents[p + i] \in Int
    BY <1>2, <2>2
  <2>4. CutAt(d)[i] = IF p + i <= Len(I!Contents) THEN I!Contents[p + i] ELSE 0
    BY <2>1
  <2>5. QED
    BY <2>3, <2>4
<1>5. PICK size : size = n * Page
  OBVIOUS
<1>6. size \in Nat
  BY <1>1, <1>5
<1>7. PICK rest : rest = [i \in 1..size |-> CutAt((i - 1) \div Page)[((i - 1) % Page) + 1]]
  OBVIOUS
<1> HIDE DEF CutAt
<1>8. \A i \in 1..size : ((i - 1) \div Page) \in Nat /\ ((i - 1) % Page) + 1 \in 1..Page
  <2> SUFFICES ASSUME NEW i \in 1..size
               PROVE  ((i - 1) \div Page) \in Nat /\ ((i - 1) % Page) + 1 \in 1..Page
    OBVIOUS
  <2>1. PICK j \in Nat : j = i - 1
    BY <1>6
  <2>2. j \div Page \in Nat /\ (j % Page) + 1 \in 1..Page
    BY <1>1
  <2>3. QED
    BY <2>1, <2>2
<1>9. rest \in Seq(Int) /\ Len(rest) = size
  <2>1. \A i \in 1..size : CutAt((i - 1) \div Page)[((i - 1) % Page) + 1] \in Int
    BY <1>4, <1>8
  <2>2. PICK f : f = [i \in 1..size |-> CutAt((i - 1) \div Page)[((i - 1) % Page) + 1]]
    OBVIOUS
  <2>3. f \in [1..size -> Int]
    BY <2>1, <2>2
  <2>4. QED
    BY <1>6, <1>7, <2>2, <2>3
<1>10. PICK head : head = <<-5, n, 0>>
  OBVIOUS
<1>11. head \in Seq(Int) /\ Len(head) = 3
  BY <1>10
<1>12. image' = head \o rest
  <2>1. image' = <<-5, n, 0>> \o [i \in 1..size |-> I!BlockOf((i - 1) \div Page)[((i - 1) % Page) + 1]]
    BY <1>5 DEF I!writeFlash, I!FLASHFILEID
  <2>2. \A i \in 1..size : I!BlockOf((i - 1) \div Page) = CutAt((i - 1) \div Page)
    BY <1>3, <1>8
  <2>3. QED
    BY <1>7, <1>10, <2>1, <2>2
<1>13. /\ image' \in Seq(Int) /\ Len(image') = 3 + size
       /\ \A i \in 1..size : image'[3 + i] = rest[i]
  <2>1. /\ image' \in Seq(Int) /\ Len(image') = Len(head) + Len(rest)
        /\ \A i \in 1..Len(rest) : image'[Len(head) + i] = rest[i]
    <3>1. PICK im : im = image'
      OBVIOUS
    <3>2. im = head \o rest
      BY <1>12, <3>1
    <3>3. /\ im \in Seq(Int) /\ Len(im) = Len(head) + Len(rest)
          /\ \A i \in 1..Len(rest) : im[Len(head) + i] = rest[i]
      <4>1. head \in Seq(Int) /\ rest \in Seq(Int)
        BY <1>9, <1>11
      <4>2. QED
        BY <4>1, <3>2, CatTo
    <3>4. QED
      BY <3>1, <3>3
  <2>2. QED
    BY <1>9, <1>11, <2>1
<1>14. blocks' = [d \in 0..n-1 |-> CutAt(d)]
  BY DEF I!writeFlash, CutAt
<1>15. ASSUME NEW d \in 0..n-1
       PROVE  CutAt(d) = [i \in 1..Page |-> image'[3 + d * Page + i]]
  <2>1. PICK p : p = d * Page
    OBVIOUS
  <2>2. p \in Nat /\ p + Page <= size
    BY <1>5, <2>1, InPlace
  <2>3. \A i \in 1..Page : image'[3 + p + i] = CutAt(d)[i]
    <3> SUFFICES ASSUME NEW i \in 1..Page
                 PROVE  image'[3 + p + i] = CutAt(d)[i]
      OBVIOUS
    <3>1. p + i \in 1..size /\ 3 + p + i = 3 + (p + i)
      BY <1>1, <1>6, <2>2
    <3>2. PICK r \in Nat : r = i - 1 /\ r < Page
      BY <1>1
    <3>3. PICK x1 \in Nat : x1 = p + i - 1 /\ x1 = d * Page + r
      BY <1>1, <2>1, <2>2, <3>2
    <3>4. d \in Nat
      OBVIOUS
    <3>5. x1 \div Page = d /\ x1 % Page = r
      BY <1>1, <3>2, <3>3, <3>4, Quotient
    <3>6. rest[p + i] = CutAt(d)[i]
      <4>1. PICK j \in 1..size : j = p + i
        BY <3>1
      <4>2. rest[j] = CutAt((j - 1) \div Page)[((j - 1) % Page) + 1]
        BY <1>7
      <4>3. j - 1 = x1 /\ r + 1 = i
        BY <1>1, <2>2, <3>2, <3>3, <4>1
      <4>4. rest[j] = CutAt(d)[i]
        BY <3>5, <4>2, <4>3
      <4>5. QED
        BY <4>1, <4>4
    <3>7. QED
      BY <1>13, <3>1, <3>6
  <2>4. CutAt(d) = [i \in 1..Page |-> CutAt(d)[i]]
    BY DEF CutAt
  <2>5. QED
    BY <2>1, <2>3, <2>4
<1>16. PICK at1 : at1 = [d \in 0..n-1 |-> d]
  OBVIOUS
<1>17. Kept(image', blocks', 3, n, at1)
  <2>1. /\ DOMAIN at1 = 0..n-1 /\ at1 \in [DOMAIN at1 -> 0..n-1]
        /\ \A d \in DOMAIN at1 : at1[d] = d
    BY <1>16
  <2>2. blocks' = [d \in DOMAIN at1 |-> [i \in 1..Page |-> image'[3 + at1[d] * Page + i]]]
    BY <1>14, <1>15, <2>1
  <2>3. QED
    BY <1>5, <1>13, <2>1, <2>2 DEF Kept
<1>18. QED
  BY <1>16, <1>17 DEF FlashKept

-----------------------------------------------------------------------------
(* Programs. The segments of a program as elf2aout writes them, its core   *)
(* file and its ROM file.                                                  *)
Text0(p) == [i \in 1..I!Up(p.text) |-> IF i <= Header THEN I!AOUTFILEID ELSE I!TextBuf(p)[i]]
Segs(p, size) == Text0(p) \o I!DataBuf(p, size)
CoreFile(p) == <<I!COREFILEID>> \o I!Zeros(Page) \o Segs(p, p.mem)
Rom(p) == <<I!BIOSFILEID, p.text>> \o [i \in 1..p.text |-> Page + i - 1]

LoadedIn(p, m) ==
  LET text == I!TextAddr + Header .. I!TextAddr + p.text - 1
      data == I!DataAddr(p) .. I!DataAddr(p) + p.file - 1
      bss  == I!DataAddr(p) + p.file .. I!DataAddr(p) + p.mem - 1
  IN /\ \A d \in text \cup data : m[d + 1] = d
     /\ \A d \in bss : m[d + 1] = 0
     /\ \A d \in I!TextAddr .. I!TextAddr + Header - 1 : m[d + 1] = I!AOUTFILEID

LEMMA ProgramIs ==
  ASSUME NEW p \in I!Programs
  PROVE  /\ p.text \in Nat \ {0} /\ p.file \in Nat /\ p.mem \in Nat /\ p.file <= p.mem /\ p.room \in BOOLEAN
         /\ I!Up(p.text) \in Nat /\ I!Up(p.text) >= p.text /\ I!Up(p.text) >= Page
         /\ I!Up(p.mem) \in Nat /\ I!Up(p.mem) >= p.mem
         /\ I!Up(p.file) \in Nat /\ I!Up(p.file) >= p.file
<1>1. /\ p.text \in Nat \ {0} /\ p.file \in Nat /\ p.mem \in Nat /\ p.file <= p.mem /\ p.room \in BOOLEAN
  BY DEF I!Programs
<1>2. QED
  BY <1>1, UpFacts

LEMMA SegsAre ==
  ASSUME NEW p \in I!Programs, NEW size \in {p.mem, p.file}
  PROVE  /\ Segs(p, size) \in Seq(Int) /\ Len(Segs(p, size)) = I!Up(p.text) + I!Up(size)
         /\ \A i \in 1..I!Up(p.text) : Segs(p, size)[i] = IF i <= Header THEN -2 ELSE IF i <= p.text THEN Page + i - 1 ELSE 0
         /\ \A i \in 1..I!Up(size) : Segs(p, size)[I!Up(p.text) + i] = IF i <= p.file THEN I!DataAddr(p) + i - 1 ELSE 0
<1>1. Page \in Nat \ {0} /\ Header \in Nat /\ Header <= Page
  BY ImagesAssumption
<1>2. PICK ut \in Nat : ut = I!Up(p.text)
  BY ProgramIs
<1>3. PICK us \in Nat : us = I!Up(size)
  BY ProgramIs
<1>4. p.text \in Nat /\ p.file \in Nat
  BY ProgramIs
<1>5. I!TextAddr = Page /\ I!DataAddr(p) \in Int
  BY <1>1, <1>2 DEF I!TextAddr, I!DataAddr
<1>6. I!TextBuf(p) = [i \in 1..ut |-> IF i <= p.text /\ ~(p.room /\ i <= Header) THEN Page + i - 1 ELSE 0]
  BY <1>2, <1>5 DEF I!TextBuf
<1>7. PICK t : t = Text0(p)
  OBVIOUS
<1>8. t = [i \in 1..ut |-> IF i <= Header THEN -2 ELSE I!TextBuf(p)[i]]
  BY <1>2, <1>7 DEF Text0, I!AOUTFILEID
<1>9. t = [i \in 1..ut |-> IF i <= Header THEN -2 ELSE IF i <= p.text THEN Page + i - 1 ELSE 0]
  BY <1>6, <1>8
<1>10. t \in Seq(Int) /\ Len(t) = ut
  BY <1>1, <1>4, <1>9
<1>11. PICK u : u = I!DataBuf(p, size)
  OBVIOUS
<1>12. PICK d : d = I!DataAddr(p)
  OBVIOUS
<1>13. u = [i \in 1..us |-> IF i <= p.file THEN d + i - 1 ELSE 0]
  BY <1>3, <1>11, <1>12 DEF I!DataBuf
<1>14. u \in Seq(Int) /\ Len(u) = us
  <2>1. d \in Int
    BY <1>5, <1>12
  <2>2. QED
    BY <1>4, <1>13, <2>1
<1>15. t \in Seq(Int) /\ u \in Seq(Int)
  BY <1>10, <1>14
<1>16. PICK s : s = Segs(p, size)
  OBVIOUS
<1>17. s = t \o u
  BY <1>7, <1>11, <1>16 DEF Segs
<1>18. /\ s \in Seq(Int) /\ Len(s) = Len(t) + Len(u)
       /\ \A i \in 1..Len(t) : s[i] = t[i]
       /\ \A i \in 1..Len(u) : s[Len(t) + i] = u[i]
  BY <1>15, <1>17, CatTo
<1>19. /\ s \in Seq(Int) /\ Len(s) = ut + us
       /\ \A i \in 1..ut : s[i] = t[i]
       /\ \A i \in 1..us : s[ut + i] = u[i]
  BY <1>10, <1>14, <1>18
<1>20. QED
  BY <1>2, <1>3, <1>9, <1>12, <1>13, <1>16, <1>19

LEMMA CoreIs ==
  ASSUME NEW p \in I!Programs
  PROVE  /\ CoreFile(p) \in Seq(Int) /\ Len(CoreFile(p)) = 1 + Page + I!Up(p.text) + I!Up(p.mem)
         /\ \A i \in 1..(I!Up(p.text) + I!Up(p.mem)) : CoreFile(p)[1 + Page + i] = Segs(p, p.mem)[i]
<1>1. Page \in Nat \ {0}
  BY ImagesAssumption
<1>2. PICK s : s = Segs(p, p.mem)
  OBVIOUS
<1>3. s \in Seq(Int) /\ Len(s) = I!Up(p.text) + I!Up(p.mem)
  BY <1>2, SegsAre
<1>4. PICK h : h = <<-1>> \o [i \in 1..Page |-> 0]
  OBVIOUS
<1>5. h \in Seq(Int) /\ Len(h) = 1 + Page
  BY <1>1, <1>4
<1>6. PICK f : f = CoreFile(p)
  OBVIOUS
<1>7. f = h \o s
  BY <1>2, <1>4, <1>6 DEF CoreFile, I!Zeros, I!COREFILEID
<1>8. h \in Seq(Int) /\ s \in Seq(Int)
  BY <1>3, <1>5
<1>9. /\ f \in Seq(Int) /\ Len(f) = Len(h) + Len(s)
      /\ \A i \in 1..Len(s) : f[Len(h) + i] = s[i]
  BY <1>7, <1>8, CatTo
<1>10. I!Up(p.text) \in Nat /\ I!Up(p.mem) \in Nat
  BY ProgramIs
<1>11. QED
  BY <1>1, <1>2, <1>3, <1>5, <1>6, <1>9, <1>10

(* A program loaded from its whole core file. *)
LEMMA CoreLoaded ==
  ASSUME NEW p \in I!Programs, NEW m, \A j \in 1..(Page + I!Up(p.text) + I!Up(p.mem)) : m[j] = CoreFile(p)[j + 1]
  PROVE  LoadedIn(p, m)
<1>1. Page \in Nat \ {0} /\ Header \in Nat /\ Header <= Page
  BY ImagesAssumption
<1>2. PICK ut \in Nat : ut = I!Up(p.text)
  BY ProgramIs
<1>3. PICK um \in Nat : um = I!Up(p.mem)
  BY ProgramIs
<1>4. p.text \in Nat /\ p.file \in Nat /\ p.mem \in Nat /\ p.file <= p.mem /\ ut >= p.text /\ ut >= Page /\ um >= p.mem
  BY <1>2, <1>3, ProgramIs
<1>5. I!TextAddr = Page /\ I!DataAddr(p) = Page + ut
  BY <1>2 DEF I!TextAddr, I!DataAddr
<1>6. PICK s : s = Segs(p, p.mem)
  OBVIOUS
<1>7. /\ \A i \in 1..ut : s[i] = IF i <= Header THEN -2 ELSE IF i <= p.text THEN Page + i - 1 ELSE 0
      /\ \A i \in 1..um : s[ut + i] = IF i <= p.file THEN Page + ut + i - 1 ELSE 0
  BY <1>2, <1>3, <1>5, <1>6, SegsAre
<1>8. \A i \in 1..(ut + um) : m[Page + i] = s[i]
  <2>1. PICK f : f = CoreFile(p)
    OBVIOUS
  <2>2. \A j \in 1..(Page + ut + um) : m[j] = f[j + 1]
    BY <1>2, <1>3, <2>1
  <2>3. \A i \in 1..(ut + um) : f[1 + Page + i] = s[i]
    BY <1>2, <1>3, <1>6, <2>1, CoreIs
  <2>4. \A i \in 1..(ut + um) : Page + i \in 1..(Page + ut + um) /\ (Page + i) + 1 = 1 + Page + i
    BY <1>1
  <2>5. QED
    BY <2>2, <2>3, <2>4
<1>9. \A i \in 1..ut : m[Page + i] = IF i <= Header THEN -2 ELSE IF i <= p.text THEN Page + i - 1 ELSE 0
  BY <1>7, <1>8
<1>10. \A i \in 1..um : m[Page + ut + i] = IF i <= p.file THEN Page + ut + i - 1 ELSE 0
  <2>1. \A i \in 1..um : ut + i \in 1..(ut + um) /\ Page + (ut + i) = Page + ut + i
    BY <1>1
  <2>2. \A i \in 1..um : m[Page + (ut + i)] = s[ut + i]
    BY <1>8, <2>1
  <2>3. QED
    BY <1>7, <2>1, <2>2
<1>11. \A d \in Page + Header .. Page + p.text - 1 : m[d + 1] = d
  <2> SUFFICES ASSUME NEW d \in Page + Header .. Page + p.text - 1
               PROVE  m[d + 1] = d
    OBVIOUS
  <2>1. PICK i \in 1..ut : i = d + 1 - Page /\ i > Header /\ i <= p.text
    BY <1>1, <1>4
  <2>2. d + 1 = Page + i /\ Page + i - 1 = d
    BY <1>1, <2>1
  <2>3. QED
    BY <1>1, <1>9, <2>1, <2>2
<1>12. \A d \in Page + ut .. Page + ut + p.file - 1 : m[d + 1] = d
  <2> SUFFICES ASSUME NEW d \in Page + ut .. Page + ut + p.file - 1
               PROVE  m[d + 1] = d
    OBVIOUS
  <2>1. PICK i \in 1..um : i = d + 1 - Page - ut /\ i <= p.file
    BY <1>1, <1>4
  <2>2. d + 1 = Page + ut + i /\ Page + ut + i - 1 = d
    BY <1>1, <2>1
  <2>3. QED
    BY <1>10, <2>1, <2>2
<1>13. \A d \in Page + ut + p.file .. Page + ut + p.mem - 1 : m[d + 1] = 0
  <2> SUFFICES ASSUME NEW d \in Page + ut + p.file .. Page + ut + p.mem - 1
               PROVE  m[d + 1] = 0
    OBVIOUS
  <2>1. PICK i \in 1..um : i = d + 1 - Page - ut /\ ~ (i <= p.file)
    BY <1>1, <1>4
  <2>2. d + 1 = Page + ut + i
    BY <1>1, <2>1
  <2>3. QED
    BY <1>10, <2>1, <2>2
<1>14. \A d \in Page .. Page + Header - 1 : m[d + 1] = -2
  <2> SUFFICES ASSUME NEW d \in Page .. Page + Header - 1
               PROVE  m[d + 1] = -2
    OBVIOUS
  <2>1. PICK i \in 1..ut : i = d + 1 - Page /\ i <= Header
    BY <1>1, <1>4
  <2>2. d + 1 = Page + i
    BY <1>1, <2>1
  <2>3. QED
    BY <1>9, <2>1, <2>2
<1>15. QED
  BY <1>5, <1>11, <1>12, <1>13, <1>14 DEF LoadedIn, I!AOUTFILEID

(* What is known of a file between the tool that writes it and the loader, *)
(* of memory after, and of the image of a device at any time.              *)
ImageInv ==
  /\ program \in I!Programs /\ file \in Seq(Int)
  /\ iPhase = "core" /\ whole => file = CoreFile(program)
  /\ iPhase = "rom" => \E n \in 0..Len(Rom(program)) :
                         file = SubSeq(Rom(program), 1, n) /\ (n = Len(Rom(program)) => whole)
  /\ iPhase = "ram" /\ whole => LoadedIn(program, loaded)
  /\ iPhase = "bios" => whole /\ loaded = [i \in 1..program.text |-> Page + i - 1]
  /\ iPhase = "disk image" => DiskKept(image, blocks)
  /\ iPhase = "flash image" => FlashKept(image, blocks)
  /\ iPhase = "disk" => DiskUsed(params, image, blocks)
  /\ iPhase = "flash" => FlashUsed(image, blocks)

LEMMA InitImages == I!Init => ImageInv
  BY DEF I!Init, ImageInv

(* A file written, whole or not, is of integers. *)
LEMMA FileIs ==
  ASSUME NEW f \in Seq(Int), NEW next, I!Written(f, next)
  PROVE  /\ file' \in Seq(Int) /\ iPhase' = next
         /\ whole' => file' = f
         /\ \E n \in 0..Len(f) : file' = SubSeq(f, 1, n) /\ (n = Len(f) => whole')
<1>1. CASE file' = f /\ whole' = TRUE /\ iPhase' = next
  <2>1. SubSeq(f, 1, Len(f)) = f /\ Len(f) \in 0..Len(f)
    OBVIOUS
  <2>2. QED
    BY <1>1, <2>1
<1>2. CASE \E n \in 0..Len(f)-1 : file' = SubSeq(f, 1, n) /\ whole' = FALSE /\ iPhase' = next
  <2>1. PICK n \in 0..Len(f)-1 : file' = SubSeq(f, 1, n) /\ whole' = FALSE /\ iPhase' = next
    BY <1>2
  <2>2. SubSeq(f, 1, n) \in Seq(Int) /\ n \in 0..Len(f) /\ n # Len(f)
    OBVIOUS
  <2>3. QED
    BY <2>1, <2>2
<1>3. QED
  BY <1>1, <1>2 DEF I!Written

LEMMA AoutStep ==
  ASSUME ImageInv, NEW isCore \in BOOLEAN, I!elf2aout(isCore)
  PROVE  ImageInv'
<1>1. program \in I!Programs /\ UNCHANGED <<program, loaded, image, blocks>> /\ file \in Seq(Int)
  BY DEF ImageInv, I!elf2aout
<1>2. CASE \E i \in 1..Header : I!TextBuf(program)[i] # 0
  <2>1. iPhase' = "No space for a.out header" /\ UNCHANGED file
    BY <1>2 DEF I!elf2aout
  <2>2. QED
    BY <1>1, <2>1 DEF ImageInv
<1>3. CASE ~ \E i \in 1..Header : I!TextBuf(program)[i] # 0
  <2>1. I!Segments(TRUE) = Segs(program, program.mem) /\ I!Segments(FALSE) = Segs(program, program.file)
    BY DEF I!Segments, Segs, Text0
  <2>2. CASE isCore
    <3>1. I!Written(CoreFile(program), "core")
      BY <1>3, <2>1, <2>2 DEF I!elf2aout, CoreFile
    <3>2. CoreFile(program) \in Seq(Int)
      BY <1>1, CoreIs
    <3>3. file' \in Seq(Int) /\ iPhase' = "core" /\ (whole' => file' = CoreFile(program))
      BY <3>1, <3>2, FileIs
    <3>4. CoreFile(program') = CoreFile(program)
      BY <1>1
    <3>5. QED
      BY <1>1, <3>3, <3>4 DEF ImageInv
  <2>3. CASE ~ isCore
    <3>1. I!Written(Segs(program, program.file), "aout")
      BY <1>3, <2>1, <2>3 DEF I!elf2aout
    <3>2. Segs(program, program.file) \in Seq(Int)
      BY <1>1, SegsAre
    <3>3. file' \in Seq(Int) /\ iPhase' = "aout"
      BY <3>1, <3>2, FileIs
    <3>4. QED
      BY <1>1, <3>3 DEF ImageInv
  <2>4. QED
    BY <2>2, <2>3
<1>4. QED
  BY <1>2, <1>3

LEMMA RomIs ==
  ASSUME NEW p \in I!Programs
  PROVE  /\ Rom(p) \in Seq(Int) /\ Len(Rom(p)) = p.text + 2 /\ Rom(p)[2] = p.text
         /\ \A i \in 1..p.text : Rom(p)[2 + i] = Page + i - 1
<1>1. Page \in Nat
  BY ImagesAssumption
<1>2. PICK n \in Nat : n = p.text
  BY ProgramIs
<1>3. PICK h : h = <<-3, n>>
  OBVIOUS
<1>4. PICK s : s = [i \in 1..n |-> Page + i - 1]
  OBVIOUS
<1>5. h \in Seq(Int) /\ Len(h) = 2 /\ h[2] = n
  BY <1>3
<1>6. s \in Seq(Int) /\ Len(s) = n
  BY <1>1, <1>4
<1>7. PICK f : f = Rom(p)
  OBVIOUS
<1>8. f = h \o s
  BY <1>2, <1>3, <1>4, <1>7 DEF Rom, I!BIOSFILEID
<1>9. h \in Seq(Int) /\ s \in Seq(Int)
  BY <1>5, <1>6
<1>10. /\ f \in Seq(Int) /\ Len(f) = Len(h) + Len(s)
       /\ \A i \in 1..Len(h) : f[i] = h[i]
       /\ \A i \in 1..Len(s) : f[Len(h) + i] = s[i]
  BY <1>8, <1>9, CatTo
<1>11. Len(f) = n + 2 /\ f[2] = n
  BY <1>5, <1>6, <1>10
<1>12. \A i \in 1..n : f[2 + i] = Page + i - 1
  BY <1>4, <1>5, <1>6, <1>10
<1>13. QED
  BY <1>2, <1>7, <1>10, <1>11, <1>12

LEMMA RomStep ==
  ASSUME ImageInv, I!elf2bios
  PROVE  ImageInv'
<1>1. program \in I!Programs /\ UNCHANGED <<program, loaded, image, blocks>>
  BY DEF ImageInv, I!elf2bios
<1>2. I!Written(Rom(program), "rom")
  BY DEF I!elf2bios, Rom, I!TextAddr
<1>3. Rom(program) \in Seq(Int)
  BY <1>1, RomIs
<1>4. /\ file' \in Seq(Int) /\ iPhase' = "rom"
      /\ \E n \in 0..Len(Rom(program)) : file' = SubSeq(Rom(program), 1, n) /\ (n = Len(Rom(program)) => whole')
  BY <1>2, <1>3, FileIs
<1>5. Rom(program') = Rom(program)
  BY <1>1
<1>6. QED
  BY <1>1, <1>4, <1>5 DEF ImageInv

LEMMA RamStep ==
  ASSUME ImageInv, I!RamSpace
  PROVE  ImageInv'
<1>1. /\ program \in I!Programs /\ file \in Seq(Int) /\ iPhase = "core" /\ (whole => file = CoreFile(program))
      /\ UNCHANGED <<program, file, whole, image, blocks>>
      /\ iPhase' \in {"Invalid core file", "CoreFileOverflow", "ram"}
  BY DEF ImageInv, I!RamSpace
<1>2. ASSUME iPhase' = "ram", whole
      PROVE  LoadedIn(program, loaded')
  <2>1. PICK f \in Seq(Int) : f = file
    BY <1>1
  <2>2. PICK n : n = Len(f) - 1
    OBVIOUS
  <2>3. /\ f # <<>> /\ ~ (n >= RamSize)
        /\ loaded' = I!First(Tail(f), RamSize) \o [i \in 1..(IF n < RamSize THEN RamSize - n ELSE 0) |-> I!Garbage]
    BY <1>2, <2>1, <2>2 DEF I!RamSpace
  <2>4. PICK t : t = Tail(f)
    OBVIOUS
  <2>5. n \in Nat /\ RamSize \in Nat /\ n < RamSize /\ t \in Seq(Int) /\ Len(t) = n /\ \A j \in 1..n : t[j] = f[j + 1]
    BY ImagesAssumption, <2>2, <2>3, <2>4
  <2>6. I!First(t, RamSize) = t
    <3>1. I!First(t, RamSize) = SubSeq(t, 1, Len(t))
      BY <2>5 DEF I!First
    <3>2. QED
      BY <2>5, <3>1
  <2>7. PICK u : u = [i \in 1..RamSize - n |-> -9]
    OBVIOUS
  <2>8. u \in Seq(Int)
    BY <2>5, <2>7
  <2>9. PICK m : m = loaded'
    OBVIOUS
  <2>10. m = t \o u
    BY <2>3, <2>4, <2>5, <2>6, <2>7, <2>9 DEF I!Garbage
  <2>11. t \in Seq(Int) /\ u \in Seq(Int)
    BY <2>5, <2>8
  <2>12. \A i \in 1..Len(t) : m[i] = t[i]
    BY <2>10, <2>11, CatTo
  <2>13. f = CoreFile(program) /\ n = Page + I!Up(program.text) + I!Up(program.mem)
    <3>1. f = CoreFile(program)
      BY <1>1, <1>2, <2>1
    <3>2. I!Up(program.text) \in Nat /\ I!Up(program.mem) \in Nat /\ Page \in Nat
      BY <1>1, ImagesAssumption, ProgramIs
    <3>3. Len(f) = 1 + Page + I!Up(program.text) + I!Up(program.mem)
      BY <1>1, <3>1, CoreIs
    <3>4. QED
      BY <2>2, <3>1, <3>2, <3>3
  <2>14. \A j \in 1..n : m[j] = f[j + 1]
    BY <2>5, <2>12
  <2>15. \A j \in 1..(Page + I!Up(program.text) + I!Up(program.mem)) : m[j] = CoreFile(program)[j + 1]
    BY <2>13, <2>14
  <2>16. LoadedIn(program, m)
    BY <1>1, <2>15, CoreLoaded
  <2>17. QED
    BY <2>9, <2>16
<1>3. LoadedIn(program', loaded') <=> LoadedIn(program, loaded')
  BY <1>1
<1>4. QED
  BY <1>1, <1>2, <1>3 DEF ImageInv

LEMMA BiosStep ==
  ASSUME ImageInv, I!BiosSpace
  PROVE  ImageInv'
<1>1. /\ program \in I!Programs /\ file \in Seq(Int) /\ iPhase = "rom"
      /\ UNCHANGED <<program, file, whole, image, blocks>>
      /\ iPhase' \in {"ROM file expected", "Wrong ROM file size", "bios"}
  BY DEF ImageInv, I!BiosSpace
<1>2. ASSUME iPhase' = "bios"
      PROVE  whole /\ loaded' = [i \in 1..program.text |-> Page + i - 1]
  <2>1. PICK r : r = Rom(program)
    OBVIOUS
  <2>2. PICK n \in 0..Len(r) : file = SubSeq(r, 1, n) /\ (n = Len(r) => whole)
    BY <1>1, <2>1 DEF ImageInv
  <2>3. PICK size \in Nat : size = program.text
    BY <1>1, ProgramIs
  <2>4. /\ r \in Seq(Int) /\ Len(r) = size + 2 /\ r[2] = size
        /\ \A i \in 1..size : r[2 + i] = Page + i - 1
    BY <1>1, <2>1, <2>3, RomIs
  <2>5. PICK f \in Seq(Int) : f = file
    BY <1>1
  <2>6. f = SubSeq(r, 1, n)
    BY <2>2, <2>5
  <2>7. Len(f) = n /\ n \in Nat /\ \A i \in 1..n : f[i] = r[i]
    BY <2>4, <2>6
  <2>8. /\ ~ (Len(f) < 2) /\ ~ (Len(I!From(f, 3)) < f[2])
        /\ loaded' = I!First(I!From(f, 3), f[2])
    BY <1>2, <2>5 DEF I!BiosSpace
  <2>9. PICK t : t = SubSeq(f, 3, Len(f))
    OBVIOUS
  <2>10. t \in Seq(Int) /\ Len(t) = n - 2 /\ \A i \in 1..n - 2 : t[i] = f[2 + i]
    BY <2>7, <2>8, <2>9
  <2>11. f[2] = size
    BY <2>4, <2>7, <2>8
  <2>12. I!From(f, 3) = t
    BY <2>9 DEF I!From
  <2>13. n = size + 2
    BY <2>4, <2>7, <2>8, <2>10, <2>11, <2>12
  <2>14. I!First(t, size) = SubSeq(t, 1, Len(t))
    BY <2>10, <2>13 DEF I!First
  <2>15. SubSeq(t, 1, Len(t)) = t
    BY <2>10
  <2>16. loaded' = t
    BY <2>8, <2>11, <2>12, <2>14, <2>15
  <2>17. \A i \in 1..size : 2 + i \in 1..n
    BY <2>13
  <2>18. \A i \in 1..size : t[i] = Page + i - 1
    BY <2>4, <2>7, <2>10, <2>13, <2>17
  <2>19. t = [i \in 1..size |-> Page + i - 1]
    BY <2>10, <2>13, <2>18
  <2>20. QED
    BY <2>2, <2>3, <2>4, <2>13, <2>16, <2>19
<1>3. QED
  BY <1>1, <1>2 DEF ImageInv

LEMMA DiskStep ==
  ASSUME ImageInv, NEW nc \in Nat \ {0}, NEW nh \in Nat \ {0}, NEW ns \in Nat \ {0}, I!writeDisk(nc, nh, ns)
  PROVE  ImageInv'
<1>1. program \in I!Programs /\ file \in Seq(Int) /\ UNCHANGED <<program, file, whole, loaded>> /\ iPhase' = "disk image"
  BY DEF ImageInv, I!writeDisk
<1>2. DiskKept(image', blocks')
  BY DiskMade
<1>3. QED
  BY <1>1, <1>2 DEF ImageInv

LEMMA FlashStep ==
  ASSUME ImageInv, NEW n \in Nat, I!writeFlash(n)
  PROVE  ImageInv'
<1>1. program \in I!Programs /\ file \in Seq(Int) /\ UNCHANGED <<program, file, whole, loaded>> /\ iPhase' = "flash image"
  BY DEF ImageInv, I!writeFlash
<1>2. FlashKept(image', blocks')
  BY <1>1, FlashMade
<1>3. QED
  BY <1>1, <1>2 DEF ImageInv

LEMMA KeptIsKept ==
  ASSUME NEW im, NEW bl, NEW base, NEW n, NEW at, Kept(im, bl, base, n, at)
  PROVE  KeptOrLarge(im, bl, base, n, at)
  BY DEF Kept, KeptOrLarge

(* The device reads of the image what the tool put there. *)
LEMMA OpenStep ==
  ASSUME ImageInv, I!DiskParams \/ I!FlashParams
  PROVE  ImageInv'
<1>1. program \in I!Programs /\ file \in Seq(Int) /\ UNCHANGED <<program, file, whole, loaded, image, blocks>>
  BY DEF ImageInv, I!DiskParams, I!FlashParams
<1>2. CASE I!DiskParams
  <2>1. iPhase = "disk image" /\ iPhase' = "disk" /\ params'[1] = image[3] /\ params'[2] = image[4]
    <3>1. iPhase = "disk image" /\ iPhase' = "disk" /\ params' = [i \in 0..6-1 |-> image[i + 2]]
      BY <1>2 DEF I!DiskParams, I!DISKPNUM
    <3>2. 1 \in 0..6-1 /\ 2 \in 0..6-1 /\ 1 + 2 = 3 /\ 2 + 2 = 4
      OBVIOUS
    <3>3. params'[1] = image[1 + 2] /\ params'[2] = image[2 + 2]
      BY <3>1, <3>2, Zenon
    <3>4. QED
      BY <3>1, <3>2, <3>3
  <2>2. PICK nc \in Nat \ {0}, nh \in Nat \ {0}, ns \in Nat \ {0} :
          image[3] = nh /\ image[4] = ns /\ Kept(image, blocks, 7, nc * nh * ns, Track(nc, nh, ns))
    BY <2>1 DEF ImageInv, DiskKept
  <2>3. params'[1] = nh /\ params'[2] = ns
    BY <2>1, <2>2
  <2>4. KeptOrLarge(image', blocks', 7, nc * nh * ns, Track(nc, nh, ns))
    BY <1>1, <2>2, KeptIsKept
  <2>5. DiskUsed(params', image', blocks')
    BY <2>3, <2>4 DEF DiskUsed
  <2>6. QED
    BY <1>1, <2>1, <2>5 DEF ImageInv
<1>3. CASE I!FlashParams
  <2>1. iPhase = "flash image" /\ iPhase' = "flash"
    BY <1>3 DEF I!FlashParams
  <2>2. PICK n \in Nat : Kept(image, blocks, 3, n, [d \in 0..n-1 |-> d])
    BY <2>1 DEF ImageInv, FlashKept
  <2>3. KeptOrLarge(image', blocks', 3, n, [d \in 0..n-1 |-> d])
    BY <1>1, <2>2, KeptIsKept
  <2>4. FlashUsed(image', blocks')
    BY <2>3 DEF FlashUsed
  <2>5. QED
    BY <1>1, <2>1, <2>4 DEF ImageInv
<1>4. QED
  BY <1>2, <1>3

(* Where the device looks for a block is where the tool put it, as far as  *)
(* 32 bits tell.                                                           *)
LEMMA DiskOffset ==
  ASSUME iPhase = "disk", NEW nc \in Nat \ {0}, NEW nh \in Nat \ {0}, NEW ns \in Nat \ {0},
         params[1] = nh, params[2] = ns, NEW d \in Geometry(nc, nh, ns)
  PROVE  I!blkOfs(d) = I!SWord(Offset(7, Track(nc, nh, ns), d)) /\ Offset(7, Track(nc, nh, ns), d) \in Nat
<1>1. Track(nc, nh, ns)[d] = d[1] * nh * ns + d[2] * ns + d[3]
  BY DEF Track
<1>2. I!blkOfs(d) = I!SWord(Offset(7, Track(nc, nh, ns), d))
  BY <1>1 DEF I!blkOfs, I!DISKPNUM, Offset
<1>3. PICK k \in Nat : k = Track(nc, nh, ns)[d]
  BY TrackFacts
<1>4. 7 + k * Page \in Nat
  BY ImagesAssumption
<1>5. QED
  BY <1>2, <1>3, <1>4 DEF Offset

LEMMA FlashOffset ==
  ASSUME iPhase = "flash", NEW n \in Nat, NEW d \in 0..n-1
  PROVE  /\ I!blkOfs(d) = I!SWord(Offset(3, [e \in 0..n-1 |-> e], d))
         /\ Offset(3, [e \in 0..n-1 |-> e], d) \in Nat
<1>1. I!blkOfs(d) = I!SWord(Offset(3, [e \in 0..n-1 |-> e], d))
  BY DEF I!blkOfs, I!FLASHPNUM, Offset
<1>2. 3 + d * Page \in Nat
  BY ImagesAssumption
<1>3. QED
  BY <1>1, <1>2 DEF Offset

(* A write that finds its place keeps what is known of the blocks.         *)
LEMMA UsedWritten ==
  ASSUME NEW im, NEW bl, NEW base \in Nat, NEW n \in Nat, NEW at, KeptOrLarge(im, bl, base, n, at),
         NEW d \in DOMAIN bl, NEW o \in Nat, o = Offset(base, at, d), I!SWord(o) >= 0, NEW w \in Int,
         NEW im2, im2 = WordsWritten(im, I!SWord(o), w),
         NEW bl2, bl2 = Refilled(bl, d, w)
  PROVE  KeptOrLarge(im2, bl2, base, n, at)
<1>1. Page \in Nat /\ Span \in Nat /\ Len(im) \in Nat
  BY ImagesAssumption DEF KeptOrLarge
<1>2. DOMAIN bl2 = DOMAIN at
  BY DEF KeptOrLarge, Refilled
<1>3. PICK ofs \in Nat : ofs = I!SWord(o)
  BY Kept32
<1>4. PICK len \in Nat : len = IF Len(im) < ofs + Page THEN ofs + Page ELSE Len(im)
  BY <1>1
<1>5. Len(im2) = len /\ len >= Len(im)
  <2>1. im2 = [i \in 1..len |-> IF ofs < i /\ i <= ofs + Page THEN w ELSE IF i <= Len(im) THEN im[i] ELSE 0]
    BY <1>3, <1>4 DEF WordsWritten
  <2>2. Len(im2) = len
    BY <2>1
  <2>3. QED
    BY <1>1, <1>4, <2>2
<1>6. CASE Len(im) > Span
  BY <1>1, <1>2, <1>5, <1>6 DEF KeptOrLarge
<1>7. CASE Kept(im, bl, base, n, at) /\ ~ Len(im) > Span
  <2>1. o + Page <= Len(im)
    BY <1>7, BlockRead
  <2>2. o < Span
    BY <1>1, <1>7, <2>1, ImagesAssumption
  <2>3. I!SWord(o) = o
    BY <2>2, Kept32
  <2>4. Kept(im2, bl2, base, n, at)
    BY <1>7, <2>3, BlockWritten
  <2>5. QED
    BY <1>2, <1>5, <2>4 DEF KeptOrLarge
<1>8. QED
  BY <1>6, <1>7 DEF KeptOrLarge

LEMMA WriteStep ==
  ASSUME ImageInv, NEW d \in DOMAIN blocks, I!WriteBlock(d, 1)
  PROVE  ImageInv'
<1>1. /\ program \in I!Programs /\ file \in Seq(Int)
      /\ UNCHANGED <<program, file, whole, loaded, params, iPhase>> /\ iPhase \in {"disk", "flash"} /\ I!blkOfs(d) >= 0
  BY DEF ImageInv, I!WriteBlock
<1>2. PICK ofs : ofs = I!blkOfs(d)
  OBVIOUS
<1>3. image' = WordsWritten(image, ofs, 1)
  BY <1>2 DEF I!WriteBlock, WordsWritten
<1>4. blocks' = [blocks EXCEPT ![d] = [i \in 1..Page |-> 1]]
  BY DEF I!WriteBlock
<1>5. PICK im2 : im2 = image'
  OBVIOUS
<1>6. PICK bl2 : bl2 = blocks'
  OBVIOUS
<1>7a. PICK w \in Int : w = 1
  OBVIOUS
<1>7b. im2 = WordsWritten(image, ofs, w)
  BY <1>3, <1>5, <1>7a
<1>7c. bl2 = Refilled(blocks, d, w)
  BY <1>4, <1>6, <1>7a DEF Refilled
<1>8. CASE iPhase = "disk"
  <2>1. PICK nc \in Nat \ {0}, nh \in Nat \ {0}, ns \in Nat \ {0} :
          /\ params[1] = nh /\ params[2] = ns
          /\ KeptOrLarge(image, blocks, 7, nc * nh * ns, Track(nc, nh, ns))
    BY <1>8 DEF ImageInv, DiskUsed
  <2>2. PICK n \in Nat : n = nc * nh * ns
    BY TrackFacts
  <2>3. PICK at1 : at1 = Track(nc, nh, ns)
    OBVIOUS
  <2>4. d \in Geometry(nc, nh, ns)
    BY <2>1 DEF KeptOrLarge, Track
  <2>5. PICK o \in Nat : o = Offset(7, at1, d) /\ ofs = I!SWord(o)
    BY <1>2, <1>8, <2>1, <2>3, <2>4, DiskOffset
  <2>6. PICK base \in Nat : base = 7
    OBVIOUS
  <2>7. KeptOrLarge(image, blocks, base, n, at1) /\ o = Offset(base, at1, d)
    BY <2>1, <2>2, <2>3, <2>5, <2>6
  <2>8. I!SWord(o) >= 0 /\ im2 = WordsWritten(image, I!SWord(o), w)
    BY <1>1, <1>2, <1>7b, <2>5
  <2>9. KeptOrLarge(im2, bl2, base, n, at1)
    BY <1>7c, <2>7, <2>8, UsedWritten
  <2>10. DiskUsed(params, im2, bl2)
    BY <2>1, <2>2, <2>3, <2>6, <2>9 DEF DiskUsed
  <2>11. QED
    BY <1>1, <1>5, <1>6, <1>8, <2>10 DEF ImageInv
<1>9. CASE iPhase = "flash"
  <2>1. PICK n \in Nat : KeptOrLarge(image, blocks, 3, n, [e \in 0..n-1 |-> e])
    BY <1>9 DEF ImageInv, FlashUsed
  <2>2. PICK at1 : at1 = [e \in 0..n-1 |-> e]
    OBVIOUS
  <2>3. d \in 0..n-1
    BY <2>1 DEF KeptOrLarge
  <2>4. PICK o \in Nat : o = Offset(3, at1, d) /\ ofs = I!SWord(o)
    BY <1>2, <1>9, <2>2, <2>3, FlashOffset
  <2>5. PICK base \in Nat : base = 3
    OBVIOUS
  <2>6. KeptOrLarge(image, blocks, base, n, at1) /\ o = Offset(base, at1, d)
    BY <2>1, <2>2, <2>4, <2>5
  <2>7. I!SWord(o) >= 0 /\ im2 = WordsWritten(image, I!SWord(o), w)
    BY <1>1, <1>2, <1>7b, <2>4
  <2>8. KeptOrLarge(im2, bl2, base, n, at1)
    BY <1>7c, <2>6, <2>7, UsedWritten
  <2>9. FlashUsed(im2, bl2)
    BY <2>2, <2>5, <2>8 DEF FlashUsed
  <2>10. QED
    BY <1>1, <1>5, <1>6, <1>9, <2>9 DEF ImageInv
<1>10. QED
  BY <1>1, <1>8, <1>9

LEMMA PanicStep ==
  ASSUME ImageInv, NEW d \in DOMAIN blocks, I!Panic(d)
  PROVE  ImageInv'
<1>1. program' = program /\ file' = file /\ iPhase' = "Panic"
  BY DEF I!Panic
<1>2. QED
  BY <1>1 DEF ImageInv

LEMMA NextImages == ImageInv /\ [I!Next]_iVars => ImageInv'
<1> SUFFICES ASSUME ImageInv, [I!Next]_iVars
             PROVE  ImageInv'
  OBVIOUS
<1>1. ASSUME NEW isCore \in BOOLEAN, I!elf2aout(isCore)
      PROVE  ImageInv'
  BY <1>1, AoutStep
<1>2. CASE I!elf2bios
  BY <1>2, RomStep
<1>3. CASE I!RamSpace
  BY <1>3, RamStep
<1>4. CASE I!BiosSpace
  BY <1>4, BiosStep
<1>5. ASSUME NEW g \in Geometries, I!writeDisk(g[1], g[2], g[3])
      PROVE  ImageInv'
  <2>1. g[1] \in Nat \ {0} /\ g[2] \in Nat \ {0} /\ g[3] \in Nat \ {0}
    BY ImagesAssumption
  <2>2. QED
    BY <1>5, <2>1, DiskStep
<1>6. ASSUME NEW n \in Sizes, I!writeFlash(n)
      PROVE  ImageInv'
  <2>1. n \in Nat
    BY ImagesAssumption
  <2>2. QED
    BY <1>6, <2>1, FlashStep
<1>7. CASE I!DiskParams \/ I!FlashParams
  BY <1>7, OpenStep
<1>8. ASSUME NEW d \in DOMAIN blocks, I!WriteBlock(d, 1) \/ I!Panic(d)
      PROVE  ImageInv'
  BY <1>8, WriteStep, PanicStep
<1>9. CASE UNCHANGED iVars
  BY <1>9 DEF iVars, ImageInv
<1>10. QED
  BY <1>1, <1>2, <1>3, <1>4, <1>5, <1>6, <1>7, <1>8, <1>9 DEF I!Next

(* A block of a known image is found where it was written.                 *)
LEMMA UsedRead ==
  ASSUME NEW im, NEW bl, NEW base \in Nat, NEW n \in Nat, NEW at, KeptOrLarge(im, bl, base, n, at), Len(im) <= Span,
         NEW d \in DOMAIN bl, NEW o \in Nat, o = Offset(base, at, d)
  PROVE  /\ I!SWord(o) >= 0 => /\ I!SWord(o) + Page <= Len(im)
                              /\ SubSeq(im, I!SWord(o) + 1, I!SWord(o) + Page) = bl[d]
         /\ Len(im) <= Span \div 2 => I!SWord(o) >= 0
<1>1. Page \in Nat \ {0} /\ Span \in Nat \ {0} /\ Len(im) \in Nat
  BY ImagesAssumption DEF KeptOrLarge
<1>2. Kept(im, bl, base, n, at)
  BY <1>1 DEF KeptOrLarge
<1>3. o + Page <= Len(im) /\ SubSeq(im, o + 1, o + Page) = bl[d]
  BY <1>2, BlockRead
<1>4. o < Span /\ o < Len(im)
  <2>1. PICK len \in Nat : len = Len(im)
    BY <1>1
  <2>2. PICK p \in Nat : p = Page /\ p > 0
    BY <1>1
  <2>3. o + p <= len /\ len <= Span
    BY <1>3, <2>1, <2>2
  <2>4. o < len /\ o < Span
    BY <1>1, <2>2, <2>3
  <2>5. QED
    BY <2>1, <2>4
<1>5. I!SWord(o) >= 0 => I!SWord(o) = o
  BY <1>4, Kept32
<1>6. Len(im) <= Span \div 2 => o < Span \div 2
  BY <1>1, <1>4
<1>7. QED
  BY <1>3, <1>4, <1>5, <1>6, Kept32

LEMMA ImagesMean == ImageInv => I!FilesRead
<1> SUFFICES ASSUME ImageInv
             PROVE  I!FilesRead
  OBVIOUS
<1>1. I!Loaded
  <2>1. iPhase = "ram" /\ whole => LoadedIn(program, loaded)
    BY DEF ImageInv
  <2>2. QED
    BY <2>1 DEF I!Loaded, LoadedIn
<1>2. I!RomWhole
  BY DEF ImageInv, I!RomWhole, I!TextAddr
<1>3. I!BlocksKept
  <2> SUFFICES ASSUME iPhase \in {"disk", "flash"}, Len(image) <= Span, NEW d \in DOMAIN blocks
               PROVE  /\ I!blkOfs(d) >= 0 => I!blkOfs(d) + Page <= Len(image) /\ I!ReadBlock(d) = blocks[d]
                      /\ Len(image) <= Span \div 2 => I!blkOfs(d) >= 0
    BY DEF I!BlocksKept
  <2>1. PICK ofs : ofs = I!blkOfs(d)
    OBVIOUS
  <2>2. 7 \in Nat /\ 3 \in Nat
    OBVIOUS
  <2>3. CASE iPhase = "disk"
    <3>1. PICK nc \in Nat \ {0}, nh \in Nat \ {0}, ns \in Nat \ {0} :
            /\ params[1] = nh /\ params[2] = ns
            /\ KeptOrLarge(image, blocks, 7, nc * nh * ns, Track(nc, nh, ns))
      BY <2>3 DEF ImageInv, DiskUsed
    <3>2. PICK n \in Nat : n = nc * nh * ns
      BY TrackFacts
    <3>3. PICK at1 : at1 = Track(nc, nh, ns)
      OBVIOUS
    <3>4. KeptOrLarge(image, blocks, 7, n, at1)
      BY <3>1, <3>2, <3>3
    <3>5. d \in Geometry(nc, nh, ns)
      BY <3>3, <3>4 DEF KeptOrLarge, Track
    <3>6. PICK o \in Nat : o = Offset(7, at1, d) /\ ofs = I!SWord(o)
      BY <2>1, <2>3, <3>1, <3>3, <3>5, DiskOffset
    <3>7. /\ ofs >= 0 => ofs + Page <= Len(image) /\ SubSeq(image, ofs + 1, ofs + Page) = blocks[d]
          /\ Len(image) <= Span \div 2 => ofs >= 0
      BY <2>2, <3>4, <3>6, UsedRead
    <3>8. QED
      BY <2>1, <3>7 DEF I!ReadBlock
  <2>4. CASE iPhase = "flash"
    <3>1. PICK n \in Nat : KeptOrLarge(image, blocks, 3, n, [e \in 0..n-1 |-> e])
      BY <2>4 DEF ImageInv, FlashUsed
    <3>2. PICK at1 : at1 = [e \in 0..n-1 |-> e]
      OBVIOUS
    <3>3. KeptOrLarge(image, blocks, 3, n, at1)
      BY <3>1, <3>2
    <3>4. d \in 0..n-1
      BY <3>2, <3>3 DEF KeptOrLarge
    <3>5. PICK o \in Nat : o = Offset(3, at1, d) /\ ofs = I!SWord(o)
      BY <2>1, <2>4, <3>2, <3>4, FlashOffset
    <3>6. /\ ofs >= 0 => ofs + Page <= Len(image) /\ SubSeq(image, ofs + 1, ofs + Page) = blocks[d]
          /\ Len(image) <= Span \div 2 => ofs >= 0
      BY <2>2, <3>3, <3>5, UsedRead
    <3>7. QED
      BY <2>1, <3>6 DEF I!ReadBlock
  <2>5. QED
    BY <2>3, <2>4
<1>4. QED
  BY <1>1, <1>2, <1>3 DEF I!FilesRead

LEMMA InitFiles == MCInit => (active = "images" => ImageInv)
  BY InitImages DEF MCInit

LEMMA NextFiles == (active = "images" => ImageInv) /\ [MCNext]_allVars => (active = "images" => ImageInv)'
<1> SUFFICES ASSUME active = "images" => ImageInv, [MCNext]_allVars, active' = "images"
             PROVE  ImageInv'
  OBVIOUS
<1>1. CASE active = "images" /\ I!Next /\ UNCHANGED active
  BY <1>1, NextImages
<1>2. CASE UNCHANGED <<active, iVars>>
  BY <1>2, NextImages
<1>3. QED
  BY <1>1, <1>2 DEF MCNext, allVars

(* The files of the tools are read as they were written, with pages,       *)
(* headers, programs and memories of any size: RamSpace finds in a core    *)
(* file every word of a program where it was linked, and BiosSpace loads no*)
(* ROM file that was cut. Of an image that offsets of 32 bits can span,    *)
(* blkOfs of the disk and flash devices puts every block it finds in a     *)
(* place of its own, behind the parameters, where it reads as mkdev filled *)
(* it or as it was written last; it finds them all if the positive offsets *)
(* span the image (2 GiB). Of larger images nothing is claimed.            *)
THEOREM ImagesAreRead == MCSpec => [](active = "images" => I!FilesRead)
<1>1. (active = "images" => ImageInv) => (active = "images" => I!FilesRead)
  BY ImagesMean
<1>2. QED
  BY <1>1, InitFiles, NextFiles, PTL DEF MCSpec

-----------------------------------------------------------------------------
(* JSON documents. The tokens of a text are where the layout of its nodes  *)
(* puts them; a parser that has read some of them is in the calls that     *)
(* layout says, whatever document the text was cut to.                     *)

Blank   == " "
Quote   == "\""
Comma   == ","
Marks   == {"{", "}", "[", "]", ",", ":"}
Literal == {"string", "number", "keyword"}

(* A token that begins at P, or behind a blank that stands there, and ends *)
(* before E.                                                               *)
Skips(T, p, s) == /\ p \in Nat \ {0} /\ s \in {p, p + 1} /\ s <= Len(T)
                  /\ T[s] # Blank /\ (s = p + 1 => T[p] = Blank)
Str(T, s, tx, e) == \E k \in Nat : /\ tx = [i \in 1..k |-> T[s + i]] /\ e = s + k + 2
                                   /\ T[s] = Quote /\ T[s + k + 1] = Quote
                                   /\ \A i \in 1..k : T[s + i] # Quote
Num(T, s, tx, e) == \E k \in Nat \ {0} : /\ tx = [i \in 1..k |-> T[s + i - 1]] /\ e = s + k
                                         /\ \A i \in 1..k : T[s + i - 1] \in J!Digit
                                         /\ e <= Len(T) => T[e] \notin J!Digit
Token(T, p, ty, tx, e) ==
  \E s \in Nat : /\ Skips(T, p, s) /\ e \in Nat /\ e <= Len(T) + 1
                 /\ \/ ty = "string" /\ Str(T, s, tx, e)
                    \/ ty = "number" /\ Num(T, s, tx, e)
                    \/ ty = "keyword" /\ T[s] \in J!Keyword /\ tx = <<T[s]>> /\ e = s + 1
                    \/ ty \in Marks /\ T[s] = ty /\ e = s + 1

LEMMA CharsDiffer ==
  /\ Quote \notin J!Digit /\ Quote \notin J!Keyword /\ Quote \notin Marks
  /\ Blank \notin J!Digit /\ Blank \notin J!Keyword /\ Blank \notin Marks /\ Blank # Quote
  /\ \A z \in J!Digit : z \notin J!Keyword /\ z \notin Marks
  /\ \A z \in J!Keyword : z \notin Marks
  BY Zenon DEF Quote, Blank, Marks, J!Digit, J!Keyword

LEMMA TypesDiffer ==
  /\ \A z \in Marks : z \notin Literal /\ z # "none"
  /\ \A z \in Literal : z # "none"
  BY Zenon DEF Marks, Literal

(* The first of a set of places. *)
LEMMA FirstIs ==
  ASSUME NEW S, S \subseteq Nat, NEW m \in S, \A q \in S : m <= q
  PROVE  J!First(S) = m
<1>1. PICK z : z = J!First(S)
  OBVIOUS
<1>2. z \in S /\ \A q \in S : z <= q
  BY <1>1 DEF J!First
<1>3. z <= m /\ m <= z /\ z \in Nat /\ m \in Nat
  BY <1>2
<1>4. QED
  BY <1>1, <1>3

(* What NextToken makes of the character that it finds. *)
Rest(p) == {q \in p..Len(doc) : doc[q] # Blank}

LEMMA NextTokenIs ==
  J!NextToken = IF Rest(jPos) = {} THEN J!NoToken
                ELSE LET s == J!First(Rest(jPos)) IN
                     CASE doc[s] = Quote -> J!ReadString(s)
                       [] doc[s] \in J!Digit -> J!ReadNumber(s)
                       [] doc[s] \in J!Keyword -> J!TokenAt("keyword", s, s, s + 1)
                       [] doc[s] \in Marks -> J!TokenAt(doc[s], s, s, s + 1)
                       [] OTHER -> J!NoToken
  BY Zenon DEF J!NextToken, Quote, Marks, Rest, Blank

LEMMA Finds ==
  ASSUME NEW s \in Nat, s \in Rest(jPos), \A q \in Rest(jPos) : s <= q, jPos \in Nat, Len(doc) \in Nat
  PROVE  /\ doc[s] = Quote => J!NextToken = J!ReadString(s)
         /\ doc[s] \in J!Digit => J!NextToken = J!ReadNumber(s)
         /\ doc[s] \in J!Keyword => J!NextToken = J!TokenAt("keyword", s, s, s + 1)
         /\ doc[s] \in Marks => J!NextToken = J!TokenAt(doc[s], s, s, s + 1)
<1>1. Rest(jPos) \subseteq Nat
  <2>1. \A q \in Rest(jPos) : q \in jPos..Len(doc)
    BY DEF Rest
  <2>2. \A q \in jPos..Len(doc) : q \in Nat
    OBVIOUS
  <2>3. QED
    BY <2>1, <2>2
<1>2. Rest(jPos) # {} /\ J!First(Rest(jPos)) = s
  BY <1>1, FirstIs
<1>3. J!NextToken = CASE doc[s] = Quote -> J!ReadString(s)
                      [] doc[s] \in J!Digit -> J!ReadNumber(s)
                      [] doc[s] \in J!Keyword -> J!TokenAt("keyword", s, s, s + 1)
                      [] doc[s] \in Marks -> J!TokenAt(doc[s], s, s, s + 1)
                      [] OTHER -> J!NoToken
  BY <1>2, NextTokenIs, Zenon
<1>4. QED
  BY <1>3, CharsDiffer

(* The document is the beginning of the text T. *)
Cut(T, d) == /\ Len(T) \in Nat /\ d \in 0..Len(T) /\ Len(doc) = d
             /\ doc = [i \in 1..d |-> T[i]]

Slice(T, b, k) == [i \in 1..k |-> T[b + i - 1]]

LEMMA SliceIs ==
  ASSUME NEW T, NEW d, Cut(T, d), NEW k \in Nat, NEW b \in Nat \ {0}, NEW z, z = b + k - 1, z <= d
  PROVE  SubSeq(doc, b, z) = Slice(T, b, k)
<1>1. d \in Nat /\ z \in Int /\ z - b + 1 = k
  BY DEF Cut
<1>2. \A i \in 1..k : doc[b + i - 1] = T[b + i - 1]
  <2> SUFFICES ASSUME NEW i \in 1..k
               PROVE  doc[b + i - 1] = T[b + i - 1]
    OBVIOUS
  <2>1. b + i - 1 \in 1..d
    BY <1>1
  <2>2. QED
    BY <2>1 DEF Cut
<1>3. SubSeq(doc, b, z) = [i \in 1..k |-> doc[b + i - 1]]
  BY <1>1
<1>4. QED
  BY <1>2, <1>3 DEF Slice

LEMMA StringRead ==
  ASSUME NEW T, NEW d, Cut(T, d), NEW s \in 1..d, NEW tx, NEW e \in Nat, e <= Len(T) + 1, Str(T, s, tx, e)
  PROVE  IF e <= d + 1 THEN J!ReadString(s) = [type |-> "string", text |-> tx, next |-> e]
         ELSE J!ReadString(s) = J!NoToken
<1>1. PICK k \in Nat :
         /\ tx = [i \in 1..k |-> T[s + i]] /\ e = s + k + 2
         /\ T[s + k + 1] = Quote
         /\ \A i \in 1..k : T[s + i] # Quote
  BY DEF Str
<1>2. PICK ends : ends = {q \in (s + 1)..d : doc[q] = Quote}
  OBVIOUS
<1>0. d \in Nat /\ s \in Nat /\ Len(T) \in Nat
  BY DEF Cut
<1>3. J!From(s + 1, {"\""}) = ends
  BY <1>2 DEF J!From, Cut, Quote
<1>4. \A q \in (s + 1)..d : doc[q] = T[q] /\ q \in Nat
  BY DEF Cut
<1>5. \A q \in ends : s + k + 1 <= q /\ q <= d /\ q \in Nat
  <2> SUFFICES ASSUME NEW q \in (s + 1)..d, T[q] = Quote
               PROVE  s + k + 1 <= q
    BY <1>2, <1>4
  <2>1. ASSUME q < s + k + 1
        PROVE  FALSE
    <3>1. q - s \in 1..k /\ s + (q - s) = q
      BY <2>1
    <3>2. QED
      BY <1>1, <3>1
  <2>2. QED
    BY <2>1
<1>6. CASE e <= d + 1
  <2>1. s + k + 1 \in ends
    <3>1. s + k + 1 \in (s + 1)..d /\ s + k + 1 \in Nat
      BY <1>0, <1>1, <1>6
    <3>2. doc[s + k + 1] = Quote
      BY <1>1, <1>4, <3>1
    <3>3. QED
      BY <1>2, <3>1, <3>2
  <2>2. J!First(ends) = s + k + 1
    BY <1>5, <2>1, FirstIs
  <2>3. J!ReadString(s) = J!TokenAt("string", s + 1, (s + k + 1) - 1, (s + k + 1) + 1)
    BY <1>3, <2>1, <2>2 DEF J!ReadString
  <2>4. (s + k + 1) - 1 = (s + 1) + k - 1 /\ (s + k + 1) + 1 = e /\ (s + 1) + k <= d + 1
    BY <1>0, <1>1, <1>6
  <2>5. SubSeq(doc, s + 1, (s + 1) + k - 1) = tx
    <3>1. PICK b \in Nat \ {0} : b = s + 1
      OBVIOUS
    <3>2. PICK z : z = b + k - 1
      OBVIOUS
    <3>3. z <= d
      BY <1>0, <2>4, <3>1, <3>2
    <3>4. SubSeq(doc, b, z) = Slice(T, b, k)
      BY <3>2, <3>3, SliceIs
    <3>5. \A i \in 1..k : b + i - 1 = s + i
      BY <1>0, <3>1
    <3>6. Slice(T, b, k) = tx
      BY <1>1, <3>5 DEF Slice
    <3>7. QED
      BY <3>1, <3>2, <3>4, <3>6
  <2>6. QED
    BY <1>6, <2>3, <2>4, <2>5 DEF J!TokenAt
<1>7. CASE ~(e <= d + 1)
  <2>1. ends = {}
    <3> SUFFICES ASSUME NEW q \in ends
                 PROVE  FALSE
      OBVIOUS
    <3>1. d \in Nat
      BY DEF Cut
    <3>2. QED
      BY <1>1, <1>5, <1>7, <3>1
  <2>2. QED
    BY <1>3, <1>7, <2>1 DEF J!ReadString
<1>8. QED
  BY <1>6, <1>7

LEMMA NumberRead ==
  ASSUME NEW T, NEW d, Cut(T, d), NEW s \in 1..d, NEW tx, NEW e \in Nat, e <= Len(T) + 1, Num(T, s, tx, e)
  PROVE  IF e <= d + 1 THEN J!ReadNumber(s) = [type |-> "number", text |-> tx, next |-> e]
         ELSE J!ReadNumber(s).type = "number" /\ J!ReadNumber(s).next = d + 1
<1>1. PICK k \in Nat \ {0} :
         /\ tx = [i \in 1..k |-> T[s + i - 1]] /\ e = s + k
         /\ \A i \in 1..k : T[s + i - 1] \in J!Digit
         /\ e <= Len(T) => T[e] \notin J!Digit
  BY DEF Num
<1>2. PICK ends : ends = {q \in s..d : q = d \/ doc[q + 1] \notin J!Digit}
  OBVIOUS
<1>3. PICK z : z = J!First(ends)
  OBVIOUS
<1>4. J!ReadNumber(s) = [type |-> "number", text |-> SubSeq(doc, s, z), next |-> z + 1]
  BY <1>2, <1>3 DEF J!ReadNumber, J!TokenAt, Cut
<1>5. \A q \in 1..d : doc[q] = T[q]
  BY DEF Cut
<1>6. d \in Nat /\ ends \subseteq Nat /\ d \in ends /\ \A q \in ends : s <= q /\ q <= d /\ q \in Nat
  <2>1. d \in Nat /\ s \in Nat /\ s <= d
    BY DEF Cut
  <2>2. \A q \in ends : q \in s..d
    BY <1>2
  <2>3. \A q \in ends : s <= q /\ q <= d /\ q \in Nat
    BY <2>1, <2>2
  <2>4. QED
    BY <1>2, <2>1, <2>3
<1>7. \A q \in ends : q = d \/ s + k - 1 <= q
  <2> SUFFICES ASSUME NEW q \in ends, q # d, q < s + k - 1
               PROVE  FALSE
    BY <1>1, <1>6
  <2>0. q \in Nat /\ s <= q /\ q <= d /\ d \in Nat /\ s \in Nat
    BY <1>6
  <2>1. q + 1 \in 1..d /\ doc[q + 1] \notin J!Digit
    BY <1>2, <2>0
  <2>2. PICK i \in 1..k : i = (q + 1) - s + 1
    BY <2>0
  <2>5. s + i - 1 = q + 1
    BY <2>0, <2>2
  <2>3. T[q + 1] \in J!Digit
    <3>1. T[s + i - 1] \in J!Digit
      BY <1>1, Zenon
    <3>2. QED
      BY <2>5, <3>1
  <2>4. QED
    BY <1>5, <2>1, <2>3
<1>8. CASE e <= d + 1
  <2>1. s + k - 1 \in ends
    <3>1. s + k - 1 \in s..d
      BY <1>1, <1>6, <1>8
    <3>2. s + k - 1 = d \/ doc[(s + k - 1) + 1] \notin J!Digit
      <4>1. ASSUME s + k - 1 # d
            PROVE  doc[(s + k - 1) + 1] \notin J!Digit
        <5>1. (s + k - 1) + 1 = e /\ e \in 1..d /\ e <= Len(T)
          BY <1>1, <1>6, <1>8, <4>1 DEF Cut
        <5>2. doc[e] = T[e] /\ T[e] \notin J!Digit
          <6>1. doc[e] = T[e]
            BY <1>5, <5>1
          <6>2. T[e] \notin J!Digit
            BY <1>1, <5>1, Zenon
          <6>3. QED
            BY <6>1, <6>2
        <5>3. QED
          BY <5>1, <5>2
      <4>2. QED
        BY <4>1
    <3>3. QED
      BY <1>2, <3>1, <3>2
  <2>2. \A q \in ends : s + k - 1 <= q
    BY <1>1, <1>6, <1>7, <1>8
  <2>3. z = s + k - 1
    BY <1>3, <1>6, <2>1, <2>2, FirstIs
  <2>4. SubSeq(doc, s, z) = tx
    <3>1. s \in Nat \ {0} /\ s + k <= d + 1 /\ k \in Nat
      BY <1>1, <1>6, <1>8
    <3>2. z <= d
      BY <1>6, <2>3, <3>1
    <3>3. SubSeq(doc, s, z) = Slice(T, s, k)
      BY <2>3, <3>1, <3>2, SliceIs
    <3>4. QED
      BY <1>1, <3>3 DEF Slice
  <2>5. z + 1 = e
    BY <1>1, <2>3
  <2>6. QED
    BY <1>4, <1>8, <2>4, <2>5
<1>9. CASE ~(e <= d + 1)
  <2>1. \A q \in ends : d <= q
    BY <1>1, <1>6, <1>7, <1>9
  <2>2. z = d
    BY <1>3, <1>6, <2>1, FirstIs
  <2>3. QED
    BY <1>4, <1>9, <2>2
<1>10. QED
  BY <1>8, <1>9

(* A token of the text is read as it is, if the document reaches behind it.*)
(* Of a token that is cut off nothing is read but the beginning of a number.*)
Read(ty, tx, e) == /\ J!NextToken.type = ty /\ J!NextToken.next = e
                   /\ ty \in Literal => J!NextToken.text = tx

LEMMA TokenRead ==
  ASSUME NEW T, NEW d, Cut(T, d), NEW p, jPos = p, NEW ty, NEW tx, NEW e, Token(T, p, ty, tx, e)
  PROVE  \/ e \in Nat /\ e <= d + 1 /\ Read(ty, tx, e)
         \/ d < Len(T) /\ e > d + 1 /\ J!NextToken = J!NoToken
         \/ /\ d < Len(T) /\ e > d + 1 /\ ty = "number"
            /\ J!NextToken.type = "number" /\ J!NextToken.next = d + 1
<1>1. PICK s \in Nat :
         /\ Skips(T, p, s) /\ e \in Nat /\ e <= Len(T) + 1
         /\ \/ ty = "string" /\ Str(T, s, tx, e)
            \/ ty = "number" /\ Num(T, s, tx, e)
            \/ ty = "keyword" /\ T[s] \in J!Keyword /\ tx = <<T[s]>> /\ e = s + 1
            \/ ty \in Marks /\ T[s] = ty /\ e = s + 1
  BY DEF Token
<1>2. PICK rest : rest = Rest(jPos)
  OBVIOUS
<1>3. d \in Nat /\ Len(T) \in Nat /\ d <= Len(T) /\ Len(doc) = d /\ \A q \in 1..d : doc[q] = T[q]
  BY DEF Cut
<1>4. /\ p \in Nat \ {0} /\ s \in {p, p + 1} /\ s <= Len(T)
      /\ T[s] # Blank /\ (s = p + 1 => T[p] = Blank)
  BY <1>1 DEF Skips
<1>5. \A q \in rest : q \in p..d /\ T[q] # Blank /\ s <= q
  <2>1. \A q \in rest : q \in p..d /\ T[q] # Blank
    <3>1. \A q \in rest : q \in p..d /\ doc[q] # Blank
      BY <1>2, <1>3 DEF Rest
    <3>2. \A q \in p..d : q \in 1..d
      BY <1>3, <1>4
    <3>3. QED
      BY <1>3, <3>1, <3>2
  <2>2. \A q \in rest : s <= q
    BY <1>4, <2>1
  <2>3. QED
    BY <2>1, <2>2
<1>6. CASE d < s
  <2>1. rest = {}
    <3> SUFFICES ASSUME NEW q \in rest
                 PROVE  FALSE
      OBVIOUS
    <3>1. q \in p..d /\ s <= q
      BY <1>5
    <3>2. QED
      BY <1>3, <1>4, <1>6, <3>1
  <2>2. J!NextToken = J!NoToken
    BY <1>2, <2>1, NextTokenIs, Zenon
  <2>3. e > s
    BY <1>1, <1>4 DEF Str, Num
  <2>4. QED
    BY <1>1, <1>3, <1>4, <1>6, <2>2, <2>3
<1>7. CASE s <= d
  <2>1. s \in 1..d /\ doc[s] = T[s]
    BY <1>3, <1>4, <1>7
  <2>2. s \in rest
    <3>1. s \in p..d /\ doc[s] # Blank
      BY <1>3, <1>4, <1>7, <2>1
    <3>2. QED
      BY <1>2, <1>3, <3>1 DEF Rest
  <2>3. jPos \in Nat /\ \A q \in rest : s <= q
    BY <1>4, <1>5
  <2>4. /\ doc[s] = Quote => J!NextToken = J!ReadString(s)
        /\ doc[s] \in J!Digit => J!NextToken = J!ReadNumber(s)
        /\ doc[s] \in J!Keyword => J!NextToken = J!TokenAt("keyword", s, s, s + 1)
        /\ doc[s] \in Marks => J!NextToken = J!TokenAt(doc[s], s, s, s + 1)
    BY <1>2, <1>3, <2>2, <2>3, Finds
  <2>5. CASE ty = "string" /\ Str(T, s, tx, e)
    <3>1. J!NextToken = J!ReadString(s)
      BY <2>1, <2>4, <2>5 DEF Str
    <3>2. IF e <= d + 1 THEN J!NextToken = [type |-> "string", text |-> tx, next |-> e]
          ELSE J!NextToken = J!NoToken
      BY <1>1, <2>1, <2>5, <3>1, StringRead
    <3>3. QED
      BY <1>1, <1>3, <2>5, <3>2 DEF Read
  <2>6. CASE ty = "number" /\ Num(T, s, tx, e)
    <3>1. doc[s] \in J!Digit
      <4>1. PICK k \in Nat \ {0} : \A i \in 1..k : T[s + i - 1] \in J!Digit
        BY <2>6 DEF Num
      <4>2. 1 \in 1..k /\ s + 1 - 1 = s
        OBVIOUS
      <4>3. QED
        BY <2>1, <4>1, <4>2
    <3>2. IF e <= d + 1 THEN J!NextToken = [type |-> "number", text |-> tx, next |-> e]
          ELSE J!NextToken.type = "number" /\ J!NextToken.next = d + 1
      BY <1>1, <2>1, <2>4, <2>6, <3>1, NumberRead
    <3>3. QED
      BY <1>1, <1>3, <2>6, <3>2 DEF Read
  <2>7. CASE ty = "keyword" /\ T[s] \in J!Keyword /\ tx = <<T[s]>> /\ e = s + 1
    <3>1. J!NextToken = [type |-> "keyword", text |-> SubSeq(doc, s, s), next |-> e]
      BY <2>1, <2>4, <2>7 DEF J!TokenAt
    <3>2. SubSeq(doc, s, s) = tx
      <4>1. s \in Nat \ {0} /\ s = s + 1 - 1 /\ s <= d /\ 1 \in Nat
        BY <1>3, <2>1
      <4>2. SubSeq(doc, s, s) = Slice(T, s, 1)
        BY <4>1, SliceIs
      <4>3. \A i \in 1..1 : s + i - 1 = s
        BY <4>1
      <4>4. Slice(T, s, 1) = tx
        BY <2>7, <4>3 DEF Slice
      <4>5. QED
        BY <4>2, <4>4
    <3>3. QED
      BY <1>3, <2>1, <2>7, <3>1, <3>2 DEF Read
  <2>8. CASE ty \in Marks /\ T[s] = ty /\ e = s + 1
    <3>1. J!NextToken = [type |-> ty, text |-> SubSeq(doc, s, s), next |-> e]
      BY <2>1, <2>4, <2>8 DEF J!TokenAt
    <3>2. QED
      <4>1. ty \notin Literal
        BY <2>8, TypesDiffer
      <4>2. e <= d + 1
        BY <1>3, <2>1, <2>8
      <4>3. QED
        BY <1>1, <3>1, <4>1, <4>2 DEF Read
  <2>9. QED
    BY <1>1, <2>5, <2>6, <2>7, <2>8
<1>8. QED
  BY <1>3, <1>4, <1>6, <1>7

Colon    == ":"
ObjOpen  == "{"
ObjClose == "}"
ArrOpen  == "["
ArrClose == "]"

LEMMA MarksAre ==
  /\ Marks = {ObjOpen, ObjClose, ArrOpen, ArrClose, Comma, Colon}
  /\ ObjOpen # ObjClose /\ ObjOpen # ArrOpen /\ ObjOpen # ArrClose /\ ObjOpen # Comma /\ ObjOpen # Colon
  /\ ObjClose # ArrOpen /\ ObjClose # ArrClose /\ ObjClose # Comma /\ ObjClose # Colon
  /\ ArrOpen # ArrClose /\ ArrOpen # Comma /\ ArrOpen # Colon
  /\ ArrClose # Comma /\ ArrClose # Colon /\ Comma # Colon
<1>1. Marks = {ObjOpen, ObjClose, ArrOpen, ArrClose, Comma, Colon}
  BY Zenon DEF Marks, ObjOpen, ObjClose, ArrOpen, ArrClose, Comma, Colon
<1>2. ObjOpen # ObjClose /\ ObjOpen # ArrOpen /\ ObjOpen # ArrClose /\ ObjOpen # Comma /\ ObjOpen # Colon
  BY Zenon DEF ObjOpen, ObjClose, ArrOpen, ArrClose, Comma, Colon
<1>3. ObjClose # ArrOpen /\ ObjClose # ArrClose /\ ObjClose # Comma /\ ObjClose # Colon
  BY Zenon DEF ObjClose, ArrOpen, ArrClose, Comma, Colon
<1>4. ArrOpen # ArrClose /\ ArrOpen # Comma /\ ArrOpen # Colon /\ ArrClose # Comma /\ ArrClose # Colon /\ Comma # Colon
  BY Zenon DEF ArrOpen, ArrClose, Comma, Colon
<1>5. QED
  BY <1>1, <1>2, <1>3, <1>4

-----------------------------------------------------------------------------
(* A node that stands in T, as <<node, from, to>>: W is closed under the   *)
(* nodes of its nodes. Of a layout L of an object or array, at[i] is where *)
(* member or item i is looked for, colon[i] where its colon is, and kid[i] *)
(* is its node.                                                            *)
Opener(n) == IF n.type = "object" THEN ObjOpen ELSE ArrOpen
Closer(n) == IF n.type = "object" THEN ObjClose ELSE ArrClose

ObjectLaid(T, n, L) ==
  /\ n = J!JsonObject(n.members) /\ n.members = [k \in DOMAIN n.members |-> n.members[k]]
  /\ DOMAIN n.members = {L.name[i] : i \in 1..L.size}
  /\ \A i, j \in 1..L.size : L.name[i] = L.name[j] => i = j
  /\ \A i \in 1..L.size : /\ n.members[L.name[i]] = L.kid[i][1]
                          /\ Token(T, L.at[i], "string", L.name[i], L.colon[i])
                          /\ Token(T, L.colon[i], Colon, <<>>, L.kid[i][2])
ArrayLaid(T, n, L) ==
  /\ n = J!JsonArray(n.items) /\ n.items = [i \in 1..L.size |-> L.kid[i][1]]
  /\ \A i \in 1..L.size : L.at[i] = L.kid[i][2]

Laid(T, W, w, L) ==
  /\ L.size \in Nat /\ Token(T, w[2], Opener(w[1]), <<>>, L.at[1])
  /\ L.size = 0 => Token(T, L.at[1], Closer(w[1]), <<>>, w[3]) /\ T[L.at[1]] # Blank
  /\ \A i \in 1..L.size : /\ L.kid[i] \in W
                          /\ i < L.size => Token(T, L.kid[i][3], Comma, <<>>, L.at[i + 1])
                          /\ i = L.size => Token(T, L.kid[i][3], Closer(w[1]), <<>>, w[3])
  /\ \/ w[1].type = "object" /\ ObjectLaid(T, w[1], L)
     \/ w[1].type = "array" /\ ArrayLaid(T, w[1], L)

LeafAt(T, w) == /\ w[1].type \in Literal /\ w[1] = J!Simple(w[1])
                /\ Token(T, w[2], w[1].type, w[1].text, w[3])
Tree(T, W) == \A w \in W : LeafAt(T, w) \/ \E L : Laid(T, W, w, L)

(* A call that has read J members or items, in the course of one, or       *)
(* waiting for the next node.                                              *)
Partial(n, L, j) ==
  IF n.type = "object" THEN J!JsonObject([k \in {L.name[i] : i \in 1..j} |-> n.members[k]])
  ELSE J!JsonArray([i \in 1..j |-> L.kid[i][1]])
Call(n, k, z) == [node |-> n, member |-> k, wait |-> z]

Awaits(fr, w, L, j, p) ==
  \/ fr.wait = "member" /\ w[1].type = "object" /\ p = L.at[j + 1] /\ (j < L.size \/ L.size = 0)
  \/ fr.wait = "colon" /\ w[1].type = "object" /\ j < L.size /\ p = L.colon[j + 1] /\ fr.member = L.name[j + 1]
  \/ fr.wait = "first item" /\ w[1].type = "array" /\ j = 0 /\ p = L.at[1]
  \/ fr.wait = "object next" /\ w[1].type = "object" /\ j > 0 /\ p = L.kid[j][3]
  \/ fr.wait = "array next" /\ w[1].type = "array" /\ j > 0 /\ p = L.kid[j][3]
Frame(T, W, fr, w, p) ==
  \E L : /\ Laid(T, W, w, L)
         /\ \E j \in 0..L.size : fr = Call(Partial(w[1], L, j), fr.member, fr.wait) /\ Awaits(fr, w, L, j, p)
Wants(T, W, fr, w, v) ==
  \E L : /\ Laid(T, W, w, L)
         /\ \E j \in 0..L.size : /\ j < L.size /\ fr = Call(Partial(w[1], L, j), fr.member, "value")
                                 /\ v = L.kid[j + 1] /\ (w[1].type = "object" => fr.member = L.name[j + 1])

(* What Return makes of the call that waited for the node N. *)
Filled(fr, n) ==
  IF fr.node.type = "object"
  THEN [fr EXCEPT !.node.members = J!Set(@, fr.member, n), !.wait = "object next"]
  ELSE [fr EXCEPT !.node.items = Append(@, n), !.wait = "array next"]

LEMMA NodeFacts ==
  ASSUME NEW f
  PROVE  /\ J!JsonObject(f).type = "object" /\ J!JsonObject(f).members = f
         /\ J!JsonArray(f).type = "array" /\ J!JsonArray(f).items = f
  BY DEF J!JsonObject, J!JsonArray, J!Node

LEMMA FilledIs ==
  ASSUME NEW f, NEW k, NEW n
  PROVE  /\ Filled(Call(J!JsonObject(f), k, "value"), n) = Call(J!JsonObject(J!Set(f, k, n)), k, "object next")
         /\ Filled(Call(J!JsonArray(f), k, "value"), n) = Call(J!JsonArray(Append(f, n)), k, "array next")
  BY DEF Filled, Call, J!JsonObject, J!JsonArray, J!Node

(* One member or item more. *)
Then(n) == IF n.type = "object" THEN "object next" ELSE "array next"

LEMMA OneMoreKid ==
  ASSUME NEW T, NEW W, NEW w, NEW L, Laid(T, W, w, L), NEW j \in 0..L.size, j < L.size, NEW k,
         w[1].type # "object" \/ k = L.name[j + 1]
  PROVE  Filled(Call(Partial(w[1], L, j), k, "value"), L.kid[j + 1][1]) = Call(Partial(w[1], L, j + 1), k, Then(w[1]))
<1>1. j \in Nat /\ L.size \in Nat /\ j + 1 \in 1..L.size
  BY DEF Laid
<1>2. PICK n : n = L.kid[j + 1][1]
  OBVIOUS
<1>3. CASE w[1].type = "object"
  <2>1. PICK f : f = [x1 \in {L.name[i] : i \in 1..j} |-> w[1].members[x1]]
    OBVIOUS
  <2>2. PICK g : g = [x1 \in {L.name[i] : i \in 1..j+1} |-> w[1].members[x1]]
    OBVIOUS
  <2>3. Partial(w[1], L, j) = J!JsonObject(f) /\ Partial(w[1], L, j + 1) = J!JsonObject(g)
    BY <1>3, <2>1, <2>2 DEF Partial
  <2>4. w[1].members[k] = n /\ k = L.name[j + 1]
    <3>1. ObjectLaid(T, w[1], L)
      BY <1>3 DEF Laid
    <3>2. QED
      BY <1>1, <1>2, <1>3, <3>1 DEF ObjectLaid
  <2>5. {L.name[i] : i \in 1..j+1} = {L.name[i] : i \in 1..j} \cup {k}
    <3>1. \A i \in 1..j+1 : i \in 1..j \/ i = j + 1
      BY <1>1
    <3>2. j + 1 \in 1..j+1 /\ \A i \in 1..j : i \in 1..j+1
      BY <1>1
    <3>3. QED
      BY <2>4, <3>1, <3>2
  <2>6. J!Set(f, k, n) = g
    <3>1. PICK D : D = {L.name[i] : i \in 1..j}
      OBVIOUS
    <3>2. f = [x1 \in D |-> w[1].members[x1]] /\ g = [x1 \in D \cup {k} |-> w[1].members[x1]]
      BY <2>1, <2>2, <2>5, <3>1
    <3>3. J!Set(f, k, n) = [x1 \in D \cup {k} |-> IF x1 = k THEN n ELSE f[x1]]
      BY <3>2 DEF J!Set
    <3>4. \A x1 \in D \cup {k} : (IF x1 = k THEN n ELSE f[x1]) = w[1].members[x1]
      BY <2>4, <3>2
    <3>5. QED
      BY <3>2, <3>3, <3>4
  <2>7. Filled(Call(Partial(w[1], L, j), k, "value"), n) = Call(J!JsonObject(g), k, "object next")
    BY <2>3, <2>6, FilledIs
  <2>8. QED
    BY <1>2, <1>3, <2>3, <2>7 DEF Then
<1>4. CASE w[1].type # "object"
  <2>1. PICK f : f = [i \in 1..j |-> L.kid[i][1]]
    OBVIOUS
  <2>2. PICK g : g = [i \in 1..j+1 |-> L.kid[i][1]]
    OBVIOUS
  <2>3. Partial(w[1], L, j) = J!JsonArray(f) /\ Partial(w[1], L, j + 1) = J!JsonArray(g)
    BY <1>4, <2>1, <2>2 DEF Partial
  <2>4. Append(f, n) = g
    <3>1. PICK S : S = {L.kid[i][1] : i \in 1..j+1}
      OBVIOUS
    <3>2. f \in Seq(S) /\ Len(f) = j /\ n \in S
      BY <1>1, <1>2, <2>1, <3>1
    <3>3. PICK u : u = Append(f, n)
      OBVIOUS
    <3>4. u \in Seq(S) /\ Len(u) = j + 1 /\ u[j + 1] = n /\ \A i \in 1..j : u[i] = f[i]
      BY <1>1, <3>2, <3>3
    <3>5. u = [i \in 1..j+1 |-> u[i]]
      BY <1>1, <3>4
    <3>6. \A i \in 1..j+1 : i \in 1..j \/ i = j + 1
      BY <1>1
    <3>7. \A i \in 1..j+1 : u[i] = L.kid[i][1]
      BY <1>2, <2>1, <3>4, <3>6
    <3>8. QED
      BY <2>2, <3>3, <3>5, <3>7
  <2>5. Filled(Call(Partial(w[1], L, j), k, "value"), n) = Call(J!JsonArray(g), k, "array next")
    BY <2>3, <2>4, FilledIs
  <2>6. QED
    BY <1>2, <1>4, <2>3, <2>5 DEF Then
<1>5. QED
  BY <1>3, <1>4

LEMMA KidDone ==
  ASSUME NEW T, NEW W, NEW fr, NEW w, NEW v, Wants(T, W, fr, w, v)
  PROVE  Frame(T, W, Filled(fr, v[1]), w, v[3])
<1>1. PICK L : /\ Laid(T, W, w, L)
               /\ \E j \in 0..L.size : /\ j < L.size /\ fr = Call(Partial(w[1], L, j), fr.member, "value")
                                       /\ v = L.kid[j + 1] /\ (w[1].type = "object" => fr.member = L.name[j + 1])
  BY DEF Wants
<1>2. PICK j \in 0..L.size :
         /\ j < L.size /\ fr = Call(Partial(w[1], L, j), fr.member, "value")
         /\ v = L.kid[j + 1] /\ (w[1].type = "object" => fr.member = L.name[j + 1])
  BY <1>1
<1>3. L.size \in Nat /\ j + 1 \in 0..L.size /\ j + 1 > 0
  BY <1>1, <1>2 DEF Laid
<1>4. PICK h : h = Filled(fr, v[1])
  OBVIOUS
<1>5. PICK z : z = Then(w[1])
  OBVIOUS
<1>6. h = Call(Partial(w[1], L, j + 1), fr.member, z)
  <2>1. PICK k : k = fr.member
    OBVIOUS
  <2>2. fr = Call(Partial(w[1], L, j), k, "value") /\ (w[1].type = "object" => k = L.name[j + 1])
    BY <1>2, <2>1
  <2>3. Laid(T, W, w, L) /\ j < L.size /\ j \in 0..L.size
    BY <1>1, <1>2
  <2>4. w[1].type # "object" \/ k = L.name[j + 1]
    BY <2>2
  <2>5. Filled(Call(Partial(w[1], L, j), k, "value"), L.kid[j + 1][1]) = Call(Partial(w[1], L, j + 1), k, Then(w[1]))
    BY <2>3, <2>4, OneMoreKid
  <2>6. QED
    BY <1>2, <1>4, <1>5, <2>1, <2>2, <2>5
<1>7. h.member = fr.member /\ h.wait = z
  BY <1>6 DEF Call
<1>8. w[1].type \in {"object", "array"}
  BY <1>1 DEF Laid
<1>9. PICK l : l = j + 1
  OBVIOUS
<1>10. Awaits(h, w, L, l, v[3])
  BY <1>2, <1>3, <1>5, <1>7, <1>8, <1>9 DEF Awaits, Then
<1>11. h = Call(Partial(w[1], L, l), h.member, h.wait)
  BY <1>6, <1>7, <1>9
<1>12. QED
  BY <1>1, <1>3, <1>4, <1>9, <1>10, <1>11 DEF Frame

(* The calls that wait for the node V to be read, from the root R on. *)
Calls(s) == \E S : s \in Seq(S)
Callers(T, W, r, s, v) ==
  \E path \in [1..Len(s) + 1 -> W] :
    /\ path[1][1] = r /\ path[1][2] = 1 /\ path[1][3] = Len(T) + 1 /\ path[Len(s) + 1] = v
    /\ \A i \in 1..Len(s) : Wants(T, W, s[i], path[i], path[i + 1])
Front(s) == SubSeq(s, 1, Len(s) - 1)
Push(s, fr) == s \o <<fr>>

LEMMA PushFacts ==
  ASSUME NEW s, Calls(s), NEW fr
  PROVE  /\ Len(s) \in Nat /\ Calls(Push(s, fr)) /\ Len(Push(s, fr)) = Len(s) + 1
         /\ Push(s, fr) # <<>> /\ Front(Push(s, fr)) = s
         /\ Push(s, fr)[Len(s) + 1] = fr /\ \A i \in 1..Len(s) : Push(s, fr)[i] = s[i]
         /\ Append(s, fr) = Push(s, fr)
<1>1. PICK S : s \in Seq(S)
  BY DEF Calls
<1>2. PICK R : R = S \cup {fr}
  OBVIOUS
<1>3. s \in Seq(R) /\ <<fr>> \in Seq(R) /\ Len(<<fr>>) = 1 /\ <<fr>>[1] = fr
  BY <1>1, <1>2
<1>4. PICK n \in Nat : n = Len(s)
  BY <1>3
<1>5. PICK u : u = s \o <<fr>>
  OBVIOUS
<1>6. u \in Seq(R) /\ Len(u) = n + 1 /\ u[n + 1] = fr /\ \A i \in 1..n : u[i] = s[i]
  BY <1>3, <1>4, <1>5
<1>7. u # <<>>
  BY <1>4, <1>6
<1>8. SubSeq(u, 1, n) = s
  <2>1. SubSeq(u, 1, n) = [i \in 1..n |-> u[i]]
    BY <1>4, <1>6
  <2>2. s = [i \in 1..n |-> s[i]]
    BY <1>3, <1>4
  <2>3. QED
    BY <1>6, <2>1, <2>2
<1>9. Front(u) = s
  BY <1>4, <1>6, <1>8 DEF Front
<1>10. Append(s, fr) = u
  <2>1. PICK t : t = Append(s, fr)
    OBVIOUS
  <2>2. t \in Seq(R) /\ Len(t) = n + 1 /\ t[n + 1] = fr /\ \A i \in 1..n : t[i] = s[i]
    BY <1>2, <1>3, <1>4, <2>1
  <2>3. t = [i \in 1..n+1 |-> t[i]] /\ u = [i \in 1..n+1 |-> u[i]]
    BY <1>4, <1>6, <2>2
  <2>4. \A i \in 1..n+1 : i \in 1..n \/ i = n + 1
    BY <1>4
  <2>5. \A i \in 1..n+1 : t[i] = u[i]
    BY <1>6, <2>2, <2>4
  <2>6. QED
    BY <2>1, <2>3, <2>5
<1>11. QED
  BY <1>4, <1>5, <1>6, <1>7, <1>9, <1>10 DEF Push, Calls

LEMMA FrontFacts ==
  ASSUME NEW s, Calls(s), s # <<>>
  PROVE  /\ Len(s) \in Nat \ {0} /\ Calls(Front(s)) /\ Len(Front(s)) = Len(s) - 1
         /\ \A i \in 1..Len(s) - 1 : Front(s)[i] = s[i]
<1>1. PICK S : s \in Seq(S)
  BY DEF Calls
<1>2. PICK n \in Nat : n = Len(s)
  BY <1>1
<1>3. n # 0
  BY <1>1, <1>2
<1>4. PICK m \in Nat : m = n - 1
  BY <1>2, <1>3
<1>5. SubSeq(s, 1, m) = [i \in 1..m |-> s[i]]
  BY <1>1, <1>2, <1>4
<1>6. PICK u : u = SubSeq(s, 1, m)
  OBVIOUS
<1>7. u \in Seq(S) /\ Len(u) = m /\ \A i \in 1..m : u[i] = s[i]
  <2>1. \A i \in 1..m : s[i] \in S
    BY <1>1, <1>2, <1>4
  <2>2. u \in [1..m -> S]
    BY <1>5, <1>6, <2>1
  <2>3. u \in Seq(S) /\ Len(u) = m
    BY <1>4, <2>2
  <2>4. \A i \in 1..m : u[i] = s[i]
    BY <1>5, <1>6
  <2>5. QED
    BY <2>3, <2>4
<1>8. QED
  BY <1>2, <1>3, <1>4, <1>6, <1>7 DEF Front, Calls

LEMMA CallersPush ==
  ASSUME NEW T, NEW W, NEW r, NEW s, Calls(s), NEW w, Callers(T, W, r, s, w), NEW fr, NEW v \in W, Wants(T, W, fr, w, v)
  PROVE  Callers(T, W, r, Push(s, fr), v)
<1>1. PICK n \in Nat : n = Len(s)
  BY PushFacts
<1>2. PICK path \in [1..n + 1 -> W] :
        /\ path[1][1] = r /\ path[1][2] = 1 /\ path[1][3] = Len(T) + 1 /\ path[n + 1] = w
        /\ \A i \in 1..n : Wants(T, W, s[i], path[i], path[i + 1])
  BY <1>1 DEF Callers
<1>3. PICK u : u = Push(s, fr)
  OBVIOUS
<1>4. Len(u) = n + 1 /\ u[n + 1] = fr /\ \A i \in 1..n : u[i] = s[i]
  BY <1>1, <1>3, PushFacts
<1>5. PICK way : way = [i \in 1..(n + 1) + 1 |-> IF i \in 1..n+1 THEN path[i] ELSE v]
  OBVIOUS
<1>6. (n + 1) + 1 \notin 1..n+1 /\ (n + 1) + 1 \in 1..(n + 1) + 1 /\ 1 \in 1..n+1 /\ n + 1 \in 1..n+1
  BY <1>1
<1>7. \A i \in 1..n+1 : i \in 1..(n + 1) + 1
  BY <1>1
<1>8. \A i \in 1..n+1 : way[i] = path[i]
  BY <1>5, <1>7
<1>9. way[(n + 1) + 1] = v
  BY <1>5, <1>6
<1>10. way \in [1..(n + 1) + 1 -> W]
  BY <1>2, <1>5
<1>11. ASSUME NEW i \in 1..n+1
       PROVE  Wants(T, W, u[i], way[i], way[i + 1])
  <2>1. CASE i \in 1..n
    <3>1. i + 1 \in 1..n+1 /\ i \in 1..n+1
      BY <1>1, <2>1
    <3>2. way[i] = path[i] /\ way[i + 1] = path[i + 1] /\ u[i] = s[i]
      BY <1>4, <1>8, <2>1, <3>1
    <3>3. QED
      BY <1>2, <2>1, <3>2
  <2>2. CASE i = n + 1
    <3>1. way[i] = w /\ way[i + 1] = v /\ u[i] = fr
      BY <1>2, <1>4, <1>6, <1>8, <1>9, <2>2
    <3>2. QED
      BY <3>1
  <2>3. QED
    BY <1>1, <2>1, <2>2
<1>12. QED
  BY <1>2, <1>3, <1>4, <1>6, <1>8, <1>9, <1>10, <1>11 DEF Callers

LEMMA CallersPop ==
  ASSUME NEW T, NEW W, NEW r, NEW s, Calls(s), s # <<>>, NEW v, Callers(T, W, r, s, v)
  PROVE  \E w \in W : Callers(T, W, r, Front(s), w) /\ Wants(T, W, s[Len(s)], w, v)
<1>1. PICK n \in Nat \ {0} : n = Len(s)
  BY FrontFacts
<1>2. PICK path \in [1..n + 1 -> W] :
        /\ path[1][1] = r /\ path[1][2] = 1 /\ path[1][3] = Len(T) + 1 /\ path[n + 1] = v
        /\ \A i \in 1..n : Wants(T, W, s[i], path[i], path[i + 1])
  BY <1>1 DEF Callers
<1>3. PICK u : u = Front(s)
  OBVIOUS
<1>4. PICK m \in Nat : m = n - 1
  OBVIOUS
<1>5. Len(u) = m /\ \A i \in 1..m : u[i] = s[i]
  BY <1>1, <1>3, <1>4, FrontFacts
<1>6. PICK way : way = [i \in 1..m+1 |-> path[i]]
  OBVIOUS
<1>7. m + 1 = n /\ n \in 1..n /\ n \in 1..n+1 /\ 1 \in 1..m+1 /\ m + 1 \in 1..m+1
  BY <1>4
<1>8. \A i \in 1..m+1 : i \in 1..n+1
  BY <1>4
<1>9. way \in [1..m+1 -> W] /\ \A i \in 1..m+1 : way[i] = path[i]
  BY <1>2, <1>6, <1>8
<1>10. \A i \in 1..m : i \in 1..m+1 /\ i + 1 \in 1..m+1 /\ i \in 1..n
  BY <1>4
<1>11. \A i \in 1..m : Wants(T, W, u[i], way[i], way[i + 1])
  BY <1>2, <1>5, <1>9, <1>10
<1>12. Callers(T, W, r, u, path[n])
  BY <1>2, <1>5, <1>7, <1>9, <1>11 DEF Callers
<1>13. Wants(T, W, s[n], path[n], v) /\ path[n] \in W
  BY <1>2, <1>7
<1>14. QED
  BY <1>1, <1>3, <1>12, <1>13

(* What is being read when nobody calls is the root. *)
LEMMA CallersTop ==
  ASSUME NEW T, NEW W, NEW r, NEW v
  PROVE  /\ Callers(T, W, r, <<>>, v) => v[1] = r /\ v[2] = 1 /\ v[3] = Len(T) + 1
         /\ (v \in W /\ v[1] = r /\ v[2] = 1 /\ v[3] = Len(T) + 1) => Callers(T, W, r, <<>>, v)
<1>1. PICK s : s = <<>>
  OBVIOUS
<1>2. Len(s) = 0 /\ 1..0 = {} /\ 0 + 1 = 1
  BY <1>1
<1>3. ASSUME Callers(T, W, r, s, v)
      PROVE  v[1] = r /\ v[2] = 1 /\ v[3] = Len(T) + 1
  BY <1>2, <1>3 DEF Callers
<1>4. ASSUME v \in W, v[1] = r, v[2] = 1, v[3] = Len(T) + 1
      PROVE  Callers(T, W, r, s, v)
  <2>1. PICK path : path = [i \in 1..1 |-> v]
    OBVIOUS
  <2>2. path \in [1..1 -> W] /\ path[1] = v
    BY <1>4, <2>1
  <2>3. QED
    BY <1>2, <1>4, <2>2 DEF Callers
<1>5. QED
  BY <1>1, <1>3, <1>4

(* What the parser has done with the first D characters of T, which is the *)
(* text of R.                                                              *)
Reading(T, W, r, s, p) ==
  \/ \E w \in W : Callers(T, W, r, s, w) /\ p = w[2]
  \/ s # <<>> /\ \E w \in W : Callers(T, W, r, Front(s), w) /\ Frame(T, W, s[Len(s)], w, p)
Fits(T, W, r, d, s, p, res, st) ==
  /\ Calls(s) /\ st \in {"parsing", "done", "SyntaxError"}
  /\ st = "done" => d = Len(T) /\ res = r
  /\ st = "SyntaxError" => d < Len(T)
  /\ st = "parsing" => \/ Reading(T, W, r, s, p)
                       \/ d < Len(T) /\ p \in Nat /\ p > d
Given(T, W, r, d) == Cut(T, d) /\ Tree(T, W) /\ r.type = "object"

(* The actions, without the marks. *)
Top      == stack[Len(stack)]
Moves    == jPos' = J!NextToken.next /\ value' = value /\ doc' = doc
Becomes(fr) == stack' = Push(Front(stack), fr) /\ jResult' = jResult /\ status' = status
Type     == J!NextToken.type

LEMMA ReturnIs ==
  ASSUME NEW s, NEW n, J!Return(s, n)
  PROVE  IF s = <<>> THEN jResult' = n /\ status' = "done" /\ stack' = <<>>
         ELSE stack' = Push(Front(s), Filled(s[Len(s)], n)) /\ jResult' = jResult /\ status' = status
  BY DEF J!Return, J!Go, Filled, Push, Front

LEMMA ErrorIs == J!SyntaxError => /\ value' = value /\ doc' = doc /\ jPos' = jPos /\ stack' = stack
                                  /\ jResult' = jResult /\ status' = "SyntaxError"
  BY DEF J!SyntaxError

LEMMA WaitsIs == \A z : J!Waits(z) => /\ status = "parsing" /\ (stack = <<>> => z = "value")
                                      /\ (stack # <<>> => Top.wait = z)
  BY DEF J!Waits, J!Top, Top

LEMMA NodeIs ==
  J!ParseNode =>
    /\ J!Waits("value")
    /\ \/ /\ Type = ObjOpen /\ Moves /\ jResult' = jResult /\ status' = status
          /\ stack' = Append(stack, Call(J!JsonObject(J!Empty), <<>>, "member"))
       \/ /\ Type = ArrOpen /\ Moves /\ jResult' = jResult /\ status' = status
          /\ stack' = Append(stack, Call(J!JsonArray(<<>>), <<>>, "first item"))
       \/ Type \in Literal /\ Moves /\ J!Return(stack, J!Simple(J!NextToken))
       \/ Type \in {"none", ObjClose, ArrClose, Comma, Colon} /\ J!SyntaxError
  BY Zenon DEF J!ParseNode, Type, Moves, Call, Literal, J!Consume, J!Call, J!Go, ObjOpen, ArrOpen, ObjClose, ArrClose, Comma, Colon

LEMMA MemberIs ==
  J!ParseMember =>
    /\ J!Waits("member")
    /\ \/ Type = "string" /\ Moves /\ Becomes([Top EXCEPT !.member = J!NextToken.text, !.wait = "colon"])
       \/ Type = ObjClose /\ Moves /\ J!Return(Front(stack), Top.node)
       \/ Type \notin {"string", ObjClose} /\ J!SyntaxError
  BY Zenon DEF J!ParseMember, Type, Moves, Becomes, Top, Push, Front, J!Top, J!Below, J!Consume, J!Go, ObjClose

LEMMA ColonIs ==
  J!ParseColon =>
    /\ J!Waits("colon")
    /\ \/ Type = Colon /\ Moves /\ Becomes([Top EXCEPT !.wait = "value"])
       \/ Type # Colon /\ J!SyntaxError
  BY Zenon DEF J!ParseColon, Type, Moves, Becomes, Top, Push, Front, J!Top, J!Below, J!Consume, J!Go, J!WaitFor, Colon

LEMMA ObjectNextIs ==
  J!ParseObjectNext =>
    /\ J!Waits("object next")
    /\ \/ Type = Comma /\ Moves /\ Becomes([Top EXCEPT !.wait = "member"])
       \/ Type = ObjClose /\ Moves /\ J!Return(Front(stack), Top.node)
       \/ Type \notin {Comma, ObjClose} /\ J!SyntaxError
  BY Zenon DEF J!ParseObjectNext, Type, Moves, Becomes, Top, Push, Front, J!Top, J!Below, J!Consume, J!Go, J!WaitFor, Comma, ObjClose

LEMMA FirstItemIs ==
  J!ParseFirstItem =>
    /\ J!Waits("first item")
    /\ \/ Type = ArrClose /\ Moves /\ J!Return(Front(stack), Top.node)
       \/ /\ Type # ArrClose /\ Becomes([Top EXCEPT !.wait = "value"])
          /\ value' = value /\ doc' = doc /\ jPos' = jPos
  BY Zenon DEF J!ParseFirstItem, Type, Moves, Becomes, Top, Push, Front, J!Top, J!Below, J!Consume, J!Go, J!WaitFor, ArrClose

LEMMA ArrayNextIs ==
  J!ParseArrayNext =>
    /\ J!Waits("array next")
    /\ \/ Type = Comma /\ Moves /\ Becomes([Top EXCEPT !.wait = "value"])
       \/ Type = ArrClose /\ Moves /\ J!Return(Front(stack), Top.node)
       \/ Type \notin {Comma, ArrClose} /\ J!SyntaxError
  BY Zenon DEF J!ParseArrayNext, Type, Moves, Becomes, Top, Push, Front, J!Top, J!Below, J!Consume, J!Go, J!WaitFor, Comma, ArrClose

(* An error, or the end of a document that was cut. *)
LEMMA ErrorFits ==
  ASSUME NEW T, NEW W, NEW r, NEW d, d < Len(T), Calls(stack), J!SyntaxError
  PROVE  Fits(T, W, r, d, stack', jPos', jResult', status')
  BY ErrorIs DEF Fits

LEMMA EndFits ==
  ASSUME NEW T, NEW W, NEW r, NEW d, d < Len(T), Calls(stack'), jPos' \in Nat, jPos' > d, status' = "parsing"
  PROVE  Fits(T, W, r, d, stack', jPos', jResult', status')
  BY DEF Fits

LEMMA ReturnCalls ==
  ASSUME NEW s, Calls(s), s # <<>>, NEW n, J!Return(s, n)
  PROVE  Calls(stack') /\ status' = status
<1>1. stack' = Push(Front(s), Filled(s[Len(s)], n)) /\ status' = status
  BY ReturnIs
<1>2. Calls(Front(s))
  BY FrontFacts
<1>3. QED
  BY <1>1, <1>2, PushFacts

(* A node has been read. *)
LEMMA Returned ==
  ASSUME NEW T, NEW W, NEW r, NEW d, Len(T) \in Nat, d \in 0..Len(T), NEW s, Calls(s), NEW w \in W,
         Callers(T, W, r, s, w), w[3] <= d + 1, J!Return(s, w[1]), jPos' = w[3], status = "parsing"
  PROVE  Fits(T, W, r, d, stack', jPos', jResult', status')
<1>1. CASE s = <<>>
  <2>1. jResult' = w[1] /\ status' = "done" /\ stack' = <<>>
    BY <1>1, ReturnIs
  <2>2. w[1] = r /\ w[3] = Len(T) + 1
    BY <1>1, CallersTop
  <2>3. d = Len(T)
    BY <2>2
  <2>4. Calls(stack')
    BY <1>1, <2>1
  <2>5. QED
    BY <2>1, <2>2, <2>3, <2>4 DEF Fits
<1>2. CASE s # <<>>
  <2>1. PICK fr : fr = Filled(s[Len(s)], w[1])
    OBVIOUS
  <2>2. stack' = Push(Front(s), fr) /\ status' = "parsing"
    BY <1>2, <2>1, ReturnIs
  <2>3. PICK w0 \in W : Callers(T, W, r, Front(s), w0) /\ Wants(T, W, s[Len(s)], w0, w)
    BY <1>2, CallersPop
  <2>4. Frame(T, W, fr, w0, w[3])
    BY <2>1, <2>3, KidDone
  <2>5. Calls(Front(s))
    BY <1>2, FrontFacts
  <2>6. PICK u : u = stack'
    OBVIOUS
  <2>7. Calls(u) /\ u # <<>> /\ Front(u) = Front(s) /\ u[Len(u)] = fr
    BY <2>2, <2>5, <2>6, PushFacts
  <2>8. Reading(T, W, r, u, w[3])
    BY <2>3, <2>4, <2>7 DEF Reading
  <2>9. QED
    BY <2>2, <2>6, <2>7, <2>8 DEF Fits
<1>3. QED
  BY <1>1, <1>2

(* Where the parser is. *)
LEMMA BetweenNodes ==
  ASSUME NEW T, NEW W, NEW r, NEW d, Fits(T, W, r, d, stack, jPos, jResult, status), NEW z, z # "value", J!Waits(z)
  PROVE  \/ d < Len(T) /\ jPos \in Nat /\ jPos > d
         \/ /\ stack # <<>> /\ Top.wait = z
            /\ \E w \in W : Callers(T, W, r, Front(stack), w) /\ Frame(T, W, Top, w, jPos)
<1>1. status = "parsing" /\ stack # <<>> /\ Top.wait = z
  BY WaitsIs
<1>2. Calls(stack) /\ (Reading(T, W, r, stack, jPos) \/ (d < Len(T) /\ jPos \in Nat /\ jPos > d))
  BY <1>1 DEF Fits
<1>3. ASSUME NEW w \in W, Callers(T, W, r, stack, w)
      PROVE  FALSE
  <2>1. PICK w0 \in W : Wants(T, W, Top, w0, w)
    BY <1>1, <1>2, <1>3, CallersPop DEF Top
  <2>2. Top.wait = "value"
    BY <2>1 DEF Wants, Call
  <2>3. QED
    BY <1>1, <2>2
<1>4. QED
  BY <1>1, <1>2, <1>3 DEF Reading, Top

LEMMA BeforeNode ==
  ASSUME NEW T, NEW W, NEW r, NEW d, Fits(T, W, r, d, stack, jPos, jResult, status), J!Waits("value")
  PROVE  \/ d < Len(T) /\ jPos \in Nat /\ jPos > d
         \/ \E w \in W : Callers(T, W, r, stack, w) /\ jPos = w[2]
<1>1. status = "parsing" /\ (stack # <<>> => Top.wait = "value")
  BY WaitsIs
<1>2. Calls(stack) /\ (Reading(T, W, r, stack, jPos) \/ (d < Len(T) /\ jPos \in Nat /\ jPos > d))
  BY <1>1 DEF Fits
<1>3. ASSUME stack # <<>>, NEW w \in W, Frame(T, W, Top, w, jPos)
      PROVE  FALSE
  <2>1. Top.wait \in {"member", "colon", "first item", "object next", "array next"}
    BY <1>3 DEF Frame, Awaits
  <2>2. QED
    BY <1>1, <1>3, <2>1
<1>4. QED
  BY <1>1, <1>2, <1>3 DEF Reading, Top

(* At the end of the document there is no token. *)
LEMMA NoMore ==
  ASSUME NEW T, NEW d, Cut(T, d), jPos \in Nat, jPos > d
  PROVE  J!NextToken = J!NoToken
<1>1. d \in Nat /\ Len(doc) = d
  BY DEF Cut
<1>2. Rest(jPos) = {}
  <2> SUFFICES ASSUME NEW q \in jPos..d
               PROVE  FALSE
    BY <1>1 DEF Rest
  <2>1. QED
    BY <1>1
<1>3. QED
  BY <1>2, NextTokenIs, Zenon

LEMMA NothingIs ==
  /\ J!NoToken.type = "none" /\ "none" \notin Literal /\ "none" \notin Marks
  /\ "string" \in Literal /\ "string" \notin Marks
<1>1. J!NoToken.type = "none"
  BY DEF J!NoToken
<1>2. "none" \notin Literal /\ "string" \in Literal
  BY DEF Literal
<1>3. "none" \notin Marks /\ "string" \notin Marks
  BY Zenon DEF Marks
<1>4. QED
  BY <1>1, <1>2, <1>3

(* The innermost call goes on. *)
LEMMA GoesOn ==
  ASSUME NEW T, NEW W, NEW r, NEW d, Calls(stack), stack # <<>>, status = "parsing",
         NEW w \in W, Callers(T, W, r, Front(stack), w), NEW L, Laid(T, W, w, L), NEW j \in 0..L.size,
         NEW k, NEW z, NEW fr, fr = Call(Partial(w[1], L, j), k, z), Becomes(fr),
         \/ Awaits(fr, w, L, j, jPos')
         \/ /\ z = "value" /\ j < L.size /\ jPos' = L.kid[j + 1][2]
            /\ w[1].type = "object" => k = L.name[j + 1]
  PROVE  Fits(T, W, r, d, stack', jPos', jResult', status')
<1>1. fr.member = k /\ fr.wait = z
  BY DEF Call
<1>2. stack' = Push(Front(stack), fr) /\ status' = "parsing"
  BY DEF Becomes
<1>3. Calls(Front(stack))
  BY FrontFacts
<1>4. PICK u : u = stack'
  OBVIOUS
<1>5. Calls(u) /\ u # <<>> /\ Front(u) = Front(stack) /\ u[Len(u)] = fr /\ u = Push(Front(stack), fr)
  BY <1>2, <1>3, <1>4, PushFacts
<1>6. PICK p : p = jPos'
  OBVIOUS
<1>7. CASE Awaits(fr, w, L, j, p)
  <2>1. Frame(T, W, fr, w, p)
    BY <1>1, <1>7 DEF Frame
  <2>2. Reading(T, W, r, u, p)
    BY <1>5, <2>1 DEF Reading
  <2>3. QED
    BY <1>2, <1>4, <1>5, <1>6, <2>2 DEF Fits
<1>8. CASE z = "value" /\ j < L.size /\ p = L.kid[j + 1][2] /\ (w[1].type = "object" => k = L.name[j + 1])
  <2>1. PICK v : v = L.kid[j + 1]
    OBVIOUS
  <2>2. j + 1 \in 1..L.size
    BY <1>8 DEF Laid
  <2>3. v \in W
    BY <2>1, <2>2 DEF Laid
  <2>4. Wants(T, W, fr, w, v)
    BY <1>1, <1>8, <2>1 DEF Wants
  <2>5. Callers(T, W, r, u, v)
    BY <1>3, <1>5, <2>3, <2>4, CallersPush
  <2>6. Reading(T, W, r, u, p)
    BY <1>8, <2>1, <2>3, <2>5 DEF Reading
  <2>7. QED
    BY <1>2, <1>4, <1>5, <1>6, <2>6 DEF Fits
<1>9. QED
  BY <1>6, <1>7, <1>8

(* An object or array is complete. *)
LEMMA WholeNode ==
  ASSUME NEW T, NEW W, NEW w, NEW L, Laid(T, W, w, L)
  PROVE  Partial(w[1], L, L.size) = w[1]
<1>1. CASE w[1].type = "object" /\ ObjectLaid(T, w[1], L)
  BY <1>1 DEF ObjectLaid, Partial
<1>2. CASE w[1].type = "array" /\ ArrayLaid(T, w[1], L)
  BY <1>2 DEF ArrayLaid, Partial
<1>3. QED
  BY <1>1, <1>2 DEF Laid

LEMMA Closes ==
  ASSUME NEW T, NEW W, NEW r, NEW d, Cut(T, d), Calls(stack), stack # <<>>, status = "parsing",
         NEW w \in W, Callers(T, W, r, Front(stack), w), NEW L, Laid(T, W, w, L),
         NEW k, NEW z, Top = Call(Partial(w[1], L, L.size), k, z),
         J!Return(Front(stack), Top.node), jPos' = w[3], w[3] <= d + 1
  PROVE  Fits(T, W, r, d, stack', jPos', jResult', status')
<1>1. Top.node = w[1]
  BY WholeNode DEF Call
<1>2. Calls(Front(stack))
  BY FrontFacts
<1>3. Len(T) \in Nat /\ d \in 0..Len(T)
  BY DEF Cut
<1>4. QED
  BY <1>1, <1>2, <1>3, Returned

LEMMA TokenCases ==
  ASSUME NEW T, NEW d, Cut(T, d), NEW ty, ty # "number", NEW tx, NEW e, Token(T, jPos, ty, tx, e)
  PROVE  \/ /\ e \in Nat /\ e <= d + 1 /\ Type = ty /\ J!NextToken.next = e
            /\ ty \in Literal => J!NextToken.text = tx
         \/ d < Len(T) /\ e > d + 1 /\ Type = "none"
<1>1. \/ e \in Nat /\ e <= d + 1 /\ Read(ty, tx, e)
      \/ d < Len(T) /\ e > d + 1 /\ J!NextToken = J!NoToken
  BY TokenRead
<1>2. QED
  BY <1>1, NothingIs DEF Read, Type

Changed(fr, k, z) == [fr EXCEPT !.member = k, !.wait = z]
Turned(fr, z)     == [fr EXCEPT !.wait = z]

LEMMA ChangedIs ==
  ASSUME NEW n, NEW k, NEW z, NEW k1, NEW z1
  PROVE  Changed(Call(n, k, z), k1, z1) = Call(n, k1, z1) /\ Turned(Call(n, k, z), z1) = Call(n, k, z1)
<1>1. Changed(Call(n, k, z), k1, z1) = Call(n, k1, z1)
  <2>1. [Call(n, k, z) EXCEPT !.member = k1] = Call(n, k1, z)
    BY DEF Call
  <2>2. [Call(n, k1, z) EXCEPT !.wait = z1] = Call(n, k1, z1)
    BY DEF Call
  <2>3. QED
    BY <2>1, <2>2 DEF Changed
<1>2. Turned(Call(n, k, z), z1) = Call(n, k, z1)
  BY DEF Turned, Call
<1>3. QED
  BY <1>1, <1>2

LEMMA MarksDiffer ==
  /\ ObjOpen \in Marks /\ ObjClose \in Marks /\ ArrOpen \in Marks /\ ArrClose \in Marks /\ Comma \in Marks /\ Colon \in Marks
  /\ \A m \in Marks : m # "number" /\ m # "string" /\ m # "none" /\ m \notin Literal
  /\ "number" \in Literal
<1>1. "number" \in Literal /\ "string" \in Literal
  BY DEF Literal
<1>2. QED
  BY <1>1, MarksAre, TypesDiffer

LEMMA MemberStep ==
  ASSUME NEW T, NEW W, NEW r, NEW d, Given(T, W, r, d), Fits(T, W, r, d, stack, jPos, jResult, status),
         J!ParseMember
  PROVE  Fits(T, W, r, d, stack', jPos', jResult', status')
<1>1. Cut(T, d) /\ Calls(stack) /\ status = "parsing" /\ J!Waits("member")
  BY MemberIs, WaitsIs DEF Given, Fits
<1>2. \/ Type = "string" /\ Moves /\ Becomes([Top EXCEPT !.member = J!NextToken.text, !.wait = "colon"])
      \/ Type = ObjClose /\ Moves /\ J!Return(Front(stack), Top.node)
      \/ Type \notin {"string", ObjClose} /\ J!SyntaxError
  BY MemberIs
<1>3. CASE d < Len(T) /\ Type = "none"
  <2>1. J!SyntaxError
    BY <1>2, <1>3, MarksDiffer, NothingIs
  <2>2. QED
    BY <1>1, <1>3, <2>1, ErrorFits
<1>4. CASE d < Len(T) /\ jPos \in Nat /\ jPos > d
  <2>1. Type = "none"
    BY <1>1, <1>4, NoMore, NothingIs DEF Type
  <2>2. QED
    BY <1>3, <1>4, <2>1
<1>5. ASSUME stack # <<>>, Top.wait = "member",
             NEW w \in W, Callers(T, W, r, Front(stack), w), Frame(T, W, Top, w, jPos)
      PROVE  Fits(T, W, r, d, stack', jPos', jResult', status')
  <2>1. PICK L : /\ Laid(T, W, w, L)
                 /\ \E j \in 0..L.size : Top = Call(Partial(w[1], L, j), Top.member, Top.wait) /\ Awaits(Top, w, L, j, jPos)
    BY <1>5 DEF Frame
  <2>2. PICK j \in 0..L.size : Top = Call(Partial(w[1], L, j), Top.member, "member") /\ Awaits(Top, w, L, j, jPos)
    BY <1>5, <2>1
  <2>3. /\ w[1].type = "object" /\ ObjectLaid(T, w[1], L) /\ jPos = L.at[j + 1]
        /\ j < L.size \/ L.size = 0
    BY <1>5, <2>1, <2>2 DEF Awaits, Laid
  <2>4. L.size \in Nat
    BY <2>1 DEF Laid
  <2>5. CASE j < L.size
    <3>1. Token(T, jPos, "string", L.name[j + 1], L.colon[j + 1])
      BY <2>3, <2>4, <2>5 DEF ObjectLaid
    <3>2. CASE d < Len(T) /\ Type = "none"
      BY <1>3, <3>2
    <3>3. CASE Type = "string" /\ J!NextToken.next = L.colon[j + 1] /\ J!NextToken.text = L.name[j + 1]
      <4>1. Moves /\ Becomes([Top EXCEPT !.member = J!NextToken.text, !.wait = "colon"])
        BY <1>2, <3>3, MarksDiffer
      <4>2. PICK fr : fr = Call(Partial(w[1], L, j), L.name[j + 1], "colon")
        OBVIOUS
      <4>3. Becomes(fr) /\ jPos' = L.colon[j + 1]
        <5>1. Becomes(Changed(Top, L.name[j + 1], "colon")) /\ jPos' = L.colon[j + 1]
          BY <3>3, <4>1, Zenon DEF Changed, Moves
        <5>2. Changed(Top, L.name[j + 1], "colon") = fr
          BY <2>2, <4>2, ChangedIs
        <5>3. QED
          BY <5>1, <5>2
      <4>4. Awaits(fr, w, L, j, jPos')
        BY <2>3, <2>5, <4>2, <4>3 DEF Awaits, Call
      <4>5. QED
        BY <1>1, <1>5, <2>1, <4>2, <4>3, <4>4, GoesOn
    <3>4. QED
      BY <1>1, <3>1, <3>2, <3>3, TokenCases, NothingIs
  <2>6. CASE L.size = 0
    <3>1. j = L.size /\ j + 1 = 1
      BY <2>4, <2>6
    <3>2. Token(T, jPos, ObjClose, <<>>, w[3])
      BY <2>1, <2>3, <2>6, <3>1 DEF Laid, Closer
    <3>3. CASE d < Len(T) /\ Type = "none"
      BY <1>3, <3>3
    <3>4. CASE Type = ObjClose /\ J!NextToken.next = w[3] /\ w[3] <= d + 1
      <4>1. Moves /\ J!Return(Front(stack), Top.node)
        BY <1>2, <3>4, MarksDiffer
      <4>2. Top = Call(Partial(w[1], L, L.size), Top.member, "member")
        BY <2>2, <3>1
      <4>3. jPos' = w[3]
        BY <3>4, <4>1 DEF Moves
      <4>4. QED
        BY <1>1, <1>5, <2>1, <3>4, <4>1, <4>2, <4>3, Closes
    <3>5. QED
      BY <1>1, <3>2, <3>3, <3>4, TokenCases, MarksDiffer
  <2>7. QED
    BY <2>3, <2>5, <2>6
<1>6. QED
  BY <1>1, <1>4, <1>5, BetweenNodes

LEMMA ColonStep ==
  ASSUME NEW T, NEW W, NEW r, NEW d, Given(T, W, r, d), Fits(T, W, r, d, stack, jPos, jResult, status),
         J!ParseColon
  PROVE  Fits(T, W, r, d, stack', jPos', jResult', status')
<1>1. Cut(T, d) /\ Calls(stack) /\ status = "parsing" /\ J!Waits("colon")
  BY ColonIs, WaitsIs DEF Given, Fits
<1>2. \/ Type = Colon /\ Moves /\ Becomes(Turned(Top, "value"))
      \/ Type # Colon /\ J!SyntaxError
  BY ColonIs, Zenon DEF Turned
<1>3. CASE d < Len(T) /\ Type = "none"
  <2>1. J!SyntaxError
    BY <1>2, <1>3, MarksDiffer, NothingIs
  <2>2. QED
    BY <1>1, <1>3, <2>1, ErrorFits
<1>4. CASE d < Len(T) /\ jPos \in Nat /\ jPos > d
  <2>1. Type = "none"
    BY <1>1, <1>4, NoMore, NothingIs DEF Type
  <2>2. QED
    BY <1>3, <1>4, <2>1
<1>5. ASSUME stack # <<>>, Top.wait = "colon",
             NEW w \in W, Callers(T, W, r, Front(stack), w), Frame(T, W, Top, w, jPos)
      PROVE  Fits(T, W, r, d, stack', jPos', jResult', status')
  <2>1. PICK L : /\ Laid(T, W, w, L)
                 /\ \E j \in 0..L.size : Top = Call(Partial(w[1], L, j), Top.member, Top.wait) /\ Awaits(Top, w, L, j, jPos)
    BY <1>5 DEF Frame
  <2>2. PICK j \in 0..L.size : Top = Call(Partial(w[1], L, j), Top.member, "colon") /\ Awaits(Top, w, L, j, jPos)
    BY <1>5, <2>1
  <2>4. L.size \in Nat
    BY <2>1 DEF Laid
  <2>3. /\ w[1].type = "object" /\ ObjectLaid(T, w[1], L) /\ jPos = L.colon[j + 1]
        /\ j < L.size /\ Top.member = L.name[j + 1]
    BY <1>5, <2>1, <2>2 DEF Awaits, Laid
  <2>5. Token(T, jPos, Colon, <<>>, L.kid[j + 1][2])
    BY <2>3, <2>4 DEF ObjectLaid
  <2>6. CASE d < Len(T) /\ Type = "none"
    BY <1>3, <2>6
  <2>7. CASE Type = Colon /\ J!NextToken.next = L.kid[j + 1][2]
    <3>1. Moves /\ Becomes(Turned(Top, "value"))
      BY <1>2, <2>7
    <3>2. PICK fr : fr = Call(Partial(w[1], L, j), Top.member, "value")
      OBVIOUS
    <3>3. Becomes(fr) /\ jPos' = L.kid[j + 1][2]
      <4>1. Turned(Top, "value") = fr
        BY <2>2, <3>2, ChangedIs
      <4>2. QED
        BY <2>7, <3>1, <4>1 DEF Moves
    <3>4. QED
      BY <1>1, <1>5, <2>1, <2>3, <3>2, <3>3, GoesOn
  <2>8. QED
    BY <1>1, <2>5, <2>6, <2>7, TokenCases, MarksDiffer
<1>6. QED
  BY <1>1, <1>4, <1>5, BetweenNodes

LEMMA ObjectNextStep ==
  ASSUME NEW T, NEW W, NEW r, NEW d, Given(T, W, r, d), Fits(T, W, r, d, stack, jPos, jResult, status),
         J!ParseObjectNext
  PROVE  Fits(T, W, r, d, stack', jPos', jResult', status')
<1>1. Cut(T, d) /\ Calls(stack) /\ status = "parsing" /\ J!Waits("object next")
  BY ObjectNextIs, WaitsIs DEF Given, Fits
<1>2. \/ Type = Comma /\ Moves /\ Becomes(Turned(Top, "member"))
      \/ Type = ObjClose /\ Moves /\ J!Return(Front(stack), Top.node)
      \/ Type \notin {Comma, ObjClose} /\ J!SyntaxError
  BY ObjectNextIs, Zenon DEF Turned
<1>3. CASE d < Len(T) /\ Type = "none"
  <2>1. J!SyntaxError
    BY <1>2, <1>3, MarksAre, MarksDiffer, NothingIs
  <2>2. QED
    BY <1>1, <1>3, <2>1, ErrorFits
<1>4. CASE d < Len(T) /\ jPos \in Nat /\ jPos > d
  <2>1. Type = "none"
    BY <1>1, <1>4, NoMore, NothingIs DEF Type
  <2>2. QED
    BY <1>3, <1>4, <2>1
<1>5. ASSUME stack # <<>>, Top.wait = "object next",
             NEW w \in W, Callers(T, W, r, Front(stack), w), Frame(T, W, Top, w, jPos)
      PROVE  Fits(T, W, r, d, stack', jPos', jResult', status')
  <2>1. PICK L : /\ Laid(T, W, w, L)
                 /\ \E j \in 0..L.size : Top = Call(Partial(w[1], L, j), Top.member, Top.wait) /\ Awaits(Top, w, L, j, jPos)
    BY <1>5 DEF Frame
  <2>2. PICK j \in 0..L.size : Top = Call(Partial(w[1], L, j), Top.member, "object next") /\ Awaits(Top, w, L, j, jPos)
    BY <1>5, <2>1
  <2>4. L.size \in Nat
    BY <2>1 DEF Laid
  <2>3. /\ w[1].type = "object" /\ ObjectLaid(T, w[1], L) /\ jPos = L.kid[j][3]
        /\ j \in 1..L.size
    <3>1. w[1].type = "object" /\ j > 0 /\ jPos = L.kid[j][3]
      BY <1>5, <2>2 DEF Awaits
    <3>2. ObjectLaid(T, w[1], L)
      BY <2>1, <3>1 DEF Laid
    <3>3. j \in 1..L.size
      BY <2>4, <3>1
    <3>4. QED
      BY <3>1, <3>2, <3>3
  <2>5. CASE j < L.size
    <3>1. Token(T, jPos, Comma, <<>>, L.at[j + 1])
      BY <2>1, <2>3, <2>5 DEF Laid
    <3>2. CASE d < Len(T) /\ Type = "none"
      BY <1>3, <3>2
    <3>3. CASE Type = Comma /\ J!NextToken.next = L.at[j + 1]
      <4>1. Moves /\ Becomes(Turned(Top, "member"))
        BY <1>2, <3>3, MarksAre
      <4>2. PICK fr : fr = Call(Partial(w[1], L, j), Top.member, "member")
        OBVIOUS
      <4>3. Becomes(fr) /\ jPos' = L.at[j + 1]
        <5>1. Turned(Top, "member") = fr
          <6>1. PICK k : k = Top.member
            OBVIOUS
          <6>2. PICK n : n = Partial(w[1], L, j)
            OBVIOUS
          <6>3. Top = Call(n, k, Top.wait) /\ fr = Call(n, k, "member")
            BY <1>5, <2>2, <4>2, <6>1, <6>2
          <6>4. QED
            BY <6>3, ChangedIs
        <5>2. QED
          BY <3>3, <4>1, <5>1 DEF Moves
      <4>4. Awaits(fr, w, L, j, jPos')
        BY <2>3, <2>5, <4>2, <4>3 DEF Awaits, Call
      <4>5. QED
        BY <1>1, <1>5, <2>1, <2>5, <4>2, <4>3, <4>4, GoesOn
    <3>4. QED
      BY <1>1, <3>1, <3>2, <3>3, TokenCases, MarksDiffer
  <2>6. CASE j = L.size
    <3>2. Token(T, jPos, ObjClose, <<>>, w[3])
      BY <2>1, <2>3, <2>6 DEF Laid, Closer
    <3>3. CASE d < Len(T) /\ Type = "none"
      BY <1>3, <3>3
    <3>4. CASE Type = ObjClose /\ J!NextToken.next = w[3] /\ w[3] <= d + 1
      <4>1. Moves /\ J!Return(Front(stack), Top.node)
        BY <1>2, <3>4, MarksAre
      <4>2. Top = Call(Partial(w[1], L, L.size), Top.member, "object next")
        BY <2>2, <2>6
      <4>3. jPos' = w[3]
        BY <3>4, <4>1 DEF Moves
      <4>4. QED
        BY <1>1, <1>5, <2>1, <3>4, <4>1, <4>2, <4>3, Closes
    <3>5. QED
      BY <1>1, <3>2, <3>3, <3>4, TokenCases, MarksDiffer
  <2>7. QED
    BY <2>3, <2>4, <2>5, <2>6
<1>6. QED
  BY <1>1, <1>4, <1>5, BetweenNodes

LEMMA ArrayNextStep ==
  ASSUME NEW T, NEW W, NEW r, NEW d, Given(T, W, r, d), Fits(T, W, r, d, stack, jPos, jResult, status),
         J!ParseArrayNext
  PROVE  Fits(T, W, r, d, stack', jPos', jResult', status')
<1>1. Cut(T, d) /\ Calls(stack) /\ status = "parsing" /\ J!Waits("array next")
  BY ArrayNextIs, WaitsIs DEF Given, Fits
<1>2. \/ Type = Comma /\ Moves /\ Becomes(Turned(Top, "value"))
      \/ Type = ArrClose /\ Moves /\ J!Return(Front(stack), Top.node)
      \/ Type \notin {Comma, ArrClose} /\ J!SyntaxError
  BY ArrayNextIs, Zenon DEF Turned
<1>3. CASE d < Len(T) /\ Type = "none"
  <2>1. J!SyntaxError
    BY <1>2, <1>3, MarksAre, MarksDiffer, NothingIs
  <2>2. QED
    BY <1>1, <1>3, <2>1, ErrorFits
<1>4. CASE d < Len(T) /\ jPos \in Nat /\ jPos > d
  <2>1. Type = "none"
    BY <1>1, <1>4, NoMore, NothingIs DEF Type
  <2>2. QED
    BY <1>3, <1>4, <2>1
<1>5. ASSUME stack # <<>>, Top.wait = "array next",
             NEW w \in W, Callers(T, W, r, Front(stack), w), Frame(T, W, Top, w, jPos)
      PROVE  Fits(T, W, r, d, stack', jPos', jResult', status')
  <2>1. PICK L : /\ Laid(T, W, w, L)
                 /\ \E j \in 0..L.size : Top = Call(Partial(w[1], L, j), Top.member, Top.wait) /\ Awaits(Top, w, L, j, jPos)
    BY <1>5 DEF Frame
  <2>2. PICK j \in 0..L.size : Top = Call(Partial(w[1], L, j), Top.member, "array next") /\ Awaits(Top, w, L, j, jPos)
    BY <1>5, <2>1
  <2>4. L.size \in Nat
    BY <2>1 DEF Laid
  <2>3. /\ w[1].type = "array" /\ ArrayLaid(T, w[1], L) /\ jPos = L.kid[j][3]
        /\ j \in 1..L.size
    <3>1. w[1].type = "array" /\ j > 0 /\ jPos = L.kid[j][3]
      BY <1>5, <2>2 DEF Awaits
    <3>2. ArrayLaid(T, w[1], L)
      BY <2>1, <3>1 DEF Laid
    <3>3. j \in 1..L.size
      BY <2>4, <3>1
    <3>4. QED
      BY <3>1, <3>2, <3>3
  <2>5. CASE j < L.size
    <3>1. Token(T, jPos, Comma, <<>>, L.at[j + 1])
      BY <2>1, <2>3, <2>5 DEF Laid
    <3>2. CASE d < Len(T) /\ Type = "none"
      BY <1>3, <3>2
    <3>3. CASE Type = Comma /\ J!NextToken.next = L.at[j + 1]
      <4>1. Moves /\ Becomes(Turned(Top, "value"))
        BY <1>2, <3>3, MarksAre
      <4>2. PICK fr : fr = Call(Partial(w[1], L, j), Top.member, "value")
        OBVIOUS
      <4>3. Becomes(fr) /\ jPos' = L.at[j + 1]
        <5>1. Turned(Top, "value") = fr
          <6>1. PICK k : k = Top.member
            OBVIOUS
          <6>2. PICK n : n = Partial(w[1], L, j)
            OBVIOUS
          <6>3. Top = Call(n, k, Top.wait) /\ fr = Call(n, k, "value")
            BY <1>5, <2>2, <4>2, <6>1, <6>2
          <6>4. QED
            BY <6>3, ChangedIs
        <5>2. QED
          BY <3>3, <4>1, <5>1 DEF Moves
      <4>4. jPos' = L.kid[j + 1][2] /\ w[1].type # "object"
        <5>1. j + 1 \in 1..L.size
          BY <2>3, <2>4, <2>5
        <5>2. QED
          BY <2>3, <4>3, <5>1 DEF ArrayLaid
      <4>5. QED
        BY <1>1, <1>5, <2>1, <2>5, <4>2, <4>3, <4>4, GoesOn
    <3>4. QED
      BY <1>1, <3>1, <3>2, <3>3, TokenCases, MarksDiffer
  <2>6. CASE j = L.size
    <3>2. Token(T, jPos, ArrClose, <<>>, w[3])
      BY <2>1, <2>3, <2>6 DEF Laid, Closer
    <3>3. CASE d < Len(T) /\ Type = "none"
      BY <1>3, <3>3
    <3>4. CASE Type = ArrClose /\ J!NextToken.next = w[3] /\ w[3] <= d + 1
      <4>1. Moves /\ J!Return(Front(stack), Top.node)
        BY <1>2, <3>4, MarksAre
      <4>2. Top = Call(Partial(w[1], L, L.size), Top.member, "array next")
        BY <2>2, <2>6
      <4>3. jPos' = w[3]
        BY <3>4, <4>1 DEF Moves
      <4>4. QED
        BY <1>1, <1>5, <2>1, <3>4, <4>1, <4>2, <4>3, Closes
    <3>5. QED
      BY <1>1, <3>2, <3>3, <3>4, TokenCases, MarksDiffer
  <2>7. QED
    BY <2>3, <2>4, <2>5, <2>6
<1>6. QED
  BY <1>1, <1>4, <1>5, BetweenNodes

(* No node begins with the end of an array. *)
LEMMA Begins ==
  ASSUME NEW T, NEW W, NEW d, Cut(T, d), Tree(T, W), NEW w \in W, jPos = w[2]
  PROVE  Type # ArrClose
<1>1. CASE LeafAt(T, w)
  <2>1. Token(T, jPos, w[1].type, w[1].text, w[3]) /\ w[1].type \in Literal
    BY <1>1 DEF LeafAt
  <2>2. Type = w[1].type \/ Type = "none" \/ Type = "number"
    BY <2>1, TokenRead, NothingIs DEF Read, Type
  <2>3. QED
    BY <2>1, <2>2, MarksDiffer
<1>2. ASSUME NEW L, Laid(T, W, w, L)
      PROVE  Type # ArrClose
  <2>1. Token(T, jPos, Opener(w[1]), <<>>, L.at[1])
    BY <1>2 DEF Laid
  <2>2. Opener(w[1]) \in Marks /\ Opener(w[1]) # ArrClose
    BY MarksAre DEF Opener
  <2>3. Type = Opener(w[1]) \/ Type = "none"
    BY <2>1, <2>2, TokenCases, MarksDiffer
  <2>4. QED
    BY <2>2, <2>3, MarksDiffer
<1>3. QED
  BY <1>1, <1>2 DEF Tree

LEMMA FirstItemStep ==
  ASSUME NEW T, NEW W, NEW r, NEW d, Given(T, W, r, d), Fits(T, W, r, d, stack, jPos, jResult, status),
         J!ParseFirstItem
  PROVE  Fits(T, W, r, d, stack', jPos', jResult', status')
<1>1. Cut(T, d) /\ Calls(stack) /\ status = "parsing" /\ J!Waits("first item")
  BY FirstItemIs, WaitsIs DEF Given, Fits
<1>2. \/ Type = ArrClose /\ Moves /\ J!Return(Front(stack), Top.node)
      \/ Type # ArrClose /\ Becomes(Turned(Top, "value")) /\ jPos' = jPos
  BY FirstItemIs, Zenon DEF Turned
<1>3. stack # <<>>
  <2>1. "first item" # "value"
    OBVIOUS
  <2>2. QED
    BY <1>1, <2>1, WaitsIs, Zenon
<1>4. CASE d < Len(T) /\ jPos \in Nat /\ jPos > d
  <2>1. Type = "none"
    BY <1>1, <1>4, NoMore, NothingIs DEF Type
  <2>2. Becomes(Turned(Top, "value")) /\ jPos' = jPos
    BY <1>2, <2>1, MarksDiffer
  <2>3. Calls(stack') /\ status' = "parsing"
    BY <1>1, <1>3, <2>2, FrontFacts, PushFacts DEF Becomes
  <2>4. QED
    BY <1>4, <2>2, <2>3, EndFits
<1>5. ASSUME stack # <<>>, Top.wait = "first item",
             NEW w \in W, Callers(T, W, r, Front(stack), w), Frame(T, W, Top, w, jPos)
      PROVE  Fits(T, W, r, d, stack', jPos', jResult', status')
  <2>1. PICK L : /\ Laid(T, W, w, L)
                 /\ \E j \in 0..L.size : Top = Call(Partial(w[1], L, j), Top.member, Top.wait) /\ Awaits(Top, w, L, j, jPos)
    BY <1>5 DEF Frame
  <2>2. PICK j \in 0..L.size : Top = Call(Partial(w[1], L, j), Top.member, "first item") /\ Awaits(Top, w, L, j, jPos)
    BY <1>5, <2>1
  <2>4. L.size \in Nat
    BY <2>1 DEF Laid
  <2>3. w[1].type = "array" /\ ArrayLaid(T, w[1], L) /\ jPos = L.at[1] /\ j = 0
    BY <1>5, <2>1, <2>2 DEF Awaits, Laid
  <2>5. CASE L.size = 0
    <3>1. Token(T, jPos, ArrClose, <<>>, w[3]) /\ T[jPos] # Blank
      BY <2>1, <2>3, <2>5 DEF Laid, Closer
    <3>2. CASE d < Len(T) /\ w[3] > d + 1
      <4>1. jPos \in Nat /\ w[3] = jPos + 1
        BY <3>1, MarksDiffer DEF Token, Skips
      <4>2. jPos > d
        <5>1. Cut(T, d)
          BY <1>1
        <5>2. d \in Nat
          BY <5>1 DEF Cut
        <5>3. QED
          BY <3>2, <4>1, <5>2
      <4>3. QED
        BY <1>4, <3>2, <4>1, <4>2
    <3>3. CASE Type = ArrClose /\ J!NextToken.next = w[3] /\ w[3] <= d + 1
      <4>1. Moves /\ J!Return(Front(stack), Top.node)
        BY <1>2, <3>3
      <4>2. Top = Call(Partial(w[1], L, L.size), Top.member, "first item")
        BY <2>2, <2>3, <2>5
      <4>3. jPos' = w[3]
        BY <3>3, <4>1 DEF Moves
      <4>4. QED
        BY <1>1, <1>5, <2>1, <3>3, <4>1, <4>2, <4>3, Closes
    <3>4. QED
      BY <1>1, <3>1, <3>2, <3>3, TokenCases, MarksDiffer
  <2>6. CASE L.size # 0
    <3>1. 1 \in 1..L.size /\ j < L.size /\ j + 1 = 1
      BY <2>3, <2>4, <2>6
    <3>2. L.kid[1] \in W /\ jPos = L.kid[1][2]
      BY <2>1, <2>3, <3>1 DEF Laid, ArrayLaid
    <3>3. Type # ArrClose
      BY <1>1, <3>2, Begins, MarksDiffer, NothingIs DEF Given
    <3>4. Becomes(Turned(Top, "value")) /\ jPos' = jPos
      BY <1>2, <3>3
    <3>5. PICK fr : fr = Call(Partial(w[1], L, j), Top.member, "value")
      OBVIOUS
    <3>6. Becomes(fr)
      <4>1. PICK k : k = Top.member
        OBVIOUS
      <4>2. PICK n : n = Partial(w[1], L, j)
        OBVIOUS
      <4>3. Top = Call(n, k, Top.wait) /\ fr = Call(n, k, "value")
        BY <1>5, <2>2, <3>5, <4>1, <4>2
      <4>4. Turned(Top, "value") = fr
        BY <4>3, ChangedIs
      <4>5. QED
        BY <3>4, <4>4
    <3>7. jPos' = L.kid[j + 1][2] /\ w[1].type # "object"
      BY <2>3, <3>1, <3>2, <3>4
    <3>8. QED
      BY <1>1, <1>5, <2>1, <3>1, <3>5, <3>6, <3>7, GoesOn
  <2>7. QED
    BY <2>5, <2>6
<1>6. QED
  BY <1>1, <1>4, <1>5, BetweenNodes

LEMMA LeafIs ==
  ASSUME NEW n, n = J!Simple(n), NEW e, Read(n.type, n.text, e), n.type \in Literal
  PROVE  J!Simple(J!NextToken) = n
<1>1. J!NextToken.type = n.type /\ J!NextToken.text = n.text
  BY DEF Read
<1>2. PICK t : t = J!NextToken
  OBVIOUS
<1>3. J!Simple(t) = J!Simple(n)
  BY <1>1, <1>2 DEF J!Simple
<1>4. QED
  BY <1>2, <1>3

(* An object or array is begun. *)
LEMMA BegunIs ==
  ASSUME NEW n, NEW L
  PROVE  /\ n.type = "object" => Partial(n, L, 0) = J!JsonObject(J!Empty)
         /\ n.type # "object" => Partial(n, L, 0) = J!JsonArray(<<>>)
<1>1. 1..0 = {}
  OBVIOUS
<1>2. CASE n.type = "object"
  <2>1. {L.name[i] : i \in 1..0} = {}
    BY <1>1
  <2>2. PICK f : f = [k \in {L.name[i] : i \in 1..0} |-> n.members[k]]
    OBVIOUS
  <2>3. f = [k \in {} |-> 0]
    BY <2>1, <2>2
  <2>4. QED
    BY <1>2, <2>2, <2>3 DEF Partial, J!Empty
<1>3. CASE n.type # "object"
  <2>1. PICK f : f = [i \in 1..0 |-> L.kid[i][1]]
    OBVIOUS
  <2>2. f = <<>>
    BY <1>1, <2>1
  <2>3. QED
    BY <1>3, <2>1, <2>2 DEF Partial
<1>4. QED
  BY <1>2, <1>3

LEMMA Begun ==
  ASSUME NEW T, NEW W, NEW r, NEW d, Calls(stack), NEW w \in W, Callers(T, W, r, stack, w),
         NEW L, Laid(T, W, w, L), NEW fr, NEW z, fr = Call(Partial(w[1], L, 0), <<>>, z),
         stack' = Append(stack, fr), status' = "parsing", Awaits(fr, w, L, 0, jPos')
  PROVE  Fits(T, W, r, d, stack', jPos', jResult', status')
<1>1. fr.member = <<>> /\ fr.wait = z
  BY DEF Call
<1>2. PICK u : u = stack'
  OBVIOUS
<1>3. Calls(u) /\ u # <<>> /\ Front(u) = stack /\ u[Len(u)] = fr
  <2>1. PICK s : s = stack
    OBVIOUS
  <2>2. Append(s, fr) = Push(s, fr) /\ Calls(s)
    BY <2>1, PushFacts
  <2>3. u = Push(s, fr)
    BY <1>2, <2>1, <2>2
  <2>4. QED
    BY <2>1, <2>2, <2>3, PushFacts
<1>4. PICK p : p = jPos'
  OBVIOUS
<1>5. 0 \in 0..L.size
  BY DEF Laid
<1>6. PICK j : j = 0
  OBVIOUS
<1>7. fr = Call(Partial(w[1], L, j), fr.member, fr.wait) /\ Awaits(fr, w, L, j, p) /\ j \in 0..L.size
  BY <1>1, <1>4, <1>5, <1>6
<1>8. Frame(T, W, fr, w, p)
  BY <1>7 DEF Frame
<1>9. Reading(T, W, r, u, p)
  BY <1>3, <1>8 DEF Reading
<1>10. QED
  BY <1>2, <1>3, <1>4, <1>9 DEF Fits

LEMMA NodeStep ==
  ASSUME NEW T, NEW W, NEW r, NEW d, Given(T, W, r, d), Fits(T, W, r, d, stack, jPos, jResult, status),
         J!ParseNode
  PROVE  Fits(T, W, r, d, stack', jPos', jResult', status')
<1>1. Cut(T, d) /\ Tree(T, W) /\ Calls(stack) /\ status = "parsing" /\ J!Waits("value")
  BY NodeIs, WaitsIs DEF Given, Fits
<1>2. \/ /\ Type = ObjOpen /\ Moves /\ jResult' = jResult /\ status' = status
         /\ stack' = Append(stack, Call(J!JsonObject(J!Empty), <<>>, "member"))
      \/ /\ Type = ArrOpen /\ Moves /\ jResult' = jResult /\ status' = status
         /\ stack' = Append(stack, Call(J!JsonArray(<<>>), <<>>, "first item"))
      \/ Type \in Literal /\ Moves /\ J!Return(stack, J!Simple(J!NextToken))
      \/ Type \in {"none", ObjClose, ArrClose, Comma, Colon} /\ J!SyntaxError
  BY NodeIs
<1>3. CASE d < Len(T) /\ Type = "none"
  <2>1. J!SyntaxError
    BY <1>2, <1>3, MarksDiffer, NothingIs
  <2>2. QED
    BY <1>1, <1>3, <2>1, ErrorFits
<1>4. CASE d < Len(T) /\ jPos \in Nat /\ jPos > d
  <2>1. Type = "none"
    BY <1>1, <1>4, NoMore, NothingIs DEF Type
  <2>2. QED
    BY <1>3, <1>4, <2>1
<1>5. ASSUME NEW w \in W, Callers(T, W, r, stack, w), jPos = w[2], LeafAt(T, w)
      PROVE  Fits(T, W, r, d, stack', jPos', jResult', status')
  <2>1. w[1].type \in Literal /\ w[1] = J!Simple(w[1]) /\ Token(T, jPos, w[1].type, w[1].text, w[3])
    BY <1>5 DEF LeafAt
  <2>2. CASE d < Len(T) /\ Type = "none"
    BY <1>3, <2>2
  <2>3. CASE w[3] \in Nat /\ w[3] <= d + 1 /\ Read(w[1].type, w[1].text, w[3])
    <3>1. Type \in Literal /\ J!NextToken.next = w[3]
      BY <2>1, <2>3 DEF Read, Type
    <3>2. Moves /\ J!Return(stack, J!Simple(J!NextToken))
      BY <1>2, <3>1, MarksDiffer, NothingIs
    <3>3. J!Return(stack, w[1]) /\ jPos' = w[3]
      BY <2>1, <2>3, <3>1, <3>2, LeafIs DEF Moves
    <3>4. Len(T) \in Nat /\ d \in 0..Len(T)
      <4>1. Cut(T, d)
        BY <1>1
      <4>2. QED
        BY <4>1 DEF Cut
    <3>5. QED
      BY <1>1, <1>5, <2>3, <3>3, <3>4, Returned
  <2>4. CASE d < Len(T) /\ J!NextToken.type = "number" /\ J!NextToken.next = d + 1
    <3>1. Moves /\ J!Return(stack, J!Simple(J!NextToken))
      BY <1>2, <2>4, MarksDiffer, NothingIs DEF Type
    <3>2. stack # <<>>
      <4>1. stack = <<>> => w[1] = r
        BY <1>5, CallersTop
      <4>2. r.type = "object" /\ "object" \notin Literal
        BY DEF Given, Literal
      <4>3. QED
        BY <2>1, <4>1, <4>2
    <3>3. Calls(stack') /\ status' = "parsing"
      BY <1>1, <3>1, <3>2, ReturnCalls
    <3>4. jPos' = d + 1 /\ d \in Nat
      <4>1. Cut(T, d)
        BY <1>1
      <4>2. d \in Nat
        BY <4>1 DEF Cut
      <4>3. QED
        BY <2>4, <3>1, <4>2 DEF Moves
    <3>5. jPos' \in Nat /\ jPos' > d
      BY <3>4
    <3>6. QED
      BY <2>4, <3>3, <3>5, EndFits
  <2>5. QED
    BY <1>1, <2>1, <2>2, <2>3, <2>4, TokenRead, NothingIs DEF Type
<1>6. ASSUME NEW w \in W, Callers(T, W, r, stack, w), jPos = w[2], NEW L, Laid(T, W, w, L)
      PROVE  Fits(T, W, r, d, stack', jPos', jResult', status')
  <2>1. PICK o : o = Opener(w[1])
    OBVIOUS
  <2>2. Token(T, jPos, o, <<>>, L.at[1]) /\ L.size \in Nat
    BY <1>6, <2>1 DEF Laid
  <2>3. o # "number" /\ o \in {ObjOpen, ArrOpen}
    BY <2>1, MarksDiffer DEF Opener
  <2>4. CASE d < Len(T) /\ Type = "none"
    BY <1>3, <2>4
  <2>5. CASE Type = o /\ J!NextToken.next = L.at[1]
    <3>1. CASE w[1].type = "object"
      <4>1. o = ObjOpen
        BY <2>1, <3>1 DEF Opener
      <4>2. PICK fr : fr = Call(J!JsonObject(J!Empty), <<>>, "member")
        OBVIOUS
      <4>3. Moves /\ status' = "parsing" /\ stack' = Append(stack, fr)
        BY <1>1, <1>2, <2>5, <4>1, <4>2, MarksAre, MarksDiffer, NothingIs
      <4>4. jPos' = L.at[1]
        BY <2>5, <4>3 DEF Moves
      <4>5. Awaits(fr, w, L, 0, jPos')
        <5>1. fr.wait = "member"
          BY <4>2 DEF Call
        <5>2. 0 + 1 = 1 /\ (0 < L.size \/ L.size = 0)
          BY <2>2
        <5>3. QED
          BY <3>1, <4>4, <5>1, <5>2 DEF Awaits
      <4>6. fr = Call(Partial(w[1], L, 0), <<>>, "member")
        BY <3>1, <4>2, BegunIs
      <4>7. QED
        BY <1>1, <1>6, <4>3, <4>5, <4>6, Begun
    <3>2. CASE w[1].type # "object"
      <4>1. o = ArrOpen /\ w[1].type = "array"
        BY <1>6, <2>1, <3>2 DEF Opener, Laid
      <4>2. PICK fr : fr = Call(J!JsonArray(<<>>), <<>>, "first item")
        OBVIOUS
      <4>3. Moves /\ status' = "parsing" /\ stack' = Append(stack, fr)
        BY <1>1, <1>2, <2>5, <4>1, <4>2, MarksAre, MarksDiffer, NothingIs
      <4>4. jPos' = L.at[1]
        BY <2>5, <4>3 DEF Moves
      <4>5. Awaits(fr, w, L, 0, jPos')
        <5>1. fr.wait = "first item"
          BY <4>2 DEF Call
        <5>2. QED
          BY <4>1, <4>4, <5>1 DEF Awaits
      <4>6. fr = Call(Partial(w[1], L, 0), <<>>, "first item")
        BY <3>2, <4>2, BegunIs
      <4>7. QED
        BY <1>1, <1>6, <4>3, <4>5, <4>6, Begun
    <3>3. QED
      BY <3>1, <3>2
  <2>6. QED
    BY <1>1, <2>2, <2>3, <2>4, <2>5, TokenCases
<1>7. QED
  BY <1>1, <1>4, <1>5, <1>6, BeforeNode DEF Tree

LEMMA JsonStep ==
  ASSUME NEW T, NEW W, NEW r, NEW d, Given(T, W, r, d), Fits(T, W, r, d, stack, jPos, jResult, status),
         J!Next
  PROVE  Fits(T, W, r, d, stack', jPos', jResult', status')
  BY NodeStep, MemberStep, ColonStep, ObjectNextStep, FirstItemStep, ArrayNextStep DEF J!Next

LEMMA JsonKeeps == J!Next => value' = value /\ doc' = doc
<1>1. J!ParseNode => value' = value /\ doc' = doc
  BY NodeIs, ErrorIs DEF Moves
<1>2. J!ParseMember => value' = value /\ doc' = doc
  BY MemberIs, ErrorIs DEF Moves
<1>3. J!ParseColon => value' = value /\ doc' = doc
  BY ColonIs, ErrorIs DEF Moves
<1>4. J!ParseObjectNext => value' = value /\ doc' = doc
  BY ObjectNextIs, ErrorIs DEF Moves
<1>5. J!ParseFirstItem => value' = value /\ doc' = doc
  BY FirstItemIs DEF Moves
<1>6. J!ParseArrayNext => value' = value /\ doc' = doc
  BY ArrayNextIs, ErrorIs DEF Moves
<1>7. QED
  BY <1>1, <1>2, <1>3, <1>4, <1>5, <1>6 DEF J!Next

LEMMA LeastOf ==
  ASSUME NEW S, S \subseteq Nat, S # {}
  PROVE  \E n \in S : \A m \in S : n <= m
<1> DEFINE R == OpToRel(<, Nat)
<1>1. \A m, n \in Nat : <<m, n>> \in R <=> m < n
  BY DEF OpToRel
<1>2. IsWellFoundedOn(R, Nat)
  BY NatLessThanWellFounded
<1> HIDE DEF R
<1>3. PICK n \in S : \A m \in S : ~(<<m, n>> \in R)
  BY <1>2, WFMin
<1>4. \A m \in S : n <= m
  <2>1. \A m \in S : m \in Nat /\ n \in Nat
    OBVIOUS
  <2>2. \A m \in S : ~(m < n)
    BY <1>1, <1>3, <2>1
  <2> QED
    BY <2>1, <2>2
<1>5. QED
  BY <1>4

(* The names of an object, each once. *)
LEMMA NamesIn ==
  ASSUME NEW D, IsFiniteSet(D), NEW s, s = J!SetToSeq(D)
  PROVE  \E m \in Nat : /\ s \in [1..m -> D] /\ D = {s[i] : i \in 1..m}
                        /\ \A i, j \in 1..m : s[i] = s[j] => i = j
<1>1. PICK m \in Nat : m = Cardinality(D) /\ ExistsBijection(1..m, D)
  BY FS_CardinalityType
<1>2. J!Cardinality(D) = m
  BY <1>1 DEF J!Cardinality, Cardinality
<1>3. s = CHOOSE f \in [1..m -> D] : J!IsInjective(f)
  BY <1>2 DEF J!SetToSeq
<1>4. PICK g : g \in Bijection(1..m, D)
  BY <1>1 DEF ExistsBijection
<1>5. g \in [1..m -> D] /\ J!IsInjective(g)
  BY <1>4 DEF Bijection, Injection, Surjection, IsInjective, J!IsInjective
<1>6. s \in [1..m -> D] /\ J!IsInjective(s)
  BY <1>3, <1>5
<1>7. \A i, j \in 1..m : s[i] = s[j] => i = j
  BY <1>6 DEF J!IsInjective
<1>8. s \in Injection(1..m, D)
  BY <1>6, <1>7 DEF Injection, IsInjective
<1>9. Cardinality(1..m) = m
  BY <1>1, FS_Interval
<1>10. s \in Surjection(1..m, D)
  BY <1>1, <1>8, <1>9, FS_Injection
<1>11. D = {s[i] : i \in 1..m}
  BY <1>6, <1>10 DEF Surjection
<1>12. QED
  BY <1>6, <1>7, <1>11

(* Leaves, nodes of leaves and documents. *)
KidsAmong(n, S) ==
  \/ /\ n.type = "object" /\ DOMAIN n.members \subseteq Names /\ n = J!JsonObject(n.members)
     /\ \A k \in DOMAIN n.members : n.members[k] \in S
     /\ n.members = [k \in DOMAIN n.members |-> n.members[k]]
  \/ /\ n.type = "array" /\ n = J!JsonArray(n.items) /\ \E m \in Nat : n.items \in [1..m -> S]

LEMMA LeavesAre ==
  ASSUME NEW n \in J!Leaves
  PROVE  /\ n.type \in Literal /\ n = J!Simple(n)
         /\ n.type = "string" => n.text \in Seq(Letter)
         /\ n.type = "number" => n.text \in Seq(J!Digit) /\ n.text # <<>>
         /\ n.type = "keyword" => \E k \in J!Keyword : n.text = <<k>>
<1>1. PICK l \in Leaf : n = J!Simple(l)
  BY DEF J!Leaves
<1>2. n.type = l.type /\ n.text = l.text
  BY <1>1 DEF J!Simple, J!Node
<1>3. n = J!Simple(n)
  BY <1>1, <1>2 DEF J!Simple
<1>4. /\ l.type \in Literal
      /\ l.type = "string" => l.text \in Seq(Letter)
      /\ l.type = "number" => l.text \in Seq(J!Digit) /\ l.text # <<>>
      /\ l.type = "keyword" => \E k \in J!Keyword : l.text = <<k>>
  BY JsonAssumption DEF Literal
<1>5. QED
  BY <1>2, <1>3, <1>4

LEMMA ObjectsAre ==
  ASSUME NEW K, K \subseteq Names, NEW S, NEW n \in J!Objects(K, S)
  PROVE  KidsAmong(n, S) /\ n.type = "object"
<1>1. PICK D \in SUBSET K : \E f \in [D -> S] : n = J!JsonObject(f)
  BY DEF J!Objects
<1>2. PICK f \in [D -> S] : n = J!JsonObject(f)
  BY <1>1
<1>3. n.type = "object" /\ n.members = f
  BY <1>2, NodeFacts
<1>4. QED
  BY <1>2, <1>3 DEF KidsAmong

LEMMA ItemsBounded == MaxItems \in Nat
  BY JsonAssumption, Zenon

LEMMA ArraysAre ==
  ASSUME NEW S, NEW n \in J!Arrays(S)
  PROVE  KidsAmong(n, S) /\ n.type = "array"
<1>1. PICK m \in 0..MaxItems : \E f \in [1..m -> S] : n = J!JsonArray(f)
  BY DEF J!Arrays
<1>2. PICK f \in [1..m -> S] : n = J!JsonArray(f)
  BY <1>1
<1>3. n.type = "array" /\ n.items = f
  BY <1>2, NodeFacts
<1>4. m \in Nat
  BY ItemsBounded
<1>5. QED
  BY <1>2, <1>3, <1>4 DEF KidsAmong

Nodes == J!Inner \cup J!Roots

LEMMA NodesAre ==
  /\ \A n \in J!Inner : n \in J!Leaves \/ KidsAmong(n, J!Leaves)
  /\ \A n \in J!Roots : KidsAmong(n, J!Inner) /\ n.type = "object"
  /\ J!Leaves \subseteq J!Inner
  /\ \A n \in Nodes : n \in J!Leaves \/ KidsAmong(n, J!Inner)
<1>1. J!Leaves \subseteq J!Inner
  BY DEF J!Inner
<1>2. ASSUME NEW n \in J!Inner
      PROVE  n \in J!Leaves \/ KidsAmong(n, J!Leaves)
  <2>1. n \in J!Leaves \/ n \in J!Objects(Names, J!Leaves) \/ n \in J!Arrays(J!Leaves)
    BY DEF J!Inner
  <2>2. QED
    BY <2>1, ObjectsAre, ArraysAre
<1>3. ASSUME NEW n \in J!Roots
      PROVE  KidsAmong(n, J!Inner) /\ n.type = "object"
  <2>1. n \in J!Objects(Names, J!Leaves) \/ \E k \in Names : n \in J!Objects({k}, J!Inner)
    BY DEF J!Roots
  <2>2. CASE n \in J!Objects(Names, J!Leaves)
    <3>1. KidsAmong(n, J!Leaves) /\ n.type = "object"
      BY <2>2, ObjectsAre
    <3>2. QED
      BY <1>1, <3>1 DEF KidsAmong
  <2>3. ASSUME NEW k \in Names, n \in J!Objects({k}, J!Inner)
        PROVE  KidsAmong(n, J!Inner) /\ n.type = "object"
    <3>1. {k} \subseteq Names
      OBVIOUS
    <3>2. QED
      BY <2>3, <3>1, ObjectsAre
  <2>4. QED
    BY <2>1, <2>2, <2>3
<1>4. \A n : KidsAmong(n, J!Leaves) => KidsAmong(n, J!Inner)
  BY <1>1 DEF KidsAmong
<1>5. QED
  BY <1>1, <1>2, <1>3, <1>4 DEF Nodes

(* The text of a node from those of its nodes, without the marks. *)
Order(n)        == J!SetToSeq(DOMAIN n.members)
ColonBlank        == <<Colon, Blank>>
Member(f, n, i) == J!Quoted(Order(n)[i]) \o ColonBlank \o f[n.members[Order(n)[i]]]
Members(f, n)   == [i \in DOMAIN Order(n) |-> Member(f, n, i)]
Items(f, n)     == [i \in DOMAIN n.items |-> f[n.items[i]]]
Framed(o, s, z) == <<o>> \o s \o <<z>>
Body(f, n) ==
  IF n.type = "string" THEN J!Quoted(n.text)
  ELSE IF n.type = "object" THEN Framed(ObjOpen, J!Separated(Members(f, n)), ObjClose)
  ELSE IF n.type = "array" THEN Framed(ArrOpen, J!Separated(Items(f, n)), ArrClose)
  ELSE n.text
SerOf == CHOOSE f : f = [n \in J!Inner \cup J!Roots |-> Body(f, n)]

LEMMA SerializeIs == J!Serialize = SerOf
  BY Zenon DEF J!Serialize, SerOf, Body, Members, Member, Items, Order, Framed, ColonBlank,
         Colon, Blank, ObjOpen, ObjClose, ArrOpen, ArrClose

LEMMA BodyAgrees ==
  ASSUME NEW S, NEW n, n \in J!Leaves \/ KidsAmong(n, S), NEW f, NEW g, \A k \in S : f[k] = g[k]
  PROVE  Body(f, n) = Body(g, n)
<1>1. CASE n \in J!Leaves
  <2>1. n.type # "object" /\ n.type # "array"
    BY <1>1, LeavesAre DEF Literal
  <2>2. QED
    BY <2>1 DEF Body
<1>2. CASE KidsAmong(n, S) /\ n.type = "object"
  <2>1. PICK s : s = Order(n)
    OBVIOUS
  <2>2. DOMAIN n.members \subseteq Names /\ \A k \in DOMAIN n.members : n.members[k] \in S
    BY <1>2 DEF KidsAmong
  <2>3. IsFiniteSet(DOMAIN n.members)
    BY <2>2, JsonAssumption, FS_Subset
  <2>4. PICK m \in Nat : s \in [1..m -> DOMAIN n.members]
    BY <2>1, <2>3, NamesIn DEF Order
  <2>5. \A i \in DOMAIN s : Member(f, n, i) = Member(g, n, i)
    BY <2>1, <2>2, <2>4 DEF Member
  <2>6. Members(f, n) = Members(g, n)
    BY <2>1, <2>5 DEF Members
  <2>7. QED
    BY <1>2, <2>6 DEF Body
<1>3. CASE KidsAmong(n, S) /\ n.type = "array"
  <2>1. PICK m \in Nat : n.items \in [1..m -> S]
    BY <1>3 DEF KidsAmong
  <2>2. \A i \in DOMAIN n.items : f[n.items[i]] = g[n.items[i]]
    BY <2>1
  <2>3. Items(f, n) = Items(g, n)
    BY <2>2 DEF Items
  <2>4. QED
    BY <1>3, <2>3 DEF Body
<1>4. QED
  BY <1>1, <1>2, <1>3 DEF KidsAmong

(* Every node is written from the texts of its nodes. *)
LEMMA Serialized == \A n \in Nodes : J!Serialize[n] = Body(J!Serialize, n)
<1> DEFINE f0 == [n \in Nodes |-> Body(0, n)]
           f1 == [n \in Nodes |-> Body(f0, n)]
           f2 == [n \in Nodes |-> Body(f1, n)]
<1>1. f0 = [n \in Nodes |-> Body(0, n)]
  OBVIOUS
<1>2. f1 = [n \in Nodes |-> Body(f0, n)]
  OBVIOUS
<1>3. f2 = [n \in Nodes |-> Body(f1, n)]
  OBVIOUS
<1> HIDE DEF f0, f1, f2
<1>4. \A n \in J!Leaves : n \in Nodes
  BY NodesAre DEF Nodes
<1>5. \A n \in J!Leaves : f0[n] = f1[n] /\ f1[n] = f2[n]
  <2>1. ASSUME NEW n \in J!Leaves
        PROVE  Body(0, n) = Body(f0, n) /\ Body(f0, n) = Body(f1, n)
    <3>1. PICK S : S = {}
      OBVIOUS
    <3>2. \A f, g : Body(f, n) = Body(g, n)
      BY <3>1, BodyAgrees
    <3>3. QED
      BY <3>2
  <2>2. QED
    BY <1>1, <1>2, <1>3, <1>4, <2>1
<1>6. \A n \in J!Inner : n \in Nodes /\ (n \in J!Leaves \/ KidsAmong(n, J!Leaves))
  BY NodesAre DEF Nodes
<1>7. \A n \in J!Inner : f1[n] = f2[n]
  <2>1. \A n \in J!Inner : Body(f0, n) = Body(f1, n)
    BY <1>5, <1>6, BodyAgrees
  <2>2. QED
    BY <1>2, <1>3, <1>6, <2>1
<1>8. \A n \in Nodes : Body(f1, n) = Body(f2, n)
  BY <1>7, NodesAre, BodyAgrees
<1>9. f2 = [n \in Nodes |-> Body(f2, n)]
  BY <1>3, <1>8
<1>10. SerOf = CHOOSE f : f = [n \in Nodes |-> Body(f, n)]
  BY DEF SerOf, Nodes
<1>11. SerOf = [n \in Nodes |-> Body(SerOf, n)]
  BY <1>9, <1>10
<1>12. QED
  BY <1>11, SerializeIs

(* Texts, taken for what is known of their sizes. *)
Chars      == Letter \cup J!Digit \cup J!Keyword \cup Marks \cup {Quote, Blank}
Texts      == Seq(Chars)
Nil        == <<>>
Size(s)    == Len(s)
Unit(z)    == <<z>>
Join(s, u) == s \o u

LEMMA One ==
  ASSUME NEW z \in Chars
  PROVE  <<z>> \in Seq(Chars) /\ Len(<<z>>) = 1 /\ <<z>>[1] = z
<1>1. PICK S : S = Chars
  OBVIOUS
<1>2. z \in S
  BY <1>1
<1>3. <<z>> \in Seq(S) /\ Len(<<z>>) = 1 /\ <<z>>[1] = z
  BY <1>2
<1>4. QED
  BY <1>1, <1>3

LEMMA TextFacts ==
  /\ \A z \in Chars : Unit(z) \in Texts /\ Size(Unit(z)) = 1
  /\ \A s, u \in Texts : Join(s, u) \in Texts /\ Size(Join(s, u)) = Size(s) + Size(u)
  /\ \A s \in Texts : Size(s) \in Nat
  /\ Nil \in Texts /\ Size(Nil) = 0
<1>1. \A z \in Chars : Unit(z) \in Texts /\ Size(Unit(z)) = 1
  BY One DEF Unit, Texts, Size
<1>2. \A s, u \in Texts : Join(s, u) \in Texts /\ Size(Join(s, u)) = Size(s) + Size(u)
  BY DEF Texts, Join, Size
<1>3. \A s \in Texts : Size(s) \in Nat
  BY DEF Texts, Size
<1>4. Nil \in Texts /\ Size(Nil) = 0
  BY DEF Nil, Texts, Size
<1>5. QED
  BY <1>1, <1>2, <1>3, <1>4

LEMMA JoinFirst ==
  ASSUME NEW S, NEW s \in Seq(S), NEW u \in Seq(S), Len(s) >= 1
  PROVE  Join(s, u)[1] = s[1]
<1>1. PICK n \in Nat : n = Len(s)
  OBVIOUS
<1>3. \A i \in 1..n : (s \o u)[i] = s[i]
  BY <1>1
<1>4. 1 \in 1..n
  BY <1>1
<1>5. (s \o u)[1] = s[1]
  BY <1>3, <1>4
<1>6. QED
  BY <1>5 DEF Join

LEMMA JoinNil == \A s \in Texts : Join(Nil, s) = s
<1> SUFFICES ASSUME NEW s \in Texts
             PROVE  Join(Nil, s) = s
  OBVIOUS
<1>1. s \in Seq(Chars)
  BY DEF Texts
<1>2. <<>> \o s = s
  BY <1>1
<1>3. QED
  BY <1>2 DEF Join, Nil

LEMMA CharsAre ==
  /\ Letter \subseteq Chars /\ J!Digit \subseteq Chars /\ J!Keyword \subseteq Chars /\ Marks \subseteq Chars
  /\ Quote \in Chars /\ Blank \in Chars /\ Comma \in Chars /\ Colon \in Chars
  BY MarksDiffer DEF Chars

(* A text S stands in T from place P on. *)
Occ(T, p, s) == /\ p \in Nat \ {0} /\ p + Len(s) <= Len(T) + 1
                /\ \A i \in 1..Len(s) : T[p + i - 1] = s[i]

LEMMA OccSplit ==
  ASSUME NEW T, NEW p, NEW S, NEW s \in Seq(S), NEW u \in Seq(S), Occ(T, p, s \o u), Len(T) \in Nat
  PROVE  Occ(T, p, s) /\ Occ(T, p + Len(s), u)
<1>1. PICK v : v = s \o u
  OBVIOUS
<1>2. /\ Len(v) = Len(s) + Len(u) /\ \A i \in 1..Len(s) : v[i] = s[i]
      /\ \A i \in 1..Len(u) : v[Len(s) + i] = u[i]
  BY <1>1
<1>3. PICK k \in Nat : k = Len(s)
  OBVIOUS
<1>4. PICK l \in Nat : l = Len(u)
  OBVIOUS
<1>5. p \in Nat \ {0} /\ p + (k + l) <= Len(T) + 1 /\ \A i \in 1..(k + l) : T[p + i - 1] = v[i]
  BY <1>1, <1>2, <1>3, <1>4 DEF Occ
<1>6. \A i \in 1..k : T[p + i - 1] = s[i]
  BY <1>2, <1>3, <1>5
<1>7. \A i \in 1..l : T[p + k + i - 1] = u[i]
  <2>1. \A i \in 1..l : k + i \in 1..(k + l) /\ p + (k + i) - 1 = p + k + i - 1
    BY <1>5
  <2>2. \A i \in 1..l : T[p + (k + i) - 1] = v[k + i]
    BY <1>5, <2>1
  <2>3. \A i \in 1..l : v[k + i] = u[i]
    BY <1>2, <1>3, <1>4
  <2>4. QED
    BY <2>1, <2>2, <2>3
<1>8. p + k <= Len(T) + 1 /\ p + k \in Nat \ {0} /\ (p + k) + l <= Len(T) + 1
  BY <1>5
<1>9. QED
  BY <1>3, <1>4, <1>5, <1>6, <1>7, <1>8 DEF Occ

LEMMA OccJoin ==
  ASSUME NEW T, NEW p, NEW s \in Texts, NEW u \in Texts, Occ(T, p, Join(s, u)), Len(T) \in Nat
  PROVE  Occ(T, p, s) /\ Occ(T, p + Size(s), u)
  BY OccSplit DEF Join, Size, Texts

LEMMA OccUnit ==
  ASSUME NEW T, NEW p, NEW z, Occ(T, p, Unit(z)), Len(T) \in Nat
  PROVE  p \in Nat \ {0} /\ p <= Len(T) /\ T[p] = z
<1>1. Len(<<z>>) = 1 /\ <<z>>[1] = z /\ 1 \in 1..1
  OBVIOUS
<1>2. p \in Nat \ {0} /\ p + 1 <= Len(T) + 1 /\ T[p + 1 - 1] = z
  BY <1>1 DEF Occ, Unit
<1>3. QED
  BY <1>2

(* A text between two characters. *)
LEMMA FramedFacts ==
  ASSUME NEW o \in Chars, NEW z \in Chars, NEW s \in Texts
  PROVE  /\ Framed(o, s, z) \in Texts /\ Size(Framed(o, s, z)) = Size(s) + 2
         /\ Framed(o, s, z)[1] = o
<1>1. PICK b \in Texts : b = Unit(o) /\ Size(b) = 1
  BY TextFacts
<1>2. PICK e \in Texts : e = Unit(z) /\ Size(e) = 1
  BY TextFacts
<1>3. PICK h \in Texts : h = Join(b, s) /\ Size(h) = 1 + Size(s)
  BY <1>1, TextFacts
<1>4. PICK g \in Texts : g = Join(h, e) /\ Size(g) = 1 + Size(s) + 1
  BY <1>2, <1>3, TextFacts
<1>5. Framed(o, s, z) = g
  BY <1>1, <1>2, <1>3, <1>4 DEF Framed, Join, Unit
<1>6. Size(s) \in Nat
  BY TextFacts
<1>7. b \in Seq(Chars) /\ s \in Seq(Chars) /\ e \in Seq(Chars) /\ h \in Seq(Chars) /\ Len(b) = 1 /\ b[1] = o
  BY <1>1, One DEF Texts, Size, Unit
<1>8. h[1] = o
  BY <1>3, <1>7, JoinFirst
<1>9. Len(h) >= 1
  BY <1>3, <1>6 DEF Size
<1>10. g[1] = o
  BY <1>4, <1>7, <1>8, <1>9, JoinFirst
<1>11. QED
  BY <1>4, <1>5, <1>6, <1>10

LEMMA OccFramed ==
  ASSUME NEW T, Len(T) \in Nat, NEW p, NEW o \in Chars, NEW z \in Chars, NEW s \in Texts,
         Occ(T, p, Framed(o, s, z))
  PROVE  /\ p \in Nat \ {0} /\ T[p] = o /\ Occ(T, p + 1, s)
         /\ T[p + 1 + Size(s)] = z /\ p + 1 + Size(s) <= Len(T)
<1>1. PICK b \in Texts : b = Unit(o) /\ Size(b) = 1
  BY TextFacts
<1>2. PICK e \in Texts : e = Unit(z) /\ Size(e) = 1
  BY TextFacts
<1>3. PICK h \in Texts : h = Join(b, s) /\ Size(h) = 1 + Size(s)
  BY <1>1, TextFacts
<1>4. Framed(o, s, z) = Join(h, e)
  BY <1>1, <1>2, <1>3 DEF Framed, Join, Unit
<1>5. Occ(T, p, h) /\ Occ(T, p + Size(h), e)
  BY <1>4, OccJoin
<1>6. Occ(T, p, b) /\ Occ(T, p + 1, s)
  BY <1>1, <1>3, <1>5, OccJoin
<1>7. p \in Nat \ {0} /\ T[p] = o
  BY <1>1, <1>6, OccUnit
<1>8. p + Size(h) <= Len(T) /\ T[p + Size(h)] = z
  BY <1>2, <1>5, OccUnit
<1>9. Size(s) \in Nat
  BY TextFacts
<1>10. p + Size(h) = p + 1 + Size(s)
  BY <1>3, <1>7, <1>9
<1>11. QED
  BY <1>6, <1>7, <1>8, <1>10

-----------------------------------------------------------------------------
(* The texts of the parts of a sequence, one behind the other.             *)
Flat(q, n, f) == f = [i \in 1..n |-> IF i = 1 THEN q[i] ELSE Join(f[i - 1], q[i])]

LEMMA FlatMore ==
  ASSUME NEW q, NEW n \in Nat, NEW f, Flat(q, n, f)
  PROVE  \E g : Flat(q, n + 1, g)
<1> DEFINE g == [i \in 1..n+1 |-> IF i \in 1..n THEN f[i] ELSE IF i = 1 THEN q[i] ELSE Join(f[n], q[i])]
           h == [i \in 1..n+1 |-> IF i = 1 THEN q[i] ELSE Join(g[i - 1], q[i])]
<1>1. ASSUME NEW i \in 1..n+1
      PROVE  g[i] = h[i]
  <2>1. CASE i \in 1..n /\ i = 1
    BY <2>1 DEF Flat
  <2>2. CASE i \in 1..n /\ i # 1
    <3>1. i - 1 \in 1..n /\ i - 1 \in 1..n+1
      BY <2>2
    <3>2. g[i - 1] = f[i - 1] /\ g[i] = f[i]
      BY <2>2, <3>1
    <3>3. f[i] = Join(f[i - 1], q[i])
      BY <2>2 DEF Flat
    <3>4. h[i] = Join(g[i - 1], q[i])
      BY <2>2
    <3>5. QED
      BY <3>2, <3>3, <3>4
  <2>3. CASE i = n + 1
    <3>1. i - 1 = n /\ i \notin 1..n /\ (i # 1 => n \in 1..n /\ n \in 1..n+1)
      BY <2>3
    <3>2. i # 1 => g[n] = f[n]
      BY <3>1
    <3>3. g[i] = IF i = 1 THEN q[i] ELSE Join(f[n], q[i])
      BY <3>1
    <3>4. h[i] = IF i = 1 THEN q[i] ELSE Join(g[n], q[i])
      BY <3>1
    <3>5. QED
      BY <3>2, <3>3, <3>4
  <2>4. QED
    BY <2>1, <2>2, <2>3
<1>2. g = h
  BY <1>1
<1>3. QED
  BY <1>2 DEF Flat

LEMMA AllFlat ==
  ASSUME NEW q, NEW n \in Nat
  PROVE  \E f : Flat(q, n, f)
<1> DEFINE bad == {m \in Nat : ~ \E f : Flat(q, m, f)}
<1>1. SUFFICES ASSUME bad # {}
               PROVE  FALSE
  OBVIOUS
<1>2. PICK m \in bad : \A k \in bad : m <= k
  BY <1>1, LeastOf
<1>3. m # 0
  <2>1. PICK f : f = [i \in 1..0 |-> Nil]
    OBVIOUS
  <2>2. 1..0 = {}
    OBVIOUS
  <2>3. Flat(q, 0, f)
    BY <2>1, <2>2 DEF Flat
  <2>4. QED
    BY <2>3
<1>4. m - 1 \in Nat /\ m - 1 \notin bad /\ m = (m - 1) + 1
  BY <1>2, <1>3
<1>5. PICK f : Flat(q, m - 1, f)
  BY <1>4
<1>6. \E g : Flat(q, m, g)
  BY <1>4, <1>5, FlatMore
<1>7. QED
  BY <1>6

Pieces(q, m, f) == /\ f \in [0..m -> Texts] /\ f[0] = Nil
                   /\ \A i \in 1..m : f[i] = Join(f[i - 1], q[i])

LEMMA FlattenIs ==
  ASSUME NEW q, NEW m \in Nat, Len(q) = m, q = [i \in 1..m |-> q[i]], \A i \in 1..m : q[i] \in Texts
  PROVE  \E f : Pieces(q, m, f) /\ J!FlattenSeq(q) = f[m]
<1>1. CASE m = 0
  <2>1. 1..0 = {} /\ 0..0 = {0}
    OBVIOUS
  <2>2. q = Nil
    <3>1. q = [i \in {} |-> q[i]]
      BY <1>1, <2>1
    <3>2. QED
      BY <3>1 DEF Nil
  <2>3. PICK f : f = [i \in {0} |-> Nil]
    OBVIOUS
  <2>4. f[0] = Nil /\ f \in [{0} -> Texts]
    BY <2>3, TextFacts
  <2>5. Pieces(q, m, f)
    BY <1>1, <2>1, <2>4 DEF Pieces
  <2>6. J!FlattenSeq(q) = q
    BY <1>1 DEF J!FlattenSeq
  <2>7. QED
    BY <1>1, <2>2, <2>4, <2>5, <2>6
<1>2. CASE m # 0
  <2>1. PICK g : g = CHOOSE f : Flat(q, m, f)
    OBVIOUS
  <2>2. Flat(q, m, g)
    BY <2>1, AllFlat
  <2>3. J!FlattenSeq(q) = g[m]
    BY <1>2, <2>1 DEF J!FlattenSeq, Flat, Join
  <2>4. g[1] = q[1] /\ \A i \in 1..m : i # 1 => g[i] = Join(g[i - 1], q[i])
    <3>1. 1 \in 1..m
      BY <1>2
    <3>2. \A i \in 1..m : g[i] = IF i = 1 THEN q[i] ELSE Join(g[i - 1], q[i])
      BY <2>2 DEF Flat
    <3>3. QED
      BY <3>1, <3>2
  <2>5. PICK f : f = [i \in 0..m |-> IF i = 0 THEN Nil ELSE g[i]]
    OBVIOUS
  <2>6. f[0] = Nil /\ \A i \in 1..m : f[i] = g[i]
    <3>1. 0 \in 0..m /\ \A i \in 1..m : i \in 0..m /\ i # 0
      OBVIOUS
    <3>2. QED
      BY <2>5, <3>1
  <2>7. \A i \in 1..m : f[i] = Join(f[i - 1], q[i])
    <3> SUFFICES ASSUME NEW i \in 1..m
                 PROVE  f[i] = Join(f[i - 1], q[i])
      OBVIOUS
    <3>1. CASE i = 1
      <4>1. i - 1 = 0 /\ q[i] \in Texts
        BY <3>1
      <4>2. QED
        BY <2>4, <2>6, <3>1, <4>1, JoinNil
    <3>2. CASE i # 1
      <4>1. i - 1 \in 1..m
        BY <3>2
      <4>2. QED
        BY <2>4, <2>6, <3>2, <4>1
    <3>3. QED
      BY <3>1, <3>2
  <2>8. {i \in 0..m : f[i] \notin Texts} = {}
    <3> SUFFICES ASSUME {i \in 0..m : f[i] \notin Texts} # {}
                 PROVE  FALSE
      OBVIOUS
    <3>1. PICK bad : bad = {i \in 0..m : f[i] \notin Texts}
      OBVIOUS
    <3>2. bad \subseteq Nat /\ bad # {}
      BY <3>1
    <3>3. PICK i \in bad : \A k \in bad : i <= k
      BY <3>2, LeastOf
    <3>4. i \in 0..m /\ f[i] \notin Texts
      BY <3>1
    <3>5. i # 0
      BY <2>6, <3>4, TextFacts
    <3>6. i \in 1..m /\ i - 1 \in 0..m /\ i - 1 \notin bad
      BY <3>3, <3>4, <3>5
    <3>7. f[i - 1] \in Texts
      BY <3>1, <3>6
    <3>8. f[i] \in Texts
      BY <2>7, <3>6, <3>7, TextFacts
    <3>9. QED
      BY <3>4, <3>8
  <2>9. f \in [0..m -> Texts]
    BY <2>5, <2>8
  <2>10. Pieces(q, m, f)
    BY <2>6, <2>7, <2>9 DEF Pieces
  <2>11. m \in 1..m
    BY <1>2
  <2>12. QED
    BY <2>3, <2>6, <2>10, <2>11
<1>3. QED
  BY <1>1, <1>2

LEMMA OccPieces ==
  ASSUME NEW T, Len(T) \in Nat, NEW p, NEW q, NEW m \in Nat, \A i \in 1..m : q[i] \in Texts,
         NEW f, Pieces(q, m, f), Occ(T, p, f[m])
  PROVE  \A i \in 1..m : Occ(T, p + Size(f[i - 1]), q[i])
<1> DEFINE bad == {i \in 0..m : ~Occ(T, p, f[m - i])}
<1>1. bad = {}
  <2> SUFFICES ASSUME bad # {}
               PROVE  FALSE
    OBVIOUS
  <2>1. bad \subseteq Nat
    OBVIOUS
  <2>2. PICK i \in bad : \A k \in bad : i <= k
    BY <2>1, LeastOf
  <2>3. i \in 0..m /\ ~Occ(T, p, f[m - i])
    OBVIOUS
  <2>4. i # 0
    BY <2>3
  <2>5. i - 1 \in 0..m /\ i - 1 \notin bad
    BY <2>2, <2>3, <2>4
  <2>6. Occ(T, p, f[m - (i - 1)])
    BY <2>5
  <2>7. PICK l \in 1..m : l = m - (i - 1)
    BY <2>3, <2>4
  <2>8. l - 1 = m - i /\ l - 1 \in 0..m
    BY <2>3, <2>7
  <2>9. f[l] = Join(f[l - 1], q[l]) /\ f[l - 1] \in Texts /\ q[l] \in Texts
    BY <2>8 DEF Pieces
  <2>10. Occ(T, p, f[l - 1])
    BY <2>6, <2>7, <2>9, OccJoin
  <2>11. QED
    BY <2>3, <2>8, <2>10
<1>2. \A i \in 0..m : Occ(T, p, f[i])
  <2> SUFFICES ASSUME NEW i \in 0..m
               PROVE  Occ(T, p, f[i])
    OBVIOUS
  <2>1. m - i \in 0..m /\ m - (m - i) = i
    OBVIOUS
  <2>2. m - i \notin bad
    BY <1>1
  <2>3. QED
    BY <2>1, <2>2
<1> HIDE DEF bad
<1>3. QED
  <2> SUFFICES ASSUME NEW i \in 1..m
               PROVE  Occ(T, p + Size(f[i - 1]), q[i])
    OBVIOUS
  <2>1. i \in 0..m /\ i - 1 \in 0..m
    OBVIOUS
  <2>2. f[i] = Join(f[i - 1], q[i]) /\ f[i - 1] \in Texts /\ q[i] \in Texts
    BY <2>1 DEF Pieces
  <2>3. Occ(T, p, Join(f[i - 1], q[i]))
    BY <1>2, <2>1, <2>2
  <2>4. QED
    BY <2>2, <2>3, OccJoin

(* What stands between the brackets: a blank before each part, and a comma *)
(* or a blank behind it.                                                   *)
EndOf(i, n)     == IF i = n THEN Blank ELSE Comma
Spaced(parts, m) == [i \in 1..m |-> Framed(Blank, parts[i], EndOf(i, m))]
Spread(T, p, parts, m, to) ==
  /\ to \in [0..m -> Nat \ {0}] /\ to[0] = p
  /\ \A i \in 1..m : /\ T[to[i - 1]] = Blank /\ Occ(T, to[i - 1] + 1, parts[i])
                     /\ to[i] = to[i - 1] + Size(parts[i]) + 2 /\ T[to[i] - 1] = EndOf(i, m)

LEMMA EndOfIs == \A i, n : EndOf(i, n) \in Chars /\ EndOf(i, n) \notin J!Digit
<1>1. Blank \in Chars /\ Comma \in Chars
  BY CharsAre
<1>2. Blank \notin J!Digit /\ Comma \notin J!Digit
  BY CharsDiffer, MarksDiffer
<1>3. QED
  BY <1>1, <1>2 DEF EndOf

LEMMA SepIs ==
  ASSUME NEW parts, NEW m \in Nat, Len(parts) = m, DOMAIN parts = 1..m
  PROVE  J!Separated(parts) = J!FlattenSeq(Spaced(parts, m))
  BY Zenon DEF J!Separated, Spaced, Framed, EndOf, Blank, Comma

LEMMA SepLaid ==
  ASSUME NEW T, Len(T) \in Nat, NEW parts, NEW m \in Nat, Len(parts) = m, DOMAIN parts = 1..m,
         \A i \in 1..m : parts[i] \in Texts, NEW v, v = J!Separated(parts), NEW p
  PROVE  /\ v \in Texts
         /\ Occ(T, p, v) => \E to : Spread(T, p, parts, m, to) /\ to[m] = p + Size(v)
<1>1. PICK q : q = Spaced(parts, m)
  OBVIOUS
<1>2. \A i \in 1..m : q[i] = Framed(Blank, parts[i], EndOf(i, m))
  BY <1>1 DEF Spaced
<1>3. ASSUME NEW i \in 1..m
      PROVE  q[i] \in Texts /\ Size(q[i]) = Size(parts[i]) + 2
  <2>1. PICK z \in Chars : z = EndOf(i, m)
    BY EndOfIs
  <2>2. PICK s \in Texts : s = parts[i]
    OBVIOUS
  <2>3. Blank \in Chars
    BY CharsAre
  <2>4. q[i] = Framed(Blank, s, z)
    BY <1>2, <2>1, <2>2
  <2>5. Framed(Blank, s, z) \in Texts /\ Size(Framed(Blank, s, z)) = Size(s) + 2
    BY <2>3, FramedFacts
  <2>6. QED
    BY <2>2, <2>4, <2>5
<1>4. Len(q) = m /\ q = [i \in 1..m |-> q[i]]
  BY <1>1 DEF Spaced
<1>5. PICK f : Pieces(q, m, f) /\ J!FlattenSeq(q) = f[m]
  BY <1>3, <1>4, FlattenIs
<1>6. v = f[m] /\ v \in Texts
  BY <1>1, <1>5, SepIs DEF Pieces
<1>7. ASSUME Occ(T, p, v)
      PROVE  \E to : Spread(T, p, parts, m, to) /\ to[m] = p + Size(v)
  <2>1. \A i \in 1..m : Occ(T, p + Size(f[i - 1]), q[i])
    BY <1>3, <1>5, <1>6, <1>7, OccPieces
  <2>2. PICK to : to = [i \in 0..m |-> p + Size(f[i])]
    OBVIOUS
  <2>3. p \in Nat \ {0}
    BY <1>7 DEF Occ
  <2>4. \A i \in 0..m : to[i] = p + Size(f[i]) /\ to[i] \in Nat \ {0} /\ Size(f[i]) \in Nat
    BY <1>5, <2>2, <2>3, TextFacts DEF Pieces
  <2>5. to \in [0..m -> Nat \ {0}]
    BY <2>2, <2>4
  <2>6. to[0] = p
    <3>1. 0 \in 0..m /\ f[0] = Nil
      BY <1>5 DEF Pieces
    <3>2. QED
      BY <2>3, <2>4, <3>1, TextFacts
  <2>7. ASSUME NEW i \in 1..m
        PROVE  /\ T[to[i - 1]] = Blank /\ Occ(T, to[i - 1] + 1, parts[i])
               /\ to[i] = to[i - 1] + Size(parts[i]) + 2 /\ T[to[i] - 1] = EndOf(i, m)
    <3>1. i \in 0..m /\ i - 1 \in 0..m /\ parts[i] \in Texts
      OBVIOUS
    <3>2. PICK b \in Nat \ {0} : b = to[i - 1] /\ b = p + Size(f[i - 1])
      BY <2>4, <3>1
    <3>3. Occ(T, b, Framed(Blank, parts[i], EndOf(i, m)))
      BY <1>2, <2>1, <3>2
    <3>4. /\ T[b] = Blank /\ Occ(T, b + 1, parts[i])
          /\ T[b + 1 + Size(parts[i])] = EndOf(i, m)
      <4>1. PICK z \in Chars : z = EndOf(i, m)
        BY EndOfIs
      <4>2. PICK s \in Texts : s = parts[i]
        BY <3>1
      <4>3. Blank \in Chars
        BY CharsAre
      <4>4. Occ(T, b, Framed(Blank, s, z))
        BY <3>3, <4>1, <4>2
      <4>5. /\ b \in Nat \ {0} /\ T[b] = Blank /\ Occ(T, b + 1, s)
            /\ T[b + 1 + Size(s)] = z /\ b + 1 + Size(s) <= Len(T)
        BY <4>3, <4>4, OccFramed, Zenon
      <4>6. QED
        BY <4>1, <4>2, <4>5
    <3>5. Size(f[i]) = Size(f[i - 1]) + Size(q[i])
      <4>1. f[i] = Join(f[i - 1], q[i]) /\ f[i - 1] \in Texts /\ q[i] \in Texts
        BY <1>3, <1>5, <3>1 DEF Pieces
      <4>2. QED
        BY <4>1, TextFacts
    <3>6. Size(parts[i]) \in Nat /\ Size(f[i - 1]) \in Nat
      BY <2>4, <3>1, TextFacts
    <3>7. to[i] = b + Size(parts[i]) + 2
      <4>1. to[i] = p + Size(f[i]) /\ Size(q[i]) = Size(parts[i]) + 2
        BY <1>3, <2>4, <3>1
      <4>2. PICK k \in Nat : k = Size(parts[i])
        BY <3>6
      <4>3. PICK l \in Nat : l = Size(f[i - 1])
        BY <3>6
      <4>4. Size(f[i]) = l + (k + 2) /\ b = p + l
        BY <3>2, <3>5, <4>1, <4>2, <4>3
      <4>5. to[i] = b + k + 2
        BY <2>3, <4>1, <4>4
      <4>6. QED
        BY <4>2, <4>5
    <3>8. to[i] - 1 = b + 1 + Size(parts[i])
      BY <3>6, <3>7
    <3>9. QED
      BY <3>2, <3>4, <3>7, <3>8
  <2>8. to[m] = p + Size(v)
    BY <1>6, <2>4
  <2>9. QED
    BY <2>5, <2>6, <2>7, <2>8 DEF Spread
<1>8. QED
  BY <1>6, <1>7

-----------------------------------------------------------------------------
(* A member is its name, a colon, a blank and the text of its value. *)
MemberText(k, s) == Join(Join(Framed(Quote, k, Quote), ColonBlank), s)

LEMMA NameFacts ==
  ASSUME NEW k \in Names
  PROVE  /\ k \in Seq(Letter) /\ k \in Texts /\ \A i \in 1..Len(k) : k[i] # Quote
<1>1. k \in Seq(Letter) /\ Quote \notin Letter
  BY JsonAssumption, Zenon DEF Quote
<1>2. \A i \in 1..Len(k) : k[i] \in Letter
  BY <1>1
<1>3. k \in Seq(Chars)
  BY <1>1, <1>2, CharsAre
<1>4. QED
  BY <1>1, <1>2, <1>3 DEF Texts

LEMMA MemberFacts ==
  ASSUME NEW k \in Texts, NEW s \in Texts
  PROVE  /\ MemberText(k, s) \in Texts /\ Size(MemberText(k, s)) = Size(k) + 4 + Size(s)
         /\ \A T, p : (Len(T) \in Nat /\ Occ(T, p, MemberText(k, s))) =>
              /\ p \in Nat \ {0} /\ T[p] = Quote /\ Occ(T, p + 1, k)
              /\ T[p + 1 + Size(k)] = Quote /\ T[p + Size(k) + 2] = Colon
              /\ T[p + Size(k) + 3] = Blank /\ Occ(T, p + Size(k) + 4, s)
<1>1. Quote \in Chars /\ Colon \in Chars /\ Blank \in Chars
  BY CharsAre
<1>2. PICK h \in Texts : h = Framed(Quote, k, Quote) /\ Size(h) = Size(k) + 2
  BY <1>1, FramedFacts
<1>3. PICK b \in Texts : b = Unit(Colon) /\ Size(b) = 1
  BY <1>1, TextFacts
<1>4. PICK e \in Texts : e = Unit(Blank) /\ Size(e) = 1
  BY <1>1, TextFacts
<1>5. PICK u \in Texts : u = Join(b, e) /\ Size(u) = 2
  BY <1>3, <1>4, TextFacts
<1>6. ColonBlank = u
  <2>1. <<Colon, Blank>> = <<Colon>> \o <<Blank>>
    OBVIOUS
  <2>2. QED
    BY <1>3, <1>4, <1>5, <2>1 DEF ColonBlank, Join, Unit
<1>7. PICK g \in Texts : g = Join(h, u) /\ Size(g) = Size(k) + 2 + 2
  BY <1>2, <1>5, TextFacts
<1>8. PICK l \in Texts : l = Join(g, s) /\ Size(l) = Size(k) + 2 + 2 + Size(s)
  BY <1>7, TextFacts
<1>9. MemberText(k, s) = l
  BY <1>2, <1>6, <1>7, <1>8 DEF MemberText
<1>10. Size(k) \in Nat /\ Size(s) \in Nat
  BY TextFacts
<1>11. Size(l) = Size(k) + 4 + Size(s)
  BY <1>8, <1>10
<1>12. ASSUME NEW T, NEW p, Len(T) \in Nat, Occ(T, p, l)
       PROVE  /\ p \in Nat \ {0} /\ T[p] = Quote /\ Occ(T, p + 1, k)
              /\ T[p + 1 + Size(k)] = Quote /\ T[p + Size(k) + 2] = Colon
              /\ T[p + Size(k) + 3] = Blank /\ Occ(T, p + Size(k) + 4, s)
  <2>1. Occ(T, p, g) /\ Occ(T, p + Size(g), s)
    BY <1>8, <1>12, OccJoin
  <2>2. Occ(T, p, h) /\ Occ(T, p + Size(h), u)
    BY <1>7, <1>12, <2>1, OccJoin
  <2>3. /\ p \in Nat \ {0} /\ T[p] = Quote /\ Occ(T, p + 1, k)
        /\ T[p + 1 + Size(k)] = Quote
    BY <1>1, <1>2, <1>12, <2>2, OccFramed
  <2>4. PICK p1 : p1 = p + Size(h)
    OBVIOUS
  <2>5. Occ(T, p1, b) /\ Occ(T, p1 + 1, e)
    BY <1>3, <1>5, <1>12, <2>2, <2>4, OccJoin
  <2>6. T[p1] = Colon /\ T[p1 + 1] = Blank
    BY <1>3, <1>4, <1>12, <2>5, OccUnit
  <2>7. p1 = p + Size(k) + 2 /\ p1 + 1 = p + Size(k) + 3 /\ p + Size(g) = p + Size(k) + 4
    BY <1>2, <1>7, <1>10, <2>3, <2>4
  <2>8. QED
    BY <2>1, <2>3, <2>6, <2>7
<1>13. QED
  BY <1>9, <1>11, <1>12

(* The parts of an object or array. *)
Parts(n) == IF n.type = "object" THEN Members(J!Serialize, n) ELSE Items(J!Serialize, n)
Kid(n, i) == IF n.type = "object" THEN n.members[Order(n)[i]] ELSE n.items[i]
IsKidOf(n, S, m) ==
  /\ m \in Nat /\ Len(Parts(n)) = m /\ DOMAIN Parts(n) = 1..m
  /\ \A i \in 1..m : Kid(n, i) \in S
  /\ \/ /\ n.type = "object" /\ n = J!JsonObject(n.members)
        /\ n.members = [k \in DOMAIN n.members |-> n.members[k]] /\ DOMAIN n.members \subseteq Names
        /\ DOMAIN n.members = {Order(n)[i] : i \in 1..m}
        /\ \A i, j \in 1..m : Order(n)[i] = Order(n)[j] => i = j
        /\ \A i \in 1..m : Parts(n)[i] = MemberText(Order(n)[i], J!Serialize[Kid(n, i)])
     \/ /\ n.type = "array" /\ n = J!JsonArray(n.items) /\ n.items = [i \in 1..m |-> n.items[i]]
        /\ \A i \in 1..m : Parts(n)[i] = J!Serialize[Kid(n, i)]

LEMMA PartsAre ==
  ASSUME NEW S, NEW n, KidsAmong(n, S)
  PROVE  \E m : IsKidOf(n, S, m)
<1>1. CASE n.type = "object" /\ KidsAmong(n, S)
  <2>1. /\ DOMAIN n.members \subseteq Names /\ n = J!JsonObject(n.members)
        /\ \A k \in DOMAIN n.members : n.members[k] \in S
        /\ n.members = [k \in DOMAIN n.members |-> n.members[k]]
    BY <1>1 DEF KidsAmong
  <2>2. IsFiniteSet(DOMAIN n.members)
    <3>1. IsFiniteSet(Names)
      BY JsonAssumption, Zenon
    <3>2. QED
      BY <2>1, <3>1, FS_Subset
  <2>3. PICK s : s = Order(n)
    OBVIOUS
  <2>4. PICK m \in Nat : /\ s \in [1..m -> DOMAIN n.members] /\ DOMAIN n.members = {s[i] : i \in 1..m}
                         /\ \A i, j \in 1..m : s[i] = s[j] => i = j
    BY <2>2, <2>3, NamesIn DEF Order
  <2>5. Parts(n) = [i \in 1..m |-> Member(J!Serialize, n, i)]
    BY <1>1, <2>3, <2>4 DEF Parts, Members
  <2>6. Len(Parts(n)) = m /\ DOMAIN Parts(n) = 1..m
    BY <2>5
  <2>7. \A i \in 1..m : Kid(n, i) = n.members[s[i]] /\ Kid(n, i) \in S
    BY <1>1, <2>1, <2>3, <2>4 DEF Kid
  <2>8. \A i \in 1..m : Parts(n)[i] = MemberText(s[i], J!Serialize[Kid(n, i)])
    <3>1. \A k : J!Quoted(k) = Framed(Quote, k, Quote)
      BY Zenon DEF J!Quoted, Framed, Quote
    <3>2. \A i \in 1..m : Member(J!Serialize, n, i) = MemberText(s[i], J!Serialize[Kid(n, i)])
      BY <2>3, <2>7, <3>1 DEF Member, MemberText, Join
    <3>3. QED
      BY <2>5, <3>2
  <2>9. /\ DOMAIN n.members = {Order(n)[i] : i \in 1..m}
        /\ \A i, j \in 1..m : Order(n)[i] = Order(n)[j] => i = j
        /\ \A i \in 1..m : Parts(n)[i] = MemberText(Order(n)[i], J!Serialize[Kid(n, i)])
    BY <2>3, <2>4, <2>8
  <2>10. \A i \in 1..m : Kid(n, i) \in S
    BY <2>7
  <2>11. IsKidOf(n, S, m)
    BY <1>1, <2>1, <2>6, <2>9, <2>10, Zenon DEF IsKidOf
  <2>12. QED
    BY <2>11
<1>2. CASE n.type = "array" /\ KidsAmong(n, S)
  <2>1. PICK m \in Nat : n = J!JsonArray(n.items) /\ n.items \in [1..m -> S]
    BY <1>2 DEF KidsAmong
  <2>2. Parts(n) = [i \in 1..m |-> J!Serialize[n.items[i]]]
    BY <1>2, <2>1 DEF Parts, Items
  <2>3. Len(Parts(n)) = m /\ DOMAIN Parts(n) = 1..m
    BY <2>2
  <2>4. \A i \in 1..m : Kid(n, i) = n.items[i] /\ Kid(n, i) \in S
    BY <1>2, <2>1 DEF Kid
  <2>5. n.items = [i \in 1..m |-> n.items[i]]
    BY <2>1
  <2>6. \A i \in 1..m : Parts(n)[i] = J!Serialize[Kid(n, i)]
    BY <2>2, <2>4
  <2>7. n = J!JsonArray(n.items) /\ n.type = "array" /\ m \in Nat
    BY <1>2, <2>1
  <2>8. IsKidOf(n, S, m)
    BY <2>3, <2>4, <2>5, <2>6, <2>7, Zenon DEF IsKidOf
  <2>9. QED
    BY <2>8
<1>3. n.type \in {"object", "array"}
  BY DEF KidsAmong
<1>4. QED
  BY <1>1, <1>2, <1>3

LEMMA ContainerText ==
  ASSUME NEW n \in Nodes, n.type \in {"object", "array"}
  PROVE  J!Serialize[n] = Framed(Opener(n), J!Separated(Parts(n)), Closer(n))
<1>1. J!Serialize[n] = Body(J!Serialize, n)
  BY Serialized
<1>2. QED
  BY <1>1 DEF Body, Opener, Closer, Parts

LEMMA PartTexts ==
  ASSUME NEW S, \A k \in S : J!Serialize[k] \in Texts, NEW n, NEW m, IsKidOf(n, S, m), NEW i \in 1..m
  PROVE  Parts(n)[i] \in Texts
<1>1. J!Serialize[Kid(n, i)] \in Texts
  BY DEF IsKidOf
<1>2. CASE n.type = "object"
  <2>1. Parts(n)[i] = MemberText(Order(n)[i], J!Serialize[Kid(n, i)]) /\ Order(n)[i] \in Names
    BY <1>2 DEF IsKidOf
  <2>2. Order(n)[i] \in Texts
    BY <2>1, NameFacts
  <2>3. QED
    BY <1>1, <2>1, <2>2, MemberFacts
<1>3. CASE n.type = "array"
  BY <1>1, <1>3 DEF IsKidOf
<1>4. QED
  BY <1>2, <1>3 DEF IsKidOf

(* Every node has a text, which does not begin with a blank. *)
HasText(n) == J!Serialize[n] \in Texts /\ Size(J!Serialize[n]) >= 1 /\ J!Serialize[n][1] # Blank

LEMMA BracketsAre ==
  ASSUME NEW n
  PROVE  /\ Opener(n) \in Chars /\ Closer(n) \in Chars /\ Opener(n) # Blank /\ Closer(n) # Blank
         /\ Opener(n) \in Marks /\ Closer(n) \in Marks
<1>1. Opener(n) \in Marks /\ Closer(n) \in Marks
  BY MarksDiffer DEF Opener, Closer
<1>2. Blank \notin Marks
  BY CharsDiffer
<1>3. QED
  BY <1>1, <1>2, CharsAre

LEMMA LeafText ==
  ASSUME NEW n \in J!Leaves, n \in Nodes
  PROVE  /\ HasText(n)
         /\ n.type = "string" => J!Serialize[n] = Framed(Quote, n.text, Quote) /\ n.text \in Texts
                                 /\ \A i \in 1..Len(n.text) : n.text[i] # Quote
         /\ n.type # "string" => J!Serialize[n] = n.text
<1>1. J!Serialize[n] = Body(J!Serialize, n)
  BY Serialized
<1>2. n.type \in Literal
  BY LeavesAre
<1>3. CASE n.type = "string"
  <2>1. J!Quoted(n.text) = Framed(Quote, n.text, Quote)
    BY Zenon DEF J!Quoted, Framed, Quote
  <2>2. J!Serialize[n] = Framed(Quote, n.text, Quote)
    BY <1>1, <1>3, <2>1 DEF Body
  <2>3. n.text \in Seq(Letter) /\ Quote \notin Letter
    <3>1. Quote \notin Letter
      BY JsonAssumption, Zenon DEF Quote
    <3>2. QED
      BY <1>3, <3>1, LeavesAre
  <2>4. \A i \in 1..Len(n.text) : n.text[i] \in Letter
    BY <2>3
  <2>5. n.text \in Texts
    BY <2>3, <2>4, CharsAre DEF Texts
  <2>6. Quote # Blank /\ Quote \in Chars
    BY CharsDiffer, CharsAre
  <2>7. HasText(n)
    BY <2>2, <2>5, <2>6, FramedFacts, TextFacts DEF HasText
  <2>8. QED
    BY <1>3, <2>2, <2>3, <2>4, <2>5, <2>7
<1>4. CASE n.type # "string"
  <2>1. n.type # "object" /\ n.type # "array"
    BY <1>2 DEF Literal
  <2>2. J!Serialize[n] = n.text
    BY <1>1, <1>4, <2>1 DEF Body
  <2>3. \E S : S \in {J!Digit, J!Keyword} /\ n.text \in Seq(S) /\ n.text # <<>>
    <3>1. CASE n.type = "number"
      BY <3>1, LeavesAre
    <3>2. CASE n.type = "keyword"
      <4>1. PICK k \in J!Keyword : n.text = <<k>>
        BY <3>2, LeavesAre
      <4>2. PICK S : S = J!Keyword
        OBVIOUS
      <4>3. <<k>> \in Seq(S) /\ <<k>> # <<>>
        BY <4>2
      <4>4. QED
        BY <4>1, <4>2, <4>3
    <3>3. QED
      BY <1>2, <1>4, <3>1, <3>2 DEF Literal
  <2>4. PICK S : S \in {J!Digit, J!Keyword} /\ n.text \in Seq(S) /\ n.text # <<>>
    BY <2>3
  <2>5. S \subseteq Chars /\ Blank \notin S
    BY <2>4, CharsAre, CharsDiffer
  <2>6. PICK t : t = n.text
    OBVIOUS
  <2>7. t \in Seq(Chars) /\ Len(t) >= 1 /\ t[1] \in S
    <3>1. t \in Seq(S) /\ t # <<>>
      BY <2>4, <2>6
    <3>2. Len(t) \in Nat /\ Len(t) # 0
      BY <3>1
    <3>3. \A i \in 1..Len(t) : t[i] \in S
      BY <3>1
    <3>4. 1 \in 1..Len(t)
      BY <3>2
    <3>5. QED
      BY <2>5, <3>1, <3>2, <3>3, <3>4
  <2>8. HasText(n)
    BY <2>2, <2>5, <2>6, <2>7 DEF HasText, Texts, Size
  <2>9. QED
    BY <1>4, <2>2, <2>8
<1>5. QED
  BY <1>3, <1>4

LEMMA ContainerHasText ==
  ASSUME NEW S, \A k \in S : J!Serialize[k] \in Texts, NEW n \in Nodes, KidsAmong(n, S)
  PROVE  HasText(n)
<1>1. PICK m : IsKidOf(n, S, m)
  BY PartsAre
<1>2. m \in Nat /\ Len(Parts(n)) = m /\ DOMAIN Parts(n) = 1..m /\ n.type \in {"object", "array"}
  BY <1>1 DEF IsKidOf
<1>3. \A i \in 1..m : Parts(n)[i] \in Texts
  BY <1>1, PartTexts
<1>4. PICK v \in Texts : v = J!Separated(Parts(n))
  <2>1. PICK T : T = Nil
    OBVIOUS
  <2>2. Len(T) \in Nat
    BY <2>1 DEF Nil
  <2>3. J!Separated(Parts(n)) \in Texts
    BY <1>2, <1>3, <2>2, SepLaid
  <2>4. QED
    BY <2>3
<1>5. J!Serialize[n] = Framed(Opener(n), v, Closer(n))
  BY <1>2, <1>4, ContainerText
<1>6. Size(v) \in Nat
  BY TextFacts
<1>7. PICK o \in Chars : o = Opener(n) /\ o # Blank
  BY BracketsAre
<1>8. PICK z \in Chars : z = Closer(n)
  BY BracketsAre
<1>9. PICK t : t = Framed(o, v, z)
  OBVIOUS
<1>10. t \in Texts /\ Size(t) = Size(v) + 2 /\ t[1] = o
  BY <1>9, FramedFacts
<1>11. Size(t) >= 1
  BY <1>6, <1>10
<1>12. J!Serialize[n] = t
  BY <1>5, <1>7, <1>8, <1>9
<1>13. QED
  BY <1>7, <1>10, <1>11, <1>12 DEF HasText

LEMMA AllHaveText == \A n \in Nodes : HasText(n)
<1>1. \A n \in J!Leaves : HasText(n) /\ J!Serialize[n] \in Texts
  BY LeafText, NodesAre DEF Nodes, HasText
<1>2. \A n \in J!Inner : HasText(n) /\ J!Serialize[n] \in Texts
  BY <1>1, ContainerHasText, NodesAre DEF Nodes, HasText
<1>3. QED
  BY <1>1, <1>2, ContainerHasText, NodesAre

(* Where the text of a node stands in T: at its place or behind a blank    *)
(* there, and no digit follows.                                            *)
StandsAt(T, w, s) ==
  /\ w[2] \in Nat \ {0} /\ s \in {w[2], w[2] + 1} /\ (s = w[2] + 1 => T[w[2]] = Blank)
  /\ Occ(T, s, J!Serialize[w[1]]) /\ w[3] = s + Size(J!Serialize[w[1]])
  /\ w[3] <= Len(T) => T[w[3]] \notin J!Digit
Standing(T) == {w \in Nodes \X Nat \X Nat : \E s \in Nat : StandsAt(T, w, s)}

LEMMA StandsSkips ==
  ASSUME NEW T, Len(T) \in Nat, NEW w, w[1] \in Nodes, NEW s \in Nat, StandsAt(T, w, s)
  PROVE  /\ Skips(T, w[2], s) /\ s \in Nat \ {0} /\ w[3] \in Nat /\ w[3] <= Len(T) + 1
         /\ T[s] = J!Serialize[w[1]][1]
<1>1. PICK t : t = J!Serialize[w[1]]
  OBVIOUS
<1>2. t \in Texts /\ Size(t) >= 1 /\ t[1] # Blank
  BY <1>1, AllHaveText DEF HasText
<1>3. PICK l \in Nat : l = Size(t)
  BY <1>2, TextFacts
<1>4. Len(t) = l /\ l >= 1
  BY <1>2, <1>3 DEF Size
<1>5. Occ(T, s, t) /\ w[3] = s + l /\ w[2] \in Nat \ {0} /\ s \in {w[2], w[2] + 1} /\ (s = w[2] + 1 => T[w[2]] = Blank)
  BY <1>1, <1>3 DEF StandsAt
<1>6. s \in Nat \ {0} /\ s + l <= Len(T) + 1 /\ \A i \in 1..l : T[s + i - 1] = t[i]
  BY <1>4, <1>5 DEF Occ
<1>7. 1 \in 1..l /\ s + 1 - 1 = s
  BY <1>4
<1>8. T[s] = t[1]
  BY <1>6, <1>7
<1>9. Skips(T, w[2], s)
  BY <1>2, <1>4, <1>5, <1>6, <1>8 DEF Skips
<1>10. QED
  BY <1>1, <1>5, <1>6, <1>8, <1>9

LEMMA LeafStands ==
  ASSUME NEW T, Len(T) \in Nat, NEW w, w[1] \in Nodes, w[1] \in J!Leaves, NEW s \in Nat, StandsAt(T, w, s)
  PROVE  LeafAt(T, w)
<1>1. PICK n : n = w[1]
  OBVIOUS
<1>2. n.type \in Literal /\ n = J!Simple(n)
  BY <1>1, LeavesAre
<1>3. PICK t : t = J!Serialize[n]
  OBVIOUS
<1>4. /\ Skips(T, w[2], s) /\ s \in Nat \ {0} /\ w[3] \in Nat /\ w[3] <= Len(T) + 1
      /\ Occ(T, s, t) /\ w[3] = s + Size(t) /\ (w[3] <= Len(T) => T[w[3]] \notin J!Digit)
  <2>1. Occ(T, s, t) /\ w[3] = s + Size(t) /\ (w[3] <= Len(T) => T[w[3]] \notin J!Digit)
    BY <1>1, <1>3 DEF StandsAt
  <2>2. QED
    BY <2>1, StandsSkips
<1>5. CASE n.type = "string"
  <2>1. PICK x1 \in Texts : x1 = n.text /\ t = Framed(Quote, x1, Quote) /\ \A i \in 1..Len(x1) : x1[i] # Quote
    BY <1>1, <1>3, <1>5, LeafText
  <2>2. PICK k \in Nat : k = Size(x1) /\ k = Len(x1)
    BY TextFacts DEF Size
  <2>3. Quote \in Chars
    BY CharsAre
  <2>4. /\ T[s] = Quote /\ Occ(T, s + 1, x1) /\ T[s + 1 + k] = Quote
    <3>1. Occ(T, s, Framed(Quote, x1, Quote))
      BY <1>4, <2>1
    <3>2. /\ s \in Nat \ {0} /\ T[s] = Quote /\ Occ(T, s + 1, x1)
          /\ T[s + 1 + Size(x1)] = Quote /\ s + 1 + Size(x1) <= Len(T)
      BY <2>3, <3>1, OccFramed, Zenon
    <3>3. QED
      BY <2>2, <3>2
  <2>5. Size(t) = k + 2
    <3>1. Size(Framed(Quote, x1, Quote)) = Size(x1) + 2
      BY <2>3, FramedFacts, Zenon
    <3>2. QED
      BY <2>1, <2>2, <3>1
  <2>6. x1 = [i \in 1..k |-> T[s + i]]
    <3>1. x1 = [i \in 1..k |-> x1[i]]
      BY <2>2 DEF Texts
    <3>2. PICK b : b = s + 1
      OBVIOUS
    <3>3. \A i \in 1..k : T[b + i - 1] = x1[i]
      BY <2>2, <2>4, <3>2 DEF Occ
    <3>4. \A i \in 1..k : b + i - 1 = s + i
      BY <1>4, <3>2
    <3>5. QED
      BY <3>1, <3>3, <3>4
  <2>7. \A i \in 1..k : T[s + i] # Quote
    <3>1. \A i \in 1..k : x1[i] = T[s + i]
      BY <2>6
    <3>2. QED
      BY <2>1, <2>2, <3>1
  <2>8. s + k + 1 = s + 1 + k /\ w[3] = s + k + 2
    BY <1>4, <2>5
  <2>9. Str(T, s, x1, w[3])
    BY <2>4, <2>6, <2>7, <2>8 DEF Str
  <2>10. Token(T, w[2], "string", x1, w[3])
    BY <1>4, <2>9 DEF Token
  <2>11. QED
    BY <1>1, <1>2, <1>5, <2>1, <2>10 DEF LeafAt
<1>6. CASE n.type = "number"
  <2>1. t = n.text /\ t \in Seq(J!Digit) /\ t # <<>>
    BY <1>1, <1>3, <1>6, LeafText, LeavesAre
  <2>2. PICK k \in Nat \ {0} : k = Len(t)
    BY <2>1
  <2>3. Occ(T, s, t) /\ w[3] = s + k
    BY <1>4, <2>2 DEF Size
  <2>4. \A i \in 1..k : T[s + i - 1] = t[i] /\ t[i] \in J!Digit
    BY <2>1, <2>2, <2>3 DEF Occ
  <2>5. t = [i \in 1..k |-> T[s + i - 1]]
    <3>1. t = [i \in 1..k |-> t[i]]
      BY <2>1, <2>2
    <3>2. QED
      BY <2>4, <3>1
  <2>6. \A i \in 1..k : T[s + i - 1] \in J!Digit
    BY <2>4
  <2>7. Num(T, s, t, w[3])
    BY <1>4, <2>3, <2>5, <2>6 DEF Num
  <2>8. Token(T, w[2], "number", t, w[3])
    BY <1>4, <2>7 DEF Token
  <2>9. QED
    BY <1>1, <1>2, <1>6, <2>1, <2>8 DEF LeafAt
<1>7. CASE n.type = "keyword"
  <2>1. PICK k \in J!Keyword : t = <<k>> /\ t = n.text
    BY <1>1, <1>3, <1>7, LeafText, LeavesAre
  <2>2. Len(t) = 1 /\ t[1] = k /\ 1 \in 1..1
    BY <2>1
  <2>3. T[s + 1 - 1] = k /\ w[3] = s + 1
    BY <1>4, <2>2 DEF Occ, Size
  <2>4. T[s] = k
    <3>1. s + 1 - 1 = s
      BY <1>4
    <3>2. QED
      BY <2>3, <3>1
  <2>5. Token(T, w[2], "keyword", t, w[3])
    BY <1>4, <2>1, <2>3, <2>4 DEF Token
  <2>6. QED
    BY <1>1, <1>2, <1>7, <2>1, <2>5 DEF LeafAt
<1>8. QED
  BY <1>2, <1>5, <1>6, <1>7 DEF Literal

(* A mark is a token. *)
LEMMA MarkToken ==
  ASSUME NEW T, Len(T) \in Nat, NEW p \in Nat \ {0}, NEW s \in {p, p + 1}, s = p + 1 => T[p] = Blank,
         s <= Len(T), NEW m \in Marks, T[s] = m
  PROVE  Token(T, p, m, <<>>, s + 1)
<1>1. s \in Nat
  OBVIOUS
<1>2. m # Blank
  BY CharsDiffer
<1>3. Skips(T, p, s)
  BY <1>2 DEF Skips
<1>4. s + 1 \in Nat /\ s + 1 <= Len(T) + 1
  BY <1>1
<1>5. PICK e : e = s + 1
  OBVIOUS
<1>6. Token(T, p, m, <<>>, e)
  BY <1>1, <1>3, <1>4, <1>5 DEF Token
<1>7. QED
  BY <1>5, <1>6

(* The name of a member. *)
LEMMA NameToken ==
  ASSUME NEW T, Len(T) \in Nat, NEW p \in Nat \ {0}, T[p] = Blank, NEW k \in Names,
         T[p + 1] = Quote, Occ(T, p + 2, k), T[p + 2 + Size(k)] = Quote, p + 2 + Size(k) <= Len(T)
  PROVE  Token(T, p, "string", k, p + 3 + Size(k))
<1>1. k \in Texts /\ \A i \in 1..Len(k) : k[i] # Quote
  BY NameFacts
<1>2. PICK l \in Nat : l = Size(k) /\ l = Len(k)
  BY <1>1, TextFacts DEF Size
<1>3. PICK s \in Nat : s = p + 1
  OBVIOUS
<1>4. T[s] = Quote /\ T[s + l + 1] = Quote /\ s <= Len(T)
  <2>1. s + l + 1 = p + 2 + l
    BY <1>3
  <2>2. QED
    BY <1>2, <1>3, <2>1
<1>5. k = [i \in 1..l |-> T[s + i]]
  <2>1. k = [i \in 1..l |-> k[i]]
    BY <1>1, <1>2 DEF Texts
  <2>2. \A i \in 1..l : T[(p + 2) + i - 1] = k[i]
    BY <1>2 DEF Occ
  <2>3. \A i \in 1..l : (p + 2) + i - 1 = s + i
    BY <1>3
  <2>4. QED
    BY <2>1, <2>2, <2>3
<1>6. \A i \in 1..l : T[s + i] # Quote
  <2>1. \A i \in 1..l : k[i] = T[s + i]
    BY <1>5
  <2>2. QED
    BY <1>1, <1>2, <2>1
<1>7. PICK e \in Nat : e = s + l + 2
  OBVIOUS
<1>8. Str(T, s, k, e)
  BY <1>4, <1>5, <1>6, <1>7 DEF Str
<1>9. Blank # Quote
  BY CharsDiffer
<1>10. Skips(T, p, s)
  BY <1>3, <1>4, <1>9 DEF Skips
<1>11. e <= Len(T) + 1 /\ e = p + 3 + l
  BY <1>2, <1>3, <1>7
<1>12. Token(T, p, "string", k, e)
  BY <1>8, <1>10, <1>11 DEF Token
<1>13. QED
  BY <1>2, <1>11, <1>12

(* The layout of an object or array whose text stands in T. *)
LEMMA Opened ==
  ASSUME NEW T, Len(T) \in Nat, NEW w, w[1] \in Nodes, NEW m, IsKidOf(w[1], J!Inner, m),
         NEW s \in Nat, StandsAt(T, w, s)
  PROVE  /\ Token(T, w[2], Opener(w[1]), <<>>, s + 1)
         /\ \E to : /\ Spread(T, s + 1, Parts(w[1]), m, to) /\ w[3] = to[m] + 1
                    /\ T[to[m]] = Closer(w[1]) /\ to[m] <= Len(T)
<1>1. PICK n \in Nodes : n = w[1]
  OBVIOUS
<1>2. m \in Nat /\ Len(Parts(n)) = m /\ DOMAIN Parts(n) = 1..m /\ n.type \in {"object", "array"}
  BY <1>1 DEF IsKidOf
<1>3. \A k \in J!Inner : J!Serialize[k] \in Texts
  BY AllHaveText DEF HasText, Nodes
<1>4. \A i \in 1..m : Parts(n)[i] \in Texts
  BY <1>1, <1>3, PartTexts
<1>5. PICK v \in Texts : v = J!Separated(Parts(n))
  BY <1>2, <1>4, SepLaid
<1>6. PICK o \in Chars : o = Opener(n) /\ o \in Marks
  BY BracketsAre
<1>7. PICK z \in Chars : z = Closer(n)
  BY BracketsAre
<1>8. J!Serialize[n] = Framed(o, v, z)
  BY <1>2, <1>5, <1>6, <1>7, ContainerText
<1>9. Occ(T, s, Framed(o, v, z)) /\ w[3] = s + Size(Framed(o, v, z))
  BY <1>1, <1>8 DEF StandsAt
<1>10. /\ s \in Nat \ {0} /\ T[s] = o /\ Occ(T, s + 1, v)
       /\ T[s + 1 + Size(v)] = z /\ s + 1 + Size(v) <= Len(T)
  BY <1>9, OccFramed
<1>11. Size(Framed(o, v, z)) = Size(v) + 2 /\ Size(v) \in Nat
  BY FramedFacts, TextFacts
<1>12. PICK p : p = s + 1
  OBVIOUS
<1>13. PICK to : Spread(T, p, Parts(n), m, to) /\ to[m] = p + Size(v)
  BY <1>2, <1>4, <1>5, <1>10, <1>12, SepLaid
<1>14. to[m] = s + 1 + Size(v) /\ w[3] = to[m] + 1
  BY <1>9, <1>10, <1>11, <1>12, <1>13
<1>15. Token(T, w[2], o, <<>>, s + 1)
  <2>1. w[2] \in Nat \ {0} /\ s \in {w[2], w[2] + 1} /\ (s = w[2] + 1 => T[w[2]] = Blank)
    BY DEF StandsAt
  <2>2. s <= Len(T)
    BY <1>10, <1>11
  <2>3. QED
    BY <1>6, <1>10, <2>1, <2>2, MarkToken
<1>16. QED
  BY <1>1, <1>6, <1>7, <1>10, <1>12, <1>13, <1>14, <1>15

(* Behind a part there is a comma; behind the last one a blank and the     *)
(* closing mark.                                                           *)
LEMMA Behind ==
  ASSUME NEW T, Len(T) \in Nat, NEW p, NEW parts, NEW m \in Nat, NEW to, Spread(T, p, parts, m, to),
         NEW n, T[to[m]] = Closer(n), to[m] <= Len(T), NEW i \in 1..m, to[i] > 1, to[i] - 1 <= Len(T)
  PROVE  /\ i < m => Token(T, to[i] - 1, Comma, <<>>, to[i])
         /\ i = m => Token(T, to[i] - 1, Closer(n), <<>>, to[i] + 1)
         /\ T[to[i] - 1] \notin J!Digit
<1>1. PICK q \in Nat \ {0} : q = to[i] - 1
  BY DEF Spread
<1>2. T[q] = EndOf(i, m) /\ to[i] = q + 1
  BY <1>1 DEF Spread
<1>3. T[q] \notin J!Digit
  BY <1>2, EndOfIs
<1>4. ASSUME i < m
      PROVE  Token(T, q, Comma, <<>>, q + 1)
  <2>1. T[q] = Comma /\ Comma \in Marks /\ q <= Len(T)
    BY <1>1, <1>2, <1>4, MarksDiffer DEF EndOf
  <2>2. q \in {q, q + 1} /\ ~(q = q + 1)
    OBVIOUS
  <2>3. QED
    BY <2>1, <2>2, MarkToken
<1>5. ASSUME i = m
      PROVE  Token(T, q, Closer(n), <<>>, (q + 1) + 1)
  <2>1. T[q] = Blank /\ T[q + 1] = Closer(n) /\ Closer(n) \in Marks /\ q + 1 <= Len(T)
    BY <1>2, <1>5, BracketsAre DEF EndOf
  <2>2. PICK s \in {q, q + 1} : s = q + 1
    OBVIOUS
  <2>3. Token(T, q, Closer(n), <<>>, s + 1)
    BY <2>1, <2>2, MarkToken
  <2>4. QED
    BY <2>2, <2>3
<1>6. QED
  BY <1>1, <1>2, <1>3, <1>4, <1>5

LEMMA SpreadSizes ==
  ASSUME NEW T, Len(T) \in Nat, NEW p, NEW parts, NEW m \in Nat, NEW to, Spread(T, p, parts, m, to),
         \A i \in 1..m : parts[i] \in Texts, to[m] <= Len(T), NEW i \in 1..m
  PROVE  /\ to[i - 1] \in Nat \ {0} /\ to[i] \in Nat \ {0} /\ Size(parts[i]) \in Nat
         /\ to[i] = to[i - 1] + Size(parts[i]) + 2 /\ to[i] > 1 /\ to[i] <= Len(T)
<1>1. i \in 0..m /\ i - 1 \in 0..m
  OBVIOUS
<1>2. to[i - 1] \in Nat \ {0} /\ to[i] \in Nat \ {0} /\ to[i] = to[i - 1] + Size(parts[i]) + 2
  BY <1>1 DEF Spread
<1>3. Size(parts[i]) \in Nat
  BY TextFacts
<1>4. to[i] <= Len(T)
  <2>1. CASE i = m
    BY <2>1
  <2>2. CASE i # m
    <3>1. PICK j \in 1..m : j = i + 1 /\ j - 1 = i
      BY <2>2
    <3>2. Occ(T, to[i] + 1, parts[j])
      BY <3>1 DEF Spread
    <3>3. Len(parts[j]) \in Nat
      BY DEF Texts
    <3>4. (to[i] + 1) + Len(parts[j]) <= Len(T) + 1
      BY <3>2 DEF Occ
    <3>5. QED
      BY <1>2, <3>3, <3>4
  <2>3. QED
    BY <2>1, <2>2
<1>5. QED
  BY <1>2, <1>3, <1>4

LEMMA Placed ==
  ASSUME NEW T, Len(T) \in Nat, NEW n \in Nodes, NEW p \in Nat \ {0}, T[p] = Blank,
         NEW e \in Nat, Occ(T, p + 1, J!Serialize[n]), e = p + 1 + Size(J!Serialize[n]), T[e] \notin J!Digit
  PROVE  <<n, p, e>> \in Standing(T)
<1>1. PICK w : w = <<n, p, e>>
  OBVIOUS
<1>2. w \in Nodes \X Nat \X Nat /\ w[1] = n /\ w[2] = p /\ w[3] = e
  BY <1>1
<1>3. PICK s \in Nat : s = p + 1
  OBVIOUS
<1>4. StandsAt(T, w, s)
  BY <1>2, <1>3 DEF StandsAt
<1>5. QED
  BY <1>1, <1>2, <1>4 DEF Standing

(* An object whose text stands in T. *)
LEMMA ObjectStands ==
  ASSUME NEW T, Len(T) \in Nat, NEW w, w[1] \in Nodes, w[1].type = "object",
         NEW m \in Nat, IsKidOf(w[1], J!Inner, m), NEW s \in Nat, StandsAt(T, w, s)
  PROVE  \E L : Laid(T, Standing(T), w, L)
<1>1. PICK n \in Nodes : n = w[1]
  OBVIOUS
<1>2. /\ \A i \in 1..m : Kid(n, i) \in J!Inner
      /\ n = J!JsonObject(n.members)
      /\ n.members = [k \in DOMAIN n.members |-> n.members[k]] /\ DOMAIN n.members \subseteq Names
      /\ DOMAIN n.members = {Order(n)[i] : i \in 1..m}
      /\ \A i, j \in 1..m : Order(n)[i] = Order(n)[j] => i = j
      /\ \A i \in 1..m : Parts(n)[i] = MemberText(Order(n)[i], J!Serialize[Kid(n, i)])
  BY <1>1 DEF IsKidOf
<1>3. \A k \in J!Inner : k \in Nodes /\ J!Serialize[k] \in Texts
  BY AllHaveText DEF HasText, Nodes
<1>4. \A i \in 1..m : Parts(n)[i] \in Texts
  BY <1>1, <1>3, PartTexts
<1>5. Token(T, w[2], Opener(n), <<>>, s + 1)
  BY <1>1, Opened
<1>6. PICK to : /\ Spread(T, s + 1, Parts(n), m, to) /\ w[3] = to[m] + 1
                /\ T[to[m]] = Closer(n) /\ to[m] <= Len(T)
  BY <1>1, Opened
<1>7. s + 1 \in Nat \ {0} /\ to[0] = s + 1
  BY <1>6 DEF Spread
<1>8. PICK at : at = [i \in 1..m+1 |-> to[i - 1]]
  OBVIOUS
<1>9. PICK colon : colon = [i \in 1..m |-> to[i - 1] + 3 + Size(Order(n)[i])]
  OBVIOUS
<1>10. PICK kid : kid = [i \in 1..m |-> <<Kid(n, i), colon[i] + 1, to[i] - 1>>]
  OBVIOUS
<1>11. PICK L : L = [size |-> m, at |-> at, colon |-> colon, name |-> Order(n), kid |-> kid]
  OBVIOUS
<1>12. L.size = m /\ L.at = at /\ L.colon = colon /\ L.name = Order(n) /\ L.kid = kid
  BY <1>11
<1>13. at[1] = s + 1 /\ \A i \in 1..m : at[i] = to[i - 1] /\ at[i + 1] = to[i]
  <2>1. 1 \in 1..m+1 /\ 1 - 1 = 0
    OBVIOUS
  <2>2. \A i \in 1..m : i \in 1..m+1 /\ i + 1 \in 1..m+1 /\ (i + 1) - 1 = i
    OBVIOUS
  <2>3. QED
    BY <1>7, <1>8, <2>1, <2>2
<1>14. \A i \in 1..m : kid[i][1] = Kid(n, i) /\ kid[i][2] = colon[i] + 1 /\ kid[i][3] = to[i] - 1
  BY <1>10
<1>15. ASSUME NEW i \in 1..m
       PROVE  /\ kid[i] \in Standing(T)
              /\ Token(T, at[i], "string", Order(n)[i], colon[i]) /\ Token(T, colon[i], Colon, <<>>, colon[i] + 1)
              /\ i < m => Token(T, kid[i][3], Comma, <<>>, at[i + 1])
              /\ i = m => Token(T, kid[i][3], Closer(n), <<>>, w[3])
  <2>1. PICK k \in Names : k = Order(n)[i]
    BY <1>2
  <2>2. PICK x1 \in Texts : x1 = J!Serialize[Kid(n, i)] /\ Kid(n, i) \in Nodes
    BY <1>2, <1>3
  <2>3. k \in Texts
    BY NameFacts
  <2>4. PICK l \in Nat : l = Size(k)
    BY <2>3, TextFacts
  <2>5. PICK h \in Nat : h = Size(x1)
    BY TextFacts
  <2>6. Parts(n)[i] = MemberText(k, x1) /\ Size(Parts(n)[i]) = l + 4 + h
    BY <1>2, <2>1, <2>2, <2>3, <2>4, <2>5, MemberFacts
  <2>7. PICK b \in Nat \ {0} : b = to[i - 1] /\ to[i] = b + (l + 4 + h) + 2 /\ to[i] > 1 /\ to[i] <= Len(T)
    <3>1. PICK parts : parts = Parts(n)
      OBVIOUS
    <3>2. PICK p : p = s + 1
      OBVIOUS
    <3>3. Spread(T, p, parts, m, to) /\ \A j \in 1..m : parts[j] \in Texts
      BY <1>4, <1>6, <3>1, <3>2
    <3>4. /\ to[i - 1] \in Nat \ {0} /\ to[i] \in Nat \ {0} /\ Size(parts[i]) \in Nat
          /\ to[i] = to[i - 1] + Size(parts[i]) + 2 /\ to[i] > 1 /\ to[i] <= Len(T)
      BY <1>6, <3>3, SpreadSizes
    <3>5. QED
      BY <2>6, <3>1, <3>4
  <2>8. T[b] = Blank /\ Occ(T, b + 1, MemberText(k, x1))
    BY <1>6, <2>6, <2>7 DEF Spread
  <2>9. PICK p : p = b + 1
    OBVIOUS
  <2>10. /\ T[p] = Quote /\ Occ(T, p + 1, k) /\ T[p + 1 + l] = Quote /\ T[p + l + 2] = Colon
         /\ T[p + l + 3] = Blank /\ Occ(T, p + l + 4, x1)
    <3>1. Len(T) \in Nat /\ Occ(T, p, MemberText(k, x1))
      BY <2>8, <2>9
    <3>2. /\ p \in Nat \ {0} /\ T[p] = Quote /\ Occ(T, p + 1, k)
          /\ T[p + 1 + Size(k)] = Quote /\ T[p + Size(k) + 2] = Colon
          /\ T[p + Size(k) + 3] = Blank /\ Occ(T, p + Size(k) + 4, x1)
      BY <2>3, <3>1, MemberFacts, Zenon
    <3>3. QED
      BY <2>4, <3>2
  <2>11. PICK q \in Nat \ {0} : q = b + 3 + l
    OBVIOUS
  <2>12. /\ p + 1 = b + 2 /\ p + 1 + l = b + 2 + l /\ p + l + 2 = q /\ p + l + 3 = q + 1 /\ p + l + 4 = (q + 1) + 1
         /\ to[i] - 1 = (q + 1) + 1 + h /\ b + 2 + l <= Len(T) /\ q <= Len(T)
    <3>1. PICK u \in Nat : u = to[i] /\ u = b + (l + 4 + h) + 2
      BY <2>7
    <3>2. PICK len \in Nat : len = Len(T)
      OBVIOUS
    <3>3. u <= len
      BY <2>7, <3>1, <3>2
    <3>4. /\ p + 1 = b + 2 /\ p + 1 + l = b + 2 + l /\ p + l + 2 = q /\ p + l + 3 = q + 1
          /\ p + l + 4 = (q + 1) + 1
      BY <2>9, <2>11
    <3>5. u - 1 = (q + 1) + 1 + h /\ b + 2 + l <= len /\ q <= len
      <4>1. b \in Nat
        OBVIOUS
      <4>2. l \in Nat /\ h \in Nat
        OBVIOUS
      <4>3. q = b + 3 + l
        BY <2>11
      <4>4. u = b + (l + 4 + h) + 2
        BY <3>1
      <4>5. u \in Nat /\ len \in Nat
        OBVIOUS
      <4>6. QED
        BY ONLY <3>3, <4>1, <4>2, <4>3, <4>4, <4>5
    <3>6. QED
      BY <3>1, <3>2, <3>4, <3>5
  <2>13. colon[i] = q
    BY <1>9, <2>1, <2>4, <2>7, <2>11
  <2>14. Token(T, b, "string", k, b + 3 + Size(k))
    BY <2>4, <2>8, <2>9, <2>10, <2>12, NameToken
  <2>15. Token(T, q, Colon, <<>>, q + 1)
    <3>1. T[q] = Colon /\ Colon \in Marks /\ q \in {q, q + 1} /\ ~(q = q + 1)
      BY <2>10, <2>12, MarksDiffer
    <3>2. QED
      BY <2>12, <3>1, MarkToken
  <2>16. PICK e \in Nat : e = to[i] - 1
    BY <2>7
  <2>17. /\ i < m => Token(T, e, Comma, <<>>, to[i])
         /\ i = m => Token(T, e, Closer(n), <<>>, to[i] + 1)
         /\ T[e] \notin J!Digit
    <3>1. to[i] - 1 <= Len(T)
      BY <2>7
    <3>2. QED
      <4>1. PICK p1 : p1 = s + 1
        OBVIOUS
      <4>2. PICK parts : parts = Parts(n)
        OBVIOUS
      <4>3. Spread(T, p1, parts, m, to)
        BY <1>6, <4>1, <4>2
      <4>4. /\ i < m => Token(T, to[i] - 1, Comma, <<>>, to[i])
            /\ i = m => Token(T, to[i] - 1, Closer(n), <<>>, to[i] + 1)
            /\ T[to[i] - 1] \notin J!Digit
        BY <1>6, <2>7, <2>16, <3>1, <4>3, Behind
      <4>5. QED
        BY <2>7, <2>16, <4>4
  <2>18. <<Kid(n, i), q + 1, e>> \in Standing(T)
    <3>1. PICK r \in Nat \ {0} : r = q + 1
      OBVIOUS
    <3>2. T[r] = Blank /\ Occ(T, r + 1, x1) /\ e = r + 1 + Size(x1)
      BY <2>5, <2>10, <2>12, <2>16, <3>1
    <3>3. QED
      BY <2>2, <2>17, <3>1, <3>2, Placed
  <2>19. kid[i] = <<Kid(n, i), q + 1, e>>
    BY <1>10, <2>13, <2>16
  <2>20. kid[i][3] = e /\ at[i] = b /\ at[i + 1] = to[i]
    BY <1>13, <1>14, <2>7, <2>16
  <2>21. Token(T, at[i], "string", Order(n)[i], colon[i])
    BY <2>1, <2>4, <2>11, <2>13, <2>14, <2>20
  <2>22. i = m => w[3] = to[i] + 1
    BY <1>6
  <2>23. QED
    BY <2>13, <2>15, <2>17, <2>18, <2>19, <2>20, <2>21, <2>22
<1>16. ASSUME m = 0
       PROVE  Token(T, s + 1, Closer(n), <<>>, w[3]) /\ T[s + 1] # Blank
  <2>1. PICK p \in Nat \ {0} : p = s + 1
    BY <1>7
  <2>2. T[p] = Closer(n) /\ w[3] = p + 1 /\ p <= Len(T)
    BY <1>6, <1>7, <1>16, <2>1
  <2>3. Closer(n) \in Marks /\ Closer(n) # Blank /\ p \in {p, p + 1} /\ ~(p = p + 1)
    BY BracketsAre
  <2>4. Token(T, p, Closer(n), <<>>, p + 1)
    BY <2>2, <2>3, MarkToken
  <2>5. QED
    BY <2>1, <2>2, <2>3, <2>4
<1>17. ObjectLaid(T, n, L)
  <2>1. \A i \in 1..m : n.members[Order(n)[i]] = kid[i][1]
    BY <1>1, <1>14 DEF Kid
  <2>2. \A i \in 1..m : /\ Token(T, at[i], "string", Order(n)[i], colon[i])
                        /\ Token(T, colon[i], Colon, <<>>, kid[i][2])
    BY <1>14, <1>15
  <2>3. QED
    <3>1. DOMAIN n.members = {L.name[i] : i \in 1..L.size} /\ \A i, j \in 1..L.size : L.name[i] = L.name[j] => i = j
      BY <1>2, <1>12
    <3>2. \A i \in 1..L.size : /\ n.members[L.name[i]] = L.kid[i][1]
                               /\ Token(T, L.at[i], "string", L.name[i], L.colon[i])
                               /\ Token(T, L.colon[i], Colon, <<>>, L.kid[i][2])
      BY <1>12, <2>1, <2>2
    <3>3. n = J!JsonObject(n.members) /\ n.members = [k \in DOMAIN n.members |-> n.members[k]]
      BY <1>2
    <3>4. QED
      BY <3>1, <3>2, <3>3, Zenon DEF ObjectLaid
<1>18. Token(T, w[2], Opener(w[1]), <<>>, L.at[1])
  BY <1>1, <1>5, <1>12, <1>13
<1>19. L.size = 0 => Token(T, L.at[1], Closer(w[1]), <<>>, w[3]) /\ T[L.at[1]] # Blank
  BY <1>1, <1>12, <1>13, <1>16
<1>20. \A i \in 1..L.size : /\ L.kid[i] \in Standing(T)
                            /\ i < L.size => Token(T, L.kid[i][3], Comma, <<>>, L.at[i + 1])
                            /\ i = L.size => Token(T, L.kid[i][3], Closer(w[1]), <<>>, w[3])
  BY <1>1, <1>12, <1>15
<1>21. L.size \in Nat /\ w[1].type = "object" /\ ObjectLaid(T, w[1], L)
  BY <1>1, <1>12, <1>17
<1>22. Laid(T, Standing(T), w, L)
  BY <1>18, <1>19, <1>20, <1>21, Zenon DEF Laid
<1>23. QED
  BY <1>22

(* And an array. *)
LEMMA ArrayStands ==
  ASSUME NEW T, Len(T) \in Nat, NEW w, w[1] \in Nodes, w[1].type = "array",
         NEW m \in Nat, IsKidOf(w[1], J!Inner, m), NEW s \in Nat, StandsAt(T, w, s)
  PROVE  \E L : Laid(T, Standing(T), w, L)
<1>1. PICK n \in Nodes : n = w[1]
  OBVIOUS
<1>2. /\ \A i \in 1..m : Kid(n, i) \in J!Inner
      /\ n = J!JsonArray(n.items) /\ n.items = [i \in 1..m |-> n.items[i]]
      /\ \A i \in 1..m : Parts(n)[i] = J!Serialize[Kid(n, i)]
  BY <1>1 DEF IsKidOf
<1>3. \A k \in J!Inner : k \in Nodes /\ J!Serialize[k] \in Texts
  BY AllHaveText DEF HasText, Nodes
<1>4. \A i \in 1..m : Parts(n)[i] \in Texts
  BY <1>1, <1>3, PartTexts
<1>5. Token(T, w[2], Opener(n), <<>>, s + 1)
  BY <1>1, Opened
<1>6. PICK to : /\ Spread(T, s + 1, Parts(n), m, to) /\ w[3] = to[m] + 1
                /\ T[to[m]] = Closer(n) /\ to[m] <= Len(T)
  BY <1>1, Opened
<1>7. s + 1 \in Nat \ {0} /\ to[0] = s + 1
  BY <1>6 DEF Spread
<1>8. PICK at : at = [i \in 1..m+1 |-> to[i - 1]]
  OBVIOUS
<1>9. PICK kid : kid = [i \in 1..m |-> <<Kid(n, i), to[i - 1], to[i] - 1>>]
  OBVIOUS
<1>10. PICK L : L = [size |-> m, at |-> at, kid |-> kid]
  OBVIOUS
<1>11. L.size = m /\ L.at = at /\ L.kid = kid
  BY <1>10
<1>12. at[1] = s + 1 /\ \A i \in 1..m : at[i] = to[i - 1] /\ at[i + 1] = to[i]
  <2>1. 1 \in 1..m+1 /\ 1 - 1 = 0
    OBVIOUS
  <2>2. \A i \in 1..m : i \in 1..m+1 /\ i + 1 \in 1..m+1 /\ (i + 1) - 1 = i
    OBVIOUS
  <2>3. QED
    BY <1>7, <1>8, <2>1, <2>2
<1>13. \A i \in 1..m : kid[i][1] = Kid(n, i) /\ kid[i][2] = to[i - 1] /\ kid[i][3] = to[i] - 1
  BY <1>9
<1>14. ASSUME NEW i \in 1..m
       PROVE  /\ kid[i] \in Standing(T)
              /\ i < m => Token(T, kid[i][3], Comma, <<>>, at[i + 1])
              /\ i = m => Token(T, kid[i][3], Closer(n), <<>>, w[3])
  <2>1. PICK x1 \in Texts : x1 = J!Serialize[Kid(n, i)] /\ x1 = Parts(n)[i] /\ Kid(n, i) \in Nodes
    BY <1>2, <1>3
  <2>2. PICK h \in Nat : h = Size(x1)
    BY TextFacts
  <2>3. PICK b \in Nat \ {0} : b = to[i - 1] /\ to[i] = b + h + 2 /\ to[i] > 1 /\ to[i] <= Len(T)
    <3>1. PICK parts : parts = Parts(n)
      OBVIOUS
    <3>2. PICK p : p = s + 1
      OBVIOUS
    <3>3. Spread(T, p, parts, m, to) /\ \A j \in 1..m : parts[j] \in Texts
      BY <1>4, <1>6, <3>1, <3>2
    <3>4. /\ to[i - 1] \in Nat \ {0} /\ to[i] \in Nat \ {0} /\ Size(parts[i]) \in Nat
          /\ to[i] = to[i - 1] + Size(parts[i]) + 2 /\ to[i] > 1 /\ to[i] <= Len(T)
      BY <1>6, <3>3, SpreadSizes
    <3>5. QED
      BY <2>1, <2>2, <3>1, <3>4
  <2>4. T[b] = Blank /\ Occ(T, b + 1, x1)
    BY <1>6, <2>1, <2>3 DEF Spread
  <2>5. PICK e \in Nat : e = to[i] - 1
    BY <2>3
  <2>6. /\ i < m => Token(T, e, Comma, <<>>, to[i])
        /\ i = m => Token(T, e, Closer(n), <<>>, to[i] + 1)
        /\ T[e] \notin J!Digit
    <3>1. to[i] - 1 <= Len(T)
      BY <2>3
    <3>2. QED
      <4>1. PICK p : p = s + 1
        OBVIOUS
      <4>2. PICK parts : parts = Parts(n)
        OBVIOUS
      <4>3. Spread(T, p, parts, m, to)
        BY <1>6, <4>1, <4>2
      <4>4. /\ i < m => Token(T, to[i] - 1, Comma, <<>>, to[i])
            /\ i = m => Token(T, to[i] - 1, Closer(n), <<>>, to[i] + 1)
            /\ T[to[i] - 1] \notin J!Digit
        BY <1>6, <2>3, <2>5, <3>1, <4>3, Behind
      <4>5. QED
        BY <2>3, <2>5, <4>4
  <2>7. e = b + 1 + h
    BY <2>3, <2>5
  <2>8. <<Kid(n, i), b, e>> \in Standing(T)
    BY <2>1, <2>2, <2>4, <2>6, <2>7, Placed
  <2>9. kid[i] = <<Kid(n, i), b, e>>
    BY <1>9, <2>3, <2>5
  <2>10. kid[i][3] = e /\ at[i + 1] = to[i]
    BY <1>12, <1>13, <2>5
  <2>11. i = m => w[3] = to[i] + 1
    BY <1>6
  <2>12. QED
    BY <2>6, <2>8, <2>9, <2>10, <2>11
<1>15. ASSUME m = 0
       PROVE  Token(T, s + 1, Closer(n), <<>>, w[3]) /\ T[s + 1] # Blank
  <2>1. PICK p \in Nat \ {0} : p = s + 1
    BY <1>7
  <2>2. T[p] = Closer(n) /\ w[3] = p + 1 /\ p <= Len(T)
    BY <1>6, <1>7, <1>15, <2>1
  <2>3. Closer(n) \in Marks /\ Closer(n) # Blank /\ p \in {p, p + 1} /\ ~(p = p + 1)
    BY BracketsAre
  <2>4. Token(T, p, Closer(n), <<>>, p + 1)
    BY <2>2, <2>3, MarkToken
  <2>5. QED
    BY <2>1, <2>2, <2>3, <2>4
<1>16. ArrayLaid(T, n, L)
  <2>1. n.items = [i \in 1..m |-> kid[i][1]]
    <3>1. \A i \in 1..m : n.items[i] = kid[i][1]
      BY <1>1, <1>13 DEF Kid
    <3>2. QED
      BY <1>2, <3>1
  <2>2. \A i \in 1..m : at[i] = kid[i][2]
    BY <1>12, <1>13
  <2>3. QED
    BY <1>2, <1>11, <2>1, <2>2, Zenon DEF ArrayLaid
<1>17. Token(T, w[2], Opener(w[1]), <<>>, L.at[1])
  BY <1>1, <1>5, <1>11, <1>12
<1>18. L.size = 0 => Token(T, L.at[1], Closer(w[1]), <<>>, w[3]) /\ T[L.at[1]] # Blank
  BY <1>1, <1>11, <1>12, <1>15
<1>19. \A i \in 1..L.size : /\ L.kid[i] \in Standing(T)
                            /\ i < L.size => Token(T, L.kid[i][3], Comma, <<>>, L.at[i + 1])
                            /\ i = L.size => Token(T, L.kid[i][3], Closer(w[1]), <<>>, w[3])
  BY <1>1, <1>11, <1>14
<1>20. L.size \in Nat /\ w[1].type = "array" /\ ArrayLaid(T, w[1], L)
  BY <1>1, <1>11, <1>16
<1>21. Laid(T, Standing(T), w, L)
  BY <1>17, <1>18, <1>19, <1>20, Zenon DEF Laid
<1>22. QED
  BY <1>21

LEMMA PlacesTree == \A T : Len(T) \in Nat => Tree(T, Standing(T))
<1> SUFFICES ASSUME NEW T, Len(T) \in Nat, NEW w \in Standing(T)
             PROVE  LeafAt(T, w) \/ \E L : Laid(T, Standing(T), w, L)
  BY DEF Tree
<1>1. w[1] \in Nodes /\ \E s \in Nat : StandsAt(T, w, s)
  BY DEF Standing
<1>2. PICK s \in Nat : StandsAt(T, w, s)
  BY <1>1
<1>3. CASE w[1] \in J!Leaves
  BY <1>1, <1>2, <1>3, LeafStands
<1>4. CASE KidsAmong(w[1], J!Inner)
  <2>1. PICK m : IsKidOf(w[1], J!Inner, m)
    BY <1>4, PartsAre
  <2>2. w[1].type = "object" \/ w[1].type = "array"
    BY <1>4 DEF KidsAmong
  <2>3. m \in Nat
    BY <2>1 DEF IsKidOf
  <2>4. QED
    BY <1>1, <1>2, <2>1, <2>2, <2>3, ObjectStands, ArrayStands
<1>5. QED
  BY <1>1, <1>3, <1>4, NodesAre

(* Whatever was read of a document, it is the beginning of the text of its *)
(* value, and the calls in progress are where they are in that text.       *)
WrittenText == J!Serialize[value]
JsonInv == /\ value \in J!Roots
           /\ \E d : /\ Cut(WrittenText, d)
                     /\ Fits(WrittenText, Standing(WrittenText), value, d, stack, jPos, jResult, status)

LEMMA TextIs ==
  ASSUME NEW r \in J!Roots, NEW T, T = J!Serialize[r]
  PROVE  /\ r.type = "object" /\ T \in Seq(Chars) /\ Len(T) \in Nat /\ T = [i \in 1..Len(T) |-> T[i]]
         /\ <<r, 1, Len(T) + 1>> \in Standing(T) /\ Tree(T, Standing(T))
<1>1. r \in Nodes /\ r.type = "object"
  BY NodesAre DEF Nodes
<1>2. T \in Seq(Chars)
  BY <1>1, AllHaveText DEF HasText, Texts
<1>3. PICK l \in Nat : l = Len(T)
  BY <1>2
<1>4. T = [i \in 1..l |-> T[i]]
  BY <1>2, <1>3
<1>5. Occ(T, 1, T)
  <2>1. \A i \in 1..l : 1 + i - 1 = i
    OBVIOUS
  <2>2. 1 + l <= l + 1
    OBVIOUS
  <2>3. QED
    BY <1>3, <2>1, <2>2 DEF Occ
<1>6. PICK w : w = <<r, 1, l + 1>>
  OBVIOUS
<1>7. w \in Nodes \X Nat \X Nat /\ w[1] = r /\ w[2] = 1 /\ w[3] = l + 1
  BY <1>1, <1>6
<1>8. 1 \in {1, 1 + 1} /\ 1 # 1 + 1 /\ l + 1 = 1 + l /\ ~(l + 1 <= l)
  OBVIOUS
<1>9. StandsAt(T, w, 1)
  BY <1>3, <1>5, <1>7, <1>8 DEF StandsAt, Size
<1>10. w \in Standing(T)
  BY <1>7, <1>9 DEF Standing
<1>11. QED
  BY <1>1, <1>2, <1>3, <1>4, <1>6, <1>10, PlacesTree

LEMMA InitJson == J!Init => JsonInv
<1> SUFFICES ASSUME J!Init
             PROVE  JsonInv
  OBVIOUS
<1>1. value \in J!Roots
  BY DEF J!Init
<1>2. PICK T : T = WrittenText
  OBVIOUS
<1>3. PICK d \in 0..Len(T) : doc = SubSeq(T, 1, d)
  BY <1>2 DEF J!Init, WrittenText
<1>4. /\ T \in Seq(Chars) /\ Len(T) \in Nat /\ <<value, 1, Len(T) + 1>> \in Standing(T)
  BY <1>1, <1>2, TextIs DEF WrittenText
<1>5. Cut(T, d)
  <2>1. d \in Nat /\ d <= Len(T)
    BY <1>4
  <2>2. SubSeq(T, 1, d) = [i \in 1..d |-> T[i]]
    BY <1>4, <2>1
  <2>3. doc = [i \in 1..d |-> T[i]]
    BY <1>3, <2>2
  <2>4. Len(doc) = d
    BY <2>1, <2>3
  <2>5. QED
    BY <1>4, <2>3, <2>4 DEF Cut
<1>6. jPos = 1 /\ stack = <<>> /\ status = "parsing"
  BY Zenon DEF J!Init
<1>7. PICK w \in Standing(T) : w[1] = value /\ w[2] = 1 /\ w[3] = Len(T) + 1
  BY <1>4
<1>8. PICK W : W = Standing(T)
  OBVIOUS
<1>9. Callers(T, W, value, <<>>, w) /\ w \in W
  BY <1>7, <1>8, CallersTop
<1>10. Reading(T, W, value, stack, jPos)
  BY <1>6, <1>7, <1>9 DEF Reading
<1>11. Calls(stack)
  BY <1>6 DEF Calls
<1>12. Fits(T, W, value, d, stack, jPos, jResult, status)
  BY <1>6, <1>10, <1>11 DEF Fits
<1>13. QED
  BY <1>1, <1>2, <1>5, <1>8, <1>12 DEF JsonInv

LEMMA NextJson == JsonInv /\ (J!Next \/ UNCHANGED jVars) => JsonInv'
<1> SUFFICES ASSUME JsonInv, J!Next \/ UNCHANGED jVars
             PROVE  JsonInv'
  OBVIOUS
<1>1. PICK T : T = WrittenText
  OBVIOUS
<1>2. value \in J!Roots
  BY DEF JsonInv
<1>3. PICK d : Cut(T, d) /\ Fits(T, Standing(T), value, d, stack, jPos, jResult, status)
  BY <1>1 DEF JsonInv
<1>4. PICK W : W = Standing(T)
  OBVIOUS
<1>5. PICK r : r = value
  OBVIOUS
<1>6. Given(T, W, r, d)
  <2>1. T = J!Serialize[r] /\ r \in J!Roots
    BY <1>1, <1>2, <1>5 DEF WrittenText
  <2>2. QED
    BY <1>3, <1>4, <2>1, TextIs DEF Given
<1>7. value' = value /\ doc' = doc
  BY JsonKeeps DEF jVars
<1>8. Fits(T, W, r, d, stack, jPos, jResult, status)
  BY <1>3, <1>4, <1>5
<1>9. Fits(T, W, r, d, stack', jPos', jResult', status')
  <2>1. CASE J!Next
    BY <1>6, <1>8, <2>1, JsonStep
  <2>2. CASE UNCHANGED jVars
    <3>1. stack' = stack /\ jPos' = jPos /\ jResult' = jResult /\ status' = status
      BY <2>2 DEF jVars
    <3>2. QED
      BY <1>8, <3>1
  <2>3. QED
    BY <2>1, <2>2
<1>10. T = WrittenText'
  BY <1>1, <1>7 DEF WrittenText
<1>11. Cut(T, d)'
  BY <1>3, <1>7 DEF Cut
<1>12. value' \in J!Roots
  BY <1>2, <1>7
<1>13. r = value'
  BY <1>5, <1>7
<1>14. Cut(WrittenText, d)'
  BY <1>10, <1>11 DEF Cut
<1>15. Fits(WrittenText', Standing(WrittenText'), value', d, stack', jPos', jResult', status')
  BY <1>4, <1>9, <1>10, <1>13
<1>16. QED
  BY <1>12, <1>14, <1>15 DEF JsonInv

LEMMA JsonMeans == JsonInv => J!ReadsWhole
<1> SUFFICES ASSUME JsonInv
             PROVE  J!ReadsWhole
  OBVIOUS
<1>1. PICK T : T = WrittenText
  OBVIOUS
<1>2. PICK d : Cut(T, d) /\ Fits(T, Standing(T), value, d, stack, jPos, jResult, status)
  BY <1>1 DEF JsonInv
<1>3. T = J!Serialize[value] /\ value \in J!Roots
  BY <1>1 DEF JsonInv, WrittenText
<1>4. T = [i \in 1..Len(T) |-> T[i]]
  BY <1>3, TextIs
<1>5. Len(T) \in Nat /\ d \in 0..Len(T) /\ Len(doc) = d /\ doc = [i \in 1..d |-> T[i]]
  BY <1>2 DEF Cut
<1>6. status = "done" => doc = T /\ jResult = value
  BY <1>2, <1>4, <1>5 DEF Fits
<1>7. status = "SyntaxError" => doc # T
  BY <1>2, <1>5 DEF Fits
<1>8. QED
  BY <1>3, <1>6, <1>7 DEF J!ReadsWhole

LEMMA InitDocument == MCInit => (active = "json" => JsonInv)
  BY InitJson DEF MCInit

LEMMA NextDocument == (active = "json" => JsonInv) /\ [MCNext]_allVars => (active = "json" => JsonInv)'
<1> SUFFICES ASSUME active = "json" => JsonInv, [MCNext]_allVars, active' = "json"
             PROVE  JsonInv'
  OBVIOUS
<1>1. CASE active = "json" /\ J!Next /\ UNCHANGED active
  BY <1>1, NextJson
<1>2. CASE UNCHANGED <<active, jVars>>
  BY <1>2, NextJson
<1>3. QED
  BY <1>1, <1>2 DEF MCNext, allVars

(* Every file of the program is read as it was written: the images and the *)
(* object files of the tools, as in ImagesAreRead, and the configuration.  *)
(* JsonParser gives back the value whose text JsonObject::Serialize wrote, *)
(* whatever the letters, numbers, names and items in it, and throws for a  *)
(* document that was cut anywhere: it never loads the half of a machine.   *)
THEOREM FilesAreRead == MCSpec => []FilesRead
<1>1. (active = "images" => ImageInv) /\ (active = "json" => JsonInv) => FilesRead
  BY ImagesMean, JsonMeans DEF FilesRead
<1>2. QED
  BY <1>1, InitFiles, NextFiles, InitDocument, NextDocument, PTL DEF MCSpec
=============================================================================
