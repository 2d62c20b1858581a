------------------------------ MODULE EventQueue ------------------------------
(***************************************************************************)
(* The event queue (src/umps/event.cc) and the part of the system bus that *)
(* drives it: scheduleEvent, ClockTick and Skip (src/umps/systembus.cc).   *)
(*                                                                         *)
(* Devices, the interrupt controller and the multiprocessor controller     *)
(* schedule callbacks; ClockTick advances the time of day and runs every   *)
(* callback that is due.  The queue is a linked list sorted by deadline    *)
(* with a pointer, lastIns, to the last insertion that shortens the next   *)
(* search.  The list is a sequence of Event objects here, a pointer is the *)
(* object it points to.                                                    *)
(***************************************************************************)
EXTENDS Integers, Sequences

CONSTANTS Event,     \* Event objects: one not in the queue is free memory
          Delays,    \* delays callbacks are scheduled with
          MaxTod,    \* bound on the time of day
          None       \* the NULL pointer

ASSUME DelaysAssumption == Delays \subseteq Nat \ {0}
ASSUME MaxTodAssumption == MaxTod \in Nat
ASSUME NoneAssumption == /\ None \notin Event
                         /\ None \notin [ev : Event, deadline : Nat]
                         /\ None \notin Nat

VARIABLES queue,     \* the list from head on: sequence of [ev, deadline]
          lastIns,   \* element inserted last, None when NULL
          tod,       \* time of day
          phase,     \* "run": between two ClockTicks; "drain": at the test of
                     \* ClockTick's loop; "callback": inside a callback
          firing     \* element whose callback the loop is running, or None

vars == <<queue, lastIns, tod, phase, firing>>

Element == [ev : Event, deadline : Nat]

TypeOK == /\ queue \in Seq(Element)
          /\ lastIns \in Element \cup {None}
          /\ tod \in Nat
          /\ phase \in {"run", "drain", "callback"}
          /\ firing \in Element \cup {None}

Init == /\ queue = <<>>
        /\ lastIns = None
        /\ tod = 0
        /\ phase = "run"
        /\ firing = None

-----------------------------------------------------------------------------

Queued(e) == \E i \in DOMAIN queue : queue[i].ev = e

IsEmpty == queue = <<>>

(* The loop of ClockTick goes on: the head is due. *)
HeadDue == ~IsEmpty /\ Head(queue).deadline <= tod

(* The search for the place of a deadline d may start at position s: at    *)
(* lastIns if that is strictly earlier than d, else at the head.           *)
SearchFrom(d, s) == IF lastIns # None /\ d > lastIns.deadline
                    THEN queue[s] = lastIns
                    ELSE s = 1

(* InsertQ puts an element with deadline d after the first k elements:     *)
(* before the head when it is not later than it, and else where the walk   *)
(* over the elements not later than d stops.                               *)
Place(d, k) ==
  IF IsEmpty \/ d <= Head(queue).deadline
  THEN k = 0
  ELSE \E s \in DOMAIN queue :
         /\ SearchFrom(d, s)
         /\ s <= k
         /\ \A i \in s..k : queue[i].deadline <= d
         /\ k < Len(queue) => queue[k+1].deadline > d

(* Mutant: the new element's link to the rest of the list is not set. *)
InsertBreaksLink(k, x) == Append(SubSeq(queue, 1, k), x)

InsertAfter(k, x) ==
  [i \in 1..Len(queue)+1 |-> CASE i <= k     -> queue[i]
                               [] i = k + 1  -> x
                               [] OTHER      -> queue[i-1]]

InsertQ(x) == /\ \E k \in 0..Len(queue) : /\ Place(x.deadline, k)
                                          /\ queue' = InsertAfter(k, x)
              /\ lastIns' = x

(* A device command between two ticks, or a callback, schedules e. *)
scheduleEvent(e) ==
  /\ phase # "drain"
  /\ ~Queued(e)
  /\ \E d \in Delays : InsertQ([ev |-> e, deadline |-> tod + d])
  /\ UNCHANGED <<tod, phase, firing>>

(* ClockTick enters its loop. *)
ClockTick == /\ phase = "run"
             /\ tod < MaxTod
             /\ tod' = tod + 1
             /\ phase' = "drain"
             /\ UNCHANGED <<queue, lastIns, firing>>

(* The loop calls the callback of the head, which is still in the queue. *)
RunCallback == /\ phase = "drain"
               /\ HeadDue
               /\ phase' = "callback"
               /\ firing' = Head(queue)
               /\ UNCHANGED <<queue, lastIns, tod>>

(* The callback returned: the loop removes what is then the head. *)
RemoveHead == /\ phase = "callback"
              /\ queue' = Tail(queue)
              /\ lastIns' = IF Head(queue) # lastIns THEN lastIns
                            ELSE IF Tail(queue) = <<>> THEN None ELSE Head(Tail(queue))
              /\ phase' = "drain"
              /\ firing' = None
              /\ UNCHANGED tod

EndClockTick == /\ phase = "drain"
                /\ ~HeadDue
                /\ phase' = "run"
                /\ UNCHANGED <<queue, lastIns, tod, firing>>

(* Mutant: the skip goes up to the deadline, whose tick is then never run. *)
IdleCyclesOffByOne == IF IsEmpty THEN MaxTod - tod
                      ELSE IF Head(queue).deadline > tod THEN Head(queue).deadline - tod
                      ELSE 0

(* Ticks that can be skipped without missing an event; the interval timer, *)
(* which bounds the skip further, is in Machine.                           *)
IdleCycles == IF IsEmpty THEN MaxTod - tod
              ELSE IF Head(queue).deadline > tod THEN Head(queue).deadline - tod - 1
              ELSE 0

Skip == /\ phase = "run"
        /\ \E c \in 1..IdleCycles : tod + c <= MaxTod /\ tod' = tod + c
        /\ UNCHANGED <<queue, lastIns, phase, firing>>

Next == \/ \E e \in Event : scheduleEvent(e)
        \/ ClockTick
        \/ RunCallback
        \/ RemoveHead
        \/ EndClockTick
        \/ Skip

Spec == Init /\ [][Next]_vars

(* The machine loop of a running debug session keeps ticking, and nothing  *)
(* in ClockTick blocks.                                                    *)
Fairness == WF_vars(ClockTick) /\ WF_vars(RunCallback)
            /\ WF_vars(RemoveHead) /\ WF_vars(EndClockTick)

FairSpec == Spec /\ Fairness

-----------------------------------------------------------------------------

(* The queue is in ascending order of deadline, and an event is in it at   *)
(* most once.                                                              *)
Sorted == \A i, j \in DOMAIN queue :
            i < j => /\ queue[i].deadline <= queue[j].deadline
                     /\ queue[i].ev # queue[j].ev

(* lastIns, from which InsertQ starts walking, is never dangling: it is in *)
(* the queue, and NULL only when the queue is empty, although RemoveHead   *)
(* deletes the very element it may point to.                               *)
LastInsLive == /\ lastIns = None <=> IsEmpty
               /\ lastIns # None => \E i \in DOMAIN queue : queue[i] = lastIns

(* While a callback runs, and whatever it schedules, the head remains the  *)
(* event being fired, so that RemoveHead removes that one and no other.    *)
HeadIsFiring == phase = "callback" => ~IsEmpty /\ Head(queue) = firing

(* Between two ticks nothing in the queue is overdue, and no callback runs *)
(* late: ClockTick runs it at exactly its deadline, skips included.        *)
OnTime == /\ phase = "run" => \A i \in DOMAIN queue : queue[i].deadline > tod
          /\ firing # None => firing.deadline = tod

(* An event scheduled within the time bound does fire: no scan of the      *)
(* queue goes on for ever, although callbacks schedule events.             *)
EventFires == \A e \in Event :
  (\E i \in DOMAIN queue : queue[i].ev = e /\ queue[i].deadline <= MaxTod)
     ~> (firing # None /\ firing.ev = e)

-----------------------------------------------------------------------------

(* The queue seen as the abstract schedule: the deadline of each event. *)
Pending == [e \in Event |->
              IF Queued(e)
              THEN (CHOOSE x \in {queue[i] : i \in DOMAIN queue} : x.ev = e).deadline
              ELSE None]

Schedule == INSTANCE EventSchedule WITH
  pending <- Pending,
  firing  <- IF firing = None THEN None ELSE firing.ev

(* The queue implements the schedule: every event fires once, at its tick. *)
ImplementsSchedule == Schedule!Spec
==============================================================================
