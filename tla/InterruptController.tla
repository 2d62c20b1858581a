-------------------------- MODULE InterruptController --------------------------
(***************************************************************************)
(* The interrupt controller (src/umps/mpic.cc) with the interrupt inputs   *)
(* of the cores it drives, the IP bits of their CAUSE registers.           *)
(*                                                                         *)
(* A device (or the interval timer) raises and acknowledges its source;    *)
(* the interrupt routing table sends each interrupt to one core, fixed or  *)
(* chosen among several by task priority.  Cores exchange inter-processor  *)
(* interrupts through an outbox and an inbox; a message takes the same     *)
(* time whoever sends it, so those of one core arrive in order while those *)
(* of different cores may overtake each other within one tick.             *)
(***************************************************************************)
EXTENDS Integers, Sequences, FiniteSets

CONSTANTS N,          \* number of cores, config->getNumProcessors()
          Source,     \* interrupt sources: pairs <<line, device>>
          Prio,       \* task priorities in use
          Msg,        \* payloads of inter-processor messages
          MaxFlight,  \* bound on messages of one core in flight
          None        \* kInvalidCpuId

IL_IPI == 0
IL_TIMER == 2
SharedILBase == 3    \* first line shared by several devices

ASSUME NAssumption == N \in Nat \ {0}
ASSUME SourceAssumption ==
  Source \subseteq {<<IL_TIMER, 0>>} \cup ((SharedILBase..7) \X (0..7))
ASSUME PrioAssumption == Prio \subseteq 0..15 /\ 15 \in Prio
ASSUME NoneAssumption == None \notin 0..N-1
ASSUME BoundAssumption == MaxFlight \in Nat

Cpu == 0..N-1
Line(s) == s[1]
Shared(l) == l >= SharedILBase
Lines == {IL_IPI} \cup {Line(s) : s \in Source}

(* The entry of the routing table: cores its destination field selects.    *)
(* Under the fixed policy it names one core, which may not exist.          *)
Route == {r \in [policy : {"fixed", "dynamic"}, dest : SUBSET Cpu] :
            r.policy = "fixed" => \A c, d \in r.dest : c = d}

IpiMessage == [origin : Cpu, msg : Msg]
Outbox == [recipients : SUBSET Cpu, msg : Msg]

VARIABLES route,       \* [Source -> Route], the routing table
          lastTarget,  \* [Source -> core its last interrupt went to, or None]
          arbiter,     \* core the next dynamic election starts from
          taskPriority,\* [Cpu -> Prio]
          ipMask,      \* [Cpu -> interrupt lines pending]
          idb,         \* [Cpu -> sources set in the interrupting devices bitmap]
          ipiInbox,    \* [Cpu -> sequence of IpiMessage]
          flight,      \* [Cpu -> sequence of Outbox writes still to be delivered]
          cause,       \* [Cpu -> lines set in the IP field of CAUSE]
          leftAt       \* history: [Source -> cores its interrupt was pending at
                       \* when a later one went to another core]

vars == <<route, lastTarget, arbiter, taskPriority, ipMask, idb, ipiInbox, flight, cause, leftAt>>

TypeOK == /\ route \in [Source -> Route]
          /\ lastTarget \in [Source -> Cpu \cup {None}]
          /\ arbiter \in Cpu
          /\ taskPriority \in [Cpu -> Prio]
          /\ ipMask \in [Cpu -> SUBSET Lines]
          /\ idb \in [Cpu -> SUBSET Source]
          /\ ipiInbox \in [Cpu -> Seq(IpiMessage)]
          /\ flight \in [Cpu -> Seq(Outbox)]
          /\ cause \in [Cpu -> SUBSET Lines]
          /\ leftAt \in [Source -> SUBSET Cpu]

Init == /\ route = [s \in Source |-> [policy |-> "fixed", dest |-> {0}]]
        /\ lastTarget = [s \in Source |-> None]
        /\ arbiter = 0
        /\ taskPriority = [c \in Cpu |-> 15]
        /\ ipMask = [c \in Cpu |-> {}]
        /\ idb = [c \in Cpu |-> {}]
        /\ ipiInbox = [c \in Cpu |-> <<>>]
        /\ flight = [c \in Cpu |-> <<>>]
        /\ cause = [c \in Cpu |-> {}]
        /\ leftAt = [s \in Source |-> {}]

-----------------------------------------------------------------------------

(* Steps of the rotating scan from the arbiter to core c. *)
Distance(c) == (c + N - arbiter) % N

(* Core t gets the interrupt of s: under the dynamic policy, the candidate *)
(* whose TPR is the greatest, the first from the arbiter on among equals.  *)
Elected(s, t) ==
  /\ t \in route[s].dest
  /\ route[s].policy = "dynamic" =>
       \A c \in route[s].dest :
         \/ taskPriority[c] < taskPriority[t]
         \/ taskPriority[c] = taskPriority[t] /\ Distance(t) <= Distance(c)

(* SystemBus::AssertIRQ and DeassertIRQ on core c. *)
AssertIRQ(l, c) == cause' = [cause EXCEPT ![c] = @ \cup {l}]
DeassertIRQ(l, c) == cause' = [cause EXCEPT ![c] = @ \ {l}]

(* History: the core that had the interrupt of s, if it is another, is     *)
(* left with it; one that gets it again is the last target again.          *)
Leaves(s, t) == leftAt' = [leftAt EXCEPT ![s] = (@ \cup ({lastTarget[s]} \cap Cpu)) \ {t}]

(* Mutant: the interrupt is recorded but the core is not signalled. *)
DeliverSilently(s, t) ==
  /\ arbiter' = IF route[s].policy = "dynamic" THEN (t + 1) % N ELSE arbiter
  /\ lastTarget' = [lastTarget EXCEPT ![s] = t]
  /\ ipMask' = [ipMask EXCEPT ![t] = @ \cup {Line(s)}]
  /\ idb' = IF Shared(Line(s)) THEN [idb EXCEPT ![t] = @ \cup {s}] ELSE idb
  /\ cause' = [cause EXCEPT ![t] = @ \cup {l \in {Line(s)} : l \in ipMask[t]}]
  /\ Leaves(s, t)

Deliver(s, t) ==
  /\ arbiter' = IF route[s].policy = "dynamic" THEN (t + 1) % N ELSE arbiter
  /\ lastTarget' = [lastTarget EXCEPT ![s] = t]
  /\ ipMask' = [ipMask EXCEPT ![t] = @ \cup {Line(s)}]
  /\ idb' = IF Shared(Line(s)) THEN [idb EXCEPT ![t] = @ \cup {s}] ELSE idb
  /\ AssertIRQ(Line(s), t)
  /\ Leaves(s, t)

(* A source raises its interrupt, which is lost if no core is elected.     *)
StartIRQ(s) ==
  /\ \/ \E t \in Cpu : Elected(s, t) /\ Deliver(s, t)
     \/ /\ route[s].dest = {}
        /\ UNCHANGED <<lastTarget, arbiter, ipMask, idb, cause, leftAt>>
  /\ UNCHANGED <<route, taskPriority, ipiInbox, flight>>

(* Mutant: the line is dropped whatever else is pending on it. *)
NoOthersPending(s, t) == {}

(* The other sources of s's line pending at core t. *)
OthersPending(s, t) == {o \in idb[t] : Line(o) = Line(s)} \ {s}

(* Mutant: the acknowledgement goes where the table routes the source now. *)
EndIRQRerouted(s) ==
  /\ \/ /\ \/ lastTarget[s] = None
           \/ route[s].dest = {}
        /\ UNCHANGED <<lastTarget, ipMask, idb, cause>>
     \/ \E t \in route[s].dest :
          /\ lastTarget[s] # None
          /\ idb' = IF Shared(Line(s)) THEN [idb EXCEPT ![t] = @ \ {s}] ELSE idb
          /\ IF Shared(Line(s)) /\ OthersPending(s, t) # {}
             THEN UNCHANGED <<ipMask, cause>>
             ELSE /\ ipMask' = [ipMask EXCEPT ![t] = @ \ {Line(s)}]
                  /\ DeassertIRQ(Line(s), t)
          /\ lastTarget' = [lastTarget EXCEPT ![s] = None]
  /\ UNCHANGED <<route, arbiter, taskPriority, ipiInbox, flight, leftAt>>

(* Mutant: the line is cleared in the mask, but not at the core. *)
EndIRQKeepsCause(s) ==
  /\ \/ /\ lastTarget[s] = None
        /\ UNCHANGED <<lastTarget, ipMask, idb>>
     \/ \E t \in Cpu :
          /\ lastTarget[s] = t
          /\ idb' = IF Shared(Line(s)) THEN [idb EXCEPT ![t] = @ \ {s}] ELSE idb
          /\ ipMask' = IF Shared(Line(s)) /\ OthersPending(s, t) # {} THEN ipMask
                       ELSE [ipMask EXCEPT ![t] = @ \ {Line(s)}]
          /\ lastTarget' = [lastTarget EXCEPT ![s] = None]
  /\ UNCHANGED <<route, arbiter, taskPriority, ipiInbox, flight, cause, leftAt>>

(* A device acknowledges the interrupt of its source, at the core its last *)
(* interrupt went to; the acknowledgement is spurious if there is none.    *)
EndIRQ(s) ==
  /\ \/ /\ lastTarget[s] = None
        /\ UNCHANGED <<lastTarget, ipMask, idb, cause>>
     \/ \E t \in Cpu :
          /\ lastTarget[s] = t
          /\ idb' = IF Shared(Line(s)) THEN [idb EXCEPT ![t] = @ \ {s}] ELSE idb
          /\ IF Shared(Line(s)) /\ OthersPending(s, t) # {}
             THEN UNCHANGED <<ipMask, cause>>
             ELSE /\ ipMask' = [ipMask EXCEPT ![t] = @ \ {Line(s)}]
                  /\ DeassertIRQ(Line(s), t)
          /\ lastTarget' = [lastTarget EXCEPT ![s] = None]
  /\ UNCHANGED <<route, arbiter, taskPriority, ipiInbox, flight, leftAt>>

(* The guest rewrites an entry of the routing table. *)
WriteIRT(s) ==
  /\ \E r \in Route : route' = [route EXCEPT ![s] = r]
  /\ UNCHANGED <<lastTarget, arbiter, taskPriority, ipMask, idb, ipiInbox, flight, cause, leftAt>>

(* A core writes its task priority register. *)
WriteTPR(c) ==
  /\ \E p \in Prio : taskPriority' = [taskPriority EXCEPT ![c] = p]
  /\ UNCHANGED <<route, lastTarget, arbiter, ipMask, idb, ipiInbox, flight, cause, leftAt>>

(* A core posts a message: its delivery is an event kIpiLatency later.     *)
WriteOutbox(c) ==
  /\ Len(flight[c]) < MaxFlight
  /\ \E o \in Outbox : flight' = [flight EXCEPT ![c] = Append(@, o)]
  /\ UNCHANGED <<route, lastTarget, arbiter, taskPriority, ipMask, idb, ipiInbox, cause, leftAt>>

(* Mutant: deliverIPI does not look for a message of the same origin. *)
AlwaysSlot(c, origin) == TRUE

(* Mutant: the inbox has a single slot, whoever sends. *)
SingleSlot(c, origin) == ipiInbox[c] = <<>>

(* A core's inbox holds one message of each other core at most. *)
HasSlot(c, origin) == \A i \in DOMAIN ipiInbox[c] : ipiInbox[c][i].origin # origin

(* The message core o posted first reaches those of its recipients that    *)
(* have no message of o waiting; the others never see it.                  *)
deliverIPI(o) ==
  /\ flight[o] # <<>>
  /\ LET m   == [origin |-> o, msg |-> Head(flight[o]).msg]
         got == {c \in Head(flight[o]).recipients : HasSlot(c, o)}
     IN /\ ipiInbox' = [c \in Cpu |-> IF c \in got THEN Append(ipiInbox[c], m)
                                                   ELSE ipiInbox[c]]
        /\ ipMask' = [c \in Cpu |-> IF c \in got THEN ipMask[c] \cup {IL_IPI}
                                                 ELSE ipMask[c]]
        /\ cause' = [c \in Cpu |-> IF c \in got THEN cause[c] \cup {IL_IPI}
                                                ELSE cause[c]]
  /\ flight' = [flight EXCEPT ![o] = Tail(@)]
  /\ UNCHANGED <<route, lastTarget, arbiter, taskPriority, idb, leftAt>>

(* A core acknowledges the message at the head of its inbox. *)
WriteInbox(c) ==
  /\ ipiInbox[c] # <<>>
  /\ ipiInbox' = [ipiInbox EXCEPT ![c] = Tail(@)]
  /\ IF Tail(ipiInbox[c]) = <<>>
     THEN /\ ipMask' = [ipMask EXCEPT ![c] = @ \ {IL_IPI}]
          /\ DeassertIRQ(IL_IPI, c)
     ELSE UNCHANGED <<ipMask, cause>>
  /\ UNCHANGED <<route, lastTarget, arbiter, taskPriority, idb, flight, leftAt>>

(* Processor::Reset clears CAUSE and tells the controller nothing. *)
ResetCpu(c) ==
  /\ cause' = [cause EXCEPT ![c] = {}]
  /\ UNCHANGED <<route, lastTarget, arbiter, taskPriority, ipMask, idb, ipiInbox, flight, leftAt>>

Next == \/ \E s \in Source : StartIRQ(s) \/ EndIRQ(s) \/ WriteIRT(s)
        \/ \E c \in Cpu : \/ WriteTPR(c) \/ WriteOutbox(c) \/ deliverIPI(c)
                          \/ WriteInbox(c) \/ ResetCpu(c)

Spec == Init /\ [][Next]_vars

(* The machine keeps ticking, so that every message in flight arrives.     *)
FairSpec == Spec /\ \A c \in Cpu : WF_vars(deliverIPI(c))

-----------------------------------------------------------------------------

(* A core's pending lines are those its inbox and its bitmap justify: no   *)
(* line stays up without a device or message behind it, none is dropped    *)
(* while one remains.                                                      *)
MaskMatchesState ==
  \A c \in Cpu :
    /\ IL_IPI \in ipMask[c] <=> ipiInbox[c] # <<>>
    /\ \A l \in Lines : Shared(l) => (l \in ipMask[c] <=> \E s \in idb[c] : Line(s) = l)

(* An interrupt remembered as delivered is still pending at that core, so  *)
(* that the acknowledgement finds it, whatever was rerouted meanwhile.     *)
TargetPending ==
  \A s \in Source : \A c \in Cpu : lastTarget[s] = c =>
    /\ Line(s) \in ipMask[c]
    /\ Shared(Line(s)) => s \in idb[c]

(* A core never sees an interrupt the controller does not hold pending for *)
(* it: CAUSE.IP has no phantom bit.                                        *)
NoPhantomIRQ == \A c \in Cpu : cause[c] \subseteq ipMask[c]

(* The inbox of a core holds at most one message of each core. *)
OnePerOrigin ==
  \A c \in Cpu : \A i, j \in DOMAIN ipiInbox[c] :
    ipiInbox[c][i].origin = ipiInbox[c][j].origin => i = j

(* Only the reset of a core makes it lose sight of a pending interrupt.    *)
OnlyResetLosesIRQ ==
  [][\A c \in Cpu : (ipMask[c] \subseteq cause[c] /\ ~(ipMask'[c] \subseteq cause'[c]))
                      => ResetCpu(c)]_vars

(* Ties are broken in turn: the core that got a dynamic interrupt would    *)
(* not get it again if another candidate has as great a TPR.               *)
TiesRotate ==
  [][\A s \in Source : \A t \in Cpu :
       StartIRQ(s) /\ Elected(s, t) /\ route[s].policy = "dynamic" =>
         \A c \in route[s].dest \ {t} :
           taskPriority[c] = taskPriority[t] => (~Elected(s, t))']_vars

(* The interrupt of s is pending at core c. *)
PendingAt(s, c) == IF Shared(Line(s)) THEN s \in idb[c] ELSE Line(s) \in ipMask[c]

(* The interrupt of a source is pending at the core that its               *)
(* acknowledgement goes to and at those a later interrupt of the source    *)
(* left behind (StartIRQ overwrites lastTarget), and nowhere else: an      *)
(* acknowledgement misses a pending interrupt for no other reason.         *)
AckReaches ==
  \A s \in Source : \A c \in Cpu :
    PendingAt(s, c) <=> lastTarget[s] = c \/ c \in leftAt[s]

(* Once acknowledged, a source is pending nowhere. *)
AckClears ==
  \A s \in Source : lastTarget[s] = None => \A c \in Cpu : s \notin idb[c]

(* A posted message leads to a message of its sender waiting at the        *)
(* recipient, this one or an earlier one.                                  *)
IpiArrives ==
  \A o, c \in Cpu :
    (\E i \in DOMAIN flight[o] : c \in flight[o][i].recipients)
      ~> (\E i \in DOMAIN ipiInbox[c] : ipiInbox[c][i].origin = o)
==============================================================================
