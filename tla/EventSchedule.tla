---------------------------- MODULE EventSchedule ----------------------------
(***************************************************************************)
(* What the rest of the machine expects of the event queue of the system   *)
(* bus (SystemBus::scheduleEvent): an event posted with a delay fires      *)
(* exactly once, at the very tick tod + delay, whatever order the events   *)
(* were posted in.  How the events are stored is left open; EventQueue     *)
(* implements this specification.                                          *)
(***************************************************************************)
EXTENDS Naturals

CONSTANTS Event,     \* identities of the Event objects
          Delays,    \* delays devices schedule their completions with
          None       \* no event

VARIABLES pending,   \* [Event -> deadline or None]
          tod,       \* time of day, in ticks
          firing     \* the event whose callback is running, or None

vars == <<pending, tod, firing>>

Init == /\ pending = [e \in Event |-> None]
        /\ tod = 0
        /\ firing = None

(* Schedule an event that is not pending yet. *)
Post(e) == /\ pending[e] = None
           /\ \E d \in Delays : pending' = [pending EXCEPT ![e] = tod + d]
           /\ UNCHANGED <<tod, firing>>

(* Let time pass: never beyond the deadline of a pending event, and never  *)
(* while one is firing.                                                    *)
Advance == /\ firing = None
           /\ tod' \in Nat
           /\ tod' > tod
           /\ \A e \in Event : pending[e] # None => tod' <= pending[e]
           /\ UNCHANGED <<pending, firing>>

(* Run the callback of an event whose time has come. *)
Fire(e) == /\ firing = None
           /\ pending[e] = tod
           /\ firing' = e
           /\ UNCHANGED <<pending, tod>>

(* The callback returns and its event is forgotten. *)
Retire == /\ firing # None
          /\ pending' = [pending EXCEPT ![firing] = None]
          /\ firing' = None
          /\ UNCHANGED tod

Next == \/ \E e \in Event : Post(e) \/ Fire(e)
        \/ Advance
        \/ Retire

Spec == Init /\ [][Next]_vars
==============================================================================
