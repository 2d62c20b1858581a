---------------------------- MODULE Stoppoints ----------------------------
(***************************************************************************)
(* A set of stoppoints (umps/stoppoint.cc), the list that shows it         *)
(* (stoppoint_list_model.cc), the accesses that hit it (Machine::          *)
(* HandleBusAccess, HandleVMAccess) and its relocation when the machine is *)
(* powered on or reset with a rebuilt program (DebugSession::              *)
(* relocateStoppoints).                                                    *)
(*                                                                         *)
(* The set keeps its points twice, in a vector and in a map ordered by     *)
(* start address that holds pointers to them (here their ids). The list    *)
(* keeps, by row, the text of each range and the cores that hit it.        *)
(***************************************************************************)
EXTENDS StoppointParameters, Sequences

VARIABLES
  points,    \* StoppointSet::points
  addressMap,\* StoppointSet::addressMap, [key -> id]
  rows,      \* the list model: per row the range and the victims
  symbols,   \* the session's symbol table, with its address space
  status,    \* of the session: halted, stopped or running
  hits       \* history: <<id, core>> of the hits since the machine last ran

vars == <<points, addressMap, rows, symbols, status, hits>>

Address == 0..LastAddr
Range   == {r \in [asid : Asid, start : Nat, end : Nat] : r.start <= r.end}
Ranges  == {r \in [asid : Asid, start : Address, end : Address] : r.start <= r.end}
Modes   == SUBSET Mode
NoPoint    == 0 - 1
Point   == [id : Nat, enabled : BOOLEAN, range : Range, mode : Modes]
Key     == Asid \X Nat
Off     == [asid |-> 0, syms |-> {}] \* no symbol table yet

KeyOf(r)        == <<r.asid, r.start>>
Before(j, k)    == j[1] < k[1] \/ (j[1] = k[1] /\ j[2] < k[2])
Overlaps(q, r)  == q.asid = r.asid /\ ~(r.end < q.start) /\ ~(r.start > q.end)
Contains(r, a, x) == a = r.asid /\ r.start <= x /\ x <= r.end
Matches(p, a, x, m) == p.enabled /\ Contains(p.range, a, x) /\ m \in p.mode

-----------------------------------------------------------------------------
(* Operations of StoppointSet, on a vector of points.                      *)
(* Mutant: a range may share its first address with another.               *)
CanInsertTouching(ps, r) == \A i \in DOMAIN ps : ~(Overlaps(ps[i].range, r) /\ ps[i].range.start # r.end)

CanInsert(ps, r) == \A i \in DOMAIN ps : ~Overlaps(ps[i].range, r)

nextId(ps) == LET past == {0} \cup {ps[i].id + 1 : i \in DOMAIN ps}
              IN CHOOSE n \in past : \A m \in past : m <= n

New(r, m) == [id |-> nextId(points), enabled |-> TRUE, range |-> r, mode |-> m]

Without(s, i) == [j \in 1..Len(s)-1 |-> IF j < i THEN s[j] ELSE s[j + 1]]

PointOf(id) == points[CHOOSE i \in DOMAIN points : points[i].id = id]

Least(K)    == CHOOSE k \in K : \A j \in K : ~Before(j, k)
Greatest(K) == CHOOSE k \in K : \A j \in K : ~Before(k, j)

(* Where Probe looks: lower_bound, one back unless it is the key itself or *)
(* the first of the map.                                                   *)
Candidate(k) ==
  LET before == {j \in DOMAIN addressMap : Before(j, k)} IN
  IF k \in DOMAIN addressMap THEN k
  ELSE IF before # {} THEN Greatest(before) ELSE Least(DOMAIN addressMap)

(* The id of the stoppoint hit, or NoPoint. *)
Probe(a, x, m) ==
  IF points = <<>> THEN NoPoint
  ELSE LET id == addressMap[Candidate(<<a, x>>)] IN
       IF Matches(PointOf(id), a, x, m) THEN id ELSE NoPoint

-----------------------------------------------------------------------------
(* Symbol tables: disjoint symbols of SymbolSize words. The search finds   *)
(* the symbol of an address, the lookup all symbols of a name.             *)
Tables == {t \in [asid : Asid, syms : SUBSET [name : Name, start : Address]] :
             \A s, u \in t.syms : s = u \/ s.start + SymbolSize <= u.start \/ u.start + SymbolSize <= s.start}
Owner(t, x)   == {s \in t.syms : s.start <= x /\ x < s.start + SymbolSize}
Lookup(t, n)  == {s \in t.syms : s.name = n}

Relocated(r, t) ==
  LET from == IF r.asid = symbols.asid THEN Owner(symbols, r.start) ELSE {}
      to   == UNION {Lookup(t, s.name) : s \in from}
  IN IF \E s \in to : to = {s}
     THEN LET start == (CHOOSE s \in to : TRUE).start + r.start - (CHOOSE s \in from : TRUE).start
          IN [r EXCEPT !.start = start, !.end = start + (r.end - r.start)]
     ELSE r

(* The points that keep a place after they moved, in their order: at lists *)
(* those that do not overlap one that was inserted before them.            *)
Keeps(at, moved) ==
  \A i \in DOMAIN moved :
    (\E k \in DOMAIN at : at[k] = i) <=> \A k \in DOMAIN at : at[k] < i => ~Overlaps(moved[at[k]], moved[i])

(* relocateStoppoints. Identifiers grow along the vector, so that Add gives *)
(* every point the one it asks for.                                        *)
Relocations(ps, t) ==
  LET moved == [i \in DOMAIN ps |-> Relocated(ps[i].range, t)] IN
  {[k \in DOMAIN at |-> [ps[at[k]] EXCEPT !.range = moved[at[k]]]] : at \in
     {at \in UNION {[1..n -> DOMAIN ps] : n \in 0..Len(ps)} :
        /\ \A j, k \in DOMAIN at : j < k => at[j] < at[k]
        /\ Keeps(at, moved)}}

MapOf(ps) == [k \in {KeyOf(ps[i].range) : i \in DOMAIN ps} |->
                ps[CHOOSE i \in DOMAIN ps : KeyOf(ps[i].range) = k].id]
RowsOf(ps) == [i \in DOMAIN ps |-> [range |-> ps[i].range, victims |-> {}]]

-----------------------------------------------------------------------------
Init ==
  /\ points = <<>> /\ addressMap = <<>> /\ rows = <<>>
  /\ symbols = Off /\ status = "halted" /\ hits = {}

(* initializeMachine, from power-on or from reset. *)
initializeMachine ==
  \E t \in Tables :
    /\ IF symbols # Off /\ t.asid = symbols.asid
       THEN points' \in Relocations(points, t) /\ addressMap' = MapOf(points')
       ELSE UNCHANGED <<points, addressMap>>
    /\ rows' = RowsOf(points')
    /\ symbols' = t /\ status' = "stopped" /\ hits' = {}

(* Power-off destroys the models; the points stay. *)
halt ==
  /\ status # "halted"
  /\ status' = "halted" /\ rows' = <<>> /\ hits' = {}
  /\ UNCHANGED <<points, addressMap, symbols>>

(* Another configuration, which is loaded with the machine halted. *)
onMachineConfigChanged ==
  /\ status = "halted"
  /\ points' = <<>> /\ addressMap' = <<>>
  /\ UNCHANGED <<rows, symbols, status, hits>>

Add(r, m) ==
  /\ status = "stopped" /\ Len(points) < MaxPoints
  /\ nextId(points) <= MaxId
  /\ CanInsert(points, r)
  /\ points' = Append(points, New(r, m))
  /\ addressMap' = [k \in DOMAIN addressMap \cup {KeyOf(r)} |->
                      IF k = KeyOf(r) THEN nextId(points) ELSE addressMap[k]]
  /\ rows' = Append(rows, [range |-> r, victims |-> {}])
  /\ UNCHANGED <<symbols, status, hits>>

(* Mutant: the victims of the removed row stay and those of the last go.   *)
RemoveKeepsVictims(i) ==
  /\ status = "stopped" /\ i \in DOMAIN points
  /\ points' = Without(points, i)
  /\ addressMap' = [k \in DOMAIN addressMap \ {KeyOf(points[i].range)} |-> addressMap[k]]
  /\ rows' = [j \in 1..Len(rows)-1 |-> [range |-> Without(rows, i)[j].range, victims |-> rows[j].victims]]
  /\ hits' = {h \in hits : h[1] # points[i].id}
  /\ UNCHANGED <<symbols, status>>

Remove(i) ==
  /\ status = "stopped" /\ i \in DOMAIN points
  /\ points' = Without(points, i)
  /\ addressMap' = [k \in DOMAIN addressMap \ {KeyOf(points[i].range)} |-> addressMap[k]]
  /\ rows' = Without(rows, i)
  /\ hits' = {h \in hits : h[1] # points[i].id}
  /\ UNCHANGED <<symbols, status>>

SetEnabled(i) ==
  /\ status # "halted" /\ i \in DOMAIN points
  /\ points' = [points EXCEPT ![i].enabled = ~@]
  /\ UNCHANGED <<addressMap, rows, symbols, status, hits>>

setAccessMode(i, m) ==
  /\ status # "halted" /\ i \in DOMAIN points
  /\ points' = [points EXCEPT ![i].mode = m]
  /\ UNCHANGED <<addressMap, rows, symbols, status, hits>>

(* onContinue or onStep: MachineRan clears the victims.                    *)
Run ==
  /\ status = "stopped"
  /\ status' = "running" /\ hits' = {}
  /\ rows' = [i \in DOMAIN rows |-> [rows[i] EXCEPT !.victims = {}]]
  /\ UNCHANGED <<points, addressMap, symbols>>

(* An access of a core, physical or virtual, while the stop mask has the   *)
(* set's kind: it hits a stoppoint, and Machine::step stops at its tick.   *)
HandleAccess(c, a, x, m) ==
  /\ status = "running"
  /\ LET id == Probe(a, x, m) IN
       /\ id # NoPoint
       /\ rows' = [i \in DOMAIN rows |->
                     IF i = CHOOSE j \in DOMAIN points : points[j].id = id
                     THEN [rows[i] EXCEPT !.victims = @ \cup {c}] ELSE rows[i]]
       /\ hits' = hits \cup {<<id, c>>}
  /\ UNCHANGED <<points, addressMap, symbols, status>>

(* The machine stopped, for a stoppoint or for the user. *)
Stop ==
  /\ status = "running" /\ status' = "stopped"
  /\ UNCHANGED <<points, addressMap, rows, symbols, hits>>

Next ==
  \/ initializeMachine \/ halt \/ onMachineConfigChanged
  \/ \E r \in Ranges, m \in Modes \ {{}} : Add(r, m)
  \/ \E i \in DOMAIN points : Remove(i) \/ SetEnabled(i) \/ \E m \in Modes \ {{}} : setAccessMode(i, m)
  \/ Run \/ Stop
  \/ \E c \in Core, a \in Asid, x \in Address, m \in Mode : HandleAccess(c, a, x, m)

Spec == Init /\ [][Next]_vars
-----------------------------------------------------------------------------
TypeOK ==
  /\ points \in Seq(Point)
  /\ DOMAIN addressMap \subseteq Key
  /\ \A k \in DOMAIN addressMap : addressMap[k] \in Nat
  /\ rows \in Seq([range : Range, victims : SUBSET Core])
  /\ status \in {"halted", "stopped", "running"}
  /\ hits \subseteq Nat \X Core

(* Ranges never overlap and identifiers never repeat, also after the       *)
(* ranges were moved one by one to where a rebuilt program has its symbols *)
Distinct ==
  \A i, j \in DOMAIN points : i # j =>
    points[i].id # points[j].id /\ ~Overlaps(points[i].range, points[j].range)

(* Probe looks at a single range, the nearest that starts no later than    *)
(* the address; still an access that some enabled stoppoint is about is    *)
(* always found.                                                           *)
ProbeFinds ==
  \A i \in DOMAIN points, a \in Asid, x \in Nat, m \in Mode :
    Matches(points[i], a, x, m) => Probe(a, x, m) = points[i].id

(* The same over the addresses of an instance. *)
ProbeFindsHere ==
  \A i \in DOMAIN points, a \in Asid, m \in Mode :
    \A x \in points[i].range.start..points[i].range.end :
      Matches(points[i], a, x, m) => Probe(a, x, m) = points[i].id

(* While a machine is on, each row of the list shows the range of the      *)
(* stoppoint of that index, and as victims exactly the cores that hit this *)
(* stoppoint since the machine was last let run.                           *)
RowsTruth ==
  status # "halted" =>
    /\ Len(rows) = Len(points)
    /\ \A i \in DOMAIN points :
         /\ rows[i].range = points[i].range
         /\ rows[i].victims = {c \in Core : <<points[i].id, c>> \in hits}
=============================================================================
