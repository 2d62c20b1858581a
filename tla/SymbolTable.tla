---------------------------- MODULE SymbolTable ----------------------------
(***************************************************************************)
(* The symbol table of the debugger (umps/symbol_table.cc): the sizes it   *)
(* repairs when it is loaded, and the binary search that every address of  *)
(* the user interface goes through, one round of its loop at a time, first *)
(* over the functions and then, in a full search, over the objects.        *)
(*                                                                         *)
(* Addresses and sizes count words. A file may hold symbols that overlap   *)
(* or start together (aliases, labels of size 0).                          *)
(***************************************************************************)
EXTENDS SymbolTableParameters, Sequences

VARIABLES
  functions, objects, \* fTable and oTable: sequences of [start, size]
  pos, fullSearch,    \* arguments of Probe
  a, c,               \* the bounds of the search
  stage,              \* "idle", the table searched, or "done"
  result,             \* the symbol found, or NotFound
  tidy                \* history: no functions of the file overlapped

vars == <<functions, objects, pos, fullSearch, a, c, stage, result, tidy>>

NotFound == [start |-> 0 - 1, size |-> 0]
Symbol   == [start : Nat, size : Nat]

InOrder(t) == \A i, j \in DOMAIN t : i < j => t[i].start <= t[j].start

(* The records of a file, at most n, once sorted by sortTable. *)
Records(n) == {t \in UNION {[1..m -> [start : 0..LastAddr, size : 0..MaxSize]] : m \in 0..n} : InOrder(t)}

-----------------------------------------------------------------------------
(* Constructors: a symbol has a word at least. *)
Clamped(t) == [i \in DOMAIN t |-> [t[i] EXCEPT !.size = IF @ = 0 THEN 1 ELSE @]]

(* Mutant: the repair reaches one word into the next function.             *)
BackpatchPast(t) ==
  [i \in DOMAIN t |-> IF i < Len(t) /\ t[i].size = 1
                      THEN [t[i] EXCEPT !.size = t[i + 1].start + 1 - t[i].start] ELSE t[i]]

(* Functions of one word are extended up to the next function; one that    *)
(* starts together with the next is left with no word.                     *)
Backpatched(t) ==
  [i \in DOMAIN t |-> IF i < Len(t) /\ t[i].size = 1
                      THEN [t[i] EXCEPT !.size = t[i + 1].start - t[i].start] ELSE t[i]]

Disjoint(t) == \A i, j \in DOMAIN t : i < j => t[i].start + t[i].size <= t[j].start

Contains(s, p) == s.start <= p /\ p < s.start + s.size

Init ==
  /\ \E t \in Records(MaxFun) : /\ functions = Backpatched(Clamped(t))
                                /\ tidy = Disjoint(Clamped(t))
  /\ objects \in {Clamped(t) : t \in Records(MaxObj)}
  /\ pos = 0 /\ fullSearch = FALSE /\ a = 0 /\ c = 0
  /\ stage = "idle" /\ result = NotFound

Searched == IF stage = "functions" THEN functions ELSE objects

(* What follows a search that found nothing. *)
Missed ==
  IF stage = "functions" /\ fullSearch /\ objects # <<>>
  THEN stage' = "objects" /\ a' = 0 /\ c' = Len(objects) - 1
  ELSE stage' = "done" /\ UNCHANGED <<a, c>>

Probe(p, full) ==
  /\ stage \in {"idle", "done"}
  /\ pos' = p /\ fullSearch' = full /\ result' = NotFound
  /\ IF functions # <<>> THEN stage' = "functions" /\ a' = 0 /\ c' = Len(functions) - 1
     ELSE IF full /\ objects # <<>> THEN stage' = "objects" /\ a' = 0 /\ c' = Len(objects) - 1
     ELSE stage' = "done" /\ UNCHANGED <<a, c>>
  /\ UNCHANGED <<functions, objects, tidy>>

(* Mutant: the search forgets that the middle symbol is excluded.          *)
NarrowStuck(b, s) ==
  IF pos < s.start THEN c' = b - 1 /\ UNCHANGED a ELSE a' = b /\ UNCHANGED c

(* The half that is left when the middle symbol s is not the one. *)
Narrow(b, s) ==
  IF pos < s.start THEN c' = b - 1 /\ UNCHANGED a ELSE a' = b + 1 /\ UNCHANGED c

(* A round of search, from 0 as in the code; tables are from 1. *)
Round ==
  /\ stage \in {"functions", "objects"}
  /\ LET b == (a + c) \div 2
         s == Searched[b + 1]
     IN IF Contains(s, pos) THEN result' = s /\ stage' = "done" /\ UNCHANGED <<a, c>>
        ELSE IF (pos < s.start /\ a <= b - 1) \/ (pos >= s.start /\ b + 1 <= c)
             THEN Narrow(b, s) /\ UNCHANGED <<stage, result>>
             ELSE Missed /\ UNCHANGED result
  /\ UNCHANGED <<functions, objects, pos, fullSearch, tidy>>

Next == (\E p \in 0..LastAddr + MaxSize, full \in BOOLEAN : Probe(p, full)) \/ Round

Spec == Init /\ [][Next]_vars
Fairness == WF_vars(Round)
FairSpec == Spec /\ Fairness
-----------------------------------------------------------------------------
TypeOK ==
  /\ functions \in Seq(Symbol) /\ objects \in Seq(Symbol)
  /\ pos \in Nat /\ fullSearch \in BOOLEAN
  /\ a \in Nat /\ c \in Int
  /\ stage \in {"idle", "functions", "objects", "done"}
  /\ result \in Symbol \cup {NotFound}
  /\ tidy \in BOOLEAN

Holders(t) == {i \in DOMAIN t : Contains(t[i], pos)}
(* Whatever file was loaded, a symbol found holds the address; and where   *)
(* the symbols of a kind do not overlap, none that holds it is missed, and *)
(* functions are preferred.                                                *)
SearchExact ==
  stage = "done" =>
    /\ result # NotFound => Contains(result, pos)
    /\ tidy => \A i \in Holders(functions) : result = functions[i]
    /\ (Disjoint(objects) /\ Holders(functions) = {} /\ fullSearch) => \A i \in Holders(objects) : result = objects[i]
(* Every search of the table ends. *)
SearchEnds == (stage = "functions") ~> (stage = "done")
=============================================================================
