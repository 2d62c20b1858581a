-------------------------------- MODULE MCBus --------------------------------
(***************************************************************************)
(* Small instances of the event queue and of the data structures around    *)
(* the machine: the address space of the bus, the symbol table, the files  *)
(* of configuration and memory images.  A behaviour runs one of them; the  *)
(* event queue is at rest meanwhile, the others are Off.                   *)
(***************************************************************************)
EXTENDS EventQueue, SymbolTableParameters, FiniteSets

CONSTANTS e1, e2, e3,
          RamWords, RomWords, DataWords, Line, Dev, Field, BLOCKSIZE, Fixed, Value, MaxStored,
          Page, Header, RamSize, MaxText, MaxData, Span, Geometries, Sizes, MaxWritten,
          Letter, Names, Leaf, MaxItems

MCEvent == {e1, e2, e3}

VARIABLES active,
          memory, device, control, block, stored, ended,       \* of SystemBus
          functions, objects, pos, fullSearch, a, c, stage, result, tidy,  \* of SymbolTable
          value, doc, jPos, stack, jResult, status,             \* of Json
          program, file, whole, loaded, image, params, blocks, iPhase   \* of Images

(* Member names and leaves of the documents that are serialized. *)
MCNames == {<<>>, <<"a">>}
MCLeaf == {[type |-> "string", text |-> <<"a">>],
           [type |-> "number", text |-> <<"1", "2">>],
           [type |-> "keyword", text |-> <<"true">>]}

B == INSTANCE SystemBus

(* ROM, bitmaps of lines, size of RAM: neighbours differ.                  *)
MCFixed ==
  [n \in ({"rom"} \X (0..RomWords-1)) \cup ({"idev"} \X (0..Line-1)) \cup {<<"ram size">>, <<"ncpus">>} |->
     IF n \in {<<"ram size">>, <<"idev", 1>>} THEN 1 ELSE 2]

(* Disks that positive offsets span, that all offsets span, and larger.    *)
MCGeometries == {<<1, 2, 2>>, <<2, 1, 2>>, <<3, 1, 1>>, <<2, 2, 2>>, <<2, 4, 2>>}

Y == INSTANCE SymbolTable
J == INSTANCE Json WITH pos <- jPos, result <- jResult
I == INSTANCE Images WITH memory <- loaded, phase <- iPhase

(* The areas may be empty, but every line has devices, and they registers. *)
ASSUME BusAssumption ==
  /\ RamWords \in Nat /\ RomWords \in Nat /\ DataWords \in Nat /\ BLOCKSIZE \in Nat
  /\ Line \in Nat \ {0} /\ Dev \in Nat \ {0} /\ Field \in Nat \ {0}

(* The a.out header fits the first page of the text; what mkdev accepts of *)
(* geometries and sizes is not zero.                                       *)
ASSUME ImagesAssumption ==
  /\ Page \in Nat \ {0} /\ Header \in 0..Page /\ RamSize \in Nat
  /\ Span \in Nat \ {0} /\ Sizes \subseteq Nat
  /\ Geometries \subseteq (Nat \ {0}) \X (Nat \ {0}) \X (Nat \ {0})

(* Texts are of letters, numbers of digits, and names are finitely many.   *)
ASSUME JsonAssumption ==
  /\ "\"" \notin Letter
  /\ IsFiniteSet(Names) /\ Names \subseteq Seq(Letter) /\ MaxItems \in Nat
  /\ \A l \in Leaf :
       \/ l.type = "string" /\ l.text \in Seq(Letter)
       \/ l.type = "number" /\ l.text \in Seq(J!Digit) /\ l.text # <<>>
       \/ l.type = "keyword" /\ \E k \in J!Keyword : l.text = <<k>>

bVars == <<memory, device, control, block, stored, ended>>
yVars == <<functions, objects, pos, fullSearch, a, c, stage, result, tidy>>
jVars == <<value, doc, jPos, stack, jResult, status>>
iVars == <<program, file, whole, loaded, image, params, blocks, iPhase>>
allVars == <<vars, active, bVars, yVars, jVars, iVars>>

Off == "off"

MCInit ==
  /\ active \in {"queue", "bus", "symbols", "json", "images"}
  /\ Init
  /\ IF active = "bus" THEN B!Init
     ELSE memory = Off /\ device = Off /\ control = Off /\ block = Off /\ stored = Off /\ ended = Off
  /\ IF active = "symbols" THEN Y!Init
     ELSE /\ functions = Off /\ objects = Off /\ pos = Off /\ fullSearch = Off
          /\ a = Off /\ c = Off /\ stage = Off /\ result = Off /\ tidy = Off
  /\ IF active = "json" THEN J!Init
     ELSE /\ value = Off /\ doc = Off /\ jPos = Off
          /\ stack = Off /\ jResult = Off /\ status = Off
  /\ IF active = "images" THEN I!Init
     ELSE /\ program = Off /\ file = Off /\ whole = Off /\ loaded = Off
          /\ image = Off /\ params = Off /\ blocks = Off /\ iPhase = Off

MCNext ==
  \/ active = "queue" /\ Next /\ UNCHANGED <<active, bVars, yVars, jVars, iVars>>
  \/ active = "bus" /\ B!Next /\ UNCHANGED <<active, vars, yVars, jVars, iVars>>
  \/ active = "symbols" /\ Y!Next /\ UNCHANGED <<active, vars, bVars, jVars, iVars>>
  \/ active = "json" /\ J!Next /\ UNCHANGED <<active, vars, bVars, yVars, iVars>>
  \/ active = "images" /\ I!Next /\ UNCHANGED <<active, vars, bVars, yVars, jVars>>

MCSpec == /\ MCInit /\ [][MCNext]_allVars
          /\ active = "queue" => Fairness
          /\ Y!Fairness

-----------------------------------------------------------------------------

(* Every address names one place: what was stored last there is read.      *)
ReadsLastStored == active = "bus" => B!ReadsLastStored

(* A symbol found holds the address, and none that does is missed.         *)
SearchExact == active = "symbols" => Y!TypeOK /\ Y!SearchExact

(* Every search of the symbol table ends. *)
SearchEnds == Y!SearchEnds

(* Core, ROM, disk and flash images, and whole configuration files, read as*)
(* they were written; no part of a configuration file does.                *)
FilesRead == /\ active = "images" => I!FilesRead
             /\ active = "json" => J!ReadsWhole
==============================================================================
