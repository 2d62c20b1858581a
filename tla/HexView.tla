------------------------------- MODULE HexView -------------------------------
(***************************************************************************)
(* The hexadecimal editor of a traced range (qmps/hex_view.cc). It shows   *)
(* the words of the range as text, three columns to a byte, and writes the *)
(* word under the cursor back, from the text, for each digit typed. While  *)
(* the machine runs the text may be older than the memory.                 *)
(***************************************************************************)
EXTENDS Integers

CONSTANTS
  Length,   \* words in the range
  WS,       \* bytes in a word
  PerRow,   \* words in a row
  Bad,      \* words that cannot be accessed
  Changing, \* words that the program writes
  Digits    \* the digits in use, 0 among them

VARIABLES
  mem,    \* the digits in memory, by word, byte and nibble
  text,   \* the digits shown, in display order
  pos,    \* position of the cursor in the text
  rev,    \* the bytes of a word are shown in reversed order
  wanted  \* the digits that the program and the user have meant to write

vars == <<mem, text, pos, rev, wanted>>

Words   == 0..Length-1
BytesOf == 0..WS-1
Nibbles == 0..1

Columns      == 3
CharsPerWord == WS * Columns
CharsPerRow  == PerRow * CharsPerWord
EndOfText    == Length * CharsPerWord - 1

currentWord(p)   == p \div CharsPerWord
currentByte(p)   == (p \div Columns) % WS
currentNibble(p) == p % Columns
Point(w, b, n)   == w * CharsPerWord + b * Columns + n

(* The byte of the word that is shown at place b. *)
InOrder(b, r) == IF r THEN WS - b - 1 ELSE b

Invalid == -1
Shown(m, r) ==
  [w \in Words |-> [b \in BytesOf |-> [n \in Nibbles |->
     IF w \in Bad THEN Invalid ELSE m[w][InOrder(b, r)][n]]]]

(* Text that is not a number has the value 0. *)
byteValue(t, w, b) ==
  IF \E n \in Nibbles : t[w][b][n] = Invalid THEN [n \in Nibbles |-> 0] ELSE t[w][b]

dataAtCursor(t) == [i \in BytesOf |-> byteValue(t, currentWord(pos), InOrder(i, rev))]

-----------------------------------------------------------------------------
(* The cursor moves to p, and from a space to the beginning of its word.   *)
MoveTo(p) == pos' = IF currentNibble(p) = 2 THEN Point(currentWord(p), 0, 0) ELSE p

(* A move that the text does not allow is not made. *)
Right(p, n) == IF p + n <= EndOfText THEN p + n ELSE p
Left(p, n)  == IF p >= n THEN p - n ELSE p

setPoint(w, b, n) == IF w \in Words THEN MoveTo(Point(w, b, n)) ELSE UNCHANGED pos

KeyLeft  == MoveTo(Left(pos, IF currentNibble(pos) = 1 THEN 1 ELSE 2))
KeyRight == MoveTo(Right(pos, IF currentNibble(pos) = 0 THEN 1 ELSE 2))
WordLeft  == setPoint(currentWord(pos) - 1, currentByte(pos), currentNibble(pos))
WordRight == setPoint(currentWord(pos) + 1, currentByte(pos), currentNibble(pos))

(* The toolkit moves by rows, to the end of one that is too short. *)
RowStart(p) == CharsPerRow * (p \div CharsPerRow)
RowEnd(p)   == IF RowStart(p) + CharsPerRow - 1 <= EndOfText THEN RowStart(p) + CharsPerRow - 1 ELSE EndOfText
KeyHome == MoveTo(RowStart(pos))
KeyEnd  == MoveTo(RowEnd(pos))
KeyUp   == IF pos >= CharsPerRow THEN MoveTo(pos - CharsPerRow) ELSE UNCHANGED pos
KeyDown ==
  LET next == RowStart(pos) + CharsPerRow
      p    == pos + CharsPerRow
  IN  IF next > EndOfText THEN UNCHANGED pos
      ELSE MoveTo(IF p <= EndOfText THEN p ELSE EndOfText)

MovementKey ==
  /\ KeyLeft \/ KeyRight \/ WordLeft \/ WordRight \/ KeyHome \/ KeyEnd \/ KeyUp \/ KeyDown
  /\ UNCHANGED <<mem, text, rev, wanted>>

(* A click on a space selects the digit before it. *)
mousePressEvent(p) ==
  /\ setPoint(currentWord(p), currentByte(p), IF currentNibble(p) = 0 THEN 0 ELSE 1)
  /\ UNCHANGED <<mem, text, rev, wanted>>

(* The digits of the word are those of the memory. *)
Fresh(w) == text[w] = Shown(mem, rev)[w]

(* The digit replaces the one under the cursor, and the whole word is      *)
(* written: if the text was old, its other digits are written too.         *)
TypeDigit(d) ==
  LET w == currentWord(pos)   b == currentByte(pos)   n == currentNibble(pos)
      typed == [text EXCEPT ![w][b][n] = d]
  IN  /\ IF w \in Bad
           THEN text' = Shown(mem, rev) /\ UNCHANGED <<mem, pos, wanted>>
           ELSE /\ text' = typed
                /\ mem' = [mem EXCEPT ![w] = dataAtCursor(typed)]
                /\ wanted' = IF Fresh(w) THEN [wanted EXCEPT ![w][InOrder(b, rev)][n] = d] ELSE mem'
                /\ MoveTo(Right(pos, 1 + n))
      /\ UNCHANGED rev

setReversedByteOrder ==
  /\ rev' = ~rev
  /\ text' = Shown(mem, rev')
  /\ UNCHANGED <<mem, pos, wanted>>

Refresh ==
  /\ text # Shown(mem, rev)
  /\ text' = Shown(mem, rev)
  /\ UNCHANGED <<mem, pos, rev, wanted>>

(* The program sets all the digits of a word. *)
ProgramWrites(w, d) ==
  /\ mem' = [mem EXCEPT ![w] = [b \in BytesOf |-> [n \in Nibbles |-> d]]]
  /\ wanted' = mem'
  /\ UNCHANGED <<text, pos, rev>>

-----------------------------------------------------------------------------
Init ==
  /\ mem = [w \in Words |-> [b \in BytesOf |-> [n \in Nibbles |-> 0]]]
  /\ rev \in BOOLEAN
  /\ text = Shown(mem, rev)
  /\ pos = 0
  /\ wanted = mem

Next ==
  \/ MovementKey
  \/ \E p \in 0..EndOfText : mousePressEvent(p)
  \/ \E d \in Digits : TypeDigit(d)
  \/ setReversedByteOrder \/ Refresh
  \/ \E w \in Changing, d \in Digits : ProgramWrites(w, d)

Spec == Init /\ [][Next]_vars

-----------------------------------------------------------------------------
(* A digit typed in a word that is shown as it is changes that digit of the*)
(* memory and no other, in either order of the bytes.                      *)
EditsExact == mem = wanted

(* The cursor is always on a digit, and the text only ever differs from the*)
(* memory in words that the program writes.                                *)
CursorOnDigit == currentNibble(pos) \in Nibbles /\ pos \in 0..EndOfText
TextOfMemory  == \A w \in Words \ Changing : Fresh(w)
=============================================================================
