------------------------------- MODULE Json -------------------------------
(***************************************************************************)
(* JSON text as the simulator writes and reads it (base/json.cc). A step   *)
(* of the parser takes one token; a frame of its stack is a call of        *)
(* ParseObject or ParseArray with what it waits for. The document is the   *)
(* text of a value, or the beginning of that text, as a write that fails   *)
(* half-way leaves it.                                                     *)
(*                                                                         *)
(* Text is a sequence of characters; a keyword is one character, and all   *)
(* white space is a blank. Strings hold no quotation mark: Serialize does  *)
(* not escape it.                                                          *)
(***************************************************************************)
EXTENDS Integers, Sequences, SequencesExt

CONSTANTS
  Names,   \* member names of the objects
  Leaf,    \* the strings, numbers and keywords of the values: [type, text]
  MaxItems \* bound: items of an array

VARIABLES
  value,  \* what the document was written from
  doc,    \* the text
  pos,    \* the next character (JsonParser::input)
  stack,  \* calls in progress, the innermost last
  result, \* what Parse returned
  status  \* parsing, done or SyntaxError

vars == <<value, doc, pos, stack, result, status>>

(* Nodes all have the same shape, with the parts their type does not use   *)
(* empty.                                                                  *)
Node(t, text, members, items) == [type |-> t, text |-> text, members |-> members, items |-> items]
Simple(l)      == Node(l.type, l.text, <<>>, <<>>)
JsonObject(f)  == Node("object", <<>>, f, <<>>)
JsonArray(s)   == Node("array", <<>>, <<>>, s)
Empty          == [k \in {} |-> 0]

(* Set: a member of that name is replaced.                                 *)
Set(f, k, n) == [x \in DOMAIN f \cup {k} |-> IF x = k THEN n ELSE f[x]]

Leaves  == {Simple(l) : l \in Leaf}
Objects(K, N) == {JsonObject(f) : f \in UNION {[D -> N] : D \in SUBSET K}}
Arrays(N)     == {JsonArray(s) : s \in UNION {[1..n -> N] : n \in 0..MaxItems}}
Inner   == Leaves \cup Objects(Names, Leaves) \cup Arrays(Leaves)
Roots   == Objects(Names, Leaves) \cup UNION {Objects({k}, Inner) : k \in Names}

-----------------------------------------------------------------------------
(* Serialize, indented. *)
Quoted(text) == <<"\"">> \o text \o <<"\"">>

Separated(parts) ==
  FlattenSeq([i \in DOMAIN parts |-> <<" ">> \o parts[i] \o <<IF i = Len(parts) THEN " " ELSE ",">>])

(* The map iterates over its members in the order of their names; here it  *)
(* is any fixed order, since the parser accepts all of them.               *)
Serialize[n \in Inner \cup Roots] ==
  IF n.type = "string" THEN Quoted(n.text)
  ELSE IF n.type = "object"
  THEN LET names == SetToSeq(DOMAIN n.members)
       IN <<"{">> \o Separated([i \in DOMAIN names |->
             Quoted(names[i]) \o <<":", " ">> \o Serialize[n.members[names[i]]]]) \o <<"}">>
  ELSE IF n.type = "array"
  THEN <<"[">> \o Separated([i \in DOMAIN n.items |-> Serialize[n.items[i]]]) \o <<"]">>
  ELSE n.text

-----------------------------------------------------------------------------
Digit   == {"0", "1", "2"}
Keyword == {"true", "false", "null"}
First(S) == CHOOSE p \in S : \A q \in S : p <= q
From(p, S) == {q \in p..Len(doc) : doc[q] \in S}

TokenAt(t, p, q, next) == [type |-> t, text |-> SubSeq(doc, p, q), next |-> next]
NoToken == [type |-> "none", text |-> <<>>, next |-> Len(doc) + 1]

(* ReadString: up to the next quotation mark.                              *)
ReadString(p) ==
  LET ends == From(p + 1, {"\""}) IN
  IF ends = {} THEN NoToken ELSE TokenAt("string", p + 1, First(ends) - 1, First(ends) + 1)

ReadNumber(p) ==
  LET end == First({q \in p..Len(doc) : q = Len(doc) \/ doc[q + 1] \notin Digit})
  IN TokenAt("number", p, end, end + 1)

NextToken ==
  LET rest == {q \in pos..Len(doc) : doc[q] # " "} IN
  IF rest = {} THEN NoToken
  ELSE LET p == First(rest) c == doc[p] IN
       CASE c = "\""       -> ReadString(p)
         [] c \in Digit    -> ReadNumber(p)
         [] c \in Keyword  -> TokenAt("keyword", p, p, p + 1)
         [] c \in {"{", "}", "[", "]", ",", ":"} -> TokenAt(c, p, p, p + 1)
         [] OTHER          -> NoToken

-----------------------------------------------------------------------------
Init ==
  /\ value \in Roots
  /\ \E n \in 0..Len(Serialize[value]) : doc = SubSeq(Serialize[value], 1, n)
  /\ pos = 1 /\ stack = <<>> /\ result = JsonObject(Empty) /\ status = "parsing"

Top   == stack[Len(stack)]
Below == SubSeq(stack, 1, Len(stack) - 1)
Waits(w) == status = "parsing" /\ (IF stack = <<>> THEN "value" ELSE Top.wait) = w

Consume == pos' = NextToken.next /\ UNCHANGED <<value, doc>>
Go(s)   == stack' = s /\ UNCHANGED <<result, status>>
WaitFor(w) == Go(Below \o <<[Top EXCEPT !.wait = w]>>)

(* A node is complete: the call that wanted it goes on, or Parse returns.  *)
Return(callers, n) ==
  IF callers = <<>>
  THEN result' = n /\ status' = "done" /\ stack' = <<>>
  ELSE LET c == callers[Len(callers)] IN
       Go(SubSeq(callers, 1, Len(callers) - 1) \o
          <<IF c.node.type = "object"
            THEN [c EXCEPT !.node.members = Set(@, c.member, n), !.wait = "object next"]
            ELSE [c EXCEPT !.node.items = Append(@, n), !.wait = "array next"]>>)

SyntaxError == status' = "SyntaxError" /\ UNCHANGED <<value, doc, pos, stack, result>>

Call(n, w) == Go(Append(stack, [node |-> n, member |-> <<>>, wait |-> w]))

ParseNode ==
  /\ Waits("value")
  /\ \/ NextToken.type = "{" /\ Consume /\ Call(JsonObject(Empty), "member")
     \/ NextToken.type = "[" /\ Consume /\ Call(JsonArray(<<>>), "first item")
     \/ NextToken.type \in {"string", "number", "keyword"} /\ Consume
          /\ Return(stack, Simple(NextToken))
     \/ NextToken.type \in {"none", "}", "]", ",", ":"} /\ SyntaxError

ParseMember ==
  /\ Waits("member")
  /\ \/ NextToken.type = "string" /\ Consume
          /\ Go(Below \o <<[Top EXCEPT !.member = NextToken.text, !.wait = "colon"]>>)
     \/ NextToken.type = "}" /\ Consume /\ Return(Below, Top.node)
     \/ NextToken.type \notin {"string", "}"} /\ SyntaxError

ParseColon ==
  /\ Waits("colon")
  /\ IF NextToken.type = ":" THEN Consume /\ WaitFor("value") ELSE SyntaxError

ParseObjectNext ==
  /\ Waits("object next")
  /\ \/ NextToken.type = "," /\ Consume /\ WaitFor("member")
     \/ NextToken.type = "}" /\ Consume /\ Return(Below, Top.node)
     \/ NextToken.type \notin {",", "}"} /\ SyntaxError

(* The token looked at is taken only if it ends the array.                 *)
ParseFirstItem ==
  /\ Waits("first item")
  /\ IF NextToken.type = "]" THEN Consume /\ Return(Below, Top.node)
     ELSE WaitFor("value") /\ UNCHANGED <<value, doc, pos>>

ParseArrayNext ==
  /\ Waits("array next")
  /\ \/ NextToken.type = "," /\ Consume /\ WaitFor("value")
     \/ NextToken.type = "]" /\ Consume /\ Return(Below, Top.node)
     \/ NextToken.type \notin {",", "]"} /\ SyntaxError

Next == \/ ParseNode \/ ParseMember \/ ParseColon \/ ParseObjectNext
        \/ ParseFirstItem \/ ParseArrayNext

Spec == Init /\ [][Next]_vars
-----------------------------------------------------------------------------
(* What Serialize wrote, Parse reads back as the same value; and it takes  *)
(* no truncated text, however it was cut, for a whole one.                 *)
ReadsWhole ==
  LET whole == doc = Serialize[value] IN
  /\ status = "done" => whole /\ result = value
  /\ status = "SyntaxError" => ~whole
=============================================================================
