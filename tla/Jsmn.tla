-------------------------------- MODULE Jsmn --------------------------------
(***************************************************************************)
(* The JSON tokeniser jsmn.c, as rumprun builds it: not strict, without    *)
(* parent links.  Text is a sequence of characters; a word that nothing    *)
(* looks into is one character.  Positions are the C code's (from 0), a    *)
(* token's index counts from 1 and 0 is toksuper's -1.                     *)
(***************************************************************************)
EXTENDS Integers, SequencesExt

JSpace == {"\t", "\r", "\n", " "}
Escapes == {"\"", "/", "\\", "b", "f", "r", "n", "t"}
Hex == {"0", "1", "9", "a", "f"}
Control == "CTL"         \* a character that cannot be printed
INVAL == -2
NOMEM == -1
PART == -3

jsmn_init == [pos |-> 0, toksuper |-> 0, tokens |-> <<>>, count |-> 0, r |-> 0]

\* The error leaves the position where it was.
Error(p, e) == [p EXCEPT !.r = e]

\* A new token, the n-th at most; without tokens they are only counted.
jsmn_alloc_token(p, num, tok) ==
  IF num = 0 THEN p
  ELSE IF Len(p.tokens) >= num THEN Error(p, NOMEM)
  ELSE [p EXCEPT !.tokens = Append(@, tok)]

jsmn_fill_token(type, start, end) == [type |-> type, start |-> start, end |-> end, size |-> 0]

\* The token that is under construction got another child.
Child(p) == IF p.r < 0 \/ p.toksuper = 0 THEN p ELSE [p EXCEPT !.tokens[p.toksuper].size = @ + 1]
Counted(p) == IF p.r < 0 THEN p ELSE [p EXCEPT !.count = @ + 1]

\* Where the primitive that begins at pos ends.
PrimitiveEnd(js, pos) ==
  LET ends == {i \in pos .. Len(js) - 1 : js[i + 1] \in JSpace \cup {":", ",", "]", "}", Control}}
  IN IF ends = {} THEN Len(js) ELSE CHOOSE i \in ends : \A j \in ends : i <= j

Primitive(p, num, end) == [Child(Counted(jsmn_alloc_token(p, num, jsmn_fill_token("PRIMITIVE", p.pos, end)))) EXCEPT !.pos = end - 1]

jsmn_parse_primitive(p, js, num) ==
  IF Append(js, " ")[PrimitiveEnd(js, p.pos) + 1] = Control THEN Error(p, INVAL)
  ELSE Primitive(p, num, PrimitiveEnd(js, p.pos))

\* The position of the closing quote, from the position i on; or an error.
RECURSIVE StringEnd(_, _)
StringEnd(js, i) ==
  IF i >= Len(js) THEN PART
  ELSE IF js[i + 1] = "\"" THEN i
  ELSE IF js[i + 1] # "\\" \/ i + 1 >= Len(js) THEN StringEnd(js, i + 1)
  ELSE IF js[i + 2] \in Escapes THEN StringEnd(js, i + 2)
  ELSE IF js[i + 2] # "u" THEN INVAL
  ELSE IF \E k \in 0 .. 3 : i + 2 + k < Len(js) /\ js[i + 3 + k] \notin Hex THEN INVAL
  ELSE StringEnd(js, IF i + 6 < Len(js) THEN i + 6 ELSE Len(js))

jsmn_parse_string(p, num, end) ==
  IF end < 0 THEN Error(p, end)
  ELSE [Child(Counted(jsmn_alloc_token(p, num, jsmn_fill_token("STRING", p.pos + 1, end)))) EXCEPT !.pos = end]

Container(c) == IF c \in {"{", "}"} THEN "OBJECT" ELSE "ARRAY"

Opened(p, num) == IF p.r < 0 \/ num = 0 THEN p ELSE [p EXCEPT !.toksuper = Len(p.tokens)]
open(p, c, num) ==
  Opened(Child(jsmn_alloc_token(Counted(p), num, jsmn_fill_token(Container(c), p.pos, -1))), num)

\* The tokens that are not finished; the last one is the innermost.
Unclosed(tokens) == {i \in DOMAIN tokens : tokens[i].end = -1}
Innermost(S) == IF S = {} THEN 0 ELSE CHOOSE i \in S : \A j \in S : j <= i

\* Variant: the parent is not looked for.
CloseToken_NoParent(p, i) == [p EXCEPT !.tokens[i].end = p.pos + 1, !.toksuper = 0]
CloseToken(p, i) ==
  [p EXCEPT !.tokens[i].end = p.pos + 1, !.toksuper = Innermost(Unclosed(p.tokens) \ {i})]

close(p, c, num) ==
  IF num = 0 THEN p
  ELSE IF Unclosed(p.tokens) = {} THEN Error(p, INVAL)
  ELSE IF p.tokens[Innermost(Unclosed(p.tokens))].type # Container(c) THEN Error(p, INVAL)
  ELSE CloseToken(p, Innermost(Unclosed(p.tokens)))

\* At the top level the code reads the type of tokens[-1]; whatever it finds,
\* no container is open there and toksuper stays.
comma(p, num) ==
  IF num # 0 /\ p.toksuper # 0 /\ p.tokens[p.toksuper].type \notin {"ARRAY", "OBJECT"} /\ Unclosed(p.tokens) # {}
  THEN [p EXCEPT !.toksuper = Innermost(Unclosed(p.tokens))]
  ELSE p

Step(p, js, num, c) ==
  CASE c \in {"{", "["} -> open(p, c, num)
    [] c \in {"}", "]"} -> close(p, c, num)
    [] c = "\"" -> jsmn_parse_string(p, num, StringEnd(js, p.pos + 1))
    [] c \in JSpace -> p
    [] c = ":" -> [p EXCEPT !.toksuper = Len(p.tokens)]
    [] c = "," -> comma(p, num)
    [] OTHER -> jsmn_parse_primitive(p, js, num)

RECURSIVE Scan(_, _, _)
Scan(p, js, num) ==
  IF p.r < 0 THEN p
  ELSE IF p.pos >= Len(js) THEN IF Unclosed(p.tokens) # {} THEN Error(p, PART) ELSE [p EXCEPT !.r = p.count]
  ELSE Scan([Step(p, js, num, js[p.pos + 1]) EXCEPT !.pos = @ + 1], js, num)

\* r: the number of tokens, or an error.  With num = 0 they are counted.
jsmn_parse(js, num) == Scan(jsmn_init, js, num)

=============================================================================
