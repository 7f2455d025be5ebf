----------------------------- MODULE BmkString -----------------------------
(***************************************************************************)
(* The string functions of libbmk_core.  A C string is a sequence of       *)
(* characters that ends with NUL; a pointer into it is an index.           *)
(***************************************************************************)
EXTENDS Integers, SequencesExt

CONSTANT Bits            \* the width of unsigned long
ASSUME BitsAssumption == Bits \in Nat \ {0}

NUL == "NUL"
UINT_MAX == 2^Bits - 1

hexdigits == <<"0","1","2","3","4","5","6","7","8","9","a","b","c","d","e","f">>
HEXDIGITS == <<"0","1","2","3","4","5","6","7","8","9","A","B","C","D","E","F">>
Space == {" ", "\t", "\n"}

\* The value of a digit or letter; one too large for any base otherwise.
DigitValue(c) ==
  IF Contains(hexdigits, c) THEN SelectInSeq(hexdigits, LAMBDA d : d = c) - 1
  ELSE IF Contains(HEXDIGITS, c) THEN SelectInSeq(HEXDIGITS, LAMBDA d : d = c) - 1
  ELSE 36

Take(s, n) == SubSeq(s, 1, IF n < Len(s) THEN n ELSE Len(s))

bmk_memchr(s, c, n) == SelectInSeq(Take(s, n), LAMBDA d : d = c)
\* Backwards from the index d.
bmk_memrchr(s, d, c, n) == SelectLastInSubSeq(s, d - n + 1, d, LAMBDA e : e = c)
bmk_strlen(s) == bmk_memchr(s, NUL, Len(s)) - 1

\* 0 for equal, which is all that the callers look at.
bmk_strncmp(a, b, n) ==
  IF \E i \in 1 .. n : a[i] # b[i] /\ \A k \in 1 .. i - 1 : a[k] = b[k] /\ a[k] # NUL THEN 1 ELSE 0

\* Where the first difference is at a's last character both pointers are past
\* it when the loop ends, and they are not stepped back: what is compared is
\* a's NUL with the character of b that follows (beyond, behind b's NUL).
bmk_strcmp(a, b, beyond) ==
  LET i == CHOOSE j \in 1 .. Len(a) :
             /\ a[j] = NUL \/ a[j] # b[j]
             /\ \A k \in 1 .. j - 1 : a[k] = b[k]
  IN IF \/ a[i] = b[i]
        \/ a[i] # NUL /\ a[i + 1] = NUL /\ Append(b, beyond)[i + 1] = NUL
     THEN 0 ELSE 1

-----------------------------------------------------------------------------
(* bmk_strtoul                                                             *)

\* The loop over the digits: acc, whether there was one, and the index of the
\* character after the last one looked at.
RECURSIVE Digits(_, _, _, _, _)
Digits(s, i, base, acc, any) ==
  IF DigitValue(s[i]) >= base THEN [acc |-> acc, any |-> any, s |-> i]
  ELSE IF acc > UINT_MAX \div base \/ (acc = UINT_MAX \div base /\ DigitValue(s[i]) > UINT_MAX % base)
  THEN [acc |-> UINT_MAX, any |-> FALSE, s |-> i]
  ELSE Digits(s, i + 1, base, acc * base + DigitValue(s[i]), TRUE)

\* The index of the first character that is not white space.
SkipSpace(s) == SelectInSeq(s, LAMBDA c : c \notin Space)
AfterSign(s, i) == IF s[i] \in {"-", "+"} THEN i + 1 ELSE i
HexPrefix(s, i, base) == base \in {0, 16} /\ s[i] = "0" /\ s[i + 1] \in {"x", "X"}
BaseOf(s, i, base) ==
  IF HexPrefix(s, i, base) THEN 16 ELSE IF base # 0 THEN base ELSE IF s[i] = "0" THEN 8 ELSE 10

Converted(d, neg) ==
  [value |-> IF neg /\ d.any THEN (2^Bits - d.acc) % 2^Bits ELSE d.acc,
   end |-> IF d.any THEN d.s ELSE 1]

bmk_strtoul(s, base) ==
  LET i == AfterSign(s, SkipSpace(s))
  IN Converted(Digits(s, IF HexPrefix(s, i, base) THEN i + 2 ELSE i, BaseOf(s, i, base), 0, FALSE),
               s[SkipSpace(s)] = "-")

=============================================================================
