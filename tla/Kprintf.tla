------------------------------ MODULE Kprintf ------------------------------
(***************************************************************************)
(* kprintf of subr_prf.c, behind bmk_printf and bmk_snprintf, reading its  *)
(* format a character (a number, for a width or precision) at a time.      *)
(***************************************************************************)
EXTENDS BmkString

CONSTANTS IntBits, ShortBits,  \* the widths of int and short; long is Bits
          Args,                \* integer arguments, as the bits of a long
          Widths, Precs,       \* numbers in formats; Stars: values for '*'
          Stars,
          BufSizes,            \* the sizes given to bmk_snprintf
          DMESG_SIZE,
          MaxFlags, MaxOut     \* bounds: flags in a directive, literal text

VARIABLES ap,      \* the directive read so far, or the state between two
          ret,     \* kprintf's return value
          put,     \* every character that KPRINTF_PUTCHAR was given
          sbuf,    \* the cells of the caller's buffer that are written
          size,    \* the size of that buffer
          dmesg, bmk_dmesgoff,
          conv     \* the last conversion: its character, argument and digits
kvars == <<ap, ret, put, sbuf, size, dmesg, bmk_dmesgoff, conv>>

KPRINTF_BUFSIZE == Bits \div 3 + 2
Wide == {"MAXINT", "PTRINT", "SIZEINT", "QUADINT", "LONGINT"}

-----------------------------------------------------------------------------
(* Output                                                                  *)

Cell(c) == [i \in 1 .. Len(c) |-> (bmk_dmesgoff + i - 1) % (DMESG_SIZE - 1)]

\* KPRINTF_PUTCHAR for each character of c: to the buffer while there is room
\* and, for bmk_printf, through cons_putchar to the message ring.
Emit(c) ==
  /\ put' = put \o c
  /\ sbuf' = sbuf \o Take(c, size - Len(sbuf))
  /\ bmk_dmesgoff' = (bmk_dmesgoff + Len(c)) % (DMESG_SIZE - 1)
  /\ dmesg' = [o \in DOMAIN dmesg |->
                 IF \E i \in DOMAIN c : Cell(c)[i] = o
                 THEN c[CHOOSE i \in DOMAIN c : Cell(c)[i] = o /\ \A j \in i + 1 .. Len(c) : Cell(c)[j] # o]
                 ELSE dmesg[o]]

Fill(c, n) == [i \in 1 .. n |-> c]
AtLeast(m, n) == IF m > n THEN m ELSE n

Prefix(f) ==
  IF f.sign # NUL THEN <<f.sign>> ELSE IF "HEXPREFIX" \in f.flags THEN <<"0", f.ch>> ELSE <<>>
dprec(f) == IF f.number THEN f.prec ELSE 0
realsz(f) == AtLeast(dprec(f), Len(f.cp)) + Len(Prefix(f))

Field(f) ==
  (IF f.flags \cap {"LADJUST", "ZEROPAD"} = {} THEN Fill(" ", f.width - realsz(f)) ELSE <<>>)
  \o Prefix(f)
  \o (IF "LADJUST" \notin f.flags /\ "ZEROPAD" \in f.flags THEN Fill("0", f.width - realsz(f)) ELSE <<>>)
  \o Fill("0", dprec(f) - Len(f.cp))
  \o f.cp
  \o (IF "LADJUST" \in f.flags THEN Fill(" ", f.width - realsz(f)) ELSE <<>>)

-----------------------------------------------------------------------------
(* Arguments                                                               *)

SignExtend(v, w) == IF v % 2^w >= 2^(w - 1) THEN 2^Bits - 2^w + (v % 2^w) ELSE v % 2^w

SARG(flags, v) ==
  IF flags \cap Wide # {} THEN v ELSE SignExtend(v, IF "SHORTINT" \in flags THEN ShortBits ELSE IntBits)
UARG(flags, v) ==
  IF flags \cap Wide # {} THEN v
  ELSE IF "SHORTINT" \in flags THEN SignExtend(v, IntBits) ELSE v % 2^IntBits

RECURSIVE ToChars(_, _, _)
ToChars(u, base, xdigs) ==
  (IF u < base THEN <<>> ELSE ToChars(u \div base, base, xdigs)) \o <<xdigs[(u % base) + 1]>>

\* The digits at the end of bf, with octal's leading 0.
Number(u, base, xdigs, a) ==
  LET cp == IF u = 0 /\ a.prec = 0 THEN <<>> ELSE ToChars(u, base, xdigs)
  IN IF base = 8 /\ "ALT" \in a.flags /\ cp # <<>> /\ cp[1] # "0" THEN <<"0">> \o cp ELSE cp

-----------------------------------------------------------------------------
(* The format                                                              *)

Text == [state |-> "text"]
Directive == [state |-> "flags", n |-> 0, flags |-> {}, width |-> 0, prec |-> -1, sign |-> NUL]
Silent == UNCHANGED <<ret, put, sbuf, size, dmesg, bmk_dmesgoff, conv>>

literal ==
  /\ ap.state = "text" /\ Len(put) < MaxOut
  /\ ret' = ret + 1 /\ Emit(<<"t">>)
  /\ UNCHANGED <<ap, size, conv>>

percent ==
  /\ ap.state = "text" /\ conv.ch = NUL
  /\ ap' = Directive /\ Silent

\* A flag: what becomes of the directive.
rflag(a) ==
  /\ ap.state = "flags" /\ ap.n < MaxFlags
  /\ ap' = [a EXCEPT !.n = @ + 1] /\ Silent

SetFlag(f) == rflag([ap EXCEPT !.flags = @ \cup {f}])
flag_space == rflag([ap EXCEPT !.sign = IF @ = NUL THEN " " ELSE @])
flag_plus == rflag([ap EXCEPT !.sign = "+"])
flag_star == \E w \in Stars :
  rflag([ap EXCEPT !.width = IF w < 0 THEN -w ELSE w,
                   !.flags = IF w < 0 THEN @ \cup {"LADJUST"} ELSE @])
flag_prec == \E n \in Precs \cup Stars : rflag([ap EXCEPT !.prec = IF n < 0 THEN -1 ELSE n])
flag_width == \E n \in Widths : rflag([ap EXCEPT !.width = n])

\* The end of a directive: the field goes out.
Convert(c, v, flags, sign, number, cp) ==
  \E f \in {[ch |-> IF c = "p" THEN "x" ELSE c, cp |-> cp, sign |-> sign, number |-> number,
             width |-> ap.width, prec |-> ap.prec,
             flags |-> IF number /\ ap.prec >= 0 THEN flags \ {"ZEROPAD"} ELSE flags]} :
    /\ ret' = ret + AtLeast(f.width, realsz(f)) /\ Emit(Field(f))
    /\ conv' = [ch |-> c, arg |-> v, digits |-> cp, at |-> Len(put) + 1]
    /\ ap' = Text /\ UNCHANGED size

\* %d, %i, %D
conv_d(v) ==
  /\ ap.state = "flags"
  /\ \E u \in {SARG(ap.flags, v)} :
       IF u >= 2^(Bits - 1)
       THEN Convert("d", u, ap.flags, "-", TRUE, Number(2^Bits - u, 10, hexdigits, ap))
       ELSE Convert("d", u, ap.flags, ap.sign, TRUE, Number(u, 10, hexdigits, ap))

\* %u, %o, %U, %O
conv_uo(c, base, v) ==
  /\ ap.state = "flags"
  /\ \E u \in {UARG(ap.flags, v)} :
       Convert(c, u, ap.flags, NUL, TRUE, Number(u, base, hexdigits, ap))

conv_x(c, v) ==
  /\ ap.state = "flags"
  /\ \E u \in {UARG(ap.flags, v)} :
       Convert(c, u, IF "ALT" \in ap.flags /\ u # 0 THEN ap.flags \cup {"HEXPREFIX"} ELSE ap.flags,
               NUL, TRUE, Number(u, 16, IF c = "x" THEN hexdigits ELSE HEXDIGITS, ap))

conv_p(v) ==
  /\ ap.state = "flags"
  /\ Convert("p", v, ap.flags \cup {"HEXPREFIX"}, NUL, TRUE, Number(v, 16, hexdigits, ap))

\* %c, and "%?" that prints ?
conv_c == ap.state = "flags" /\ Convert("c", 0, ap.flags, NUL, FALSE, <<"t">>)

conv_s(s) ==
  /\ ap.state = "flags"
  /\ \E sz \in {IF ap.prec < 0 THEN bmk_strlen(s)
                ELSE IF bmk_memchr(s, NUL, ap.prec) # 0 THEN bmk_memchr(s, NUL, ap.prec) - 1
                ELSE ap.prec} :
       Convert("s", 0, ap.flags, NUL, FALSE, SubSeq(s, 1, sz))

\* %n stores ret and prints nothing.
conv_n ==
  /\ ap.state = "flags"
  /\ conv' = [ch |-> "n", arg |-> ret, digits |-> <<>>, at |-> Len(put) + 1]
  /\ ap' = Text /\ UNCHANGED <<ret, put, sbuf, size, dmesg, bmk_dmesgoff>>

KInit ==
  /\ ap = Text /\ ret = 0 /\ put = <<>> /\ sbuf = <<>> /\ size \in BufSizes
  /\ dmesg = [o \in 0 .. DMESG_SIZE - 1 |-> NUL] /\ bmk_dmesgoff \in {0, DMESG_SIZE - 3}
  /\ conv = [ch |-> NUL, arg |-> 0, digits |-> <<>>, at |-> 1]

KNext ==
  \/ literal \/ percent
  \/ flag_space \/ flag_plus \/ flag_star \/ flag_prec \/ flag_width
  \/ \E f \in {"ALT", "LADJUST", "ZEROPAD", "SHORTINT", "LONGINT"} : SetFlag(f)
  \/ \E v \in Args : \/ conv_d(v) \/ conv_p(v)
                     \/ conv_uo("u", 10, v) \/ conv_uo("o", 8, v)
                     \/ conv_x("x", v) \/ conv_x("X", v)
  \/ conv_c \/ conv_n
  \/ conv_s(<<NUL>>) \/ conv_s(<<"t", "t", "t", NUL>>)

KSpec == KInit /\ [][KNext]_kvars

-----------------------------------------------------------------------------
(* bmk_vsnprintf, at the end of the format                                 *)

\* Variant: the NUL goes behind a buffer that is exactly full.
Terminator_Full(sz, r) == IF sz < r THEN sz ELSE r + 1
\* Which cell of the buffer (from 1) gets the NUL.
Terminator(sz, r) == IF sz <= r THEN sz ELSE r + 1

bmk_vsnprintf(s, sz, r) == IF sz = 0 THEN <<>> ELSE SubSeq(s, 1, Terminator(sz, r) - 1) \o <<NUL>>

-----------------------------------------------------------------------------
(* Properties                                                              *)

BaseFor(c) == IF c = "d" \/ c = "u" THEN 10 ELSE IF c = "o" THEN 8 ELSE 16
\* The text from the last conversion on, as a C string.
Printed == SubSeq(put, conv.at, Len(put)) \o <<NUL>>

\* What kprintf writes is what its format says, at every width, precision and
\* flag: bmk_strtoul reads back the number that a conversion was given, the
\* digits fit bf[KPRINTF_BUFSIZE], the return value counts the characters,
\* bmk_snprintf leaves as many of them as fit and a NUL inside the buffer, and
\* the message ring holds the last ones ("the last MSGBUFS chars are saved").
PrintsExactly ==
  /\ conv.ch \in {"d", "u", "o", "x", "X", "p"} => bmk_strtoul(Printed, BaseFor(conv.ch)).value = conv.arg
  /\ Len(conv.digits) <= KPRINTF_BUFSIZE
  /\ ret = Len(put)
  /\ size > 0 => /\ Terminator(size, ret) <= size
                 /\ IsPrefix(Front(bmk_vsnprintf(sbuf, size, ret)), put)
                 /\ Len(bmk_vsnprintf(sbuf, size, ret)) = (IF ret < size THEN ret + 1 ELSE size)
  /\ \A i \in 1 .. Len(put) :
       i <= DMESG_SIZE - 1 =>
         dmesg[(bmk_dmesgoff + (DMESG_SIZE - 1) * Len(put) - i) % (DMESG_SIZE - 1)] = put[Len(put) - i + 1]

=============================================================================
