------------------------------ MODULE Xencons -------------------------------
(***************************************************************************)
(* Console output on Xen: minios_console_print of console.c, which turns   *)
(* line feeds into CR LF in place and sends the text in parts, and the     *)
(* output ring of xencons_ring.c, which the console daemon empties.  Ring  *)
(* indices wrap at IdxMod.  Nothing is typed while text is printed.        *)
(***************************************************************************)
EXTENDS Integers, Sequences, SequencesExt

CONSTANTS Texts,        \* what is printed, none of it empty
          OutSize,      \* sizeof(intf->out), a power of two
          IdxMod        \* a multiple of OutSize, for 2^32

ASSUME ConsAssumption == OutSize > 0 /\ IdxMod % OutSize = 0 /\ IdxMod > OutSize

VARIABLES text,         \* the text being printed
          console_initialised,
          console_evtchn,       \* has the guest a console? (start_info.console.domU.evtchn)
          curr, start, length, copied_str,     \* curr_char, copied_ptr, length and the copy
          chunk, sent,                          \* the part being sent, and how much of it
          out, out_prod, out_cons,
          shown, dropped                       \* what the daemon has read, and whether text was dropped

guestvars == <<text, console_initialised, console_evtchn>>
consvars == <<guestvars, curr, start, length, copied_str, chunk, sent, out, out_prod, out_cons, shown, dropped>>

LF == "\n"
CR == "\r"

XCInit ==
  /\ text \in Texts /\ console_initialised \in BOOLEAN /\ console_evtchn \in BOOLEAN
  /\ copied_str = Append(text, "?") /\ curr = 1 /\ start = 1 /\ length = Len(text)
  /\ chunk = <<>> /\ sent = 0
  /\ out = [i \in 0 .. OutSize - 1 |-> "?"] /\ out_prod \in {0, IdxMod - 1} /\ out_cons = out_prod
  /\ shown = <<>> /\ dropped = FALSE

Pending == (out_prod - out_cons) % IdxMod
ringless == <<out, out_prod, out_cons, shown, dropped>>

-----------------------------------------------------------------------------
\* The loop's end, copied_ptr + length - 1, as the code computes it anew.
LastChar == start + length - 1

console_print_skips ==
  /\ chunk = <<>> /\ curr < LastChar /\ copied_str[curr] # LF
  /\ curr' = curr + 1
  /\ UNCHANGED <<guestvars, start, length, copied_str, chunk, sent, ringless>>

\* A line feed before the last character: CR LF over it and the next
\* character, which is put back after the part has been sent.
CrLf_Lost(p, q) == <<SubSeq(copied_str, p, q - 1) \o <<CR, LF>>, [copied_str EXCEPT ![q] = CR, ![q + 1] = LF]>>
CrLf(p, q) == <<SubSeq(copied_str, p, q - 1) \o <<CR, LF>>, [copied_str EXCEPT ![q] = CR]>>

console_print_line ==
  /\ chunk = <<>> /\ curr < LastChar /\ copied_str[curr] = LF
  /\ chunk' = CrLf(start, curr)[1] /\ copied_str' = CrLf(start, curr)[2]
  /\ sent' = 0
  /\ start' = curr + 1 /\ length' = length - (curr - start + 1) /\ curr' = curr + 1
  /\ UNCHANGED <<guestvars, ringless>>

\* The rest, with CR LF for a line feed at its end.
console_print_rest ==
  /\ chunk = <<>> /\ curr = LastChar /\ length > 0
  /\ chunk' = IF copied_str[LastChar] = LF THEN SubSeq(copied_str, start, LastChar - 1) \o <<CR, LF>>
             ELSE SubSeq(copied_str, start, LastChar)
  /\ sent' = 0 /\ length' = 0
  /\ UNCHANGED <<guestvars, curr, start, copied_str, ringless>>

-----------------------------------------------------------------------------
\* xencons_ring_send_no_notify: as much as there is room for, nothing without
\* an interface.
Room == IF console_evtchn THEN OutSize - Pending ELSE 0
SendLen == IF Len(chunk) - sent < Room THEN Len(chunk) - sent ELSE Room

xencons_ring_send_no_notify ==
  /\ out' = [i \in 0 .. OutSize - 1 |->
               LET k == (i - out_prod) % OutSize IN IF k < SendLen THEN chunk[sent + k + 1] ELSE out[i]]
  /\ out_prod' = (out_prod + SendLen) % IdxMod

\* xencons_ring_send goes on until all is sent, without an interface for ever;
\* before init_console what finds no room is dropped.
ring_send ==
  /\ chunk # <<>> /\ xencons_ring_send_no_notify
  /\ IF sent + SendLen = Len(chunk) \/ ~console_initialised
     THEN chunk' = <<>> /\ sent' = 0 /\ dropped' = (dropped \/ sent + SendLen < Len(chunk))
     ELSE sent' = sent + SendLen /\ UNCHANGED <<chunk, dropped>>
  /\ UNCHANGED <<guestvars, curr, start, length, copied_str, out_cons, shown>>

\* The console daemon reads a character.
DaemonReads ==
  /\ Pending > 0
  /\ shown' = Append(shown, out[out_cons % OutSize]) /\ out_cons' = (out_cons + 1) % IdxMod
  /\ UNCHANGED <<guestvars, curr, start, length, copied_str, chunk, sent, out, out_prod, dropped>>

XCNext == console_print_skips \/ console_print_line \/ console_print_rest \/ ring_send \/ DaemonReads

-----------------------------------------------------------------------------
WithCrLf(s) == FlattenSeq([i \in 1 .. Len(s) |-> IF s[i] = LF THEN <<CR, LF>> ELSE <<s[i]>>])
OnRing == [i \in 1 .. Pending |-> out[(out_cons + i - 1) % OutSize]]

(* The daemon reads exactly what was printed, each line feed as CR LF, in  *)
(* order and without gaps, however small the ring and slow the daemon      *)
(* (minios_console_print's parts and xencons_ring_send's loop), unless     *)
(* text was dropped before init_console, for want of room or of a console; *)
(* the ring never holds more than its size (the BUG_ON of                  *)
(* xencons_ring_send_no_notify).                                           *)
TextShown ==
  /\ Pending <= OutSize
  /\ ~dropped => IsPrefix(shown \o OnRing \o SubSeq(chunk, sent + 1, Len(chunk)), WithCrLf(text))
  /\ ~dropped /\ chunk = <<>> /\ length = 0 => shown \o OnRing = WithCrLf(text)
=============================================================================
