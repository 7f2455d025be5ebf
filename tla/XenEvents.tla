------------------------------ MODULE XenEvents ------------------------------
(***************************************************************************)
(* Event channels on Xen (platform/xen/xen/events.c and hypervisor.c): the *)
(* pending and mask bits of the ports, the selector word over them, the    *)
(* upcall flags of the virtual CPU, and the callback that looks for work.  *)
(* The hypervisor raises events from other processors, one bit at a time.  *)
(***************************************************************************)
EXTENDS Integers, FiniteSets, FiniteSetsExt

CONSTANTS Port,           \* ports, numbers from 0
          PortsPerWord    \* the bits of a word

ASSUME EventAssumption == Port \subseteq Nat /\ PortsPerWord \in Nat \ {0}

VARIABLES evtchn_pending, evtchn_mask, pending_sel,
          upcall_pending, upcall_mask,
          bound_ports,            \* ports with a handler of their own
          sending,                \* how far the hypervisor is with a port
          cb, l1,                 \* the callback: "", "xchg", "words", a word
          unmasking               \* the port and the place of a running unmask

evtvars == <<evtchn_pending, evtchn_mask, pending_sel, upcall_pending, upcall_mask,
             bound_ports, sending, cb, l1, unmasking>>
bitvars == <<evtchn_pending, evtchn_mask, pending_sel>>

Word(p) == p \div PortsPerWord
None == <<>>

EVInit ==
  /\ evtchn_pending = {} /\ evtchn_mask = Port /\ pending_sel = {}
  /\ upcall_pending = FALSE /\ upcall_mask = FALSE
  /\ bound_ports = {} /\ sending = [p \in Port |-> ""]
  /\ cb = "" /\ l1 = {} /\ unmasking = None

\* active_evtchns: pending and not masked.
active_evtchns(w) == {p \in evtchn_pending \ evtchn_mask : Word(p) = w}

-----------------------------------------------------------------------------
\* The hypervisor, on behalf of another domain or of a virtual interrupt: set
\* the pending bit; if the port is not masked set the selector bit; if that
\* was clear flag the upcall.
EvtSend(p) ==
  /\ p \in bound_ports /\ sending[p] = ""
  /\ IF p \in evtchn_pending THEN UNCHANGED <<evtchn_pending, sending>>
     ELSE /\ evtchn_pending' = evtchn_pending \cup {p}
          /\ sending' = [sending EXCEPT ![p] = "pending"]
  /\ UNCHANGED <<evtchn_mask, pending_sel, upcall_pending, upcall_mask, bound_ports, cb, l1, unmasking>>

SendSelects(p) ==
  /\ sending[p] = "pending"
  /\ IF p \in evtchn_mask \/ Word(p) \in pending_sel
     THEN sending' = [sending EXCEPT ![p] = ""] /\ UNCHANGED pending_sel
     ELSE /\ sending' = [sending EXCEPT ![p] = "selected"]
          /\ pending_sel' = pending_sel \cup {Word(p)}
  /\ UNCHANGED <<evtchn_pending, evtchn_mask, upcall_pending, upcall_mask, bound_ports, cb, l1, unmasking>>

SendFlags(p) ==
  /\ sending[p] = "selected"
  /\ sending' = [sending EXCEPT ![p] = ""] /\ upcall_pending' = TRUE
  /\ UNCHANGED <<bitvars, upcall_mask, bound_ports, cb, l1, unmasking>>

-----------------------------------------------------------------------------
\* local_irq_save and local_irq_restore around a thread's critical section;
\* what came in meanwhile is taken at the restore (minios_force_evtchn_callback).
local_irq_save ==
  /\ cb = "" /\ ~upcall_mask /\ unmasking = None
  /\ upcall_mask' = TRUE
  /\ UNCHANGED <<bitvars, upcall_pending, bound_ports, sending, cb, l1, unmasking>>

local_irq_restore ==
  /\ cb = "" /\ upcall_mask /\ unmasking = None
  /\ upcall_mask' = FALSE
  /\ UNCHANGED <<bitvars, upcall_pending, bound_ports, sending, cb, l1, unmasking>>

\* The callback starts when the flag is up and upcalls are let through: it
\* clears the flag, then takes the selector ...
do_hypervisor_callback ==
  /\ cb = "" /\ upcall_pending /\ ~upcall_mask
  /\ upcall_pending' = FALSE /\ cb' = "xchg"
  /\ UNCHANGED <<bitvars, upcall_mask, bound_ports, sending, l1, unmasking>>

callback_selector ==
  /\ cb = "xchg"
  /\ l1' = pending_sel /\ pending_sel' = {} /\ cb' = "words"
  /\ UNCHANGED <<evtchn_pending, evtchn_mask, upcall_pending, upcall_mask, bound_ports, sending,
                 unmasking>>

\* ... and goes through its words, each as long as a port of it is active.
callback_next_word ==
  /\ cb = "words" /\ l1 # {} /\ active_evtchns(Min(l1)) = {}
  /\ l1' = l1 \ {Min(l1)}
  /\ UNCHANGED <<bitvars, upcall_pending, upcall_mask, bound_ports, sending, cb, unmasking>>

callback_returns ==
  /\ cb = "words" /\ l1 = {}
  /\ cb' = ""
  /\ UNCHANGED <<bitvars, upcall_pending, upcall_mask, bound_ports, sending, l1, unmasking>>

\* do_event clears the pending bit and calls the handler, which may mask the
\* port (minios_evtdev_handler) or leave it open (the drivers' handlers).
Handled(p) == cb = "words" /\ l1 # {} /\ p = Min(active_evtchns(Min(l1)))

do_event(p, masks) ==
  /\ cb = "words" /\ l1 # {} /\ active_evtchns(Min(l1)) # {} /\ Handled(p)
  /\ evtchn_pending' = evtchn_pending \ {p}
  /\ evtchn_mask' = IF masks THEN evtchn_mask \cup {p} ELSE evtchn_mask
  /\ UNCHANGED <<pending_sel, upcall_pending, upcall_mask, bound_ports, sending, cb, l1, unmasking>>

-----------------------------------------------------------------------------
\* minios_unmask_evtchn, called by a thread: clear the mask bit ...
minios_unmask_evtchn(p) ==
  /\ cb = "" /\ unmasking = None /\ p \in bound_ports
  /\ evtchn_mask' = evtchn_mask \ {p} /\ unmasking' = <<"test", p>>
  /\ UNCHANGED <<evtchn_pending, pending_sel, upcall_pending, upcall_mask, bound_ports, sending, cb, l1>>

\* ... then, if the port is pending and its word not yet selected, select it ...
Resends_Never(p) == FALSE

Resends(p) == p \in evtchn_pending /\ Word(p) \notin pending_sel

unmask_tests ==
  /\ cb = "" /\ unmasking # None /\ unmasking[1] = "test"
  /\ LET p == unmasking[2] IN
     IF Resends(p)
     THEN pending_sel' = pending_sel \cup {Word(p)} /\ unmasking' = <<"flag", p>>
     ELSE unmasking' = None /\ UNCHANGED pending_sel
  /\ UNCHANGED <<evtchn_pending, evtchn_mask, upcall_pending, upcall_mask, bound_ports, sending, cb, l1>>

\* ... and flag the upcall, which is taken at once unless upcalls are masked.
unmask_flags ==
  /\ cb = "" /\ unmasking # None /\ unmasking[1] = "flag"
  /\ upcall_pending' = TRUE /\ unmasking' = None
  /\ UNCHANGED <<bitvars, upcall_mask, bound_ports, sending, cb, l1>>

\* minios_bind_evtchn, after the hypervisor has made the port (virq, pirq,
\* unbound or interdomain); it stays masked until the driver unmasks it.
minios_bind_evtchn(p) ==
  /\ cb = "" /\ unmasking = None /\ p \notin bound_ports
  /\ bound_ports' = bound_ports \cup {p}
  /\ UNCHANGED <<bitvars, upcall_pending, upcall_mask, sending, cb, l1, unmasking>>

\* minios_unbind_evtchn: mask, clear, forget the handler, close the port.
minios_unbind_evtchn(p) ==
  /\ cb = "" /\ unmasking = None /\ p \in bound_ports /\ sending[p] = ""
  /\ evtchn_mask' = evtchn_mask \cup {p} /\ evtchn_pending' = evtchn_pending \ {p}
  /\ bound_ports' = bound_ports \ {p}
  /\ UNCHANGED <<pending_sel, upcall_pending, upcall_mask, sending, cb, l1, unmasking>>

\* Port 0 has the event device's handler, which masks it.
EVNext ==
  \/ \E p \in Port :
       \/ EvtSend(p) \/ SendSelects(p) \/ SendFlags(p) \/ do_event(p, p = 0)
       \/ minios_unmask_evtchn(p) \/ minios_bind_evtchn(p) \/ minios_unbind_evtchn(p)
  \/ local_irq_save \/ local_irq_restore
  \/ do_hypervisor_callback \/ callback_selector \/ callback_next_word \/ callback_returns
  \/ unmask_tests \/ unmask_flags

EVSpec == EVInit /\ [][EVNext]_evtvars

-----------------------------------------------------------------------------
\* Someone is about to flag the upcall of a word that is selected.
WillFlag(w) ==
  \/ upcall_pending \/ cb = "xchg"
  \/ \E q \in Port : sending[q] = "selected" /\ Word(q) = w
  \/ unmasking # None /\ unmasking[1] = "flag" /\ Word(unmasking[2]) = w

(* No event is lost: a port that is pending and not masked is on its way   *)
(* to its handler, in the words the callback still looks at, or selected   *)
(* with the upcall flagged or about to be, unless the hypervisor or the    *)
(* unmask that made it so has not yet come to the selector.  A port may be *)
(* raised at any moment between the steps of the callback, which clears    *)
(* the flag before it takes the selector, and of minios_unmask_evtchn.     *)
NoEventLost ==
  \A p \in evtchn_pending \ evtchn_mask :
    \/ sending[p] = "pending" \/ unmasking = <<"test", p>>
    \/ Word(p) \in pending_sel /\ WillFlag(Word(p))
    \/ cb = "words" /\ Word(p) \in l1
=============================================================================
