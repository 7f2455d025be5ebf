------------------------------- MODULE Gnttab -------------------------------
(***************************************************************************)
(* The grant table of platform/xen/xen/gnttab.c with the semaphore and the *)
(* wait queue it blocks on (mini-os/semaphore.h and wait.h).  Threads take *)
(* turns only when one of them blocks; the network driver's interrupt      *)
(* handler may come between any two of their critical sections, gives      *)
(* entries back and takes others.                                          *)
(***************************************************************************)
EXTENDS Integers, Sequences, FiniteSets, Queues

CONSTANTS GThread,     \* threads that grant and end access
          Entry,       \* grant entries
          RxEntries    \* how many of them the receive ring always holds

ASSUME GrantAssumption ==
  IsFiniteSet(Entry) /\ RxEntries \in 0 .. Cardinality(Entry) /\ "nobody" \notin GThread

VARIABLES gnttab_list,        \* the free list, its head first
          count,              \* gnttab_sem
          gpc,                \* each thread's place
          gcur,               \* the thread that runs, if it is inside a call
          granted,            \* entries that threads have granted
          rx                  \* entries granted for the receive ring

gntvars == <<gnttab_list, count, gpc, gcur, granted, rx>>

Nobody == "nobody"

GRInit ==
  /\ gnttab_list = InSomeOrder(Entry) /\ count = Cardinality(Entry)
  /\ gpc = [t \in GThread |-> "idle"]
  /\ gcur = Nobody /\ granted = {} /\ rx = {}

InCall(t, pc) == gcur = t /\ gpc[t] = pc
Goes(t, pc) == gpc' = [gpc EXCEPT ![t] = pc]

-----------------------------------------------------------------------------
\* gnttab_grant_access, gnttab_grant_transfer and gnttab_alloc_and_grant
\* start with get_free_entry, which starts with down().
get_free_entry(t) ==
  /\ gcur = Nobody /\ gpc[t] = "idle"
  /\ gcur' = t /\ Goes(t, "test")
  /\ UNCHANGED <<gnttab_list, count, granted, rx>>

\* minios_wait_event in down(): look at the count with interrupts on ...
wait_event(t) ==
  /\ InCall(t, "test")
  /\ Goes(t, IF count > 0 THEN "down" ELSE "prepare")
  /\ UNCHANGED <<gnttab_list, count, gcur, granted, rx>>

\* ... and only then join the queue and block.
wait_event_blocks(t) ==
  /\ InCall(t, "prepare")
  /\ Goes(t, "asleep") /\ gcur' = Nobody
  /\ UNCHANGED <<gnttab_list, count, granted, rx>>

wait_event_returns(t) ==
  /\ gcur = Nobody /\ gpc[t] = "woken"
  /\ gcur' = t /\ Goes(t, "test")
  /\ UNCHANGED <<gnttab_list, count, granted, rx>>

\* down(): look again with interrupts off, and take one.
down(t) ==
  /\ InCall(t, "down")
  /\ IF count > 0 THEN count' = count - 1 /\ Goes(t, "pop") ELSE Goes(t, "test") /\ UNCHANGED count
  /\ UNCHANGED <<gnttab_list, gcur, granted, rx>>

\* The rest of get_free_entry: unlink the head of the list.
unlink(t) ==
  /\ InCall(t, "pop") /\ gnttab_list # <<>>
  /\ gnttab_list' = Tail(gnttab_list)
  /\ granted' = granted \cup {Head(gnttab_list)}
  /\ Goes(t, "idle") /\ gcur' = Nobody
  /\ UNCHANGED <<count, rx>>

-----------------------------------------------------------------------------
\* up(): one more, and every sleeper is woken.
Woken(pc) == [t \in GThread |-> IF pc[t] = "asleep" THEN "woken" ELSE pc[t]]

\* gnttab_end_access and gnttab_end_transfer leave an entry that the other
\* side still uses as it is; otherwise put_free_entry links it in, then ups.
\* (A variant that forgets to link the new head to the old one.)
put_free_entry_NoLink(t, e) ==
  /\ gcur = Nobody /\ gpc[t] = "idle" /\ e \in granted
  /\ granted' = granted \ {e} /\ gnttab_list' = <<e>>
  /\ gcur' = t /\ Goes(t, "up")
  /\ UNCHANGED <<count, rx>>

put_free_entry(t, e) ==
  /\ gcur = Nobody /\ gpc[t] = "idle" /\ e \in granted
  /\ granted' = granted \ {e} /\ gnttab_list' = <<e>> \o gnttab_list
  /\ gcur' = t /\ Goes(t, "up")
  /\ UNCHANGED <<count, rx>>

up(t) ==
  /\ InCall(t, "up")
  /\ count' = count + 1 /\ gcur' = Nobody
  /\ gpc' = [Woken(gpc) EXCEPT ![t] = "idle"]
  /\ UNCHANGED <<gnttab_list, granted, rx>>

-----------------------------------------------------------------------------
\* network_tx_buf_gc, in the interrupt handler: a transmitted buffer's entry
\* is given back.
network_tx_buf_gc(e) ==
  /\ e \in granted
  /\ granted' = granted \ {e} /\ gnttab_list' = <<e>> \o gnttab_list
  /\ count' = count + 1 /\ gpc' = Woken(gpc)
  /\ UNCHANGED <<gcur, rx>>

\* init_rx_buffers, before the handler is let in.
init_rx_buffers ==
  /\ rx = {} /\ gcur = Nobody /\ granted = {} /\ RxEntries > 0
  /\ \A t \in GThread : gpc[t] = "idle"
  /\ rx' = {gnttab_list[i] : i \in 1 .. RxEntries}
  /\ gnttab_list' = SubSeq(gnttab_list, RxEntries + 1, Len(gnttab_list))
  /\ count' = count - RxEntries
  /\ UNCHANGED <<gpc, gcur, granted>>

\* network_rx, in the handler: the entries ns of the buffers that came in
\* are given back, one up() each, and as many are taken for the ring again.
network_rx(ns) ==
  /\ ns # {} /\ ns \subseteq rx
  /\ LET list == InSomeOrder(ns) \o gnttab_list
     IN  /\ rx' = (rx \ ns) \cup {list[i] : i \in 1 .. Cardinality(ns)}
         /\ gnttab_list' = SubSeq(list, Cardinality(ns) + 1, Len(list))
  /\ gpc' = Woken(gpc)
  /\ UNCHANGED <<count, gcur, granted>>

GRNext ==
  \/ \E t \in GThread :
       \/ get_free_entry(t) \/ wait_event(t) \/ wait_event_blocks(t) \/ wait_event_returns(t)
       \/ down(t) \/ unlink(t) \/ up(t)
       \/ \E e \in Entry : put_free_entry(t, e)
  \/ \E e \in Entry : network_tx_buf_gc(e)
  \/ init_rx_buffers
  \/ \E ns \in SUBSET rx : network_rx(ns)

GRSpec == GRInit /\ [][GRNext]_gntvars

-----------------------------------------------------------------------------
Between(pc) == Cardinality({t \in GThread : gpc[t] = pc})

(* Grant entries are never lost or given out twice: the free list holds    *)
(* each entry that is not granted, once, and it always has the entry that  *)
(* a down() on the semaphore promised, though the list and the semaphore   *)
(* are changed in separate critical sections with interrupts let in        *)
(* between.  So get_free_entry's BUG_ON never fires.                       *)
GrantsAccounted ==
  /\ Range(gnttab_list) = Entry \ (granted \cup rx) /\ granted \cap rx = {}
  /\ Len(gnttab_list) = Cardinality(Entry \ (granted \cup rx))
  /\ Len(gnttab_list) = count + Between("pop") + Between("up")
=============================================================================
