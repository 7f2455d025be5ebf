------------------------------- MODULE EvtDev -------------------------------
(***************************************************************************)
(* The event channel device (librumpxen_xendev/evtdev.c): the handler      *)
(* masks the port and puts it on the driver's ring, the xenevt thread      *)
(* moves it to the ring of the device that bound it, a program reads it    *)
(* there and writes it back to open the port again.  XenEvents has the     *)
(* event channels beneath: here a port that is open may interrupt.         *)
(***************************************************************************)
EXTENDS Integers, Sequences, FiniteSets

CONSTANTS EvtPort,             \* ports of the event device
          Dev,                 \* open devices
          EVTDEV_RING_SIZE     \* a power of two, 2048 in the code

VARIABLES open_ports,                              \* ports that are not masked
          xenevt_ring, xenevt_prod, xenevt_cons,   \* the driver's ring
          xenevt_thread, thr_prod, thr_cons,                      \* xenevt_thread_func
          devevents,                               \* which device bound a port
          dev_ring, evt_overflow,                          \* each device's queue, as read
          evt_held,                                    \* ports a program has read
          evt_dropped,                                 \* ports a reset forgot
          evt_broken                                   \* the driver lost its footing

evdvars == <<open_ports, xenevt_ring, xenevt_prod, xenevt_cons, xenevt_thread, thr_prod, thr_cons, devevents, dev_ring,
             evt_overflow, evt_held, evt_dropped, evt_broken>>

NoDev == "none"
EVTDEV_RING_MASK(n) == n % EVTDEV_RING_SIZE

EDInit ==
  /\ open_ports = {}
  /\ xenevt_ring = [i \in 0 .. EVTDEV_RING_SIZE - 1 |-> 0] /\ xenevt_prod = 0 /\ xenevt_cons = 0
  /\ xenevt_thread = "test" /\ thr_prod = 0 /\ thr_cons = 0
  /\ devevents = [p \in EvtPort |-> NoDev]
  /\ dev_ring = [d \in Dev |-> <<>>] /\ evt_overflow = [d \in Dev |-> FALSE]
  /\ evt_held = {} /\ evt_dropped = {} /\ evt_broken = FALSE

-----------------------------------------------------------------------------
\* minios_evtdev_handler and rump_evtdev_callback: mask the port, put it on
\* the ring if there is room, wake the thread if it sleeps.
rump_evtdev_callback(p) ==
  /\ IF xenevt_cons = EVTDEV_RING_MASK(xenevt_prod + 1)
     THEN UNCHANGED <<xenevt_ring, xenevt_prod>>
     ELSE /\ xenevt_ring' = [xenevt_ring EXCEPT ![xenevt_prod] = p]
          /\ xenevt_prod' = EVTDEV_RING_MASK(xenevt_prod + 1)
  /\ xenevt_thread' = IF xenevt_thread = "asleep" THEN "test" ELSE xenevt_thread

minios_evtdev_handler_NoMask(p) ==
  /\ p \in open_ports /\ ~evt_broken
  /\ UNCHANGED open_ports
  /\ rump_evtdev_callback(p)
  /\ UNCHANGED <<xenevt_cons, thr_prod, thr_cons, devevents, dev_ring, evt_overflow, evt_held, evt_dropped, evt_broken>>

minios_evtdev_handler(p) ==
  /\ p \in open_ports /\ ~evt_broken
  /\ open_ports' = open_ports \ {p}
  /\ rump_evtdev_callback(p)
  /\ UNCHANGED <<xenevt_cons, thr_prod, thr_cons, devevents, dev_ring, evt_overflow, evt_held, evt_dropped, evt_broken>>

-----------------------------------------------------------------------------
\* minios_wait_event: the condition is looked at before the thread is on the
\* queue and prepared to block, and not again after.
wait_event_tests ==
  /\ ~evt_broken /\ xenevt_thread = "test"
  /\ xenevt_thread' = IF xenevt_prod # thr_prod THEN "round" ELSE "prepare"
  /\ UNCHANGED <<open_ports, xenevt_ring, xenevt_prod, xenevt_cons, thr_prod, thr_cons, devevents, dev_ring,
                 evt_overflow, evt_held, evt_dropped, evt_broken>>

wait_event_sleeps ==
  /\ ~evt_broken /\ xenevt_thread = "prepare"
  /\ xenevt_thread' = "asleep"
  /\ UNCHANGED <<open_ports, xenevt_ring, xenevt_prod, xenevt_cons, thr_prod, thr_cons, devevents, dev_ring,
                 evt_overflow, evt_held, evt_dropped, evt_broken>>

round_starts ==
  /\ ~evt_broken /\ xenevt_thread = "round"
  /\ thr_prod' = xenevt_prod /\ thr_cons' = xenevt_cons /\ xenevt_thread' = "queue"
  /\ UNCHANGED <<open_ports, xenevt_ring, xenevt_prod, xenevt_cons, devevents, dev_ring, evt_overflow, evt_held,
                 evt_dropped, evt_broken>>

\* queue: one slot of the device's ring stays empty.
queue(d, p) ==
  IF Len(dev_ring[d]) = EVTDEV_RING_SIZE - 1
  THEN evt_overflow' = [evt_overflow EXCEPT ![d] = TRUE] /\ UNCHANGED dev_ring
  ELSE dev_ring' = [dev_ring EXCEPT ![d] = Append(@, p)] /\ UNCHANGED evt_overflow

\* One event of the round.  The index is not brought back into the ring
\* (cons++); what the thread reads past the end is not followed.
queue_port ==
  /\ ~evt_broken /\ xenevt_thread = "queue" /\ thr_cons # thr_prod
  /\ IF thr_cons >= EVTDEV_RING_SIZE
     THEN evt_broken' = TRUE /\ UNCHANGED <<dev_ring, evt_overflow, thr_cons>>
     ELSE /\ queue(devevents[xenevt_ring[thr_cons]], xenevt_ring[thr_cons])
          /\ thr_cons' = thr_cons + 1
          /\ UNCHANGED evt_broken
  /\ UNCHANGED <<open_ports, xenevt_ring, xenevt_prod, xenevt_cons, xenevt_thread, thr_prod, devevents, evt_held, evt_dropped>>

round_ends ==
  /\ ~evt_broken /\ xenevt_thread = "queue" /\ thr_cons = thr_prod
  /\ xenevt_cons' = thr_cons /\ xenevt_thread' = "test"
  /\ UNCHANGED <<open_ports, xenevt_ring, xenevt_prod, thr_prod, thr_cons, devevents, dev_ring, evt_overflow, evt_held,
                 evt_dropped, evt_broken>>

-----------------------------------------------------------------------------
\* Programs run while the thread sleeps or waits for the CPU, not inside a
\* round, which does not block.
Program == ~evt_broken /\ xenevt_thread # "queue"

drvvars == <<xenevt_ring, xenevt_prod, xenevt_cons, xenevt_thread, thr_prod, thr_cons>>

\* The three binding ioctls: note the device, bind the handler; the unmask
\* follows.
ioctl_bind(d, p) ==
  /\ Program /\ devevents[p] = NoDev
  /\ devevents' = [devevents EXCEPT ![p] = d]
  /\ evt_held' = evt_held \cup {p}
  /\ UNCHANGED <<open_ports, drvvars, dev_ring, evt_overflow, evt_dropped, evt_broken>>

\* The slots of the driver's ring that have not reached their device.
OnDriverRing ==
  {i \in DOMAIN xenevt_ring :
     LET from == IF xenevt_thread = "queue" THEN thr_cons ELSE xenevt_cons
     IN  (i - from) % EVTDEV_RING_SIZE < (xenevt_prod - from) % EVTDEV_RING_SIZE}

PortQueued(p) == \/ \E i \in OnDriverRing : xenevt_ring[i] = p
             \/ \E d \in Dev : \E i \in DOMAIN dev_ring[d] : dev_ring[d][i] = p

\* IOCTL_EVTCHN_UNBIND leaves what is queued where it is: the thread then
\* meets a port without device, which is not followed either.
ioctl_unbind(d, p) ==
  /\ Program /\ devevents[p] = d
  /\ open_ports' = open_ports \ {p}
  /\ devevents' = [devevents EXCEPT ![p] = NoDev]
  /\ evt_held' = evt_held \ {p} /\ evt_dropped' = evt_dropped \ {p}
  /\ evt_broken' = PortQueued(p)
  /\ UNCHANGED <<drvvars, dev_ring, evt_overflow>>

\* xenevt_dev_write opens the ports the program names, if they are its own;
\* a program names those it has read.
xenevt_dev_write(d, p) ==
  /\ Program /\ p \in evt_held /\ devevents[p] = d
  /\ open_ports' = open_ports \cup {p}
  /\ evt_held' = evt_held \ {p}
  /\ UNCHANGED <<drvvars, devevents, dev_ring, evt_overflow, evt_dropped, evt_broken>>

\* xenevt_dev_read: as many as the program asks for, in one or two pieces.
xenevt_dev_read(d, n) ==
  /\ Program /\ ~evt_overflow[d] /\ Len(dev_ring[d]) >= n
  /\ evt_held' = evt_held \cup {dev_ring[d][i] : i \in 1 .. n}
  /\ dev_ring' = [dev_ring EXCEPT ![d] = SubSeq(@, n + 1, Len(@))]
  /\ UNCHANGED <<open_ports, drvvars, devevents, evt_overflow, evt_dropped, evt_broken>>

\* IOCTL_EVTCHN_RESET forgets what is queued; the ports stay masked.
ioctl_reset(d) ==
  /\ Program /\ dev_ring[d] # <<>>
  /\ evt_dropped' = evt_dropped \cup {dev_ring[d][i] : i \in DOMAIN dev_ring[d]}
  /\ dev_ring' = [dev_ring EXCEPT ![d] = <<>>] /\ evt_overflow' = [evt_overflow EXCEPT ![d] = FALSE]
  /\ UNCHANGED <<open_ports, drvvars, devevents, evt_held, evt_broken>>

EDNext ==
  \/ \E p \in EvtPort : minios_evtdev_handler(p)
  \/ wait_event_tests \/ wait_event_sleeps \/ round_starts \/ queue_port \/ round_ends
  \/ \E d \in Dev, p \in EvtPort : ioctl_bind(d, p) \/ ioctl_unbind(d, p) \/ xenevt_dev_write(d, p)
  \/ \E d \in Dev : ioctl_reset(d) \/ \E n \in 1 .. 2 : xenevt_dev_read(d, n)

-----------------------------------------------------------------------------
(* No event goes astray between the handler and the program, and none      *)
(* comes twice, as long as the driver's ring has not wrapped round and no  *)
(* port was unbound while it was queued: a bound port that is masked is    *)
(* either in one slot of the driver's ring, or once in its device's ring,  *)
(* or in the hands of the program (or forgotten by a reset), so that       *)
(* reading and writing it back always opens it again.                      *)
EventsConserved ==
  ~evt_broken =>
    \A p \in EvtPort : devevents[p] # NoDev =>
      LET mine == dev_ring[devevents[p]]
          places == Cardinality({i \in OnDriverRing : xenevt_ring[i] = p})
                    + Cardinality({i \in DOMAIN mine : mine[i] = p})
                    + Cardinality({p} \cap (evt_held \cup evt_dropped))
      IN  places = Cardinality({p} \ open_ports)
=============================================================================
