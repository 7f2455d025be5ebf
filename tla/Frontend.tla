------------------------------ MODULE Frontend ------------------------------
(***************************************************************************)
(* How a frontend driver meets its backend through xenstore: blkfront_init *)
(* and blkfront_shutdown, netfront_init and netfront_shutdown, and         *)
(* init_pcifront, with the helpers of xenbus.c they are written with.      *)
(* Each side owns a state node; the frontend watches the backend's.  A     *)
(* xenstore call may fail.  The backend is the other domain's driver.      *)
(***************************************************************************)
EXTENDS Integers

CONSTANTS Driver,      \* of "blk", "net" and "pci"
          MaxFaults,   \* bound on failing xenstore calls
          MaxEvents    \* bound on watch events queued for the frontend

XenbusStateInitialising == 1
XenbusStateInitWait == 2
XenbusStateInitialised == 3
XenbusStateConnected == 4
XenbusStateClosing == 5
XenbusStateClosed == 6
Unreadable == 99       \* (XenbusState)-1, above them all

VARIABLES drv, fpc,
          fe, be,        \* the two state nodes
          fstate,        \* the frontend's copy of the backend's state
          fwatched,      \* xenstored knows the frontend's watch
          fevents,       \* events on dev->events
          ring_page,     \* the shared page: "none", "granted" or "freed"
          mapped,        \* the backend has it mapped
          port_masked,   \* the frontend's event channel
          faults,        \* xenstore calls that failed
          wilful         \* the backend has gone its own way once

fevars == <<drv, fpc, fe, be, fstate, fwatched, fevents, ring_page, mapped, port_masked, faults, wilful>>
nodes == <<fe, be, fwatched>>
page == <<ring_page, mapped, port_masked, wilful>>

FEInit ==
  /\ drv \in Driver /\ fpc = "off"
  /\ fe = XenbusStateInitialising /\ be \in {XenbusStateInitialising, XenbusStateInitWait}
  /\ fstate = 0 /\ fwatched = FALSE /\ fevents = 0
  /\ ring_page = "none" /\ mapped = FALSE /\ port_masked = TRUE /\ faults = 0 /\ wilful = FALSE

Fails == faults < MaxFaults /\ faults' = faults + 1
Turns(from, to) == fpc = from /\ fpc' = to

-----------------------------------------------------------------------------
\* xenbus_read_integer of the backend's state node: -1 if it cannot be read.
xenbus_read_integer(from, to) ==
  /\ Turns(from, to)
  /\ \/ fstate' = be /\ UNCHANGED faults
     \/ fstate' = Unreadable /\ Fails
  /\ UNCHANGED <<drv, nodes, fevents, page>>

\* xenbus_switch_state outside a transaction: done, or an error to onerr.
xenbus_switch_state(from, s, to, onerr) ==
  /\ fpc = from
  /\ \/ fe' = s /\ fpc' = to /\ UNCHANGED faults
     \/ fpc' = onerr /\ Fails /\ UNCHANGED fe
  /\ UNCHANGED <<drv, be, fwatched, fstate, fevents, page>>

\* xenbus_wait_for_state_change: read the node; a new state is the answer,
\* the old one means waiting for an event.  onerr is where a failed read
\* leads.
xenbus_wait_for_state_change(loop, asleep, onerr) ==
  /\ fpc = loop
  /\ \/ fstate # be /\ fstate' = be /\ UNCHANGED <<fpc, faults>>
     \/ fstate = be /\ fpc' = asleep /\ UNCHANGED <<fstate, faults>>
     \/ fpc' = onerr /\ Fails /\ UNCHANGED fstate
  /\ UNCHANGED <<drv, nodes, fevents, page>>

\* xenbus_wait_for_watch.
xenbus_wait_for_watch(asleep, loop) ==
  /\ Turns(asleep, loop) /\ fevents > 0 /\ fevents' = fevents - 1
  /\ UNCHANGED <<drv, nodes, fstate, page, faults>>

\* xenbus_watch_path_token; the drivers do not look at its result.  xenstored
\* sends the first event at once.
xenbus_watch_path_token(from, to) ==
  /\ Turns(from, to)
  /\ \/ fwatched' = TRUE /\ fevents' = fevents + 1 /\ UNCHANGED faults
     \/ Fails /\ UNCHANGED <<fwatched, fevents>>
  /\ UNCHANGED <<drv, fe, be, fstate, page>>

xenbus_unwatch_path_token(from, to) ==
  /\ Turns(from, to)
  /\ fwatched' = FALSE /\ fevents' = 0
  /\ UNCHANGED <<drv, fe, be, fstate, page, faults>>

-----------------------------------------------------------------------------
\* The start of the init functions: an event channel, masked, and a granted
\* page.  init_pcifront returns before that if there is no backend.
Allocates ==
  /\ Turns("off", "publish") /\ ring_page' = "granted"
  /\ UNCHANGED <<drv, nodes, fstate, fevents, mapped, port_masked, faults, wilful>>

\* The transaction: page, port and state become visible together.  It is
\* repeated until xenbus_transaction_end does not say EAGAIN; another error
\* of it is not looked at; a failing write aborts it.
Publishes(s) ==
  /\ fpc = "publish"
  /\ \/ fe' = s /\ fpc' = "path" /\ UNCHANGED faults
     \/ fpc' \in {"path", "error"} /\ Fails /\ UNCHANGED fe
  /\ UNCHANGED <<drv, be, fwatched, fstate, fevents, page>>

\* The nodes the driver needs besides the backend's state.
ReadsPaths ==
  /\ \/ Turns("path", "watch") /\ UNCHANGED faults
     \/ Turns("path", "error") /\ Fails
  /\ UNCHANGED <<drv, nodes, fstate, fevents, page>>

\* Watch first, read after: a change in between leaves an event.
ConnectLoops ==
  \/ xenbus_watch_path_token("watch", "connect")
  \/ xenbus_read_integer("connect", "connecting")
  \/ fstate < XenbusStateConnected
     /\ xenbus_wait_for_state_change("connecting", "connecting asleep", "unavailable")
  \/ xenbus_wait_for_watch("connecting asleep", "connecting")

Unavailable ==
  /\ Turns("connecting", "unavailable") /\ fstate >= XenbusStateConnected /\ fstate # XenbusStateConnected
  /\ UNCHANGED <<drv, nodes, fstate, fevents, page, faults>>

Unmasks(from) ==
  /\ Turns(from, "up") /\ fstate = XenbusStateConnected
  /\ port_masked' = FALSE
  /\ UNCHANGED <<drv, nodes, fstate, fevents, ring_page, mapped, faults, wilful>>

\* free_blkfront, free_netfront and free_pcifront: mask, end the grant
\* (whether or not the backend has let go), free the page, unbind.
Frees(from, to) ==
  /\ Turns(from, to)
  /\ port_masked' = TRUE /\ ring_page' = "freed"
  /\ UNCHANGED <<drv, nodes, fstate, fevents, mapped, faults, wilful>>

-----------------------------------------------------------------------------
blkfront_init_publishes == drv = "blk" /\ (Allocates \/ Publishes(XenbusStateConnected))
blkfront_init_connects ==
  drv = "blk" /\ (ReadsPaths \/ ConnectLoops \/ Unavailable \/ Unmasks("connecting"))
blkfront_init_fails ==
  drv = "blk" /\ (xenbus_unwatch_path_token("unavailable", "error") \/ Frees("error", "failed"))

netfront_init_publishes == drv = "net" /\ (Allocates \/ Publishes(XenbusStateConnected))
netfront_init_connects ==
  drv = "net" /\ (ReadsPaths \/ ConnectLoops \/ Unavailable \/ Unmasks("connecting"))
netfront_init_fails ==
  drv = "net" /\ (xenbus_unwatch_path_token("unavailable", "error") \/ Frees("error", "failed"))

\* init_pcifront says Initialised first, and Connected when the backend has.
init_pcifront_publishes == drv = "pci" /\ (Allocates \/ Publishes(XenbusStateInitialised))
init_pcifront_connects ==
  /\ drv = "pci"
  /\ \/ ReadsPaths \/ ConnectLoops \/ Unavailable
     \/ fstate = XenbusStateConnected
        /\ xenbus_switch_state("connecting", XenbusStateConnected, "switched", "unavailable")
     \/ Unmasks("switched")
init_pcifront_fails ==
  drv = "pci" /\ (xenbus_unwatch_path_token("unavailable", "error") \/ Frees("error", "failed"))

-----------------------------------------------------------------------------
\* The two shutdown functions: say Closing, Closed and Initialising in turn
\* and wait each time for the backend to follow.  A failed read ends the
\* first and the last wait; in the middle one it is read again.
WaitsFor(loop, asleep, done, onerr) ==
  \/ ~done /\ xenbus_wait_for_state_change(loop, asleep, onerr)
  \/ xenbus_wait_for_watch(asleep, loop)

ClosingEnds == fstate >= XenbusStateClosing
ClosedEnds_Early == fstate >= XenbusStateClosing
ClosedEnds == fstate >= XenbusStateClosed
ReinitEnds == fstate >= XenbusStateInitWait /\ fstate < XenbusStateClosed

SaysClosing ==
  \/ xenbus_switch_state("up", XenbusStateClosing, "closing?", "close err")
  \/ xenbus_read_integer("closing?", "closing")
  \/ WaitsFor("closing", "closing asleep", ClosingEnds, "say closed")
SaysClosed ==
  \/ ClosingEnds /\ xenbus_switch_state("closing", XenbusStateClosed, "closed?", "close err")
  \/ xenbus_switch_state("say closed", XenbusStateClosed, "closed?", "close err")
  \/ xenbus_read_integer("closed?", "closed")
  \/ WaitsFor("closed", "closed asleep", ClosedEnds, "closed")
SaysInitialising ==
  \/ ClosedEnds /\ xenbus_switch_state("closed", XenbusStateInitialising, "reinit?", "close err")
  \/ xenbus_read_integer("reinit?", "reinit")
  \/ WaitsFor("reinit", "reinit asleep", ReinitEnds, "close err")
\* An error leaves the device and its page allocated.
Closes ==
  \/ ReinitEnds /\ xenbus_unwatch_path_token("reinit", "free")
  \/ xenbus_unwatch_path_token("close err", "leaked")
  \/ Frees("free", "off")

blkfront_shutdown == drv = "blk" /\ (SaysClosing \/ SaysClosed \/ SaysInitialising \/ Closes)
netfront_shutdown == drv = "net" /\ (SaysClosing \/ SaysClosed \/ SaysInitialising \/ Closes)

-----------------------------------------------------------------------------
\* The backend: follows the frontend's state, and may fail to connect or
\* want to go by itself.  Its page is mapped from Connected to Closed.
BackendSays(s, m) ==
  /\ fevents < MaxEvents
  /\ be' = s /\ mapped' = m
  /\ fevents' = IF fwatched THEN fevents + 1 ELSE fevents
  /\ UNCHANGED <<drv, fpc, fe, fstate, fwatched, ring_page, port_masked, faults>>

BackendFollows ==
  /\ \/ be = XenbusStateInitialising /\ BackendSays(XenbusStateInitWait, mapped)
     \/ /\ be = XenbusStateInitWait /\ fe \in {XenbusStateInitialised, XenbusStateConnected}
        /\ ring_page = "granted" /\ BackendSays(XenbusStateConnected, TRUE)
     \/ fe = XenbusStateClosing /\ be < XenbusStateClosing /\ BackendSays(XenbusStateClosing, mapped)
     \/ fe = XenbusStateClosed /\ be # XenbusStateClosed /\ BackendSays(XenbusStateClosed, FALSE)
     \/ fe = XenbusStateInitialising /\ be = XenbusStateClosed /\ BackendSays(XenbusStateInitWait, FALSE)
  /\ UNCHANGED wilful

BackendGoes ==
  /\ ~wilful /\ wilful' = TRUE
  /\ \/ be = XenbusStateInitWait /\ \E s \in {XenbusStateClosing, XenbusStateClosed} : BackendSays(s, FALSE)
     \/ be = XenbusStateConnected /\ BackendSays(XenbusStateClosing, mapped)

FENext ==
  \/ blkfront_init_publishes \/ blkfront_init_connects \/ blkfront_init_fails \/ blkfront_shutdown
  \/ netfront_init_publishes \/ netfront_init_connects \/ netfront_init_fails \/ netfront_shutdown
  \/ init_pcifront_publishes \/ init_pcifront_connects \/ init_pcifront_fails
  \/ BackendFollows \/ BackendGoes

-----------------------------------------------------------------------------
Asleep == fpc \in {"connecting asleep", "closing asleep", "closed asleep", "reinit asleep"}

NoStateMissed == Asleep /\ fevents = 0 /\ faults = 0 => fstate = be
PageOutlivesMapping == fpc = "off" /\ faults = 0 => ~mapped /\ port_masked

(* The two ends stay in step, if no xenstore call failed.  A driver that   *)
(* sleeps for a change of the backend's state has not missed it: the watch *)
(* is set before the first read, every event leads to a read, and the      *)
(* watch stays until shutdown is over.  And shutdown frees the shared page *)
(* only after the backend has unmapped it and the event channel is masked: *)
(* the three steps of the handshake are long enough whatever the backend   *)
(* does by itself meanwhile.                                               *)
FrontendSound == NoStateMissed /\ PageOutlivesMapping
=============================================================================
