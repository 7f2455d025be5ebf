------------------------------- MODULE Busdev -------------------------------
(***************************************************************************)
(* /dev/xen/xenbus (librumpxen_xendev/busdev.c and busdev_user.c): one     *)
(* open file, a writer that turns messages of a program into requests, a   *)
(* reader that takes replies and watch events off the file's queue, and    *)
(* close.  A writer keeps dd->lock while it waits; a reader lets go of it. *)
(* What a message says is left out: its kind, and the watch or transaction *)
(* it makes or ends.  Allocation does not fail.                            *)
(***************************************************************************)
EXTENDS Xenbus

\* dd->lock is free, and the thread that asks for it runs.
LockFree == xb_cur = NoXb /\ xpc[DevFile] = "idle"

DevRequest(op, o) == [who |-> DevFile, op |-> op, obj |-> o]

-----------------------------------------------------------------------------
\* rumpxenbus_process_request for the nine kinds that are only passed on.
forward_request ==
  /\ du = "open" /\ LockFree
  /\ xenbus_id_allocate(DevFile, DevRequest("plain", DevFile))
  /\ UNCHANGED <<xwatch, du, dev_reader>>

\* XS_WATCH lists the watch before it asks, not yet visible; and
\* XS_TRANSACTION_START keeps its transaction off the list till the reply.
request_make(o) ==
  /\ du = "open" /\ LockFree /\ xwatch[o] = "none"
  /\ xwatch' = [xwatch EXCEPT ![o] = "asked"]
  /\ xenbus_id_allocate(DevFile, DevRequest("make", o))
  /\ UNCHANGED <<du, dev_reader>>

\* XS_UNWATCH and XS_TRANSACTION_END: find it, hide it, ask.  A program that
\* names one that is not visible is refused (WTROUBLE).
make_watch_request(o) ==
  /\ xwatch[o] = "visible"
  /\ xwatch' = [xwatch EXCEPT ![o] = "unasked"]
  /\ xenbus_id_allocate(DevFile, DevRequest("destroy", o))

request_destroy(o) ==
  /\ du = "open" /\ LockFree /\ make_watch_request(o)
  /\ UNCHANGED <<du, dev_reader>>

\* xenbus_dev_write gathers the bytes of a message and has it processed.
xenbus_dev_write ==
  \/ forward_request
  \/ \E o \in UserWatch : request_make(o) \/ request_destroy(o)

-----------------------------------------------------------------------------
\* process_event on the head of the queue: a watch event becomes a message;
\* a response makes its watch or transaction visible, or forgets it, and
\* gives the id back.
process_response(m) ==
  /\ xwatch' = CASE req_info[m.id].op = "make" ->
                      [xwatch EXCEPT ![req_info[m.id].obj] = IF m.ok THEN "visible" ELSE "none"]
                 [] req_info[m.id].op = "destroy" -> [xwatch EXCEPT ![req_info[m.id].obj] = "none"]
                 [] OTHER -> xwatch
  /\ xenbus_id_release(m.id, xpc)
  /\ outstanding_requests' = outstanding_requests - 1

process_watch_event == UNCHANGED <<xwatch, req_info, nr_live_reqs, xpc, outstanding_requests>>

process_event ==
  /\ replies[DevFile] # <<>>
  /\ replies' = [replies EXCEPT ![DevFile] = Tail(@)]
  /\ IF Head(replies[DevFile]).kind = "reply"
     THEN process_response(Head(replies[DevFile]))
     ELSE process_watch_event
  /\ UNCHANGED <<probe, xid, xreq, ringvars, xb_thread, xb_cur, du>>

\* xenbus_dev_read takes what is queued; with nothing there it blocks, or
\* returns if the file does not block or is being restarted.
xenbus_dev_read ==
  /\ du = "open" /\ LockFree /\ dev_reader \in {"idle", "woken"}
  /\ process_event /\ dev_reader' = "idle"

dev_read_blocks ==
  /\ du = "open" /\ LockFree /\ dev_reader \in {"idle", "woken"} /\ replies[DevFile] = <<>>
  /\ dev_reader' = "blocked"
  /\ UNCHANGED <<busvars, ringvars, xb_thread, xb_cur, replies, xwatch, du, outstanding_requests>>

\* xenbus_dev_restart wakes the reader, which looks at the queue again.
xenbus_dev_restart ==
  /\ du = "open" /\ LockFree /\ dev_reader = "blocked"
  /\ dev_reader' = "woken"
  /\ UNCHANGED <<busvars, ringvars, xb_thread, xb_cur, replies, xwatch, du, outstanding_requests>>

-----------------------------------------------------------------------------
\* xenbus_dev_close, with no other call in progress, and the loop of
\* rumpxenbus_dev_user_shutdown: end what is visible ...
xenbus_dev_close ==
  /\ du = "open" /\ LockFree /\ dev_reader = "idle"
  /\ du' = "closing"
  /\ UNCHANGED <<busvars, ringvars, xb_thread, xb_cur, replies, xwatch, outstanding_requests, dev_reader>>

shutdown_ends(o) ==
  /\ du = "closing" /\ LockFree /\ make_watch_request(o)
  /\ UNCHANGED <<du, dev_reader>>

\* ... discard one message ...
Hidden == \A o \in UserWatch : xwatch[o] # "visible"

shutdown_discards ==
  /\ du = "closing" /\ LockFree /\ Hidden /\ outstanding_requests # 0
  /\ process_event /\ UNCHANGED dev_reader

\* ... and free everything once no request is outstanding.
shutdown_frees_Early ==
  /\ du = "closing" /\ LockFree /\ Hidden
  /\ du' = "freed"
  /\ UNCHANGED <<busvars, ringvars, xb_thread, xb_cur, replies, xwatch, outstanding_requests, dev_reader>>

shutdown_frees ==
  /\ du = "closing" /\ LockFree /\ Hidden /\ outstanding_requests = 0
  /\ du' = "freed"
  /\ UNCHANGED <<busvars, ringvars, xb_thread, xb_cur, replies, xwatch, outstanding_requests, dev_reader>>

xenbus_dev_open ==
  /\ du = "freed" /\ LockFree
  /\ du' = "open" /\ outstanding_requests' = 0 /\ replies' = [replies EXCEPT ![DevFile] = <<>>]
  /\ UNCHANGED <<busvars, ringvars, xb_thread, xb_cur, xwatch, dev_reader>>

XBNext ==
  \/ XenbusNext
  \/ xenbus_dev_write
  \/ \E o \in UserWatch : shutdown_ends(o)
  \/ xenbus_dev_read \/ dev_read_blocks \/ xenbus_dev_restart
  \/ xenbus_dev_close \/ shutdown_discards \/ shutdown_frees \/ xenbus_dev_open

-----------------------------------------------------------------------------
(* What the device's queue refers to is still there: an event on it names  *)
(* a watch that has not been freed, since the events of a watch come       *)
(* before the reply to its unwatch on the same queue; and once close has   *)
(* freed the file nothing is left that would come to its queue: no         *)
(* request, no listed watch, no message.  outstanding_requests counts the  *)
(* requests, also over a close with requests in flight.                    *)
DeviceQueueLive ==
  /\ \A n \in DOMAIN replies[DevFile] :
       replies[DevFile][n].kind = "event" => xwatch[replies[DevFile][n].watch] # "none"
  /\ outstanding_requests = Cardinality({i \in Live : req_info[i].who = DevFile})
  /\ du = "freed" => /\ replies[DevFile] = <<>> /\ outstanding_requests = 0
                     /\ \A o \in UserWatch : xwatch[o] = "none"
                     /\ registered = {}

(* A write to the device waits only for xenstored, as the comment of       *)
(* xenbus_dev_poll says: while a writer waits for a request id, some live  *)
(* request has not been answered and handed out yet.                       *)
WriteAwaitsOnlyXenstored ==
  xpc[DevFile] = "idwait" =>
    \E i \in Live : i \notin {replies[r][n].id : r \in {DevFile}, n \in DOMAIN replies[DevFile]}
=============================================================================
