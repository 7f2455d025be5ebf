------------------------------- MODULE Xenbus -------------------------------
(***************************************************************************)
(* The xenstore client of platform/xen/xen/xenbus/xenbus.c: request ids,   *)
(* the request and response rings shared with xenstored, the thread that   *)
(* hands responses out, and the threads that ask.  Threads take turns only *)
(* when one of them blocks; xenstored runs beside them, and the event it   *)
(* sends may come between the test and the sleep of minios_wait_event.     *)
(* Busdev adds /dev/xen/xenbus, whose requests come back on one queue.     *)
(***************************************************************************)
EXTENDS Integers, Sequences, FiniteSets, SequencesExt

CONSTANTS Client,      \* kernel threads
          UserWatch,   \* watches and transactions of the device
          NR_REQS,     \* request ids, 32 in the code
          ReqRing,     \* messages that fit in the request ring
          RspRing,     \* messages that fit in the response ring
          MaxFires     \* bound on the watch events xenstored sends

ASSUME XenbusAssumption == NR_REQS \in Nat \ {0} /\ ReqRing \in Nat \ {0} /\ RspRing \in Nat \ {0}

VARIABLES req_info,          \* what each id stands for, or Free
          nr_live_reqs, probe,
          ring_req,          \* requests (ids) on the ring
          ring_rsp,          \* messages on the response ring, oldest first
          rsp_whole,         \* the youngest of them is all there
          rsp_moved,         \* rsp_prod is not the prod of xenbus_thread_func
          store_event,       \* an event of xenstored is on its way
          xb_thread,         \* xenbus_thread_func
          xb_cur,            \* a thread between its test and its sleep
          xpc, xid, xreq,    \* each requester's place, id and request
          replies,           \* each requester's queue
          xwatch,            \* the life of each watch and transaction
          registered,        \* the watches xenstored knows
          fires,             \* events sent so far
          du, outstanding_requests, dev_reader   \* the device, see Busdev

busvars == <<req_info, nr_live_reqs, probe, xpc, xid, xreq>>
ringvars == <<ring_req, ring_rsp, rsp_whole, rsp_moved, store_event, registered, fires>>
devvars == <<du, outstanding_requests, dev_reader>>
xbvars == <<busvars, ringvars, xb_thread, xb_cur, replies, xwatch, devvars>>

DevFile == "dev"
Requester == Client \cup {DevFile}
Id == 0 .. NR_REQS - 1
Free == [who |-> "none", op |-> "none", obj |-> "none"]
NoXb == "none"

XBInit ==
  /\ req_info = [i \in Id |-> Free] /\ nr_live_reqs = 0 /\ probe = 0
  /\ ring_req = <<>> /\ ring_rsp = <<>> /\ rsp_whole = TRUE /\ rsp_moved = FALSE
  /\ store_event = FALSE /\ xb_thread = "test" /\ xb_cur = NoXb
  /\ xpc = [r \in Requester |-> "idle"] /\ xid = [r \in Requester |-> NR_REQS]
  /\ xreq = [r \in Requester |-> Free]
  /\ replies = [r \in Requester |-> <<>>]
  /\ xwatch = [w \in UserWatch |-> "none"]
  /\ registered = {} /\ fires = 0
  /\ du = "open" /\ outstanding_requests = 0 /\ dev_reader = "idle"

-----------------------------------------------------------------------------
\* xenbus_id_allocate: the first free id, round robin from probe.
IsFree(i) == req_info[i] = Free

o_probe ==
  LET at(k) == (probe + k) % NR_REQS
      k == CHOOSE n \in 0 .. NR_REQS - 1 : IsFree(at(n)) /\ \A m \in 0 .. n - 1 : ~IsFree(at(m))
  IN  at(k)

\* xenbus_xb_write: the message goes on the ring, or its sender waits for
\* room.  A kernel thread then awaits its reply; the device does not.
xenbus_xb_write(r, id) ==
  IF Len(ring_req) < ReqRing
  THEN /\ ring_req' = Append(ring_req, id)
       /\ xpc' = [xpc EXCEPT ![r] = IF r = DevFile THEN "idle" ELSE "await"]
       /\ xid' = [xid EXCEPT ![r] = IF r = DevFile THEN NR_REQS ELSE id]
       /\ xb_cur' = NoXb
  ELSE /\ xpc' = [xpc EXCEPT ![r] = "ring"] /\ xid' = [xid EXCEPT ![r] = id] /\ xb_cur' = r
       /\ UNCHANGED ring_req

\* With an id in hand: note whose it is, count it, write.
id_allocated(r, rq) ==
  /\ nr_live_reqs < NR_REQS
  /\ nr_live_reqs' = nr_live_reqs + 1
  /\ req_info' = [req_info EXCEPT ![o_probe] = rq]
  /\ probe' = (o_probe + 1) % NR_REQS
  /\ xreq' = [xreq EXCEPT ![r] = Free]
  /\ outstanding_requests' = outstanding_requests + (IF r = DevFile THEN 1 ELSE 0)
  /\ xenbus_xb_write(r, o_probe)

\* All ids are live: sleep on req_wq.  Only other threads release ids, and
\* none of them runs between the test and the sleep.
id_waits(r, rq) ==
  /\ nr_live_reqs = NR_REQS
  /\ xpc' = [xpc EXCEPT ![r] = "idwait"] /\ xreq' = [xreq EXCEPT ![r] = rq]
  /\ UNCHANGED <<nr_live_reqs, req_info, probe, outstanding_requests, ring_req, xid, xb_cur>>

xenbus_id_allocate(r, rq) ==
  /\ id_allocated(r, rq) \/ id_waits(r, rq)
  /\ UNCHANGED <<ring_rsp, rsp_whole, rsp_moved, store_event, registered, fires, xb_thread, replies>>

\* minios_wait_event(req_wq) returns; the loop looks again.
id_wait_returns(r) ==
  /\ xb_cur = NoXb /\ xpc[r] = "idwoken"
  /\ xenbus_id_allocate(r, xreq[r])
  /\ UNCHANGED <<xwatch, du, dev_reader>>

\* xenbus_id_release: wake the waiters when the last id comes free.
xenbus_id_release_Late(id, pc) ==
  /\ req_info' = [req_info EXCEPT ![id] = Free]
  /\ nr_live_reqs' = nr_live_reqs - 1
  /\ xpc' = IF nr_live_reqs' = 0
            THEN [r \in Requester |-> IF pc[r] = "idwait" THEN "idwoken" ELSE pc[r]] ELSE pc

xenbus_id_release(id, pc) ==
  /\ req_info' = [req_info EXCEPT ![id] = Free]
  /\ nr_live_reqs' = nr_live_reqs - 1
  /\ xpc' = IF nr_live_reqs' = NR_REQS - 1
            THEN [r \in Requester |-> IF pc[r] = "idwait" THEN "idwoken" ELSE pc[r]] ELSE pc

-----------------------------------------------------------------------------
\* The wait for room in xenbus_xb_write: the test has failed, then the sleep.
ring_sleeps(r) ==
  /\ xb_cur = r /\ xpc[r] = "ring"
  /\ xpc' = [xpc EXCEPT ![r] = "ringwait"] /\ xb_cur' = NoXb
  /\ UNCHANGED <<req_info, nr_live_reqs, probe, xid, xreq, ringvars, xb_thread, replies, xwatch, devvars>>

ring_wait_returns(r) ==
  /\ xb_cur = NoXb /\ xpc[r] = "ringwoken"
  /\ xenbus_xb_write(r, xid[r])
  /\ UNCHANGED <<req_info, nr_live_reqs, probe, xreq, ring_rsp, rsp_whole, rsp_moved, store_event, registered,
                 fires, xb_thread, replies, xwatch, devvars>>

\* xenbus_msg_reply, as every call of the kernel's own interface makes it.
xenbus_msg_reply(c) ==
  /\ xb_cur = NoXb /\ xpc[c] = "idle"
  /\ xenbus_id_allocate(c, [who |-> c, op |-> "plain", obj |-> c])
  /\ UNCHANGED <<xwatch, du, dev_reader>>

\* await_event finds the reply, and the id is released.
await_event(c) ==
  /\ xb_cur = NoXb /\ xpc[c] = "await" /\ replies[c] # <<>>
  /\ replies' = [replies EXCEPT ![c] = Tail(@)]
  /\ xenbus_id_release(xid[c], [xpc EXCEPT ![c] = "idle"])
  /\ xid' = [xid EXCEPT ![c] = NR_REQS]
  /\ UNCHANGED <<probe, xreq, ringvars, xb_thread, xb_cur, xwatch, devvars>>

-----------------------------------------------------------------------------
\* xenstored: it answers requests in order and sends events for the watches
\* it knows; a message may reach the ring in two parts.
Message(kind, id, w, ok) == [kind |-> kind, id |-> id, watch |-> w, ok |-> ok]

Send(m, whole) ==
  /\ rsp_whole /\ Len(ring_rsp) < RspRing
  /\ ring_rsp' = Append(ring_rsp, m) /\ rsp_whole' = whole
  /\ rsp_moved' = TRUE /\ store_event' = TRUE

StoreAnswers ==
  /\ ring_req # <<>> /\ ring_req' = Tail(ring_req)
  /\ \E ok \in BOOLEAN, whole \in BOOLEAN :
       /\ req_info[Head(ring_req)].op = "destroy" => ok
       /\ Send(Message("reply", Head(ring_req), NoXb, ok), whole)
       /\ registered' = CASE req_info[Head(ring_req)].op = "make" /\ ok ->
                               registered \cup {req_info[Head(ring_req)].obj}
                          [] req_info[Head(ring_req)].op = "destroy" -> registered \ {req_info[Head(ring_req)].obj}
                          [] OTHER -> registered
  /\ UNCHANGED <<busvars, fires, xb_thread, xb_cur, replies, xwatch, devvars>>

StoreFires(w) ==
  /\ w \in registered /\ fires < MaxFires /\ fires' = fires + 1
  /\ \E whole \in BOOLEAN : Send(Message("event", NR_REQS, w, TRUE), whole)
  /\ UNCHANGED <<busvars, ring_req, registered, xb_thread, xb_cur, replies, xwatch, devvars>>

StoreFinishes ==
  /\ ~rsp_whole /\ rsp_whole' = TRUE /\ rsp_moved' = TRUE /\ store_event' = TRUE
  /\ UNCHANGED <<busvars, ring_req, ring_rsp, registered, fires, xb_thread, xb_cur, replies, xwatch, devvars>>

\* xenbus_evtchn_handler: wake the queue's sleepers.  A thread that is still
\* between its test and its sleep is not on the queue yet.
xenbus_evtchn_handler ==
  /\ store_event /\ store_event' = FALSE
  /\ xb_thread' = IF xb_thread = "asleep" THEN "test" ELSE xb_thread
  /\ xpc' = [r \in Requester |-> IF xpc[r] = "ringwait" THEN "ringwoken" ELSE xpc[r]]
  /\ UNCHANGED <<req_info, nr_live_reqs, probe, xid, xreq, ring_req, ring_rsp, rsp_whole, rsp_moved, registered,
                 fires, xb_cur, replies, xwatch, devvars>>

-----------------------------------------------------------------------------
\* xenbus_thread_func: wait_event ...
thread_tests ==
  /\ xb_cur = NoXb /\ xb_thread = "test"
  /\ xb_thread' = (IF rsp_moved THEN "drain" ELSE "prepare") /\ xb_cur' = "xenstore"
  /\ UNCHANGED <<busvars, ringvars, replies, xwatch, devvars>>

thread_sleeps ==
  /\ xb_thread = "prepare" /\ xb_thread' = "asleep" /\ xb_cur' = NoXb
  /\ UNCHANGED <<busvars, ringvars, replies, xwatch, devvars>>

\* ... then take messages off the ring while a whole one is there.  The
\* thread does not block in this loop; a message that is not all there ends
\* it until rsp_prod moves again.
HeadIsWhole == ring_rsp # <<>> /\ (Len(ring_rsp) > 1 \/ rsp_whole)

thread_breaks ==
  /\ xb_thread = "drain" /\ ~HeadIsWhole
  /\ rsp_moved' = FALSE /\ xb_thread' = "test" /\ xb_cur' = NoXb
  /\ UNCHANGED <<busvars, ring_req, ring_rsp, rsp_whole, store_event, registered, fires, replies, xwatch, devvars>>

\* queue_event appends to the queue and wakes its reader.
queue_event(r, m) ==
  /\ replies' = [replies EXCEPT ![r] = Append(@, m)]
  /\ dev_reader' = IF r = DevFile /\ dev_reader = "blocked" THEN "woken" ELSE dev_reader

\* A reply goes to the queue its id names; an event to the queue of the
\* listed watch with its token, or nowhere.
thread_delivers ==
  /\ xb_thread = "drain" /\ HeadIsWhole
  /\ rsp_moved' = FALSE /\ ring_rsp' = Tail(ring_rsp)
  /\ LET m == Head(ring_rsp)
     IN  CASE m.kind = "reply" -> queue_event(req_info[m.id].who, m)
           [] m.kind = "event" /\ xwatch[m.watch] # "none" -> queue_event(DevFile, m)
           [] OTHER -> UNCHANGED <<replies, dev_reader>>
  /\ UNCHANGED <<busvars, ring_req, rsp_whole, store_event, registered, fires, xb_thread, xb_cur, xwatch, du,
                 outstanding_requests>>

XenbusNext ==
  \/ \E c \in Client : xenbus_msg_reply(c) \/ await_event(c)
  \/ \E r \in Requester : id_wait_returns(r) \/ ring_sleeps(r) \/ ring_wait_returns(r)
  \/ StoreAnswers \/ StoreFinishes \/ xenbus_evtchn_handler
  \/ \E w \in UserWatch : StoreFires(w)
  \/ thread_tests \/ thread_sleeps \/ thread_breaks \/ thread_delivers

-----------------------------------------------------------------------------
Live == {i \in Id : ~IsFree(i)}
IdsOf(msgs) == SelectSeq([n \in DOMAIN msgs |-> msgs[n].id], LAMBDA i : i \in Id)

(* Every live request is in exactly one place, and its reply reaches the   *)
(* one who asked: in its sender's hands while the ring is full, on one of  *)
(* the two rings, or on the queue that req_info names for it.  The ids of  *)
(* two requests never mix, though ids are reused round robin and threads   *)
(* sleep between taking one and sending it; nr_live_reqs counts them, so   *)
(* the BUG_ON of the probe never fires.                                    *)
RequestsAccounted ==
  /\ nr_live_reqs = Cardinality(Live)
  /\ \A i \in Live :
       Cardinality({r \in Requester : xid[r] = i /\ xpc[r] \in {"ring", "ringwait", "ringwoken"}})
         + Cardinality({n \in DOMAIN ring_req : ring_req[n] = i})
         + Cardinality({n \in DOMAIN ring_rsp : ring_rsp[n].id = i})
         + Cardinality({n \in DOMAIN replies[req_info[i].who] : replies[req_info[i].who][n].id = i}) = 1
  /\ \A r \in Requester : \A i \in ToSet(IdsOf(replies[r])) : req_info[i].who = r

(* A thread sleeps for a request id only while all of them are live:       *)
(* xenbus_id_release wakes the sleepers only when nr_live_reqs leaves its  *)
(* maximum, and that is enough.                                            *)
IdWaitersWoken == \A r \in Requester : xpc[r] = "idwait" => nr_live_reqs = NR_REQS

(* Both: ids and replies are accounted for and nobody sleeps beside a free *)
(* id.                                                                     *)
XenbusSound == RequestsAccounted /\ IdWaitersWoken
=============================================================================
