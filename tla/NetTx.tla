------------------------------- MODULE NetTx --------------------------------
(***************************************************************************)
(* Sending on Xen: VIFHYPER_SEND of xenif_user.c, netfront_xmit and        *)
(* network_tx_buf_gc of netfront.c, and the semaphore of semaphore.h.      *)
(* Threads take turns only when one blocks; the event handler interrupts   *)
(* them unless they have masked it; the backend runs beside them.  Grant   *)
(* entries suffice.                                                        *)
(***************************************************************************)
EXTENDS Integers, Sequences, FiniteSets

CONSTANTS Sender,              \* threads that send
          NET_TX_RING_SIZE,    \* buffers, and slots of the ring
          MaxSends             \* bound on packets

ASSUME TxAssumption == NET_TX_RING_SIZE \in Nat \ {0}

TxId == 0 .. NET_TX_RING_SIZE - 1
TxHandler == "handler"
NoTx == "none"

VARIABLES tx_freelist,         \* [0] is the head, [id + 1] follows id
          tx_sem,
          npc, nid,            \* each sender's place, and the id it has taken
          tx_cur,              \* the thread, or the handler, that runs
          tx_preempted,        \* the thread that the handler interrupts
          gc_prod,             \* network_tx_buf_gc's prod
          tx_ring, tx_rsps,    \* ids that wait for the backend, and its responses
          tx_null,             \* ids that it answered with NETIF_RSP_NULL
          tx_req_prod, tx_rsp_prod, tx_rsp_event,
          tx_old,              \* rsp_prod before the responses the backend has not yet told of
          tx_event             \* an event is pending

listvars == <<tx_freelist, tx_sem, nid, tx_null>>
runvars == <<npc, tx_cur, tx_preempted>>
txbackvars == <<tx_rsp_prod, tx_old, tx_event>>
txvars == <<listvars, runvars, gc_prod, tx_ring, tx_rsps, tx_req_prod, tx_rsp_event, txbackvars>>

add_id_to_freelist(id, freelist) == [freelist EXCEPT ![id + 1] = freelist[0], ![0] = id]

\* network_tx_buf_gc's loop: every response gives its id back, except one that
\* says NETIF_RSP_NULL ...
Nulls == {n \in DOMAIN tx_rsps : tx_rsps[n].status = "NULL"}
Freed[n \in Nat] ==
  IF n = 0 THEN tx_freelist
  ELSE IF n \in Nulls THEN Freed[n - 1]
  ELSE add_id_to_freelist(tx_rsps[n].id, Freed[n - 1])

\* netfront_init: every id is free, the last one added first.
NTInit ==
  /\ tx_freelist = [i \in 0 .. NET_TX_RING_SIZE |->
                      IF i = 0 THEN NET_TX_RING_SIZE - 1 ELSE IF i = 1 THEN 0 ELSE i - 2]
  /\ tx_sem = NET_TX_RING_SIZE /\ nid = [t \in Sender |-> 0]
  /\ npc = [t \in Sender \cup {TxHandler} |-> "idle"] /\ tx_cur = NoTx /\ tx_preempted = NoTx
  /\ gc_prod = 0 /\ tx_ring = {} /\ tx_rsps = <<>> /\ tx_null = {}
  /\ tx_req_prod = 0 /\ tx_rsp_prod = 0 /\ tx_rsp_event = 1
  /\ tx_old = 0 /\ tx_event = FALSE

NtRuns(p, at) == tx_cur = p /\ npc[p] = at
NtGoes(p, at) == npc' = [npc EXCEPT ![p] = at]

-----------------------------------------------------------------------------
VIFHYPER_SEND(t) ==
  /\ tx_cur = NoTx /\ npc[t] = "idle" /\ tx_req_prod < MaxSends
  /\ NtGoes(t, "test") /\ tx_cur' = t
  /\ UNCHANGED <<listvars, tx_preempted, gc_prod, tx_ring, tx_rsps, tx_req_prod, tx_rsp_event, txbackvars>>

\* down(&dev->tx_sem): look at the count, join the queue and sleep; take one
\* with events masked.
down_tests(t) ==
  /\ NtRuns(t, "test") /\ NtGoes(t, IF tx_sem > 0 THEN "down" ELSE "prepare")
  /\ UNCHANGED <<listvars, tx_cur, tx_preempted, gc_prod, tx_ring, tx_rsps, tx_req_prod, tx_rsp_event, txbackvars>>

down_sleeps(t) ==
  /\ NtRuns(t, "prepare") /\ NtGoes(t, "asleep") /\ tx_cur' = NoTx
  /\ UNCHANGED <<listvars, tx_preempted, gc_prod, tx_ring, tx_rsps, tx_req_prod, tx_rsp_event, txbackvars>>

down_returns(t) ==
  /\ tx_cur = NoTx /\ npc[t] = "woken" /\ NtGoes(t, "test") /\ tx_cur' = t
  /\ UNCHANGED <<listvars, tx_preempted, gc_prod, tx_ring, tx_rsps, tx_req_prod, tx_rsp_event, txbackvars>>

down_takes(t) ==
  /\ NtRuns(t, "down")
  /\ IF tx_sem > 0 THEN tx_sem' = tx_sem - 1 /\ NtGoes(t, "id") ELSE NtGoes(t, "test") /\ UNCHANGED tx_sem
  /\ UNCHANGED <<tx_freelist, tx_null, nid, tx_cur, tx_preempted, gc_prod, tx_ring, tx_rsps, tx_req_prod, tx_rsp_event,
                 txbackvars>>

\* get_id_from_freelist, with events masked.
get_id_from_freelist(t) ==
  /\ NtRuns(t, "id") /\ NtGoes(t, "push")
  /\ nid' = [nid EXCEPT ![t] = tx_freelist[0]]
  /\ tx_freelist' = [tx_freelist EXCEPT ![0] = tx_freelist[tx_freelist[0] + 1]]
  /\ UNCHANGED <<tx_sem, tx_null, tx_cur, tx_preempted, gc_prod, tx_ring, tx_rsps, tx_req_prod, tx_rsp_event, txbackvars>>

\* netfront_xmit: the request goes on the ring; then collect responses with
\* events masked.
xmit_pushes(t) ==
  /\ NtRuns(t, "push") /\ NtGoes(t, "collect")
  /\ tx_ring' = tx_ring \cup {nid[t]} /\ tx_req_prod' = tx_req_prod + 1
  /\ UNCHANGED <<listvars, tx_cur, tx_preempted, gc_prod, tx_rsps, tx_rsp_event, txbackvars>>

-----------------------------------------------------------------------------
\* network_tx_buf_gc: take every response up to prod; up() wakes all sleepers ...
gc_takes(p) ==
  /\ NtRuns(p, "collect")
  /\ gc_prod' = tx_rsp_prod
  /\ tx_freelist' = Freed[Len(tx_rsps)] /\ tx_sem' = tx_sem + Cardinality(DOMAIN tx_rsps \ Nulls)
  /\ tx_rsps' = <<>> /\ tx_null' = tx_null \cup {tx_rsps[n].id : n \in Nulls}
  /\ npc' = [q \in DOMAIN npc |-> IF q = p THEN "event"
                                  ELSE IF npc[q] = "asleep" /\ DOMAIN tx_rsps # Nulls THEN "woken" ELSE npc[q]]
  /\ UNCHANGED <<nid, tx_cur, tx_preempted, tx_ring, tx_req_prod, tx_rsp_event, txbackvars>>

\* ... ask for an event half way through what is outstanding ...
EventAt_Whole(prod) == prod + (tx_req_prod - prod) + 1
EventAt(prod) == prod + ((tx_req_prod - prod) \div 2) + 1

gc_asks(p) ==
  /\ NtRuns(p, "event") /\ NtGoes(p, "check")
  /\ tx_rsp_event' = EventAt(gc_prod)
  /\ UNCHANGED <<listvars, tx_cur, tx_preempted, gc_prod, tx_ring, tx_rsps, tx_req_prod, txbackvars>>

\* ... and go round again if more has come.  The handler goes on to the
\* receive side and returns; the sender is done.
gc_checks(p) ==
  /\ NtRuns(p, "check")
  /\ IF gc_prod # tx_rsp_prod THEN NtGoes(p, "collect") /\ UNCHANGED <<tx_cur, tx_preempted>>
     ELSE /\ NtGoes(p, "idle") /\ tx_preempted' = NoTx
          /\ tx_cur' = IF p = TxHandler THEN tx_preempted ELSE NoTx
  /\ UNCHANGED <<listvars, gc_prod, tx_ring, tx_rsps, tx_req_prod, tx_rsp_event, txbackvars>>

\* netfront_handler, at any point where events are not masked.
netfront_handler ==
  /\ tx_event /\ tx_event' = FALSE
  /\ tx_cur = NoTx \/ (tx_cur \in Sender /\ npc[tx_cur] \in {"test", "prepare", "down", "id", "push"})
  /\ NtGoes(TxHandler, "collect") /\ tx_preempted' = tx_cur /\ tx_cur' = TxHandler
  /\ UNCHANGED <<listvars, gc_prod, tx_ring, tx_rsps, tx_req_prod, tx_rsp_event, tx_rsp_prod, tx_old>>

-----------------------------------------------------------------------------
\* The backend answers requests, then looks whether rsp_event is among them.
TxAnswers == [id : tx_ring, status : {"OKAY", "NULL"}]
TxBackendPushes(s) ==
  /\ tx_old = tx_rsp_prod /\ tx_ring' = tx_ring \ {s[i].id : i \in DOMAIN s}
  /\ tx_rsps' = tx_rsps \o s /\ tx_rsp_prod' = tx_rsp_prod + Len(s)
  /\ UNCHANGED <<listvars, runvars, gc_prod, tx_req_prod, tx_rsp_event, tx_old, tx_event>>

TxBackendNotifies ==
  /\ tx_old # tx_rsp_prod /\ tx_old' = tx_rsp_prod
  /\ tx_event' = (tx_event \/ (tx_old < tx_rsp_event /\ tx_rsp_event <= tx_rsp_prod))
  /\ UNCHANGED <<listvars, runvars, gc_prod, tx_ring, tx_rsps, tx_req_prod, tx_rsp_event, tx_rsp_prod>>

NTNext ==
  \/ \E t \in Sender : \/ VIFHYPER_SEND(t) \/ down_tests(t) \/ down_sleeps(t) \/ down_returns(t)
                       \/ down_takes(t) \/ get_id_from_freelist(t) \/ xmit_pushes(t)
  \/ \E p \in Sender \cup {TxHandler} : gc_takes(p) \/ gc_asks(p) \/ gc_checks(p)
  \/ netfront_handler
  \/ \E a \in TxAnswers : TxBackendPushes(<<a>>)
  \/ \E a, b \in TxAnswers : a.id # b.id /\ TxBackendPushes(<<a, b>>)
  \/ TxBackendNotifies

-----------------------------------------------------------------------------
\* The ids on the free list, as many as the semaphore counts or has let through.
Walk[i \in 1 .. NET_TX_RING_SIZE] == IF i = 1 THEN tx_freelist[0] ELSE tx_freelist[Walk[i - 1] + 1]
FreeCount == tx_sem + Cardinality({t \in Sender : npc[t] = "id"})
FreeIds == {Walk[i] : i \in 1 .. FreeCount}
HeldIds == {nid[t] : t \in {u \in Sender : npc[u] = "push"}}
RspIds == {tx_rsps[i].id : i \in DOMAIN tx_rsps}

(* Buffers are never lost or used twice: an id is free, held by a sender,  *)
(* with the backend or in a response, and only one of these, unless the    *)
(* backend has answered with NETIF_RSP_NULL and kept it; the semaphore     *)
(* never lets a sender through to an empty list.  (The list is changed by  *)
(* threads and by the handler that interrupts them.)                       *)
TxIdsConserved ==
  /\ FreeCount <= NET_TX_RING_SIZE
  /\ FreeIds \cup HeldIds \cup tx_ring \cup RspIds \cup tx_null = TxId
  /\ FreeCount + Cardinality(HeldIds) + Cardinality(tx_ring) + Len(tx_rsps) + Cardinality(tx_null)
       = NET_TX_RING_SIZE

(* Once the backend has answered everything, its last responses do not lie *)
(* unseen: someone is collecting, or an event is on its way.  (The comment *)
(* at netfront.c:176: "it is essential to schedule a callback, no matter   *)
(* how few tx_buffers are pending".)                                       *)
LastResponsesSignalled ==
  tx_ring = {} /\ tx_rsps # <<>> =>
    \/ tx_event \/ (tx_old < tx_rsp_event /\ tx_rsp_event <= tx_rsp_prod)
    \/ \E p \in DOMAIN npc : npc[p] \in {"collect", "event", "check"}

(* Both: buffers are conserved and the last responses are signalled.       *)
TxSound == TxIdsConserved /\ LastResponsesSignalled
=============================================================================
