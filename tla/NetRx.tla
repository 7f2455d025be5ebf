------------------------------- MODULE NetRx --------------------------------
(***************************************************************************)
(* Receiving on Xen: network_rx of netfront.c, the packet ring and the     *)
(* pusher thread of xenif_user.c, and the interface's life in if_virt.c.   *)
(* Packets carry numbers.  The backend fills the posted buffers in order.  *)
(* Rump kernel threads run one at a time and hold the vCPU.                *)
(***************************************************************************)
EXTENDS Integers, Sequences

CONSTANTS NET_RX_RING_SIZE,    \* buffers posted to the backend
          NBUF,                \* packets that xenif_user.c stores
          MaxPackets           \* bound on packets

ASSUME RxAssumption == NET_RX_RING_SIZE \in Nat \ {0} /\ NBUF \in Nat /\ NBUF >= 2

VARIABLES rx_ring,             \* responses not yet taken: packet numbers, 0 for an error
          rx_posted,           \* buffers the backend may fill
          rx_wants_event, rx_pushed, rx_event,
          rpc,                 \* network_rx: "idle", "take", "ask" or "check"
          nr_consumed,
          viu_pkts, viu_read, viu_write, viu_dying,
          viu_rcvr,            \* pusher has left its name for myrecv
          ppc,                 \* pusher's place
          upc,                 \* the thread that destroys the interface
          rx_vcpu,             \* who has the vCPU
          if_running, delivered, arrived

rxvars == <<rx_ring, rx_posted, rx_wants_event, rx_pushed, rx_event, rpc, nr_consumed, viu_pkts, viu_read,
            viu_write, viu_dying, viu_rcvr, ppc, upc, rx_vcpu, if_running, delivered, arrived>>
backrx == <<rx_ring, rx_posted, rx_wants_event, rx_pushed, rx_event, arrived>>
viuvars == <<viu_pkts, viu_read, viu_write>>

Slot == 0 .. NBUF - 1
Unheld == "none"

\* VIFHYPER_CREATE, in virtif_clone: buffers posted, pusher created.
VIFHYPER_CREATE ==
  /\ rx_ring = <<>> /\ rx_posted = NET_RX_RING_SIZE
  /\ rx_wants_event = TRUE /\ rx_pushed = FALSE /\ rx_event = FALSE
  /\ rpc = "idle" /\ nr_consumed = 0
  /\ viu_pkts = [i \in Slot |-> 0] /\ viu_read = 0 /\ viu_write = 0 /\ viu_dying = FALSE /\ viu_rcvr = FALSE
  /\ ppc = "start" /\ rx_vcpu = Unheld /\ delivered = 0 /\ arrived = 0

\* virtif_clone: the interface is there and not yet running.
NRInit == VIFHYPER_CREATE /\ upc = "up" /\ if_running = FALSE

\* The backend puts the next packet, or an error, in the next buffer, and
\* notifies if that is the response an event was asked for.
RxBackendPushes(n) ==
  /\ ~rx_pushed /\ rx_posted > 0 /\ upc # "gone"
  /\ rx_posted' = rx_posted - 1 /\ rx_ring' = Append(rx_ring, n)
  /\ arrived' = arrived + 1 /\ rx_pushed' = TRUE
  /\ UNCHANGED <<rx_wants_event, rx_event, rpc, nr_consumed, viuvars, viu_dying, viu_rcvr, ppc, upc, rx_vcpu,
                 if_running, delivered>>

RxBackendNotifies ==
  /\ rx_pushed /\ rx_pushed' = FALSE
  /\ rx_event' = (rx_event \/ rx_wants_event) /\ rx_wants_event' = FALSE
  /\ UNCHANGED <<rx_ring, rx_posted, arrived, rpc, nr_consumed, viuvars, viu_dying, viu_rcvr, ppc, upc, rx_vcpu,
                 if_running, delivered>>

-----------------------------------------------------------------------------
\* The event comes in: netfront_handler calls network_rx.
network_rx_starts ==
  /\ rx_event /\ rpc = "idle" /\ upc # "gone"
  /\ rx_event' = FALSE /\ rpc' = "take" /\ nr_consumed' = 0
  /\ UNCHANGED <<rx_ring, rx_posted, rx_wants_event, rx_pushed, arrived, viuvars, viu_dying, viu_rcvr, ppc, upc,
                 rx_vcpu, if_running, delivered>>

\* myrecv: a packet is stored, unless the ring is full or the packet too
\* big, and pusher is woken.
RingFull_Never == FALSE
RingFull == (viu_write + 1) % NBUF = viu_read

myrecv(n) ==
  \/ UNCHANGED <<viuvars, ppc>>
  \/ /\ ~RingFull
     /\ viu_pkts' = [viu_pkts EXCEPT ![viu_write] = n]
     /\ viu_write' = (viu_write + 1) % NBUF /\ UNCHANGED viu_read
     /\ ppc' = IF viu_rcvr /\ ppc = "asleep" THEN "woken" ELSE ppc

\* network_rx takes a response ...
network_rx_takes ==
  /\ rpc = "take"
  /\ IF rx_ring # <<>>
     THEN /\ rx_ring' = Tail(rx_ring) /\ nr_consumed' = nr_consumed + 1
          /\ IF Head(rx_ring) = 0 THEN UNCHANGED <<viuvars, ppc>> ELSE myrecv(Head(rx_ring))
          /\ UNCHANGED rpc
     ELSE rpc' = "ask" /\ UNCHANGED <<rx_ring, nr_consumed, viuvars, ppc>>
  /\ UNCHANGED <<rx_wants_event, rx_posted, rx_pushed, rx_event, arrived, viu_dying, viu_rcvr, upc, rx_vcpu, if_running, delivered>>

\* ... past the last one it asks for an event (RING_FINAL_CHECK_FOR_RESPONSES) ...
network_rx_asks ==
  /\ rpc = "ask" /\ rpc' = "check" /\ rx_wants_event' = TRUE
  /\ UNCHANGED <<rx_ring, rx_posted, rx_pushed, rx_event, arrived, nr_consumed, viuvars, viu_dying, viu_rcvr,
                 ppc, upc, rx_vcpu, if_running, delivered>>

\* ... looks once more, and posts as many buffers as it has taken.
network_rx_posts ==
  /\ rpc = "check"
  /\ IF rx_ring # <<>> THEN rpc' = "take" /\ UNCHANGED rx_posted
     ELSE rpc' = "idle" /\ rx_posted' = rx_posted + nr_consumed
  /\ UNCHANGED <<rx_ring, rx_wants_event, rx_pushed, rx_event, arrived, nr_consumed, viuvars, viu_dying, viu_rcvr,
                 ppc, upc, rx_vcpu, if_running, delivered>>

-----------------------------------------------------------------------------
\* A thread runs while no handler does; pusher runs while the destroyer
\* sleeps.
PusherRuns(at) == rpc = "idle" /\ ppc = at /\ upc \in {"up", "stopped", "joins"}
UserRuns(at) == rpc = "idle" /\ upc = at /\ ppc \in {"start", "asleep", "woken", "vcpu", "deliver", "end"}

\* pusher: first become a rump kernel thread ...
pusher_starts ==
  /\ PusherRuns("start") /\ rx_vcpu = Unheld /\ ppc' = "loop"
  /\ UNCHANGED <<backrx, rpc, nr_consumed, viuvars, viu_dying, viu_rcvr, upc, rx_vcpu, if_running, delivered>>

\* ... then, with events masked, end, sleep, or pick the oldest packet ...
pusher_loops ==
  /\ PusherRuns("loop")
  /\ ppc' = IF viu_dying THEN "end" ELSE IF viu_read = viu_write THEN "asleep" ELSE "vcpu"
  /\ viu_rcvr' = (~viu_dying /\ viu_read = viu_write)
  /\ UNCHANGED <<backrx, rpc, nr_consumed, viuvars, viu_dying, upc, rx_vcpu, if_running, delivered>>

pusher_wakes ==
  /\ PusherRuns("woken") /\ ppc' = "loop" /\ viu_rcvr' = FALSE
  /\ UNCHANGED <<backrx, rpc, nr_consumed, viuvars, viu_dying, upc, rx_vcpu, if_running, delivered>>

\* ... and with the vCPU hand it to the interface, which may have to wait
\* for the kernel lock.
pusher_schedules ==
  /\ PusherRuns("vcpu") /\ rx_vcpu = Unheld /\ ppc' = "deliver"
  /\ UNCHANGED <<backrx, rpc, nr_consumed, viuvars, viu_dying, viu_rcvr, upc, rx_vcpu, if_running, delivered>>

rump_virtif_pktdeliver ==
  /\ PusherRuns("deliver") /\ rx_vcpu = Unheld /\ ppc' = "advance"
  /\ delivered' = IF if_running THEN viu_pkts[viu_read] ELSE delivered
  /\ UNCHANGED <<backrx, rpc, nr_consumed, viuvars, viu_dying, viu_rcvr, upc, rx_vcpu, if_running>>

pusher_advances ==
  /\ PusherRuns("advance") /\ ppc' = "loop" /\ viu_read' = (viu_read + 1) % NBUF
  /\ UNCHANGED <<backrx, rpc, nr_consumed, viu_pkts, viu_write, viu_dying, viu_rcvr, upc, rx_vcpu, if_running, delivered>>

-----------------------------------------------------------------------------
\* virtif_init marks the interface running.
virtif_init ==
  /\ UserRuns("up") /\ ~if_running /\ if_running' = TRUE
  /\ UNCHANGED <<backrx, rpc, nr_consumed, viuvars, viu_dying, viu_rcvr, ppc, upc, rx_vcpu, delivered>>

\* virtif_unclone: VIFHYPER_DYING wakes pusher, virtif_stop; if_down may
\* give the vCPU up for a while ...
virtif_unclone ==
  /\ UserRuns("up") /\ upc' = "stopped" /\ viu_dying' = TRUE /\ if_running' = FALSE
  /\ ppc' = IF viu_rcvr /\ ppc = "asleep" THEN "woken" ELSE ppc
  /\ UNCHANGED <<backrx, rpc, nr_consumed, viuvars, viu_rcvr, rx_vcpu, delivered>>

\* ... VIFHYPER_DESTROY waits for pusher's end with the vCPU in its hands,
\* and shuts the device down.
VIFHYPER_DESTROY_joins ==
  /\ UserRuns("stopped") /\ upc' = "joins" /\ rx_vcpu' = "destroyer"
  /\ UNCHANGED <<backrx, rpc, nr_consumed, viuvars, viu_dying, viu_rcvr, ppc, if_running, delivered>>

VIFHYPER_DESTROY ==
  /\ UserRuns("joins") /\ ppc = "end" /\ upc' = "gone" /\ rx_vcpu' = Unheld
  /\ UNCHANGED <<backrx, rpc, nr_consumed, viuvars, viu_dying, viu_rcvr, ppc, if_running, delivered>>

NRNext ==
  \/ arrived < MaxPackets /\ \E n \in {0, arrived + 1} : RxBackendPushes(n)
  \/ RxBackendNotifies
  \/ network_rx_starts \/ network_rx_takes \/ network_rx_asks \/ network_rx_posts
  \/ pusher_starts \/ pusher_loops \/ pusher_wakes \/ pusher_schedules \/ rump_virtif_pktdeliver \/ pusher_advances
  \/ virtif_init \/ virtif_unclone \/ VIFHYPER_DESTROY_joins \/ VIFHYPER_DESTROY

NRSpec == NRInit /\ [][NRNext]_rxvars

-----------------------------------------------------------------------------
Stored == {i \in Slot : (i - viu_read) % NBUF < (viu_write - viu_read) % NBUF}

(* Packets are delivered in the order they came, none twice and none       *)
(* overwritten while pusher reads it: the stored ones are newer than the   *)
(* last delivered, and rise from the read to the write index.  (myrecv     *)
(* runs in the handler while pusher reads the slot unmasked.)              *)
PacketsInOrder ==
  /\ ppc \in {"vcpu", "deliver", "advance"} => viu_read \in Stored
  /\ \A i \in Stored : viu_pkts[i] > delivered \/ (ppc = "advance" /\ i = viu_read /\ viu_pkts[i] = delivered)
  /\ \A i, j \in Stored : (i - viu_read) % NBUF < (j - viu_read) % NBUF => viu_pkts[i] < viu_pkts[j]

(* Nothing waits for nobody: responses on the ring are being taken or an   *)
(* event is on its way; pusher does not sleep on stored packets nor        *)
(* through the interface's end; the backend's buffers are all accounted    *)
(* for.                                                                    *)
ReceiverAwake ==
  /\ rx_ring # <<>> /\ rpc = "idle" /\ upc # "gone" => rx_event \/ (rx_pushed /\ rx_wants_event)
  /\ ppc = "asleep" => viu_read = viu_write /\ ~viu_dying
  /\ rx_posted + Len(rx_ring) + (IF rpc = "idle" THEN 0 ELSE nr_consumed) = NET_RX_RING_SIZE
  /\ upc = "gone" => ppc = "end"

(* Both: packets arrive in order and nobody sleeps on them.                *)
RxSound == PacketsInOrder /\ ReceiverAwake

(* Whoever destroys the interface does not keep the vCPU from the pusher   *)
(* that it waits for.  VIFHYPER_DESTROY, unlike VIFHYPER_CREATE and        *)
(* VIFHYPER_SEND, does not give the vCPU up, and this does not hold of the *)
(* code: with a packet picked up and not yet delivered both wait for good. *)
JoinerLetsPusherEnd == upc = "joins" => ppc \notin {"start", "vcpu", "deliver"}
=============================================================================
