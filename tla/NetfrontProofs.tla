--------------------------- MODULE NetfrontProofs ---------------------------
(***************************************************************************)
(* What Xen's network driver rests on, for every value of the constants:   *)
(* the receiving of packets and the grant table.                           *)
(***************************************************************************)
EXTENDS NetRx, Gnttab, QueueLemmas

-----------------------------------------------------------------------------
(* Receiving packets.  A slot is in use when it is less far ahead of the   *)
(* read index than the write index is; numbers rise along the slots in use *)
(* and then along the backend's ring.                                      *)

\* How far slot i is from the read index, and the next slot.
Ahead(i, r) == IF i >= r THEN i - r ELSE i - r + NBUF

LEMMA RingArithmetic ==
  ASSUME NEW i \in Slot, NEW r \in Slot
  PROVE  /\ (i - r) % NBUF = Ahead(i, r) /\ Ahead(i, r) \in Slot
         /\ (i + 1) % NBUF = IF i + 1 = NBUF THEN 0 ELSE i + 1
<1>1. NBUF \in Nat \ {0} BY RxAssumption
<1>2. i \in 0 .. NBUF - 1 /\ r \in 0 .. NBUF - 1 BY DEF Slot
<1>3. (i - r) % NBUF = IF i >= r THEN i - r ELSE i - r + NBUF BY <1>1, <1>2
<1>4. (i + 1) % NBUF = IF i + 1 = NBUF THEN 0 ELSE i + 1 BY <1>1, <1>2
<1>5. Ahead(i, r) \in Slot BY <1>1, <1>2 DEF Ahead, Slot
<1> QED BY <1>3, <1>4, <1>5 DEF Ahead

\* The packets on a ring of responses come after x, rise, and have arrived.
Newer(x, q) == \A k \in 1 .. Len(q) : q[k] # 0 => x < q[k]
Rising(q) == \A k, l \in 1 .. Len(q) : k < l /\ q[k] # 0 /\ q[l] # 0 => q[k] < q[l]
Arrived(q, a) == \A k \in 1 .. Len(q) : q[k] <= a

LEMMA TakenResponse ==
  ASSUME NEW q \in Seq(Nat), q # <<>>, NEW a \in Nat, Rising(q), Arrived(q, a)
  PROVE  /\ Head(q) \in Nat /\ Tail(q) \in Seq(Nat) /\ Len(Tail(q)) = Len(q) - 1
         /\ Rising(Tail(q)) /\ Arrived(Tail(q), a) /\ Head(q) <= a
         /\ Head(q) # 0 => Newer(Head(q), Tail(q))
         /\ \A x \in Nat : Newer(x, q) => Newer(x, Tail(q)) /\ (Head(q) # 0 => x < Head(q))
<1> DEFINE r == Tail(q)
<1>1. /\ Len(q) \in Nat /\ Len(r) = Len(q) - 1 /\ r \in Seq(Nat)
      /\ Head(q) = q[1] /\ Head(q) \in Nat /\ 1 \in 1 .. Len(q)
  OBVIOUS
<1>2. \A k \in 1 .. Len(r) : r[k] = q[k + 1] /\ k + 1 \in 1 .. Len(q)
  BY <1>1
<1> HIDE DEF r
<1>3. Rising(r)
  <2> SUFFICES ASSUME NEW k \in 1 .. Len(r), NEW l \in 1 .. Len(r), k < l, r[k] # 0, r[l] # 0
               PROVE  r[k] < r[l]
    BY DEF Rising
  <2>1. k + 1 < l + 1 /\ k + 1 \in 1 .. Len(q) /\ l + 1 \in 1 .. Len(q) /\ r[k] = q[k + 1] /\ r[l] = q[l + 1]
    <3>1. k + 1 \in 1 .. Len(q) /\ r[k] = q[k + 1] BY <1>2, Zenon
    <3>2. l + 1 \in 1 .. Len(q) /\ r[l] = q[l + 1] BY <1>2, Zenon
    <3>3. k + 1 < l + 1 OBVIOUS
    <3> QED BY <3>1, <3>2, <3>3
  <2>2. q[k + 1] < q[l + 1]
    BY <2>1, Zenon DEF Rising
  <2> QED BY <2>1, <2>2
<1>4. Arrived(r, a) /\ Head(q) <= a
  <2>1. ASSUME NEW k \in 1 .. Len(r) PROVE r[k] <= a
    <3>1. k + 1 \in 1 .. Len(q) /\ r[k] = q[k + 1] BY <1>2
    <3>2. q[k + 1] <= a BY <3>1, Zenon DEF Arrived
    <3> QED BY <3>1, <3>2
  <2>2. q[1] <= a BY <1>1, Zenon DEF Arrived
  <2> QED BY <1>1, <2>1, <2>2 DEF Arrived
<1>5. Head(q) # 0 => Newer(Head(q), r)
  <2> SUFFICES ASSUME NEW k \in 1 .. Len(r), q[1] # 0, r[k] # 0 PROVE q[1] < r[k]
    BY <1>1 DEF Newer
  <2>1. 1 < k + 1 /\ k + 1 \in 1 .. Len(q) /\ r[k] = q[k + 1] BY <1>1, <1>2
  <2>2. q[1] < q[k + 1] BY <1>1, <2>1, Zenon DEF Rising
  <2> QED BY <2>1, <2>2
<1>6. ASSUME NEW x \in Nat, Newer(x, q) PROVE Newer(x, r) /\ (Head(q) # 0 => x < Head(q))
  <2>1. ASSUME NEW k \in 1 .. Len(r), r[k] # 0 PROVE x < r[k]
    <3>1. k + 1 \in 1 .. Len(q) /\ r[k] = q[k + 1] BY <1>2
    <3>2. x < q[k + 1] BY <1>6, <2>1, <3>1, Zenon DEF Newer
    <3> QED BY <3>1, <3>2
  <2>2. Head(q) # 0 => x < Head(q) BY <1>1, <1>6, Zenon DEF Newer
  <2> QED BY <2>1, <2>2 DEF Newer
<1> QED BY <1>1, <1>3, <1>4, <1>5, <1>6 DEF r

LEMMA PutResponse ==
  ASSUME NEW q \in Seq(Nat), NEW a \in Nat, NEW n \in {0, a + 1}, Rising(q), Arrived(q, a)
  PROVE  /\ Append(q, n) \in Seq(Nat) /\ Len(Append(q, n)) = Len(q) + 1
         /\ Rising(Append(q, n)) /\ Arrived(Append(q, n), a + 1)
         /\ \A x \in Nat : x <= a /\ Newer(x, q) => Newer(x, Append(q, n))
<1> DEFINE r == Append(q, n)
<1>1. /\ Len(q) \in Nat /\ Len(r) = Len(q) + 1 /\ r \in Seq(Nat)
      /\ \A k \in 1 .. Len(q) : r[k] = q[k] /\ q[k] \in Nat
      /\ r[Len(q) + 1] = n
  OBVIOUS
<1> HIDE DEF r
<1>2. \A k \in 1 .. Len(r) : k \in 1 .. Len(q) \/ k = Len(q) + 1
  BY <1>1
<1>3. Arrived(r, a + 1)
  <2>1. ASSUME NEW k \in 1 .. Len(q) PROVE r[k] <= a + 1
    <3>1. q[k] <= a BY Zenon DEF Arrived
    <3>2. r[k] = q[k] /\ q[k] \in Nat BY <1>1
    <3> QED BY <3>1, <3>2
  <2>2. r[Len(q) + 1] <= a + 1 BY <1>1
  <2> QED BY <1>2, <2>1, <2>2 DEF Arrived
<1>4. ASSUME NEW x \in Nat, x <= a, Newer(x, q) PROVE Newer(x, r)
  <2>1. ASSUME NEW k \in 1 .. Len(q), r[k] # 0 PROVE x < r[k]
    <3>1. r[k] = q[k] BY <1>1
    <3> QED BY <1>4, <2>1, <3>1, Zenon DEF Newer
  <2>2. r[Len(q) + 1] # 0 => x < r[Len(q) + 1] BY <1>1, <1>4
  <2> QED BY <1>2, <2>1, <2>2 DEF Newer
<1>5. Rising(r)
  <2> SUFFICES ASSUME NEW k \in 1 .. Len(r), NEW l \in 1 .. Len(r), k < l, r[k] # 0, r[l] # 0
               PROVE  r[k] < r[l]
    BY DEF Rising
  <2>1. k \in 1 .. Len(q) BY <1>1
  <2>2. CASE l \in 1 .. Len(q)
    <3>1. r[k] = q[k] /\ r[l] = q[l] BY <1>1, <2>1, <2>2
    <3>2. q[k] < q[l] BY <2>1, <2>2, <3>1, Zenon DEF Rising
    <3> QED BY <3>1, <3>2
  <2>3. CASE l = Len(q) + 1
    <3>1. r[k] <= a /\ r[k] \in Nat /\ r[l] = a + 1 BY <1>1, <2>1, <2>3 DEF Arrived
    <3> QED BY <3>1
  <2> QED BY <1>2, <2>2, <2>3
<1> QED BY <1>1, <1>3, <1>4, <1>5 DEF r

RxTypes ==
  /\ rx_ring \in Seq(Nat) /\ rx_posted \in Int /\ nr_consumed \in Nat
  /\ rx_wants_event \in BOOLEAN /\ rx_pushed \in BOOLEAN /\ rx_event \in BOOLEAN
  /\ rpc \in {"idle", "take", "ask", "check"}
  /\ viu_pkts \in [Slot -> Nat] /\ viu_read \in Slot /\ viu_write \in Slot
  /\ viu_dying \in BOOLEAN /\ viu_rcvr \in BOOLEAN
  /\ delivered \in Nat /\ arrived \in Nat

\* The slots that hold packets, and their order.
InUse(i) == Ahead(i, viu_read) < Ahead(viu_write, viu_read)

OrderInv ==
  /\ ppc \in {"vcpu", "deliver", "advance"} => viu_read # viu_write
  /\ \A i \in Slot : InUse(i) =>
       /\ viu_pkts[i] <= arrived /\ Newer(viu_pkts[i], rx_ring)
       /\ viu_pkts[i] > delivered \/ (ppc = "advance" /\ i = viu_read /\ viu_pkts[i] = delivered)
  /\ \A i, j \in Slot : InUse(i) /\ InUse(j) /\ Ahead(i, viu_read) < Ahead(j, viu_read) => viu_pkts[i] < viu_pkts[j]
  /\ delivered <= arrived /\ Newer(delivered, rx_ring)
  /\ Rising(rx_ring) /\ Arrived(rx_ring, arrived)

AwakeInv ==
  /\ ReceiverAwake
  /\ rpc \in {"idle", "check"} => rx_event \/ rx_wants_event
  /\ ppc = "asleep" => viu_rcvr

RxInv == RxTypes /\ OrderInv /\ AwakeInv

LEMMA RxInit == NRInit => RxInv
<1> SUFFICES ASSUME NRInit PROVE RxInv OBVIOUS
<1> USE RxAssumption DEF NRInit, VIFHYPER_CREATE, Slot
<1>1. RxTypes
  <2>1. 0 \in Slot /\ <<>> \in Seq(Nat) /\ viu_pkts \in [Slot -> Nat] /\ NET_RX_RING_SIZE \in Int OBVIOUS
  <2> HIDE DEF Slot
  <2> QED BY <2>1, Zenon DEF RxTypes
<1>2. OrderInv BY DEF OrderInv, InUse, Ahead, Newer, Rising, Arrived
<1>3. AwakeInv BY DEF AwakeInv, ReceiverAwake
<1> QED BY <1>1, <1>2, <1>3 DEF RxInv

\* The backend puts a packet, or an error, on the ring.
LEMMA RxPushKeeps ==
  ASSUME RxInv, NEW n \in {0, arrived + 1}, RxBackendPushes(n)
  PROVE  RxInv'
<1> USE DEF viuvars
<1>1. /\ rx_posted' = rx_posted - 1 /\ rx_ring' = Append(rx_ring, n) /\ arrived' = arrived + 1 /\ rx_pushed'
      /\ UNCHANGED <<rx_wants_event, rx_event, rpc, nr_consumed, viuvars, viu_dying, viu_rcvr, ppc, upc, rx_vcpu,
                     if_running, delivered>>
  BY DEF RxBackendPushes
<1>2. /\ Len(rx_ring) \in Nat /\ Len(rx_ring') = Len(rx_ring) + 1 /\ rx_ring' \in Seq(Nat)
      /\ Rising(rx_ring') /\ Arrived(rx_ring', arrived')
      /\ \A x \in Nat : x <= arrived /\ Newer(x, rx_ring) => Newer(x, rx_ring')
  BY <1>1, PutResponse DEF RxInv, RxTypes, OrderInv
<1>3. RxTypes'
  BY <1>1, <1>2 DEF RxInv, RxTypes, RxBackendPushes
<1>4. OrderInv'
  BY <1>1, <1>2 DEF RxInv, OrderInv, RxTypes, InUse
<1>5. AwakeInv'
  BY <1>1, <1>2 DEF RxInv, AwakeInv, ReceiverAwake, RxTypes
<1> QED BY <1>3, <1>4, <1>5 DEF RxInv

\* What the order depends on.
LEMMA OrderKept ==
  ASSUME OrderInv, UNCHANGED <<viu_pkts, viu_read, viu_write, rx_ring, arrived, delivered>>,
         ppc' \in {"vcpu", "deliver", "advance"} => viu_read # viu_write,
         ppc = "advance" => ppc' = "advance"
  PROVE  OrderInv'
BY DEF OrderInv, InUse

\* The handler's steps that leave the packet ring alone, and the notification.
LEMMA RxHandlerKeeps ==
  ASSUME RxInv, RxBackendNotifies \/ network_rx_starts \/ network_rx_asks \/ network_rx_posts
  PROVE  RxInv'
<1> USE DEF viuvars
<1>1. UNCHANGED <<rx_ring, arrived, viuvars, viu_dying, viu_rcvr, ppc, upc, delivered>>
  BY DEF RxBackendNotifies, network_rx_starts, network_rx_asks, network_rx_posts
<1>2. OrderInv'
  BY <1>1, OrderKept DEF RxInv, OrderInv
<1>3. CASE RxBackendNotifies
  <2>1. /\ rx_pushed /\ ~rx_pushed' /\ (rx_event' <=> rx_event \/ rx_wants_event)
        /\ rx_event' \in BOOLEAN /\ rx_pushed' \in BOOLEAN /\ rx_wants_event' \in BOOLEAN
        /\ UNCHANGED <<rx_posted, rpc, nr_consumed>>
    BY <1>3, Zenon DEF RxBackendNotifies
  <2> QED BY <1>1, <1>2, <2>1 DEF RxInv, RxTypes, AwakeInv, ReceiverAwake
<1>4. CASE network_rx_starts
  <2>1. /\ rpc = "idle" /\ rpc' = "take" /\ nr_consumed' = 0 /\ rx_event' \in BOOLEAN
        /\ UNCHANGED <<rx_posted, rx_wants_event, rx_pushed>>
    BY <1>4, Zenon DEF network_rx_starts
  <2> QED BY <1>1, <1>2, <2>1 DEF RxInv, RxTypes, AwakeInv, ReceiverAwake
<1>5. CASE network_rx_asks
  <2>1. /\ rpc = "ask" /\ rpc' = "check" /\ rx_wants_event' /\ rx_wants_event' \in BOOLEAN
        /\ UNCHANGED <<rx_posted, nr_consumed, rx_event, rx_pushed>>
    BY <1>5, Zenon DEF network_rx_asks
  <2> QED BY <1>1, <1>2, <2>1 DEF RxInv, RxTypes, AwakeInv, ReceiverAwake
<1>6. CASE network_rx_posts
  <2>1. /\ rpc = "check"
        /\ \/ rpc' = "take" /\ UNCHANGED rx_posted
           \/ rx_ring = <<>> /\ rpc' = "idle" /\ rx_posted' = rx_posted + nr_consumed
        /\ UNCHANGED <<rx_wants_event, nr_consumed, rx_event, rx_pushed>>
    BY <1>6 DEF network_rx_posts
  <2> QED BY <1>1, <1>2, <2>1 DEF RxInv, RxTypes, AwakeInv, ReceiverAwake
<1> QED BY <1>3, <1>4, <1>5, <1>6

\* network_rx takes a response and myrecv stores the packet, behind all others.
LEMMA RxTakesKeeps == ASSUME RxInv, network_rx_takes PROVE RxInv'
<1> USE DEF viuvars
<1>1. /\ rpc = "take"
      /\ UNCHANGED <<rx_wants_event, rx_posted, rx_pushed, rx_event, arrived, viu_dying, viu_rcvr, upc, delivered>>
  BY DEF network_rx_takes
<1>2. CASE rx_ring = <<>>
  <2>1. rpc' = "ask" /\ UNCHANGED <<rx_ring, nr_consumed, viuvars, ppc>>
    BY <1>2 DEF network_rx_takes
  <2>2. OrderInv'
    BY <1>1, <2>1, OrderKept DEF RxInv, OrderInv
  <2> QED BY <1>1, <2>1, <2>2 DEF RxInv, RxTypes, AwakeInv, ReceiverAwake
<1>3. CASE rx_ring # <<>>
  <2> DEFINE n == Head(rx_ring)
  <2>1. /\ rx_ring' = Tail(rx_ring) /\ nr_consumed' = nr_consumed + 1 /\ rpc' = rpc
        /\ IF n = 0 THEN UNCHANGED <<viuvars, ppc>> ELSE myrecv(n)
    BY <1>3 DEF network_rx_takes
  <2>2. /\ Len(rx_ring) \in Nat /\ Len(rx_ring') = Len(rx_ring) - 1 /\ rx_ring' \in Seq(Nat)
        /\ Rising(rx_ring') /\ Arrived(rx_ring', arrived)
        /\ n \in Nat /\ n <= arrived /\ (n # 0 => Newer(n, rx_ring'))
        /\ \A x \in Nat : Newer(x, rx_ring) => Newer(x, rx_ring') /\ (n # 0 => x < n)
    BY <1>3, <2>1, TakenResponse DEF RxInv, RxTypes, OrderInv
  <2> HIDE DEF n
  <2>3. CASE UNCHANGED <<viuvars, ppc>>
    <3>1. RxTypes'
      BY <1>1, <2>1, <2>2, <2>3 DEF RxInv, RxTypes
    <3>2. OrderInv'
      BY <1>1, <2>2, <2>3 DEF RxInv, RxTypes, OrderInv, InUse
    <3>3. AwakeInv'
      BY <1>1, <2>1, <2>2, <2>3 DEF RxInv, RxTypes, AwakeInv, ReceiverAwake
    <3> QED BY <3>1, <3>2, <3>3 DEF RxInv
  <2>4. CASE n # 0 /\ ~UNCHANGED <<viuvars, ppc>>
    <3>1. /\ ~RingFull /\ viu_pkts' = [viu_pkts EXCEPT ![viu_write] = n]
          /\ viu_write' = (viu_write + 1) % NBUF /\ UNCHANGED viu_read
          /\ ppc' = IF viu_rcvr /\ ppc = "asleep" THEN "woken" ELSE ppc
      BY <2>1, <2>4, Zenon DEF myrecv
    <3>2. /\ viu_write' = IF viu_write + 1 = NBUF THEN 0 ELSE viu_write + 1
          /\ viu_write' # viu_read
      <4>1. viu_write \in Slot BY DEF RxInv, RxTypes
      <4>2. (viu_write + 1) % NBUF = IF viu_write + 1 = NBUF THEN 0 ELSE viu_write + 1
        BY <4>1, RingArithmetic
      <4> QED BY <3>1, <4>2 DEF RingFull
    <3>3. viu_read \in Slot /\ viu_write \in Slot /\ viu_write' \in Slot /\ NBUF \in Nat /\ NBUF >= 2
      BY <3>2, RxAssumption DEF RxInv, RxTypes, Slot
    <3>4. \A i \in Slot : viu_pkts'[i] = IF i = viu_write THEN n ELSE viu_pkts[i]
      BY <3>1 DEF RxInv, RxTypes
    <3>5. \A i \in Slot : InUse(i)' <=> InUse(i) \/ i = viu_write
      BY <3>1, <3>2, <3>3 DEF InUse, Ahead, Slot
    <3>6. \A i \in Slot : Ahead(i, viu_read) \in Int
      BY <3>3, RingArithmetic DEF Slot
    <3>7. \A i \in Slot : InUse(i) => i # viu_write /\ Ahead(i, viu_read) < Ahead(viu_write, viu_read)
      BY <3>3, <3>6 DEF InUse
    <3>8. RxTypes'
      BY <1>1, <2>1, <2>2, <3>1, <3>3 DEF RxInv, RxTypes
    <3>9. OrderInv'
      <4>1. ppc' \in {"vcpu", "deliver", "advance"} => viu_read' # viu_write'
        BY <3>1, <3>2
      <4>2. ppc' = "advance" <=> ppc = "advance"
        BY <3>1
      <4>3. n <= arrived /\ delivered < n /\ Newer(n, rx_ring') /\ Newer(delivered, rx_ring')
        BY <2>2, <2>4 DEF RxInv, RxTypes, OrderInv
      <4>4. ASSUME NEW i \in Slot, InUse(i)
            PROVE  viu_pkts[i] \in Nat /\ Newer(viu_pkts[i], rx_ring') /\ viu_pkts[i] < n
        BY <2>2, <2>4, <4>4 DEF RxInv, RxTypes, OrderInv
      <4>5. ASSUME NEW i \in Slot, InUse(i)'
            PROVE  /\ viu_pkts'[i] <= arrived /\ Newer(viu_pkts'[i], rx_ring')
                   /\ viu_pkts'[i] > delivered \/ (ppc' = "advance" /\ i = viu_read /\ viu_pkts'[i] = delivered)
        <5>1. CASE i = viu_write
          <6>1. viu_pkts'[i] = n BY <3>4, <5>1
          <6> QED BY <4>3, <6>1 DEF RxInv, RxTypes
        <5>2. CASE i # viu_write
          <6>1. InUse(i) /\ viu_pkts'[i] = viu_pkts[i] BY <3>4, <3>5, <4>5, <5>2
          <6> QED BY <4>2, <4>4, <6>1 DEF RxInv, OrderInv
        <5> QED BY <5>1, <5>2
      <4>6. ASSUME NEW i \in Slot, NEW j \in Slot, InUse(i)', InUse(j)', Ahead(i, viu_read) < Ahead(j, viu_read)
            PROVE  viu_pkts'[i] < viu_pkts'[j]
        <5>1. CASE j = viu_write
          <6>1. i # viu_write BY <3>6, <4>6, <5>1
          <6>2. InUse(i) BY <3>5, <4>6, <6>1
          <6> QED BY <3>4, <4>4, <5>1, <6>1, <6>2
        <5>2. CASE j # viu_write
          <6>1. InUse(j) BY <3>5, <4>6, <5>2
          <6>2. i # viu_write BY <3>3, <3>6, <3>7, <4>6, <6>1
          <6>3. InUse(i) BY <3>5, <4>6, <6>2
          <6> QED BY <3>4, <4>6, <5>2, <6>1, <6>2, <6>3 DEF RxInv, OrderInv
        <5> QED BY <5>1, <5>2
      <4> QED BY <1>1, <2>2, <3>1, <4>1, <4>3, <4>5, <4>6 DEF RxInv, OrderInv
    <3>10. AwakeInv'
      BY <1>1, <2>1, <2>2, <3>1 DEF RxInv, RxTypes, AwakeInv, ReceiverAwake
    <3> QED BY <3>8, <3>9, <3>10 DEF RxInv
  <2> QED BY <2>1, <2>3, <2>4
<1> QED BY <1>2, <1>3

\* pusher, which runs while the handler does not, and the interface's life.
LEMMA PusherKeeps ==
  ASSUME RxInv, pusher_starts \/ pusher_loops \/ pusher_wakes \/ pusher_schedules
  PROVE  RxInv'
<1> USE DEF viuvars, backrx
<1>1. UNCHANGED <<backrx, rpc, nr_consumed, viuvars, viu_dying, upc, delivered>> /\ ppc # "advance" /\ upc # "gone"
  BY DEF pusher_starts, pusher_loops, pusher_wakes, pusher_schedules, PusherRuns
<1>2. ppc' \in {"loop", "end", "asleep", "vcpu", "deliver"}
  BY DEF pusher_starts, pusher_loops, pusher_wakes, pusher_schedules
<1>3. /\ ppc' = "asleep" => viu_read = viu_write /\ ~viu_dying /\ viu_rcvr'
      /\ viu_rcvr' \in BOOLEAN
  <2>0. viu_rcvr \in BOOLEAN /\ viu_dying \in BOOLEAN BY DEF RxInv, RxTypes
  <2>1. CASE pusher_loops
    <3>1. viu_rcvr' \in BOOLEAN /\ (viu_rcvr' <=> ~viu_dying /\ viu_read = viu_write)
      BY <2>1, Zenon DEF pusher_loops
    <3>2. ppc' = IF viu_dying THEN "end" ELSE IF viu_read = viu_write THEN "asleep" ELSE "vcpu"
      BY <2>1, Zenon DEF pusher_loops
    <3> QED BY <3>1, <3>2
  <2>2. CASE pusher_wakes
    <3>1. ppc' = "loop" /\ viu_rcvr' \in BOOLEAN BY <2>2, Zenon DEF pusher_wakes
    <3> QED BY <3>1
  <2>3. CASE pusher_starts \/ pusher_schedules
    BY <2>0, <2>3 DEF pusher_starts, pusher_schedules
  <2> QED BY <2>1, <2>2, <2>3
<1>4. ppc' \in {"vcpu", "deliver"} => viu_read # viu_write
  <2>1. ppc = "vcpu" => viu_read # viu_write BY DEF RxInv, OrderInv
  <2> QED BY <2>1 DEF pusher_starts, pusher_loops, pusher_wakes, pusher_schedules, PusherRuns
<1>5. OrderInv'
  BY <1>1, <1>2, <1>4, OrderKept DEF RxInv
<1> QED BY <1>1, <1>3, <1>5 DEF RxInv, RxTypes, AwakeInv, ReceiverAwake

LEMMA DeliverKeeps == ASSUME RxInv, rump_virtif_pktdeliver PROVE RxInv'
<1> USE DEF viuvars, backrx
<1>1. /\ ppc = "deliver" /\ ppc' = "advance" /\ upc # "gone"
      /\ delivered' = IF if_running THEN viu_pkts[viu_read] ELSE delivered
      /\ UNCHANGED <<backrx, rpc, nr_consumed, viuvars, viu_dying, viu_rcvr, upc>>
  BY DEF rump_virtif_pktdeliver, PusherRuns
<1>2. viu_read \in Slot /\ viu_write \in Slot /\ viu_read # viu_write /\ NBUF \in Nat
  BY <1>1, RxAssumption DEF RxInv, RxTypes, OrderInv
<1>3. InUse(viu_read) /\ \A i \in Slot : i # viu_read => Ahead(viu_read, viu_read) < Ahead(i, viu_read)
  BY <1>2 DEF InUse, Ahead, Slot
<1>4. delivered' \in Nat
  BY <1>1, <1>2 DEF RxInv, RxTypes
<1>5. OrderInv'
  BY <1>1, <1>2, <1>3 DEF RxInv, RxTypes, OrderInv, InUse
<1> QED BY <1>1, <1>4, <1>5 DEF RxInv, RxTypes, AwakeInv, ReceiverAwake

LEMMA AdvanceKeeps == ASSUME RxInv, pusher_advances PROVE RxInv'
<1> USE DEF backrx
<1>1. /\ ppc = "advance" /\ ppc' = "loop" /\ upc # "gone" /\ viu_read' = (viu_read + 1) % NBUF
      /\ UNCHANGED <<backrx, rpc, nr_consumed, viu_pkts, viu_write, viu_dying, viu_rcvr, upc, delivered>>
  BY DEF pusher_advances, PusherRuns
<1>2. viu_read \in Slot /\ viu_write \in Slot /\ viu_read # viu_write /\ NBUF \in Nat
  BY <1>1, RxAssumption DEF RxInv, RxTypes, OrderInv
<1>3. viu_read' = (IF viu_read + 1 = NBUF THEN 0 ELSE viu_read + 1) /\ viu_read' \in Slot
  <2>1. viu_read' = (IF viu_read + 1 = NBUF THEN 0 ELSE viu_read + 1)
    BY <1>1, <1>2, RingArithmetic
  <2> QED BY <1>2, <2>1 DEF Slot
<1>4. \A i \in Slot : InUse(i)' => InUse(i) /\ i # viu_read /\ Ahead(i, viu_read) = Ahead(i, viu_read') + 1
  BY <1>1, <1>2, <1>3 DEF InUse, Ahead, Slot
<1>5. \A i \in Slot : Ahead(i, viu_read) \in Int /\ Ahead(i, viu_read') \in Int
  BY <1>2, <1>3, RingArithmetic DEF Slot
<1>6. OrderInv'
  <2>1. ASSUME NEW i \in Slot, InUse(i)'
        PROVE  viu_pkts[i] <= arrived /\ Newer(viu_pkts[i], rx_ring) /\ viu_pkts[i] > delivered
    BY <1>4, <2>1 DEF RxInv, OrderInv
  <2>2. ASSUME NEW i \in Slot, NEW j \in Slot, InUse(i)', InUse(j)', Ahead(i, viu_read') < Ahead(j, viu_read')
        PROVE  viu_pkts[i] < viu_pkts[j]
    <3>1. Ahead(i, viu_read) < Ahead(j, viu_read) BY <1>4, <1>5, <2>2
    <3> QED BY <1>4, <2>2, <3>1 DEF RxInv, OrderInv
  <2> QED BY <1>1, <2>1, <2>2 DEF RxInv, OrderInv
<1>7. AwakeInv'
  BY <1>1 DEF RxInv, AwakeInv, ReceiverAwake
<1>8. RxTypes'
  BY <1>1, <1>3 DEF RxInv, RxTypes
<1> QED BY <1>6, <1>7, <1>8 DEF RxInv

LEMMA RxLifeKeeps ==
  ASSUME RxInv, virtif_init \/ virtif_unclone \/ VIFHYPER_DESTROY_joins \/ VIFHYPER_DESTROY
  PROVE  RxInv'
<1> USE DEF viuvars, backrx
<1>1. /\ UNCHANGED <<backrx, rpc, nr_consumed, viuvars, viu_rcvr, delivered>>
      /\ ppc' = ppc \/ (ppc = "asleep" /\ ppc' = "woken")
  BY DEF virtif_init, virtif_unclone, VIFHYPER_DESTROY_joins, VIFHYPER_DESTROY
<1>2. viu_dying' \in BOOLEAN /\ (viu_dying' = viu_dying \/ (viu_rcvr => ppc' # "asleep"))
  <2>1. CASE virtif_unclone
    <3>1. viu_dying' \in BOOLEAN
      BY <2>1, Zenon DEF virtif_unclone
    <3>2. ppc' = IF viu_rcvr /\ ppc = "asleep" THEN "woken" ELSE ppc
      BY <2>1, Zenon DEF virtif_unclone
    <3> QED BY <3>1, <3>2
  <2>2. CASE virtif_init \/ VIFHYPER_DESTROY_joins \/ VIFHYPER_DESTROY
    <3>1. UNCHANGED viu_dying
      BY <2>2 DEF virtif_init, VIFHYPER_DESTROY_joins, VIFHYPER_DESTROY
    <3> QED BY <3>1 DEF RxInv, RxTypes
  <2> QED BY <2>1, <2>2
<1>3. (upc' = "gone" => ppc' = "end") /\ upc # "gone"
  BY DEF virtif_init, virtif_unclone, VIFHYPER_DESTROY_joins, VIFHYPER_DESTROY, UserRuns
<1>4. OrderInv'
  BY <1>1, OrderKept DEF RxInv, OrderInv
<1> QED BY <1>1, <1>2, <1>3, <1>4 DEF RxInv, RxTypes, AwakeInv, ReceiverAwake

LEMMA RxStep == RxInv /\ [NRNext]_rxvars => RxInv'
<1> SUFFICES ASSUME RxInv, [NRNext]_rxvars PROVE RxInv' OBVIOUS
<1>1. CASE UNCHANGED rxvars
  BY <1>1 DEF rxvars, RxInv, RxTypes, OrderInv, InUse, AwakeInv, ReceiverAwake
<1> QED BY <1>1, RxPushKeeps, RxHandlerKeeps, RxTakesKeeps, PusherKeeps, DeliverKeeps, AdvanceKeeps, RxLifeKeeps,
           Zenon DEF NRNext

LEMMA RxFromInv == RxInv => RxSound
<1> SUFFICES ASSUME RxInv PROVE RxSound OBVIOUS
<1>1. viu_read \in Slot /\ viu_write \in Slot /\ NBUF \in Nat
  BY RxAssumption DEF RxInv, RxTypes
<1>2. \A i \in Slot : (i - viu_read) % NBUF = Ahead(i, viu_read)
  BY <1>1, RingArithmetic
<1>3. \A i \in Slot : i \in Stored <=> InUse(i)
  BY <1>1, <1>2 DEF Stored, InUse
<1>4. viu_read # viu_write => InUse(viu_read)
  BY <1>1 DEF InUse, Ahead, Slot
<1>5. Stored \subseteq Slot BY DEF Stored
<1>6. PacketsInOrder
  BY <1>1, <1>2, <1>3, <1>4, <1>5 DEF PacketsInOrder, RxInv, OrderInv
<1> QED BY <1>6 DEF RxSound, RxInv, AwakeInv

\* For every size of the two rings and any number of packets: packets are
\* delivered in the order they came, none twice and none overwritten while the
\* pusher reads it, though myrecv() stores them from the interrupt handler; and
\* neither network_rx() nor the pusher sleeps on what is there for it.
THEOREM RxAlwaysSound == NRSpec => []RxSound
<1> QED BY RxInit, RxStep, RxFromInv, PTL DEF NRSpec

-----------------------------------------------------------------------------
(* The grant table                                                         *)

Critical == {"test", "prepare", "down", "pop", "up"}

\* A thread inside a call runs alone, the free list holds what is not granted,
\* once, and the semaphore counts it, less what a down() has promised or an up()
\* has yet to tell.
GrantInv ==
  /\ gnttab_list \in Seq(Entry) /\ Distinct(gnttab_list)
  /\ count \in Int
  /\ gpc \in [GThread -> Critical \cup {"idle", "asleep", "woken"}]
  /\ gcur \in GThread \cup {Nobody}
  /\ \A t \in GThread : gpc[t] \in Critical <=> gcur = t
  /\ granted \subseteq Entry /\ rx \subseteq Entry /\ granted \cap rx = {}
  /\ Range(gnttab_list) = Entry \ (granted \cup rx)
  /\ Len(gnttab_list) = count + (IF gcur # Nobody /\ gpc[gcur] \in {"pop", "up"} THEN 1 ELSE 0)

LEMMA GrantInit == GRInit => GrantInv
<1> SUFFICES ASSUME GRInit PROVE GrantInv OBVIOUS
<1> USE DEF GRInit, Nobody
<1>1. gnttab_list \in Seq(Entry) /\ Range(gnttab_list) = Entry /\ Distinct(gnttab_list)
  BY GrantAssumption, SetAsQueue
<1>2. Len(gnttab_list) = Cardinality(Entry)
  BY <1>1, DistinctLength
<1>3. count \in Int
  BY GrantAssumption, FS_CardinalityType
<1>4. "nobody" \notin GThread
  BY GrantAssumption
<1> QED BY <1>1, <1>2, <1>3, <1>4 DEF GrantInv, Critical

\* The critical sections of a call that leave the free list alone.
LEMMA GrantWaitKeeps ==
  ASSUME GrantInv, NEW t \in GThread,
         get_free_entry(t) \/ wait_event(t) \/ wait_event_blocks(t) \/ wait_event_returns(t) \/ down(t)
  PROVE  GrantInv'
<1> USE DEF Nobody
<1>0. "nobody" \notin GThread BY GrantAssumption
<1> DEFINE Moves(to) == /\ gpc' = [gpc EXCEPT ![t] = to]
                        /\ to \in Critical <=> gcur' = t
                        /\ count' = count - (IF to = "pop" THEN 1 ELSE 0)
<1>1. /\ gpc[t] \in {"idle", "test", "prepare", "woken", "down"}
      /\ gcur \in {t, Nobody} /\ gcur' \in {t, Nobody}
      /\ \E to \in {"test", "prepare", "down", "pop", "asleep"} : Moves(to)
      /\ UNCHANGED <<gnttab_list, granted, rx>>
  <2>0. count \in Int BY DEF GrantInv
  <2>1. CASE get_free_entry(t)
    <3>1. Moves("test") BY <2>0, <2>1 DEF get_free_entry, Goes, Critical
    <3> QED BY <2>1, <3>1 DEF get_free_entry
  <2>2. CASE wait_event(t)
    <3>1. CASE count > 0
      <4>1. Moves("down") BY <2>0, <2>2, <3>1 DEF wait_event, InCall, Goes, Critical
      <4> QED BY <2>2, <4>1 DEF wait_event, InCall
    <3>2. CASE ~(count > 0)
      <4>1. Moves("prepare") BY <2>0, <2>2, <3>2 DEF wait_event, InCall, Goes, Critical
      <4> QED BY <2>2, <4>1 DEF wait_event, InCall
    <3> QED BY <3>1, <3>2
  <2>3. CASE wait_event_blocks(t)
    <3>1. Moves("asleep") BY <1>0, <2>0, <2>3 DEF wait_event_blocks, InCall, Goes, Critical
    <3> QED BY <2>3, <3>1 DEF wait_event_blocks, InCall
  <2>4. CASE wait_event_returns(t)
    <3>1. Moves("test") BY <2>0, <2>4 DEF wait_event_returns, Goes, Critical
    <3> QED BY <2>4, <3>1 DEF wait_event_returns
  <2>5. CASE down(t)
    <3>1. Moves("pop") \/ Moves("test") BY <2>0, <2>5 DEF down, InCall, Goes, Critical
    <3> QED BY <2>5, <3>1 DEF down, InCall
  <2> QED BY <2>1, <2>2, <2>3, <2>4, <2>5
<1>2. PICK to \in {"test", "prepare", "down", "pop", "asleep"} : Moves(to)
  BY <1>1, Zenon
<1>3. \A u \in GThread : gpc'[u] = IF u = t THEN to ELSE gpc[u]
  BY <1>2 DEF GrantInv
<1>4. gpc' \in [GThread -> Critical \cup {"idle", "asleep", "woken"}]
  BY <1>2 DEF GrantInv, Critical
<1>5. \A u \in GThread : gpc'[u] \in Critical <=> gcur' = u
  BY <1>0, <1>1, <1>2, <1>3 DEF GrantInv
<1>6. Len(gnttab_list) \in Nat /\ Len(gnttab_list) = count
  BY <1>0, <1>1 DEF GrantInv
<1>7. Len(gnttab_list') = count' + (IF gcur' # Nobody /\ gpc'[gcur'] \in {"pop", "up"} THEN 1 ELSE 0)
  BY <1>0, <1>1, <1>2, <1>3, <1>6 DEF GrantInv, Critical
<1>8. count' \in Int /\ gcur' \in GThread \cup {Nobody}
  BY <1>1, <1>2 DEF GrantInv
<1>9. /\ gnttab_list' \in Seq(Entry) /\ Distinct(gnttab_list')
      /\ granted' \subseteq Entry /\ rx' \subseteq Entry /\ granted' \cap rx' = {}
      /\ Range(gnttab_list') = Entry \ (granted' \cup rx')
  BY <1>1, Zenon DEF GrantInv
<1> QED BY <1>4, <1>5, <1>7, <1>8, <1>9, Zenon DEF GrantInv

\* get_free_entry unlinks the head of the free list, which is there.
LEMMA UnlinkKeeps ==
  ASSUME GrantInv, NEW t \in GThread, unlink(t)
  PROVE  GrantInv'
<1> USE DEF Nobody
<1>0. "nobody" \notin GThread BY GrantAssumption
<1>1. /\ gcur = t /\ gpc[t] = "pop" /\ gnttab_list # <<>> /\ gnttab_list' = Tail(gnttab_list)
      /\ granted' = granted \cup {Head(gnttab_list)} /\ gpc' = [gpc EXCEPT ![t] = "idle"] /\ gcur' = Nobody
      /\ UNCHANGED <<count, rx>>
  BY DEF unlink, InCall, Goes
<1>2. /\ gnttab_list' \in Seq(Entry) /\ Head(gnttab_list) \in Range(gnttab_list)
      /\ Range(gnttab_list') = Range(gnttab_list) \ {Head(gnttab_list)} /\ Distinct(gnttab_list')
  BY <1>1, TailQueue DEF GrantInv
<1>3. Len(gnttab_list') = Len(gnttab_list) - 1 /\ Len(gnttab_list) \in Nat
  BY <1>1 DEF GrantInv
<1>4. \A u \in GThread : gpc'[u] = IF u = t THEN "idle" ELSE gpc[u]
  BY <1>1 DEF GrantInv
<1>5. gpc' \in [GThread -> Critical \cup {"idle", "asleep", "woken"}]
  BY <1>1 DEF GrantInv
<1>6. \A u \in GThread : gpc'[u] \in Critical <=> gcur' = u
  BY <1>0, <1>1, <1>4 DEF GrantInv, Critical
<1>7. Len(gnttab_list') = count'
  BY <1>0, <1>1, <1>3 DEF GrantInv
<1>8. Range(gnttab_list') = Entry \ (granted' \cup rx') /\ granted' \subseteq Entry /\ granted' \cap rx' = {}
  BY <1>1, <1>2 DEF GrantInv
<1>9. /\ count' \in Int /\ gcur' \in GThread \cup {Nobody} /\ rx' \subseteq Entry
      /\ Len(gnttab_list') = count' + (IF gcur' # Nobody /\ gpc'[gcur'] \in {"pop", "up"} THEN 1 ELSE 0)
  BY <1>1, <1>7 DEF GrantInv
<1> QED BY <1>2, <1>5, <1>6, <1>8, <1>9, Zenon DEF GrantInv

\* put_free_entry links an entry in, and up() tells.
LEMMA LinkedEntry ==
  ASSUME GrantInv, NEW e \in granted
  PROVE  LET q == <<e>> \o gnttab_list
         IN  /\ q \in Seq(Entry) /\ Distinct(q) /\ Len(q) = Len(gnttab_list) + 1
             /\ Range(q) = Entry \ ((granted \ {e}) \cup rx)
<1> DEFINE p == <<e>>
<1>1. p \in Seq(Entry) /\ Range(p) = {e} /\ Distinct(p) /\ Len(p) = 1
  BY DEF GrantInv, Range, Distinct
<1> HIDE DEF p
<1>2. gnttab_list \in Seq(Entry) /\ Distinct(gnttab_list) /\ e \in Entry /\ e \notin rx
      /\ Range(gnttab_list) = Entry \ (granted \cup rx)
  BY DEF GrantInv
<1>3. Range(p) \cap Range(gnttab_list) = {}
  BY <1>1, <1>2
<1>4. /\ p \o gnttab_list \in Seq(Entry) /\ Distinct(p \o gnttab_list)
      /\ Range(p \o gnttab_list) = {e} \cup Range(gnttab_list)
  BY <1>1, <1>2, <1>3, ConcatQueue
<1>5. Len(p \o gnttab_list) = Len(gnttab_list) + 1
  <2>1. Len(p \o gnttab_list) = Len(p) + Len(gnttab_list) /\ Len(gnttab_list) \in Nat
    <3>1. p \in Seq(Entry) /\ gnttab_list \in Seq(Entry) BY <1>1, <1>2
    <3>2. Len(gnttab_list) \in Nat BY <3>1
    <3> QED BY <3>1, <3>2, ConcatElements
  <2> QED BY <1>1, <2>1
<1>6. {e} \cup Range(gnttab_list) = Entry \ ((granted \ {e}) \cup rx)
  BY <1>2
<1> QED BY <1>4, <1>5, <1>6 DEF p

LEMMA PutKeeps ==
  ASSUME GrantInv, NEW t \in GThread, NEW e \in Entry, put_free_entry(t, e)
  PROVE  GrantInv'
<1> USE DEF Nobody
<1>0. "nobody" \notin GThread BY GrantAssumption
<1>1. /\ gcur = Nobody /\ gpc[t] = "idle" /\ e \in granted
      /\ granted' = granted \ {e} /\ gnttab_list' = <<e>> \o gnttab_list
      /\ gcur' = t /\ gpc' = [gpc EXCEPT ![t] = "up"]
      /\ UNCHANGED <<count, rx>>
  BY DEF put_free_entry, Goes
<1>2. /\ gnttab_list' \in Seq(Entry) /\ Distinct(gnttab_list') /\ Len(gnttab_list') = Len(gnttab_list) + 1
      /\ Range(gnttab_list') = Entry \ (granted' \cup rx')
  BY <1>1, LinkedEntry
<1>3. gpc' \in [GThread -> Critical \cup {"idle", "asleep", "woken"}]
  BY <1>1 DEF GrantInv, Critical
<1>4. \A u \in GThread : gpc'[u] = IF u = t THEN "up" ELSE gpc[u]
  BY <1>1 DEF GrantInv
<1>5. \A u \in GThread : gpc'[u] \in Critical <=> gcur' = u
  BY <1>0, <1>1, <1>4 DEF GrantInv, Critical
<1>6. Len(gnttab_list') = count' + 1 /\ gpc'[t] = "up"
  BY <1>0, <1>1, <1>2, <1>4 DEF GrantInv
<1> QED BY <1>0, <1>1, <1>2, <1>3, <1>5, <1>6 DEF GrantInv

\* Waking the sleepers does not touch the thread that runs.
LEMMA WokenThreads ==
  ASSUME GrantInv
  PROVE  /\ Woken(gpc) \in [GThread -> Critical \cup {"idle", "asleep", "woken"}]
         /\ \A u \in GThread : Woken(gpc)[u] \in Critical <=> gpc[u] \in Critical
         /\ \A u \in GThread : gpc[u] \in Critical => Woken(gpc)[u] = gpc[u]
BY DEF GrantInv, Woken, Critical

LEMMA UpKeeps ==
  ASSUME GrantInv, NEW t \in GThread, up(t)
  PROVE  GrantInv'
<1> USE DEF Nobody
<1>0. "nobody" \notin GThread BY GrantAssumption
<1>1. /\ gcur = t /\ gpc[t] = "up" /\ count' = count + 1 /\ gcur' = Nobody
      /\ gpc' = [Woken(gpc) EXCEPT ![t] = "idle"]
      /\ UNCHANGED <<gnttab_list, granted, rx>>
  BY DEF up, InCall
<1>2. gpc' \in [GThread -> Critical \cup {"idle", "asleep", "woken"}]
  BY <1>1, WokenThreads
<1>3. \A u \in GThread : gpc'[u] = IF u = t THEN "idle" ELSE Woken(gpc)[u]
  BY <1>1, WokenThreads
<1>4. \A u \in GThread : gpc'[u] \in Critical <=> gcur' = u
  BY <1>0, <1>1, <1>3, WokenThreads DEF GrantInv, Critical
<1>5. Len(gnttab_list') = count'
  BY <1>0, <1>1 DEF GrantInv
<1> QED BY <1>0, <1>1, <1>2, <1>4, <1>5 DEF GrantInv

\* The interrupt handler gives an entry back between two critical sections.
LEMMA TxKeeps ==
  ASSUME GrantInv, NEW e \in Entry, network_tx_buf_gc(e)
  PROVE  GrantInv'
<1>1. /\ e \in granted /\ granted' = granted \ {e} /\ gnttab_list' = <<e>> \o gnttab_list
      /\ count' = count + 1 /\ gpc' = Woken(gpc)
      /\ UNCHANGED <<gcur, rx>>
  BY DEF network_tx_buf_gc
<1>2. /\ gnttab_list' \in Seq(Entry) /\ Distinct(gnttab_list') /\ Len(gnttab_list') = Len(gnttab_list) + 1
      /\ Range(gnttab_list') = Entry \ (granted' \cup rx')
  BY <1>1, LinkedEntry
<1>3. \A u \in GThread : gpc'[u] \in Critical <=> gcur' = u
  BY <1>1, WokenThreads DEF GrantInv
<1>4. gcur # Nobody => gpc'[gcur] = gpc[gcur]
  BY <1>1, WokenThreads DEF GrantInv
<1>5. Len(gnttab_list) \in Nat
  BY DEF GrantInv
<1>6. Len(gnttab_list') = count' + (IF gcur' # Nobody /\ gpc'[gcur'] \in {"pop", "up"} THEN 1 ELSE 0)
  BY <1>1, <1>2, <1>4, <1>5 DEF GrantInv
<1>7. /\ count' \in Int /\ gcur' \in GThread \cup {Nobody}
      /\ gpc' \in [GThread -> Critical \cup {"idle", "asleep", "woken"}]
  BY <1>1, WokenThreads DEF GrantInv
<1>8. granted' \subseteq Entry /\ rx' \subseteq Entry /\ granted' \cap rx' = {}
  BY <1>1 DEF GrantInv
<1> QED BY <1>2, <1>3, <1>6, <1>7, <1>8, Zenon DEF GrantInv

\* The first n entries of a list are taken from it.
LEMMA TakenEntries ==
  ASSUME NEW q \in Seq(Entry), Distinct(q), NEW n \in 0 .. Len(q)
  PROVE  LET taken == {q[i] : i \in 1 .. n}
             rest == SubSeq(q, n + 1, Len(q))
         IN  /\ rest \in Seq(Entry) /\ Distinct(rest) /\ Len(rest) = Len(q) - n
             /\ Range(rest) = Range(q) \ taken /\ taken \subseteq Range(q)
<1> DEFINE rest == SubSeq(q, n + 1, Len(q))
           taken == {q[i] : i \in 1 .. n}
<1>1. /\ rest \in Seq(Entry) /\ Len(rest) = Len(q) - n
      /\ \A i \in 1 .. Len(q) - n : rest[i] = q[n + i]
  BY SplitQueue
<1>2. Len(q) \in Nat /\ DOMAIN q = 1 .. Len(q) /\ DOMAIN rest = 1 .. Len(q) - n
  BY <1>1, QueueElements
<1> HIDE DEF rest
<1>3. Distinct(rest)
  <2> SUFFICES ASSUME NEW i \in 1 .. Len(q) - n, NEW j \in 1 .. Len(q) - n, rest[i] = rest[j] PROVE i = j
    BY <1>2 DEF Distinct
  <2>1. n + i \in DOMAIN q /\ n + j \in DOMAIN q /\ q[n + i] = q[n + j]
    BY <1>1, <1>2
  <2>2. n + i = n + j
    BY <2>1 DEF Distinct
  <2> QED BY <2>2
<1>4. taken \subseteq Range(q)
  BY <1>2 DEF Range
<1>5. Range(rest) \subseteq Range(q) \ taken
  <2> SUFFICES ASSUME NEW i \in 1 .. Len(q) - n PROVE rest[i] \in Range(q) \ taken
    BY <1>2 DEF Range
  <2>1. rest[i] = q[n + i] /\ n + i \in 1 .. Len(q)
    BY <1>1, <1>2
  <2>2. \A j \in 1 .. n : q[j] # q[n + i]
    BY <1>2, <2>1 DEF Distinct
  <2> QED BY <1>2, <2>1, <2>2 DEF Range
<1>6. Range(q) \ taken \subseteq Range(rest)
  <2> SUFFICES ASSUME NEW k \in 1 .. Len(q), q[k] \notin taken PROVE q[k] \in Range(rest)
    BY <1>2 DEF Range
  <2>1. k > n BY <1>2
  <2>2. k - n \in 1 .. Len(q) - n /\ n + (k - n) = k
    BY <1>2, <2>1
  <2>3. rest[k - n] = q[k] BY <1>1, <2>2
  <2> QED BY <1>2, <2>2, <2>3 DEF Range
<1> QED BY <1>1, <1>3, <1>4, <1>5, <1>6 DEF rest

LEMMA InitRxKeeps == ASSUME GrantInv, init_rx_buffers PROVE GrantInv'
<1> DEFINE taken == {gnttab_list[i] : i \in 1 .. RxEntries}
           rest == SubSeq(gnttab_list, RxEntries + 1, Len(gnttab_list))
<1>1. /\ rx = {} /\ gcur = Nobody /\ granted = {}
      /\ rx' = taken /\ gnttab_list' = rest
      /\ count' = count - RxEntries
      /\ UNCHANGED <<gpc, gcur, granted>>
  BY DEF init_rx_buffers
<1>2. gnttab_list \in Seq(Entry) /\ Distinct(gnttab_list) /\ Range(gnttab_list) = Entry
      /\ Len(gnttab_list) = count /\ count \in Int
  <2>1. /\ gnttab_list \in Seq(Entry) /\ Distinct(gnttab_list) /\ count \in Int
        /\ Range(gnttab_list) = Entry \ (granted \cup rx)
    BY Zenon DEF GrantInv
  <2>2. Entry \ (granted \cup rx) = Entry BY <1>1, Zenon
  <2>3. Len(gnttab_list) \in Nat BY <2>1
  <2>4. Len(gnttab_list) = count BY <1>1, <2>1, <2>3 DEF GrantInv
  <2> QED BY <2>1, <2>2, <2>4, Zenon
<1>3. Len(gnttab_list) = Cardinality(Entry)
  BY <1>2, DistinctLength
<1>4. RxEntries \in 0 .. Len(gnttab_list)
  BY <1>3, GrantAssumption
<1>5. /\ rest \in Seq(Entry) /\ Distinct(rest) /\ Len(rest) = Len(gnttab_list) - RxEntries
      /\ Range(rest) = Range(gnttab_list) \ taken /\ taken \subseteq Range(gnttab_list)
  BY <1>2, <1>4, TakenEntries, Zenon
<1> HIDE DEF taken, rest
<1>6. Len(gnttab_list') = count' /\ count' \in Int
  BY <1>1, <1>2, <1>4, <1>5
<1>7. Range(gnttab_list') = Entry \ (granted' \cup rx') /\ rx' \subseteq Entry
  BY <1>1, <1>2, <1>5
<1> QED BY <1>1, <1>5, <1>6, <1>7 DEF GrantInv

\* The handler gives the entries of full receive buffers back and takes as many.
LEMMA RxKeeps == ASSUME GrantInv, NEW ns \in SUBSET rx, network_rx(ns) PROVE GrantInv'
<1> DEFINE n == Cardinality(ns)
           s == InSomeOrder(ns)
           list == s \o gnttab_list
           taken == {list[i] : i \in 1 .. n}
           rest == SubSeq(list, n + 1, Len(list))
<1>1. /\ rx' = (rx \ ns) \cup taken /\ gnttab_list' = rest /\ gpc' = Woken(gpc)
      /\ UNCHANGED <<count, gcur, granted>>
  BY DEF network_rx
<1>2. rx \subseteq Entry /\ gnttab_list \in Seq(Entry) /\ Distinct(gnttab_list)
      /\ Range(gnttab_list) = Entry \ (granted \cup rx) /\ granted \cap rx = {} /\ granted \subseteq Entry
  BY DEF GrantInv
<1>3. IsFiniteSet(ns)
  BY <1>2, GrantAssumption, FS_Subset
<1>4. s \in Seq(ns) /\ Range(s) = ns /\ Distinct(s)
  BY <1>3, SetAsQueue
<1>5. Len(s) = n /\ n \in Nat
  BY <1>3, <1>4, DistinctLength, FS_CardinalityType
<1> HIDE DEF s, n
<1>6. s \in Seq(Entry)
  BY <1>2, <1>4
<1>7. list \in Seq(Entry) /\ Range(list) = ns \cup Range(gnttab_list) /\ Distinct(list)
  BY <1>2, <1>4, <1>6, ConcatQueue
<1>8. Len(list) = n + Len(gnttab_list) /\ Len(gnttab_list) \in Nat
  BY <1>2, <1>5, <1>6
<1> HIDE DEF list
<1>9. n \in 0 .. Len(list)
  BY <1>5, <1>8
<1>10. /\ rest \in Seq(Entry) /\ Distinct(rest) /\ Len(rest) = Len(list) - n
       /\ Range(rest) = Range(list) \ taken /\ taken \subseteq Range(list)
  BY <1>7, <1>9, TakenEntries, Zenon
<1> HIDE DEF taken, rest
<1>11. Len(gnttab_list') = Len(gnttab_list)
  BY <1>1, <1>5, <1>8, <1>10
<1>12. Range(gnttab_list') = Entry \ (granted' \cup rx') /\ rx' \subseteq Entry /\ granted' \cap rx' = {}
  BY <1>1, <1>2, <1>7, <1>10
<1>13. \A u \in GThread : gpc'[u] \in Critical <=> gcur' = u
  BY <1>1, WokenThreads DEF GrantInv
<1>14. gcur # Nobody => gpc'[gcur] = gpc[gcur]
  BY <1>1, WokenThreads DEF GrantInv
<1>15. Len(gnttab_list') = count' + (IF gcur' # Nobody /\ gpc'[gcur'] \in {"pop", "up"} THEN 1 ELSE 0)
  BY <1>1, <1>11, <1>14 DEF GrantInv
<1> QED BY <1>1, <1>10, <1>12, <1>13, <1>15, WokenThreads DEF GrantInv

LEMMA GrantStep == GrantInv /\ [GRNext]_gntvars => GrantInv'
<1> SUFFICES ASSUME GrantInv, [GRNext]_gntvars PROVE GrantInv' OBVIOUS
<1>1. CASE UNCHANGED gntvars
  BY <1>1 DEF gntvars, GrantInv
<1> QED BY <1>1, GrantWaitKeeps, UnlinkKeeps, UpKeeps, PutKeeps, TxKeeps, InitRxKeeps, RxKeeps, Zenon DEF GRNext

\* The threads at a place where only one can be.
LEMMA OneBetween ==
  ASSUME GrantInv, NEW pc \in {"pop", "up"}
  PROVE  Between(pc) = IF gcur # Nobody /\ gpc[gcur] = pc THEN 1 ELSE 0
<1> DEFINE B == {t \in GThread : gpc[t] = pc}
<1>1. CASE gcur # Nobody /\ gpc[gcur] = pc
  <2>1. B = {gcur} BY <1>1 DEF GrantInv, Critical
  <2>2. Cardinality({gcur}) = 1 BY FS_Singleton, Zenon
  <2> QED BY <1>1, <2>1, <2>2 DEF Between
<1>2. CASE ~(gcur # Nobody /\ gpc[gcur] = pc)
  <2>1. B = {} BY <1>2, GrantAssumption DEF GrantInv, Critical, Nobody
  <2>2. Cardinality({}) = 0 BY FS_EmptySet, Zenon
  <2> QED BY <1>2, <2>1, <2>2 DEF Between
<1> QED BY <1>1, <1>2

LEMMA GrantsFromInv == GrantInv => GrantsAccounted
<1> SUFFICES ASSUME GrantInv PROVE GrantsAccounted OBVIOUS
<1>1. Range(gnttab_list) = Entry \ (granted \cup rx) /\ granted \cap rx = {}
  BY DEF GrantInv
<1>2. Len(gnttab_list) = Cardinality(Entry \ (granted \cup rx))
  <2>1. /\ gnttab_list \in Seq(Entry) /\ Distinct(gnttab_list)
        /\ Range(gnttab_list) = Entry \ (granted \cup rx)
    BY DEF GrantInv
  <2>2. Len(gnttab_list) = Cardinality(Range(gnttab_list))
    BY <2>1, DistinctLength, Zenon
  <2> QED BY <2>1, <2>2
<1>3. Len(gnttab_list) = count + Between("pop") + Between("up")
  BY OneBetween DEF GrantInv
<1> QED BY <1>1, <1>2, <1>3 DEF GrantsAccounted

\* For every number of threads and entries, and wherever the interrupt handler
\* comes in: get_free_entry(), put_free_entry() and the handler keep each entry
\* either granted or once on the free list, and the list always has the entry
\* that a down() on the semaphore has promised.
THEOREM GrantsAlwaysAccounted == GRSpec => []GrantsAccounted
<1> QED BY GrantInit, GrantStep, GrantsFromInv, PTL DEF GRSpec
=============================================================================
