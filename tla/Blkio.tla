------------------------------- MODULE Blkio --------------------------------
(***************************************************************************)
(* Block I/O on Xen: rumpuser_bio, rumpuser_close and biothread of         *)
(* rumphyper_bio.c over the request rings of blkfront.c.  Threads take     *)
(* turns only when one of them blocks; the backend runs beside them, and   *)
(* looks at rsp_event only some time after it has put a response on the    *)
(* ring.  Grant entries suffice; the rump kernel closes a disk when its    *)
(* requests are done.                                                      *)
(***************************************************************************)
EXTENDS Integers, Sequences, FiniteSets

CONSTANTS BThread,     \* threads that do block I/O
          NBLKDEV,     \* disks
          RingSize,    \* slots of a ring
          MaxBio       \* bound on requests

ASSUME BlkAssumption == NBLKDEV \in Nat \ {0} /\ RingSize \in Nat /\ RingSize >= 2

Disk == 1 .. NBLKDEV
Bio == "biothread"
NoBlk == "none"
\* Requests of rumpuser_bio, and the two that blkfront_sync sends for a disk.
BioReq == 1 .. MaxBio
SyncReq(d) == {-2 * d, 1 - (2 * d)}
Req == BioReq \cup UNION {SyncReq(d) : d \in Disk}

VARIABLES bpc,                   \* each thread's place
          bdisk,                 \* the disk it is at
          bid,                   \* the request for which it wants a slot
          blk_cur,               \* the thread that runs with events masked
          blk_req,               \* the life of each request
          blk_disk,              \* the disk it is for
          rsp_cons, rsp_prod, rsp_event,
          be_pushed,             \* the backend has pushed and not looked at rsp_event
          blk_event,             \* an event is on its way
          did,                   \* biothread's round has consumed something
          bio_queued,            \* biothread is on blkfront_queue
          blk_open,              \* the disk is open, as opposed to closing or closed
          blk_halt               \* schedule() was called at !spl0

threadvars == <<bpc, bdisk, bid, blk_cur>>
blkringvars == <<blk_req, blk_disk, rsp_cons, rsp_event>>
backvars == <<rsp_prod, be_pushed, blk_event>>
blkvars == <<threadvars, blkringvars, backvars, did, bio_queued, blk_open, blk_halt>>

On(d, s) == {r \in Req : blk_disk[r] = d /\ blk_req[r] = s}
Used(d) == Cardinality(On(d, "ring") \cup On(d, "answered"))
RING_FULL(d) == Used(d) = RingSize
\* bd->blk_outstanding and bio_outstanding_total.
blk_outstanding(d) == Cardinality((On(d, "ring") \cup On(d, "answered")) \cap BioReq)
bio_outstanding_total == Cardinality({r \in BioReq : blk_req[r] \in {"ring", "answered"}})

BKInit ==
  /\ bpc = [p \in BThread \cup {Bio} |-> IF p = Bio THEN "top" ELSE "idle"]
  /\ bdisk = [p \in BThread \cup {Bio} |-> 1] /\ bid = [t \in BThread |-> 0] /\ blk_cur = NoBlk
  /\ blk_req = [r \in Req |-> "none"] /\ blk_disk = [r \in Req |-> 1]
  /\ rsp_cons = [d \in Disk |-> 0] /\ rsp_prod = [d \in Disk |-> 0] /\ rsp_event = [d \in Disk |-> 1]
  /\ be_pushed = [d \in Disk |-> FALSE] /\ blk_event = FALSE
  /\ did = FALSE /\ bio_queued = FALSE /\ blk_open = [d \in Disk |-> TRUE] /\ blk_halt = FALSE

BlkRuns(p, at) == ~blk_halt /\ blk_cur = NoBlk /\ bpc[p] = at
Masked(p, at) == ~blk_halt /\ blk_cur = p /\ bpc[p] = at
Unpolled == UNCHANGED <<rsp_cons, rsp_event, backvars, did, bio_queued, blk_open, blk_halt>>

-----------------------------------------------------------------------------
\* The end of blkfront_aio and of rumpuser_bio: put the request on the ring,
\* count it, and signal biothread.
bio_pushes(t, r, d) ==
  /\ blk_req' = [blk_req EXCEPT ![r] = "ring"] /\ blk_disk' = [blk_disk EXCEPT ![r] = d]
  /\ bpc' = [bpc EXCEPT ![t] = "idle", ![Bio] = IF @ = "cvwait" THEN "top" ELSE @]
  /\ bid' = [bid EXCEPT ![t] = 0] /\ blk_cur' = NoBlk /\ UNCHANGED bdisk
  /\ Unpolled

\* blkfront_wait_slot: with the ring full, mask events and poll.
slot_polls(t, r, d) ==
  /\ blk_req' = [blk_req EXCEPT ![r] = "waits"]
  /\ bpc' = [bpc EXCEPT ![t] = "slot"] /\ bid' = [bid EXCEPT ![t] = r]
  /\ bdisk' = [bdisk EXCEPT ![t] = d] /\ blk_cur' = t /\ UNCHANGED blk_disk
  /\ Unpolled

rumpuser_bio(t, d, r) ==
  /\ BlkRuns(t, "idle") /\ blk_open[d]
  /\ blk_req[r] = "none" /\ \A q \in 1 .. r - 1 : blk_req[q] # "none"
  /\ IF RING_FULL(d) THEN slot_polls(t, r, d) ELSE bio_pushes(t, r, d)

-----------------------------------------------------------------------------
\* biocomp takes the vCPU for the callback.  A closer sleeps with the vCPU
\* in its hands; biocomp then has to wait for it, but events are masked and
\* schedule() halts.
VcpuAsleep(p) == \E t \in BThread \ {p} : bpc[t] \in {"sync asleep", "sync woken"}

\* blkfront_aio_poll takes every response and calls its callback ...
Takes(d) ==
  /\ blk_req' = [r \in Req |-> IF r \in On(d, "answered") THEN "done" ELSE blk_req[r]]
  /\ rsp_cons' = [rsp_cons EXCEPT ![d] = rsp_prod[d]]
  /\ blk_halt' = (VcpuAsleep(blk_cur) /\ On(d, "answered") \cap BioReq # {})

poll_takes(p) ==
  /\ \E at \in {"slot", "sync", "poll"} : Masked(p, at) /\ bpc' = [bpc EXCEPT ![p] = at \o " asks"]
  /\ Takes(bdisk[p])
  /\ did' = IF p = Bio THEN did \/ rsp_prod[bdisk[p]] # rsp_cons[bdisk[p]] ELSE did
  /\ UNCHANGED <<rsp_event, bdisk, bid, blk_cur, blk_disk, backvars, bio_queued, blk_open>>

\* ... asks for an event at the next one ...
poll_asks(p) ==
  /\ \E at \in {"slot", "sync", "poll"} : Masked(p, at \o " asks") /\ bpc' = [bpc EXCEPT ![p] = at \o " checks"]
  /\ rsp_event' = [rsp_event EXCEPT ![bdisk[p]] = rsp_cons[bdisk[p]] + 1]
  /\ UNCHANGED <<bdisk, bid, blk_cur, blk_req, blk_disk, rsp_cons, backvars, did, bio_queued, blk_open, blk_halt>>

\* ... and looks once more (RING_FINAL_CHECK_FOR_RESPONSES).
More_Never(p) == FALSE
More(p) == rsp_prod[bdisk[p]] # rsp_cons[bdisk[p]]

poll_again(p) ==
  /\ More(p)
  /\ \E at \in {"slot", "sync", "poll"} : Masked(p, at \o " checks") /\ bpc' = [bpc EXCEPT ![p] = at]
  /\ UNCHANGED <<bdisk, bid, blk_cur, blkringvars>> /\ Unpolled

\* Join blkfront_queue, unmask events and sleep.
blk_sleeps(p, at) ==
  /\ bpc' = [bpc EXCEPT ![p] = at] /\ blk_cur' = NoBlk
  /\ UNCHANGED <<bdisk, bid, blkringvars, backvars, did, blk_open, blk_halt>>

blkfront_wait_slot(t) ==
  /\ Masked(t, "slot checks") /\ ~More(t)
  /\ \/ RING_FULL(bdisk[t]) /\ blk_sleeps(t, "slot asleep") /\ UNCHANGED bio_queued
     \/ ~RING_FULL(bdisk[t]) /\ bio_pushes(t, bid[t], bdisk[t])

\* rumpuser_close: forget the disk; blkfront_shutdown's blkfront_sync sends
\* a barrier and a flush where the disk knows them and waits until every
\* slot is free again.
rumpuser_close(t, d) ==
  /\ BlkRuns(t, "idle") /\ blk_open[d] /\ blk_outstanding(d) = 0
  /\ \A u \in BThread : bpc[u] = "idle" \/ bdisk[u] # d
  /\ blk_open' = [blk_open EXCEPT ![d] = FALSE]
  /\ \E S \in SUBSET SyncReq(d) :
       /\ blk_req' = [r \in Req |-> IF r \in S THEN "ring" ELSE blk_req[r]]
       /\ blk_disk' = [r \in Req |-> IF r \in S THEN d ELSE blk_disk[r]]
  /\ bpc' = [bpc EXCEPT ![t] = "sync"] /\ bdisk' = [bdisk EXCEPT ![t] = d] /\ blk_cur' = t
  /\ UNCHANGED <<bid, rsp_cons, rsp_event, backvars, did, bio_queued, blk_halt>>

blkfront_sync(t) ==
  /\ Masked(t, "sync checks") /\ ~More(t) /\ UNCHANGED bio_queued
  /\ blk_sleeps(t, IF Used(bdisk[t]) # 0 THEN "sync asleep" ELSE "idle")

-----------------------------------------------------------------------------
\* biothread sleeps on bio_cv while nothing is outstanding; else it polls
\* every disk with requests, and starts over if that brought anything ...
NextDisk(d) == {e \in Disk : e >= d /\ blk_outstanding(e) > 0}
biothread_at(d, cur) ==
  IF NextDisk(d) # {}
  THEN /\ bpc' = [bpc EXCEPT ![Bio] = "poll"] /\ blk_cur' = Bio
       /\ bdisk' = [bdisk EXCEPT ![Bio] = CHOOSE e \in NextDisk(d) : \A f \in NextDisk(d) : e <= f]
       /\ UNCHANGED <<bid, blkringvars, backvars, bio_queued, blk_open, blk_halt>>
  ELSE /\ IF cur THEN bpc' = [bpc EXCEPT ![Bio] = "top"] ELSE bpc' = [bpc EXCEPT ![Bio] = "poll asleep"]
       /\ blk_cur' = NoBlk /\ bio_queued' = (bio_queued \/ ~cur)
       /\ UNCHANGED <<bdisk, bid, blkringvars, backvars, blk_open, blk_halt>>

biothread_top ==
  /\ BlkRuns(Bio, "top") /\ did' = FALSE
  /\ IF bio_outstanding_total = 0
     THEN /\ bpc' = [bpc EXCEPT ![Bio] = "cvwait"]
          /\ UNCHANGED <<bdisk, bid, blk_cur, blkringvars, backvars, bio_queued, blk_open, blk_halt>>
     ELSE biothread_at(1, FALSE)

biothread_next ==
  /\ Masked(Bio, "poll checks") /\ ~More(Bio) /\ UNCHANGED did
  /\ biothread_at(bdisk[Bio] + 1, did)

\* ... or joins blkfront_queue, which it never leaves again, and sleeps.
biothread_woken == BlkRuns(Bio, "poll woken") /\ UNCHANGED did /\ biothread_at(1, did)

\* A sleeper that was woken goes round its loop.
wait_returns(t) ==
  /\ \E at \in {"slot", "sync"} : BlkRuns(t, at \o " woken") /\ bpc' = [bpc EXCEPT ![t] = at]
  /\ blk_cur' = t
  /\ UNCHANGED <<bdisk, bid, blkringvars>> /\ Unpolled

\* blkfront_handler wakes the queue; biothread is on it wherever it sleeps.
blkfront_handler ==
  /\ ~blk_halt /\ blk_cur = NoBlk
  /\ blk_event /\ blk_event' = FALSE
  /\ bpc' = [p \in DOMAIN bpc |->
               CASE bpc[p] = "slot asleep" -> "slot woken" [] bpc[p] = "sync asleep" -> "sync woken"
                 [] bpc[p] = "poll asleep" -> "poll woken"
                 [] bpc[p] = "cvwait" /\ bio_queued -> "top" [] OTHER -> bpc[p]]
  /\ UNCHANGED <<bdisk, bid, blk_cur, blkringvars, rsp_prod, be_pushed, did, bio_queued, blk_open, blk_halt>>

-----------------------------------------------------------------------------
\* The backend: answer any request; then notify if the response is the one
\* that rsp_event names.
BlkBackendPushes(r, d) ==
  /\ ~blk_halt /\ ~be_pushed[d] /\ r \in On(d, "ring")
  /\ blk_req' = [blk_req EXCEPT ![r] = "answered"]
  /\ rsp_prod' = [rsp_prod EXCEPT ![d] = @ + 1] /\ be_pushed' = [be_pushed EXCEPT ![d] = TRUE]
  /\ UNCHANGED <<threadvars, blk_disk, rsp_cons, rsp_event, blk_event, did, bio_queued, blk_open, blk_halt>>

BlkBackendNotifies(d) ==
  /\ ~blk_halt /\ be_pushed[d] /\ be_pushed' = [be_pushed EXCEPT ![d] = FALSE]
  /\ blk_event' = (blk_event \/ rsp_event[d] = rsp_prod[d])
  /\ UNCHANGED <<threadvars, blkringvars, rsp_prod, did, bio_queued, blk_open, blk_halt>>

BKNext ==
  \/ \E t \in BThread :
       \/ \E d \in Disk : \E r \in BioReq : rumpuser_bio(t, d, r)
       \/ \E d \in Disk : rumpuser_close(t, d)
       \/ blkfront_wait_slot(t) \/ blkfront_sync(t) \/ wait_returns(t)
  \/ \E p \in BThread \cup {Bio} : poll_takes(p) \/ poll_asks(p) \/ poll_again(p)
  \/ biothread_top \/ biothread_next \/ biothread_woken \/ blkfront_handler
  \/ \E d \in Disk : BlkBackendNotifies(d) \/ \E r \in Req : BlkBackendPushes(r, d)

BKSpec == BKInit /\ [][BKNext]_blkvars

-----------------------------------------------------------------------------
(* No completion is missed: while a disk has responses and every thread    *)
(* sleeps, an event is on its way or the backend is about to send one.     *)
(* blkfront_aio_poll asks for the next event and looks again before its    *)
(* caller sleeps, and the caller joins the queue with events masked.       *)
BlkAsleep == {"idle", "slot asleep", "sync asleep", "poll asleep", "cvwait"}
NoCompletionMissed ==
  \A d \in Disk :
    On(d, "answered") # {} /\ (\A p \in DOMAIN bpc : bpc[p] \in BlkAsleep)
      => blk_event \/ (be_pushed[d] /\ rsp_event[d] = rsp_prod[d])

(* A ring never holds more than its slots, its indices count what is on    *)
(* it, biothread waits for bio_cv only while nothing is outstanding, and   *)
(* never polls a disk that rumpuser_close has taken away.                  *)
BioAccounted ==
  /\ \A d \in Disk : Used(d) <= RingSize /\ rsp_prod[d] - rsp_cons[d] = Cardinality(On(d, "answered"))
  /\ bpc[Bio] = "cvwait" => bio_outstanding_total = 0
  /\ bpc[Bio] = "poll" => blk_open[bdisk[Bio]]

(* Both: the rings are accounted for and no completion is missed.          *)
BlkioSound == NoCompletionMissed /\ BioAccounted

(* schedule() is never entered with events masked (the test in sched.c     *)
(* that ends in "schedule() called at !spl0").                             *)
NeverBlocksMasked == ~blk_halt
=============================================================================
