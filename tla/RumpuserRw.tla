----------------------------- MODULE RumpuserRw -----------------------------
(***************************************************************************)
(* The reader/writer lock of rumpuser_synch.c.  The rump kernel is the     *)
(* environment: a thread exits, downgrades and upgrades a lock in the way  *)
(* in which it holds it, and does not enter one that it holds.             *)
(***************************************************************************)
EXTENDS Waiters

CONSTANT MaxV  \* bound on rw->v

ASSUME RwAssumption == WaitList = {"rwait", "wwait"} /\ MaxV \in Nat \ {0}

VARIABLES
  v,    \* rw->v
  o,    \* rw->o, the writer's lwp
  hold  \* how each thread holds the lock: "no", "reader" or "writer"

rwvars == <<v, o>>
vars == <<wvars, rwvars, hold>>

Init ==
  /\ WaitersInit
  /\ v = 0
  /\ o = Nobody
  /\ hold = [t \in Thread |-> "no"]

Lk == {"reader", "writer"}

\* The list that rumpuser_rw_enter() waits on.
List(lk) == IF lk = "writer" THEN "wwait" ELSE "rwait"

\* rumpuser_rw_tryenter() succeeds, and fails.
Enters(t, lk) ==
  /\ o = Nobody
  /\ lk = "reader" => waiters["wwait"] = <<>> /\ v < MaxV
  /\ o' = IF lk = "writer" THEN t ELSE o
  /\ v' = IF lk = "reader" THEN v + 1 ELSE v
  /\ hold' = [hold EXCEPT ![t] = lk]

Busy(lk) ==
  /\ o # Nobody \/ (lk = "reader" /\ waiters["wwait"] # <<>>)
  /\ UNCHANGED <<rwvars, hold>>

rumpuser_rw_tryenter(t, lk) ==
  /\ At(t, "kern")
  /\ hold[t] = "no"
  /\ Enters(t, lk) \/ Busy(lk)
  /\ UNCHANGED wvars

rumpuser_rw_enter(t, lk) ==
  /\ At(t, "kern")
  /\ hold[t] = "no"
  /\ \/ /\ Enters(t, lk)
        /\ UNCHANGED <<pc, op, vcpu>>
     \/ /\ Busy(lk)
        /\ rumpkern_unsched(t)
        /\ Begin(t, "rwloop", <<"rw", lk>>)
  /\ UNCHANGED <<cvars, lists, fault>>

RwLoop(t, lk) ==
  /\ At(t, "rwloop") /\ op[t] = <<"rw", lk>>
  /\ \/ /\ Enters(t, lk)
        /\ rumpkern_sched(t)
        /\ End(t)
        /\ UNCHANGED <<cvars, lists>>
     \/ /\ Busy(lk)
        /\ wait_prepare(t, List(lk), Infinite)
        /\ Goto(t, "prepared")
        /\ UNCHANGED vcpu
  /\ UNCHANGED fault

RwRetry(t, lk) ==
  /\ At(t, "blocked") /\ op[t] = <<"rw", lk>>
  /\ Return(t)
  /\ wait_finish(t, List(lk))
  /\ Goto(t, "rwloop")
  /\ UNCHANGED <<rwvars, hold, vcpu, fault>>

\* Variant: readers are woken one at a time.
RwHandover_OneReader ==
  \/ waiters["wwait"] # <<>> /\ wakeup_one("wwait")
  \/ waiters["wwait"] = <<>> /\ wakeup_one("rwait")

\* Whom rumpuser_rw_exit() wakes; nobody owns the lock at that point.
RwHandover ==
  \/ waiters["wwait"] # <<>> /\ wakeup_one("wwait")
  \/ waiters["wwait"] = <<>> /\ wakeup_all("rwait")

rumpuser_rw_exit(t) ==
  /\ At(t, "kern")
  /\ hold[t] # "no"
  /\ hold' = [hold EXCEPT ![t] = "no"]
  /\ o' = Nobody
  /\ v' = IF o = Nobody THEN v - 1 ELSE v
  /\ v' >= -MaxV
  /\ RwHandover
  /\ UNCHANGED <<pc, op, vcpu, fault>>

rumpuser_rw_downgrade(t) ==
  /\ At(t, "kern")
  /\ hold[t] = "writer"
  /\ Check(o = t, "downgrade assertion")
  /\ v' = -1
  /\ hold' = [hold EXCEPT ![t] = "reader"]
  /\ UNCHANGED <<cvars, lists, pc, op, vcpu, o>>

rumpuser_rw_tryupgrade(t) ==
  /\ At(t, "kern")
  /\ hold[t] = "reader"
  /\ v = -1
  /\ v' = 1
  /\ o' = t
  /\ hold' = [hold EXCEPT ![t] = "writer"]
  /\ UNCHANGED wvars

-----------------------------------------------------------------------------

Hypercall(t) ==
  \/ \E lk \in Lk : rumpuser_rw_tryenter(t, lk) \/ rumpuser_rw_enter(t, lk)
  \/ rumpuser_rw_exit(t) \/ rumpuser_rw_downgrade(t) \/ rumpuser_rw_tryupgrade(t)

Continue(t) ==
  \/ \E lk \in Lk : RwLoop(t, lk) \/ RwRetry(t, lk)
  \/ (Block(t) \/ SleepDone(t)) /\ UNCHANGED <<rwvars, hold>>

Environment(t) ==
  /\ \/ EnterKernel(t) \/ Yield(t)
     \/ hold[t] = "no" /\ LeaveKernel(t)
     \/ rumpuser_clock_sleep(t)
     \/ \E x \in Thread : rumpuser_thread_create(t, x)
     \/ t \in IntrWoken /\ Interrupt(t)
  /\ UNCHANGED <<rwvars, hold>>

Dispatches(t) == Run(t) /\ UNCHANGED <<rwvars, hold>>

Next ==
  /\ fault = "none"
  /\ \/ \E t \in Thread : \/ Hypercall(t) \/ Continue(t) \/ Environment(t)
                          \/ Dispatches(t)
     \/ Tick /\ UNCHANGED <<rwvars, hold>>

Spec == Init /\ [][Next]_vars

-----------------------------------------------------------------------------
(* Properties                                                              *)

\* The fields of the lock and the places of the threads have their types; v stays
\* above -1 less the exits of readers that a downgrade left uncounted.
TypeOK ==
  /\ alive \subseteq Thread /\ cpu \in Thread \cup {Nobody}
  /\ waiters \in [WaitList -> Seq(Thread)]
  /\ onlist \in [Thread -> BOOLEAN]
  /\ pc \in [Thread -> {"user", "kern", "rwloop", "prepared", "blocked"}]
  /\ vcpu \in Thread \cup {Nobody}
  /\ v \in -MaxV .. MaxV
  /\ o \in Thread \cup {Nobody}
  /\ hold \in [Thread -> {"no", "reader", "writer"}]

\* While nobody owns the lock, threads stay on its lists only because a writer
\* that was taken off wwait is about to enter, and will wake them when it exits.
NoStrandedWaiter ==
  o = Nobody /\ (waiters["wwait"] # <<>> \/ waiters["rwait"] # <<>>) =>
    \E t \in Thread : op[t] = <<"rw", "writer">> /\ t \notin Range(waiters["wwait"])

\* The reader/writer lock keeps its types and its sleepers, and a thread that
\* waits for it gives up the virtual CPU.
RwSound == TypeOK /\ NoStrandedWaiter /\ NoDanglingWaiter /\ VcpuWithRunner

\* The assertion of rumpuser_rw_downgrade(): the thread that entered as a writer
\* owns the lock until it exits.
WriterOwnsLock == fault # "downgrade assertion"
=============================================================================
