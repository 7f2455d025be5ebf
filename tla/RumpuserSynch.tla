--------------------------- MODULE RumpuserSynch ---------------------------
(***************************************************************************)
(* The mutexes and condition variables that rumpuser_synch.c offers to the *)
(* rump kernel.  The rump kernel itself is the environment: a thread       *)
(* inside it may make any hypercall that is legal in its state, that is,   *)
(* it exits and waits with mutexes it holds and enters ones it does not.   *)
(***************************************************************************)
EXTENDS Waiters

CONSTANTS
  Mtx, Cv,    \* the mutexes and condition variables
  CvMtx,      \* the mutexes that condition variables are used with
  HeldAsleep  \* the mutexes that threads may hold when they block

ASSUME SynchAssumption ==
  /\ Mtx \cap Cv = {} /\ WaitList = Mtx \cup Cv
  /\ CvMtx \subseteq Mtx /\ HeldAsleep \subseteq Mtx
  /\ IsFiniteSet(Thread)

VARIABLES
  v,         \* mtx->v
  bmk_o,     \* mtx->bmk_o, the owner; mtx->o is its lwp
  nwaiters,  \* cv->nwaiters
  held       \* the mutexes that each thread has entered and not exited

mvars == <<v, bmk_o>>
vars == <<wvars, mvars, nwaiters, held>>

Init ==
  /\ WaitersInit
  /\ v = [m \in Mtx |-> 0]
  /\ bmk_o = [m \in Mtx |-> Nobody]
  /\ nwaiters = [c \in Cv |-> 0]
  /\ held = [t \in Thread |-> {}]

\* May t block, giving up the mutexes in released?
MayBlock(t, released) == held[t] \ released \subseteq HeldAsleep

-----------------------------------------------------------------------------
(* Mutexes                                                                 *)

\* rumpuser_mutex_tryenter() succeeds, and fails.
Take(t, m) ==
  /\ v[m] = 0
  /\ v' = [v EXCEPT ![m] = 1]
  /\ bmk_o' = [bmk_o EXCEPT ![m] = t]
  /\ held' = [held EXCEPT ![t] = @ \cup {m}]

Busy(m) == v[m] # 0 /\ UNCHANGED <<mvars, held>>

rumpuser_mutex_tryenter(t, m) ==
  /\ At(t, "kern")
  /\ m \notin held[t]
  /\ Check(bmk_o[m] # t, "locking against myself")
  /\ Take(t, m) \/ Busy(m)
  /\ UNCHANGED <<cvars, lists, pc, op, vcpu, nwaiters>>

\* rumpuser_mutex_enter() tries once inside the rump kernel ...
rumpuser_mutex_enter(t, m) ==
  /\ At(t, "kern")
  /\ m \notin held[t] /\ MayBlock(t, {})
  /\ Check(bmk_o[m] # t, "locking against myself")
  /\ \/ /\ Take(t, m)
        /\ UNCHANGED <<pc, op, vcpu>>
     \/ /\ Busy(m)
        /\ rumpkern_unsched(t)
        /\ Begin(t, "mtxloop", <<"mutex", m>>)
  /\ UNCHANGED <<cvars, lists, nwaiters>>

\* ... and then outside of it, waiting in between.
MutexLoop(t, m) ==
  /\ At(t, "mtxloop") /\ op[t] = <<"mutex", m>>
  /\ \/ /\ Take(t, m)
        /\ rumpkern_sched(t)
        /\ End(t)
        /\ UNCHANGED <<cvars, lists>>
     \/ /\ Busy(m)
        /\ wait_prepare(t, m, Infinite)
        /\ Goto(t, "prepared")
        /\ UNCHANGED vcpu
  /\ UNCHANGED <<nwaiters, fault>>

MutexRetry(t, m) ==
  /\ At(t, "blocked") /\ op[t] = <<"mutex", m>>
  /\ Return(t)
  /\ wait_finish(t, m)
  /\ Goto(t, "mtxloop")
  /\ UNCHANGED <<mvars, nwaiters, held, vcpu, fault>>

\* Variant: the next waiter is not woken.
Give_NoWake(t, m) ==
  /\ Check(v[m] = 1, "mutex_exit assertion")
  /\ v' = [v EXCEPT ![m] = 0]
  /\ bmk_o' = [bmk_o EXCEPT ![m] = Nobody]
  /\ held' = [held EXCEPT ![t] = @ \ {m}]
  /\ UNCHANGED <<cvars, lists>>

\* The body of rumpuser_mutex_exit().
Give(t, m) ==
  /\ Check(v[m] = 1, "mutex_exit assertion")
  /\ v' = [v EXCEPT ![m] = 0]
  /\ bmk_o' = [bmk_o EXCEPT ![m] = Nobody]
  /\ held' = [held EXCEPT ![t] = @ \ {m}]
  /\ wakeup_one(m)

rumpuser_mutex_exit(t, m) ==
  /\ At(t, "kern")
  /\ m \in held[t]
  /\ Give(t, m)
  /\ UNCHANGED <<pc, op, vcpu, nwaiters>>

-----------------------------------------------------------------------------
(* Condition variables                                                     *)

\* rumpuser_cv_wait() and rumpuser_cv_timedwait(), up to the exit of the mutex.
rumpuser_cv_wait(t, c, m) ==
  /\ At(t, "kern")
  /\ m \in held[t] \cap CvMtx /\ MayBlock(t, {m})
  /\ nwaiters' = [nwaiters EXCEPT ![c] = @ + 1]
  /\ rumpkern_unsched(t)
  /\ Give(t, m)
  /\ \E d \in Timeout : Begin(t, "cvwait", <<"cv", c, m, d>>)

CvSleep(t, c) ==
  /\ At(t, "cvwait") /\ op[t][2] = c
  /\ wait_prepare(t, c, op[t][4])
  /\ Goto(t, "prepared")
  /\ UNCHANGED <<mvars, nwaiters, held, vcpu, fault>>

\* Variant: a wait that timed out is not counted off.
CvDone_StillCounted(t, c, m) ==
  /\ At(t, "blocked") /\ op[t][1] = "cv" /\ op[t][2] = c /\ op[t][3] = m
  /\ Return(t)
  /\ wait_finish(t, c)
  /\ Take(t, m) /\ UNCHANGED fault
  /\ rumpkern_sched(t)
  /\ nwaiters' = [nwaiters EXCEPT ![c] = IF onlist[t] THEN @ ELSE @ - 1]
  /\ End(t)

\* wait() returns and cv_resched() enters the mutex again, without waiting.
CvDone(t, c, m) ==
  /\ At(t, "blocked") /\ op[t][1] = "cv" /\ op[t][2] = c /\ op[t][3] = m
  /\ Return(t)
  /\ wait_finish(t, c)
  /\ \/ Take(t, m) /\ UNCHANGED fault
     \/ Busy(m) /\ fault' = "rumpuser mutex error"
  /\ rumpkern_sched(t)
  /\ nwaiters' = [nwaiters EXCEPT ![c] = @ - 1]
  /\ End(t)

rumpuser_cv_signal(t, c) ==
  /\ At(t, "kern")
  /\ wakeup_one(c)
  /\ UNCHANGED <<pc, op, vcpu, mvars, nwaiters, held, fault>>

rumpuser_cv_broadcast(t, c) ==
  /\ At(t, "kern")
  /\ wakeup_all(c)
  /\ UNCHANGED <<pc, op, vcpu, mvars, nwaiters, held, fault>>

-----------------------------------------------------------------------------

Hypercall(t) ==
  \/ \E m \in Mtx : \/ rumpuser_mutex_tryenter(t, m) \/ rumpuser_mutex_enter(t, m)
                    \/ rumpuser_mutex_exit(t, m)
                    \/ \E c \in Cv : rumpuser_cv_wait(t, c, m)
  \/ \E c \in Cv : rumpuser_cv_signal(t, c) \/ rumpuser_cv_broadcast(t, c)

\* A hypercall that has begun goes on.
Continue(t) ==
  \/ \E m \in Mtx : MutexLoop(t, m) \/ MutexRetry(t, m)
  \/ \E c \in Cv : CvSleep(t, c) \/ \E m \in Mtx : CvDone(t, c, m)
  \/ (Block(t) \/ SleepDone(t)) /\ UNCHANGED <<mvars, nwaiters, held>>

Environment(t) ==
  /\ \/ EnterKernel(t) \/ Yield(t)
     \/ held[t] = {} /\ LeaveKernel(t)
     \/ MayBlock(t, {}) /\ rumpuser_clock_sleep(t)
     \/ \E x \in Thread : rumpuser_thread_create(t, x)
     \/ t \in IntrWoken /\ Interrupt(t)
  /\ UNCHANGED <<mvars, nwaiters, held>>

Dispatches(t) == Run(t) /\ UNCHANGED <<mvars, nwaiters, held>>

Next ==
  /\ fault = "none"
  /\ \/ \E t \in Thread : \/ Hypercall(t) \/ Continue(t) \/ Environment(t)
                          \/ Dispatches(t)
     \/ Tick /\ UNCHANGED <<mvars, nwaiters, held>>

Spec == Init /\ [][Next]_vars

\* The CPU executes, runnable threads get it (RunnableRuns of BmkSched), and
\* time passes.
FairSpec ==
  /\ Spec
  /\ WF_vars(Tick /\ UNCHANGED <<mvars, nwaiters, held>>)
  /\ \A t \in Thread : SF_vars(Dispatches(t)) /\ WF_vars(Continue(t))

-----------------------------------------------------------------------------
(* Properties                                                              *)

InCv(t, c) == op[t][1] = "cv" /\ op[t][2] = c

\* The fields of the locks and the places of the threads have their types; v is 0
\* or 1 and nwaiters never negative, though the code only counts up and down.
TypeOK ==
  /\ alive \subseteq Thread /\ cpu \in Thread \cup {Nobody}
  /\ wait \in [Thread -> {"no", "waiting", "woken", "timedout"}]
  /\ waiters \in [WaitList -> Seq(Thread)]
  /\ onlist \in [Thread -> BOOLEAN]
  /\ pc \in [Thread -> {"user", "kern", "mtxloop", "cvwait", "prepared", "blocked"}]
  /\ vcpu \in Thread \cup {Nobody}
  /\ v \in [Mtx -> {0, 1}]
  /\ bmk_o \in [Mtx -> Thread \cup {Nobody}]
  /\ nwaiters \in [Cv -> 0 .. Cardinality(Thread)]
  /\ held \in [Thread -> SUBSET Mtx]

\* At most one thread has entered a mutex, and it is the one the mutex names.
MutualExclusion ==
  \A m \in Mtx : {t \in Thread : m \in held[t]} = IF v[m] = 1 THEN {bmk_o[m]} ELSE {}

\* No assertion fails and no halt is reached: in particular, a thread coming back
\* from a condition variable finds its mutex free.
NoFault == fault = "none"

\* A free mutex does not leave threads waiting: one of those that wanted it has
\* been taken off the list and is about to try again.
NoStrandedWaiter ==
  \A m \in Mtx : v[m] = 0 /\ waiters[m] # <<>> =>
    \E t \in Thread : op[t] = <<"mutex", m>> /\ t \notin Range(waiters[m])

\* nwaiters counts the threads inside the wait calls, whichever way they end:
\* rumpuser_cv_destroy() relies on it.
WaitersCounted ==
  \A c \in Cv : nwaiters[c] = Cardinality({t \in Thread : InCv(t, c)})

\* The locks are sound: the types, mutual exclusion, no halt, the count of the
\* waiters, and the virtual CPU with the thread that runs.
LocksSound == TypeOK /\ MutualExclusion /\ NoFault /\ WaitersCounted /\ VcpuWithRunner

\* The wait lists lose nobody: no thread waits for a free mutex with nobody to
\* wake it, and none is on a list that it has left.
SleepersKept == NoStrandedWaiter /\ NoDanglingWaiter

\* A waiter that was signalled returns, and one with a timeout returns anyway,
\* if no thread keeps the CPU for itself for ever.
CvWaitEnds ==
  []<>(cpu = Nobody) =>
    \A t \in Thread, c \in Cv :
      (InCv(t, c) /\ pc[t] = "blocked" /\ (~onlist[t] \/ due[t] \in 0 .. MaxTime))
        ~> (pc[t] = "kern")

\* The halt of rumpuser_mutex_enter_nowrap() is not reached: "one VCPU supported,
\* no preemption => must succeed".
NowrapSucceeds == fault # "rumpuser mutex error"
=============================================================================
