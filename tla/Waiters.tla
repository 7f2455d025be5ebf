------------------------------ MODULE Waiters ------------------------------
(***************************************************************************)
(* The wait lists under the rump kernel's locks: wait(), wakeup_one() and  *)
(* wakeup_all() of rumpuser_synch.c, on top of what the scheduler          *)
(* promises.  A struct waiter lives on the stack of the thread inside      *)
(* wait(); it is identified with that thread.                              *)
(*                                                                         *)
(* A thread is "user" outside and "kern" inside the rump kernel, where it  *)
(* holds the one virtual CPU.  The other values of pc are the points of a  *)
(* hypercall where the scheduler has been or is about to be called.        *)
(***************************************************************************)
EXTENDS SchedContract, Queues

CONSTANTS
  WaitList,   \* the wait lists of all locks
  IntrWoken,  \* threads that interrupt handlers also wake
  Delay,      \* relative timeouts
  MaxTime     \* bound on the clock

ASSUME WaitersAssumption ==
  /\ Main \in Thread /\ Nobody \notin Thread
  /\ IntrWoken \subseteq Thread
  /\ Delay \subseteq Nat /\ MaxTime \in Nat
  /\ Infinite \notin Nat

VARIABLES
  waiters,  \* the threads on each wait list
  onlist,   \* the flag of each thread's struct waiter
  pc,       \* where each thread is in a hypercall
  op,       \* the hypercall that each thread is in, with its arguments
  vcpu,     \* the thread that holds the rump kernel's CPU, or Nobody
  fault     \* the assertion or halt that stopped the system, if any

lists == <<waiters, onlist>>
wvars == <<cvars, lists, pc, op, vcpu, fault>>

WaitersInit ==
  /\ CInit
  /\ waiters = [wh \in WaitList |-> <<>>]
  /\ onlist = [t \in Thread |-> FALSE]
  /\ pc = [t \in Thread |-> "user"]
  /\ op = [t \in Thread |-> <<"none">>]
  /\ vcpu = Nobody
  /\ fault = "none"

\* The timeouts that run out within the bound on the clock, and none.
Timeout == {d \in Delay : now + d <= MaxTime} \cup {Infinite}

Check(ok, what) == fault' = IF ok THEN fault ELSE what

\* The running thread, at a point of a hypercall.
At(t, label) == cpu = t /\ pc[t] = label

Goto(t, label) == pc' = [pc EXCEPT ![t] = label] /\ UNCHANGED op

\* A hypercall begins, and goes on from label; a hypercall returns.
Begin(t, label, call) ==
  /\ pc' = [pc EXCEPT ![t] = label]
  /\ op' = [op EXCEPT ![t] = call]

End(t) == Begin(t, "kern", <<"none">>)

\* The rump kernel's scheduler upcalls.  A thread that finds the virtual CPU
\* taken would have to block; it does not happen (VcpuWithRunner).
rumpkern_unsched(t) == vcpu' = Nobody
rumpkern_sched(t) == vcpu' = t

\* wait() up to bmk_sched_blockprepare_timeout(); d is relative to now.
wait_prepare(t, wh, d) ==
  /\ onlist' = [onlist EXCEPT ![t] = TRUE]
  /\ waiters' = [waiters EXCEPT ![wh] = Append(@, t)]
  /\ Prepare(t, IF d = Infinite THEN Infinite ELSE now + d)

\* The end of wait(), when bmk_sched_block() has returned.
wait_finish(t, wh) ==
  /\ waiters' = IF onlist[t] THEN [waiters EXCEPT ![wh] = Unlink(@, t)]
                ELSE waiters
  /\ UNCHANGED onlist

\* Variant: the threads leave the list, but the scheduler is not told.
wakeup_NoSchedWake(wh, S, rest) ==
  /\ waiters' = [waiters EXCEPT ![wh] = rest]
  /\ onlist' = [t \in Thread |-> onlist[t] /\ t \notin S]
  /\ UNCHANGED cvars

\* The threads S leave the list, which becomes rest, and are woken.
wakeup(wh, S, rest) ==
  /\ waiters' = [waiters EXCEPT ![wh] = rest]
  /\ onlist' = [t \in Thread |-> onlist[t] /\ t \notin S]
  /\ Signal(S)

wakeup_one(wh) ==
  IF waiters[wh] = <<>> THEN UNCHANGED <<cvars, lists>>
  ELSE wakeup(wh, {Head(waiters[wh])}, Tail(waiters[wh]))

wakeup_all(wh) == wakeup(wh, Range(waiters[wh]), <<>>)

-----------------------------------------------------------------------------
(* Around the hypercalls                                                   *)

\* A thread enters and leaves the rump kernel.
EnterKernel(t) ==
  /\ At(t, "user")
  /\ rumpkern_sched(t)
  /\ Goto(t, "kern")
  /\ UNCHANGED <<cvars, lists, fault>>

LeaveKernel(t) ==
  /\ At(t, "kern")
  /\ rumpkern_unsched(t)
  /\ Goto(t, "user")
  /\ UNCHANGED <<cvars, lists, fault>>

\* A thread outside the rump kernel yields.
Yield(t) ==
  /\ At(t, "user")
  /\ Release
  /\ UNCHANGED <<lists, pc, op, vcpu, fault>>

\* bmk_sched_block() at the end of any hypercall that has prepared to.
Block(t) ==
  /\ At(t, "prepared")
  /\ Release
  /\ Goto(t, "blocked")
  /\ UNCHANGED <<lists, vcpu, fault>>

\* The scheduler gives the CPU to a thread that does not wait, and time passes.
Run(t) ==
  /\ Dispatch(t)
  /\ UNCHANGED <<lists, pc, op, vcpu, fault>>

Tick ==
  /\ now < MaxTime
  /\ Advance
  /\ UNCHANGED <<lists, pc, op, vcpu, fault>>

\* An interrupt handler wakes its thread, whatever that thread waits for.
Interrupt(x) ==
  /\ wait[x] = "waiting"
  /\ Signal({x})
  /\ UNCHANGED <<lists, pc, op, vcpu, fault>>

\* rumpuser_thread_create().
rumpuser_thread_create(t, x) ==
  /\ At(t, "kern")
  /\ Spawn(x)
  /\ UNCHANGED <<lists, pc, op, vcpu, fault>>

\* rumpuser_clock_sleep(), relative.
rumpuser_clock_sleep(t) ==
  /\ At(t, "kern")
  /\ rumpkern_unsched(t)
  /\ \E d \in Timeout \ {Infinite} : Prepare(t, now + d)
  /\ Begin(t, "prepared", <<"sleep">>)
  /\ UNCHANGED <<lists, fault>>

SleepDone(t) ==
  /\ At(t, "blocked")
  /\ op[t] = <<"sleep">>
  /\ Return(t)
  /\ rumpkern_sched(t)
  /\ End(t)
  /\ UNCHANGED <<lists, fault>>

-----------------------------------------------------------------------------
(* Properties of the wait lists                                            *)

\* A struct waiter is on a list only while its thread is inside wait(): once
\* wait() returns, its stack frame is gone.  Its flag says whether it is on one.
NoDanglingWaiter ==
  \A t \in Thread :
    LET on == {wh \in WaitList : t \in Range(waiters[wh])}
    IN  /\ on # {} => pc[t] \in {"prepared", "blocked"} /\ onlist[t]
        /\ Cardinality(on) <= 1
        /\ \A wh \in on : Distinct(waiters[wh])

\* Only the running thread holds the virtual CPU, so that rumpkern_sched() never
\* has to wait for it: every hypercall that blocks has given it up before.
VcpuWithRunner == vcpu # Nobody => vcpu = cpu
=============================================================================
