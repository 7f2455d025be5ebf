------------------------ MODULE RumpuserSynchProofs ------------------------
(***************************************************************************)
(* The mutexes and condition variables are sound and lose no sleeper, for  *)
(* every finite set of threads and all sets of locks.                      *)
(***************************************************************************)
EXTENDS RumpuserSynch, QueueLemmas, FiniteSetTheorems

-----------------------------------------------------------------------------
(* Each step keeps the invariant SynchInv, given what wait() and the       *)
(* wakeups do to the lists of waiters (ListsMove) and to their number      *)
(* (CountsMove); those two are proved below.                               *)

\* A thread that has prepared to block, or has.
Parked(t) == pc[t] \in {"prepared", "blocked"}

\* The list that a hypercall o waits on.
CvOn(o, c) == o[1] = "cv" /\ o[2] = c
WaitsOn(o, wh) == o = <<"mutex", wh>> \/ CvOn(o, wh)

IsMtxOp(o) == \E m \in Mtx : o = <<"mutex", m>>
IsCvOp(o) == o[1] = "cv" /\ o[2] \in Cv /\ o[3] \in CvMtx

TypeInv ==
  /\ alive \subseteq Thread /\ cpu \in Thread \cup {Nobody}
  /\ wait \in [Thread -> {"no", "waiting", "woken", "timedout"}]
  /\ waiters \in [WaitList -> Seq(Thread)]
  /\ onlist \in [Thread -> BOOLEAN]
  /\ pc \in [Thread -> {"user", "kern", "mtxloop", "cvwait", "prepared", "blocked"}]
  /\ DOMAIN op = Thread
  /\ vcpu \in Thread \cup {Nobody}
  /\ v \in [Mtx -> {0, 1}]
  /\ bmk_o \in [Mtx -> Thread \cup {Nobody}]
  /\ nwaiters \in [Cv -> Int]
  /\ held \in [Thread -> SUBSET Mtx]

\* The hypercall that a thread is in fits the point where it is.
PlaceInv ==
  \A t \in Thread :
    /\ pc[t] \in {"user", "kern"} => op[t] = <<"none">>
    /\ pc[t] = "mtxloop" => IsMtxOp(op[t])
    /\ pc[t] = "cvwait" => IsCvOp(op[t])
    /\ Parked(t) => op[t] = <<"sleep">> \/ IsMtxOp(op[t]) \/ IsCvOp(op[t])

\* A thread inside the rump kernel does not let go of the CPU.
CpuInv ==
  /\ \A t \in Thread : pc[t] = "kern" => cpu = t
  /\ vcpu # Nobody => cpu = vcpu /\ pc[vcpu] = "kern"

\* The owner of a mutex is the thread that holds it, and a thread outside of
\* the rump kernel holds only what may be held asleep.
LockInv ==
  /\ \A m \in Mtx, t \in Thread : m \in held[t] <=> v[m] = 1 /\ bmk_o[m] = t
  /\ \A m \in Mtx : v[m] = 0 => bmk_o[m] = Nobody
  /\ \A m \in Mtx : v[m] = 1 => bmk_o[m] \in Thread
  /\ \A t \in Thread : pc[t] # "kern" => held[t] \subseteq HeldAsleep

\* A thread is on the list it waits on exactly while it is parked and flagged.
ListInv ==
  \A wh \in WaitList :
    /\ Distinct(waiters[wh])
    /\ \A t \in Thread : t \in Range(waiters[wh]) <=> Parked(t) /\ onlist[t] /\ WaitsOn(op[t], wh)

SynchInv ==
  /\ TypeInv /\ PlaceInv /\ CpuInv /\ LockInv /\ ListInv
  /\ WaitersCounted /\ NoStrandedWaiter


\* The wakeups take off the list whom they wake; what is left on the list of
\* wakeup_one is left behind by somebody who was woken.
Woken(wh) ==
  /\ UNCHANGED <<alive, cpu, now>>
  /\ wait' \in [Thread -> {"no", "waiting", "woken", "timedout"}]
  /\ waiters' \in [WaitList -> Seq(Thread)]
  /\ onlist' \in [Thread -> BOOLEAN]
  /\ \A x \in WaitList \ {wh} : waiters'[x] = waiters[x]
  /\ \A x \in WaitList : Distinct(waiters'[x])
  /\ \A x \in WaitList, t \in Thread :
       t \in Range(waiters'[x]) <=> t \in Range(waiters[x]) /\ onlist'[t]
  /\ \A t \in Thread : onlist'[t] => onlist[t]
  /\ waiters'[wh] # <<>> =>
       \E h \in Thread : h \in Range(waiters[wh]) /\ h \notin Range(waiters'[wh])

\* A thread that comes out of wait() is on no list.
Unlisted(t) ==
  /\ waiters' \in [WaitList -> Seq(Thread)] /\ UNCHANGED onlist
  /\ \A x \in WaitList : Distinct(waiters'[x])
  /\ \A x \in WaitList : Range(waiters'[x]) = Range(waiters[x]) \ {t}
  /\ \A x \in WaitList : waiters'[x] # <<>> => waiters[x] # <<>>

\* A thread that is about to wait joins one list.
Listed(t, wh) ==
  /\ UNCHANGED <<alive, cpu, now>>
  /\ wait' \in [Thread -> {"no", "waiting", "woken", "timedout"}]
  /\ waiters' \in [WaitList -> Seq(Thread)]
  /\ onlist' = [onlist EXCEPT ![t] = TRUE]
  /\ \A x \in WaitList : Distinct(waiters'[x])
  /\ \A x \in WaitList \ {wh} : waiters'[x] = waiters[x]
  /\ Range(waiters'[wh]) = Range(waiters[wh]) \cup {t}

ListsMove ==
  /\ \A wh \in WaitList : wakeup_one(wh) \/ wakeup_all(wh) => Woken(wh)
  /\ \A t \in Thread, wh \in WaitList :
       Parked(t) /\ WaitsOn(op[t], wh) /\ wait_finish(t, wh) => Unlisted(t)
  /\ \A t \in Thread, wh \in WaitList :
       ~Parked(t) => \A d : wait_prepare(t, wh, d) => Listed(t, wh)

\* A thread enters, or leaves, the wait calls of a condition variable.
CvEntered(t, c) ==
  /\ nwaiters' = [nwaiters EXCEPT ![c] = @ + 1]
  /\ \A x \in Cv : ~CvOn(op[t], x) /\ (CvOn(op'[t], x) <=> x = c)

CvLeft(t, c) ==
  /\ nwaiters' = [nwaiters EXCEPT ![c] = @ - 1]
  /\ \A x \in Cv : ~CvOn(op'[t], x) /\ (CvOn(op[t], x) <=> x = c)

CountsMove ==
  \A t \in Thread, c \in Cv :
    /\ \A u \in Thread \ {t} : op'[u] = op[u]
    /\ CvEntered(t, c) \/ CvLeft(t, c)
    => WaitersCounted'

-----------------------------------------------------------------------------
\* The kinds of hypercall differ in their first component.
LEMMA Ops ==
  /\ <<"none">>[1] = "none" /\ <<"sleep">>[1] = "sleep"
  /\ \A m : <<"mutex", m>>[1] = "mutex" /\ <<"mutex", m>>[2] = m
  /\ \A c, m, d : <<"cv", c, m, d>>[1] = "cv" /\ <<"cv", c, m, d>>[2] = c
                  /\ <<"cv", c, m, d>>[3] = m
OBVIOUS

\* What each kind of hypercall waits on.
LEMMA OpFacts ==
  ASSUME NEW o, NEW wh
  PROVE  /\ o \in {<<"none">>, <<"sleep">>} =>
              ~WaitsOn(o, wh) /\ ~CvOn(o, wh) /\ \A m : o # <<"mutex", m>>
         /\ \A m : o = <<"mutex", m>> => ~CvOn(o, wh) /\ (WaitsOn(o, wh) <=> wh = m)
         /\ o[1] = "cv" => /\ WaitsOn(o, wh) <=> wh = o[2]
                           /\ CvOn(o, wh) <=> wh = o[2]
                           /\ \A m : o # <<"mutex", m>>
<1>1. o \in {<<"none">>, <<"sleep">>} => o[1] \in {"none", "sleep"}
  BY Ops, Zenon
<1>2. \A m : o = <<"mutex", m>> => o[1] = "mutex" /\ o[2] = m
  BY Ops, Zenon
<1>3. o \in {<<"none">>, <<"sleep">>} => o[1] # "cv" /\ o[1] # "mutex"
  <2>1. \A k \in {"none", "sleep"} : k # "cv" /\ k # "mutex" OBVIOUS
  <2> QED BY <1>1, <2>1, Zenon
<1>4. \A m : o = <<"mutex", m>> => o[1] # "cv"
  <2>1. "mutex" # "cv" OBVIOUS
  <2> QED BY <1>2, <2>1, Zenon
<1>5. \A m : o = <<"mutex", m>> => ~CvOn(o, wh) /\ (WaitsOn(o, wh) <=> wh = m)
  <2> SUFFICES ASSUME NEW m, o = <<"mutex", m>>
               PROVE  ~CvOn(o, wh) /\ (WaitsOn(o, wh) <=> wh = m)
    OBVIOUS
  <2>1. ~CvOn(o, wh) BY <1>4, Zenon DEF CvOn
  <2>2. ASSUME o = <<"mutex", wh>> PROVE wh = m
    <3>1. o[2] = m BY <1>2, Zenon
    <3>2. o[2] = wh BY <1>2, <2>2, Zenon
    <3> QED BY ONLY <3>1, <3>2
  <2>3. ASSUME wh = m PROVE o = <<"mutex", wh>>
    BY <2>3, Zenon
  <2> QED BY <2>1, <2>2, <2>3, Zenon DEF WaitsOn
<1>6. o[1] = "cv" => (CvOn(o, wh) <=> wh = o[2]) /\ \A m : o # <<"mutex", m>>
  BY <1>4, Zenon DEF CvOn
<1>7. o \in {<<"none">>, <<"sleep">>} => ~CvOn(o, wh) /\ \A m : o # <<"mutex", m>>
  BY <1>2, <1>3, Zenon DEF CvOn
<1> QED
  BY <1>5, <1>6, <1>7, Zenon DEF WaitsOn

-----------------------------------------------------------------------------
(* Parts of the invariant that most steps leave alone                      *)

\* The count of a condition variable's waiters goes by the hypercalls.
LEMMA CountKept ==
  ASSUME WaitersCounted, UNCHANGED nwaiters,
         \A t \in Thread, c \in Cv : CvOn(op'[t], c) <=> CvOn(op[t], c)
  PROVE  WaitersCounted'
<1> SUFFICES ASSUME NEW c \in Cv
             PROVE  nwaiters'[c] = Cardinality({t \in Thread : CvOn(op'[t], c)})
  BY DEF WaitersCounted, InCv, CvOn
<1>1. {t \in Thread : CvOn(op'[t], c)} = {t \in Thread : CvOn(op[t], c)}
  OBVIOUS
<1> QED BY <1>1 DEF WaitersCounted, InCv, CvOn

\* Steps of the scheduler and of handlers, which touch no lock.
LEMMA Quiet ==
  ASSUME SynchInv, TypeInv', CpuInv',
         UNCHANGED <<waiters, onlist, pc, op, v, bmk_o, nwaiters, held>>
  PROVE  SynchInv'
<1>1. WaitersCounted'
  BY CountKept DEF SynchInv
<1>2. NoStrandedWaiter'
  BY DEF SynchInv, NoStrandedWaiter
<1>3. ListInv'
  BY DEF SynchInv, ListInv, Parked
<1>4. LockInv'
  BY DEF SynchInv, LockInv
<1>5. PlaceInv'
  BY DEF SynchInv, PlaceInv, Parked
<1> QED BY <1>1, <1>2, <1>3, <1>4, <1>5 DEF SynchInv

\* Dispatching, yielding, creating a thread, an interrupt, the clock.
LEMMA SchedulerKeeps ==
  ASSUME SynchInv, UNCHANGED <<mvars, nwaiters, held>>,
         \/ Tick
         \/ \E t \in Thread : \/ Run(t) \/ Yield(t) \/ Interrupt(t)
                              \/ \E x \in Thread : rumpuser_thread_create(t, x)
  PROVE  SynchInv'
<1>1. UNCHANGED <<waiters, onlist, pc, op, vcpu, v, bmk_o, nwaiters, held>>
  BY Zenon DEF mvars, lists, Tick, Run, Yield, Interrupt, rumpuser_thread_create
<1>2. TypeInv' /\ CpuInv'
  <2>1. CASE Tick
    BY <1>1, <2>1 DEF SynchInv, Tick, Advance, TypeInv, CpuInv
  <2>2. ASSUME NEW t \in Thread, Run(t) PROVE TypeInv' /\ CpuInv'
    <3>1. /\ cpu = Nobody /\ cpu' = t /\ UNCHANGED alive
          /\ wait' \in [Thread -> {"no", "waiting", "woken", "timedout"}]
      BY <2>2 DEF SynchInv, TypeInv, Run, Dispatch
    <3> QED BY <1>1, <3>1, WaitersAssumption DEF SynchInv, TypeInv, CpuInv
  <2>3. ASSUME NEW t \in Thread, Yield(t) PROVE TypeInv' /\ CpuInv'
    BY <1>1, <2>3 DEF SynchInv, TypeInv, CpuInv, Yield, At, Release
  <2>4. ASSUME NEW t \in Thread, Interrupt(t) PROVE TypeInv' /\ CpuInv'
    BY <1>1, <2>4 DEF SynchInv, TypeInv, CpuInv, Interrupt, Signal
  <2>5. ASSUME NEW t \in Thread, NEW x \in Thread, rumpuser_thread_create(t, x)
        PROVE  TypeInv' /\ CpuInv'
    BY <1>1, <2>5 DEF SynchInv, TypeInv, CpuInv, rumpuser_thread_create, Spawn
  <2> QED BY <2>1, <2>2, <2>3, <2>4, <2>5
<1> QED BY <1>1, <1>2, Quiet

\* A thread goes from one point to another, and no lock and no list changes.
LEMMA Moves ==
  ASSUME SynchInv, NEW t \in Thread, NEW l, NEW o,
         UNCHANGED <<waiters, onlist, v, bmk_o, nwaiters, held>>,
         pc'[t] = l, op'[t] = o, \A u \in Thread \ {t} : pc'[u] = pc[u] /\ op'[u] = op[u],
         TypeInv', CpuInv',
         l \in {"user", "kern"} => o = <<"none">>,
         l = "mtxloop" => IsMtxOp(o),
         l = "cvwait" => IsCvOp(o),
         l \in {"prepared", "blocked"} => o = <<"sleep">> \/ IsMtxOp(o) \/ IsCvOp(o),
         l # "kern" => held[t] \subseteq HeldAsleep,
         \A c \in Cv : CvOn(o, c) <=> CvOn(op[t], c),
         \A m \in Mtx : op[t] = <<"mutex", m>> => o = <<"mutex", m>>,
         \A wh \in WaitList : Parked(t) /\ WaitsOn(op[t], wh)
                              <=> l \in {"prepared", "blocked"} /\ WaitsOn(o, wh)
  PROVE  SynchInv'
<1>1. WaitersCounted'
  BY CountKept DEF SynchInv
<1>2. NoStrandedWaiter'
  <2> SUFFICES ASSUME NEW m \in Mtx, v'[m] = 0, waiters'[m] # <<>>
               PROVE  \E u \in Thread : op'[u] = <<"mutex", m>> /\ u \notin Range(waiters'[m])
    BY DEF NoStrandedWaiter
  <2>1. PICK u \in Thread : op[u] = <<"mutex", m>> /\ u \notin Range(waiters[m])
    BY Zenon DEF SynchInv, NoStrandedWaiter
  <2>2. op'[u] = <<"mutex", m>>
    BY <2>1, Zenon
  <2> QED BY <2>1, <2>2
<1>3. ListInv'
  <2> SUFFICES ASSUME NEW wh \in WaitList, NEW u \in Thread
               PROVE  /\ Distinct(waiters'[wh])
                      /\ u \in Range(waiters'[wh])
                           <=> Parked(u)' /\ onlist'[u] /\ WaitsOn(op'[u], wh)
    BY DEF ListInv
  <2>1. Parked(u)' /\ WaitsOn(op'[u], wh) <=> Parked(u) /\ WaitsOn(op[u], wh)
    BY Zenon DEF Parked
  <2> QED BY <2>1 DEF SynchInv, ListInv
<1>4. LockInv'
  BY DEF SynchInv, LockInv
<1>5. PlaceInv'
  BY Zenon DEF SynchInv, PlaceInv, Parked
<1> QED BY <1>1, <1>2, <1>3, <1>4, <1>5 DEF SynchInv

\* Entering and leaving the rump kernel, and sleeping.
LEMMA EnvironmentKeeps ==
  ASSUME SynchInv, NEW t \in Thread, UNCHANGED <<mvars, nwaiters, held>>,
         \/ EnterKernel(t) \/ (held[t] = {} /\ LeaveKernel(t))
         \/ MayBlock(t, {}) /\ rumpuser_clock_sleep(t)
         \/ Block(t) \/ SleepDone(t)
  PROVE  SynchInv'
<1> USE DEF mvars, lists, cvars
<1>0. t # Nobody BY WaitersAssumption
<1>1. CASE EnterKernel(t)
  <2>1. /\ UNCHANGED <<waiters, onlist, v, bmk_o, nwaiters, held, alive, cpu, wait, op>>
        /\ pc' = [pc EXCEPT ![t] = "kern"] /\ vcpu' = t /\ cpu = t /\ pc[t] = "user"
    BY <1>1 DEF EnterKernel, At, Goto, rumpkern_sched
  <2>2. TypeInv' /\ CpuInv'
    BY <2>1 DEF SynchInv, TypeInv, CpuInv
  <2>3. /\ op'[t] = <<"none">> /\ op[t] = <<"none">>
        /\ \A u \in Thread \ {t} : pc'[u] = pc[u] /\ op'[u] = op[u]
    BY <2>1 DEF SynchInv, TypeInv, PlaceInv
  <2>4. ~Parked(t) BY <2>1 DEF Parked
  <2>5. pc'[t] = "kern" BY <2>1 DEF SynchInv, TypeInv
  <2> QED BY <2>1, <2>2, <2>3, <2>4, <2>5, Moves, Zenon
<1>2. CASE held[t] = {} /\ LeaveKernel(t)
  <2>1. /\ UNCHANGED <<waiters, onlist, v, bmk_o, nwaiters, held, alive, cpu, wait, op>>
        /\ pc' = [pc EXCEPT ![t] = "user"] /\ vcpu' = Nobody /\ cpu = t /\ pc[t] = "kern"
    BY <1>2 DEF LeaveKernel, At, Goto, rumpkern_unsched
  <2>2. TypeInv' /\ CpuInv'
    BY <2>1 DEF SynchInv, TypeInv, CpuInv
  <2>3. /\ op'[t] = <<"none">> /\ op[t] = <<"none">>
        /\ \A u \in Thread \ {t} : pc'[u] = pc[u] /\ op'[u] = op[u]
    BY <2>1 DEF SynchInv, TypeInv, PlaceInv
  <2>4. ~Parked(t) BY <2>1 DEF Parked
  <2>5. pc'[t] = "user" BY <2>1 DEF SynchInv, TypeInv
  <2> QED BY <1>2, <2>1, <2>2, <2>3, <2>4, <2>5, Moves, Zenon
<1>3. CASE MayBlock(t, {}) /\ rumpuser_clock_sleep(t)
  <2>1. /\ UNCHANGED <<waiters, onlist, v, bmk_o, nwaiters, held, alive, cpu>>
        /\ pc' = [pc EXCEPT ![t] = "prepared"] /\ op' = [op EXCEPT ![t] = <<"sleep">>]
        /\ vcpu' = Nobody /\ cpu = t /\ pc[t] = "kern"
        /\ wait' = [wait EXCEPT ![t] = "waiting"]
        /\ held[t] \subseteq HeldAsleep
    BY <1>3 DEF rumpuser_clock_sleep, At, Begin, rumpkern_unsched, Prepare, MayBlock
  <2>2. TypeInv' /\ CpuInv'
    BY <2>1 DEF SynchInv, TypeInv, CpuInv
  <2>3. op[t] = <<"none">>
    BY <2>1 DEF SynchInv, PlaceInv
  <2>4. ~Parked(t) BY <2>1 DEF Parked
  <2>5. /\ \A wh : ~WaitsOn(<<"sleep">>, wh) /\ ~CvOn(<<"sleep">>, wh)
        /\ \A wh : ~CvOn(op[t], wh)
        /\ \A m : op[t] # <<"mutex", m>>
    BY <2>3, OpFacts, Zenon
  <2>6. /\ pc'[t] = "prepared" /\ op'[t] = <<"sleep">>
        /\ \A u \in Thread \ {t} : pc'[u] = pc[u] /\ op'[u] = op[u]
    BY <2>1 DEF SynchInv, TypeInv
  <2> QED BY <2>1, <2>2, <2>4, <2>5, <2>6, Moves
<1>4. CASE Block(t)
  <2>1. /\ UNCHANGED <<waiters, onlist, v, bmk_o, nwaiters, held, alive, wait, op, vcpu>>
        /\ pc' = [pc EXCEPT ![t] = "blocked"] /\ cpu' = Nobody /\ cpu = t /\ pc[t] = "prepared"
    BY <1>4 DEF Block, At, Goto, Release
  <2>2. TypeInv' /\ CpuInv'
    BY <1>0, <2>1 DEF SynchInv, TypeInv, CpuInv
  <2>3. /\ pc'[t] = "blocked" /\ op'[t] = op[t]
        /\ \A u \in Thread \ {t} : pc'[u] = pc[u] /\ op'[u] = op[u]
    BY <2>1 DEF SynchInv, TypeInv
  <2>4. Parked(t) BY <2>1 DEF Parked
  <2>5. op[t] = <<"sleep">> \/ IsMtxOp(op[t]) \/ IsCvOp(op[t])
    BY <2>4 DEF SynchInv, PlaceInv
  <2>6. held[t] \subseteq HeldAsleep
    BY <2>1 DEF SynchInv, LockInv
  <2> QED BY <2>1, <2>2, <2>3, <2>4, <2>5, <2>6, Moves, Zenon
<1>5. CASE SleepDone(t)
  <2>1. /\ UNCHANGED <<waiters, onlist, v, bmk_o, nwaiters, held, alive, cpu>>
        /\ pc' = [pc EXCEPT ![t] = "kern"] /\ op' = [op EXCEPT ![t] = <<"none">>]
        /\ vcpu' = t /\ cpu = t /\ op[t] = <<"sleep">>
        /\ wait' = [wait EXCEPT ![t] = "no"]
    BY <1>5 DEF SleepDone, At, End, Begin, rumpkern_sched, Return
  <2>2. TypeInv' /\ CpuInv'
    BY <2>1 DEF SynchInv, TypeInv, CpuInv
  <2>3. /\ \A wh : ~WaitsOn(op[t], wh) /\ ~CvOn(op[t], wh)
        /\ \A wh : ~WaitsOn(<<"none">>, wh) /\ ~CvOn(<<"none">>, wh)
        /\ \A m : op[t] # <<"mutex", m>>
    BY <2>1, OpFacts, Zenon
  <2>4. /\ pc'[t] = "kern" /\ op'[t] = <<"none">>
        /\ \A u \in Thread \ {t} : pc'[u] = pc[u] /\ op'[u] = op[u]
    BY <2>1 DEF SynchInv, TypeInv
  <2> QED BY <2>1, <2>2, <2>3, <2>4, Moves
<1> QED BY <1>1, <1>2, <1>3, <1>4, <1>5

-----------------------------------------------------------------------------
(* Mutexes                                                                 *)

\* A mutex that is free is taken by a thread that ends up in the rump kernel.
LEMMA LockTaken ==
  ASSUME SynchInv, NEW t \in Thread, NEW m \in Mtx, Take(t, m),
         \A u \in Thread : pc'[u] # "kern" => u # t /\ pc[u] # "kern"
  PROVE  /\ v' \in [Mtx -> {0, 1}] /\ bmk_o' \in [Mtx -> Thread \cup {Nobody}]
         /\ held' \in [Thread -> SUBSET Mtx]
         /\ v'[m] = 1 /\ \A n \in Mtx \ {m} : v'[n] = v[n]
         /\ LockInv'
<1> USE DEF SynchInv
<1>1. /\ v' \in [Mtx -> {0, 1}] /\ bmk_o' \in [Mtx -> Thread \cup {Nobody}]
      /\ held' \in [Thread -> SUBSET Mtx]
      /\ v'[m] = 1 /\ \A n \in Mtx \ {m} : v'[n] = v[n] /\ bmk_o'[n] = bmk_o[n]
      /\ bmk_o'[m] = t /\ held'[t] = held[t] \cup {m}
      /\ \A u \in Thread \ {t} : held'[u] = held[u]
  BY DEF TypeInv, Take
<1>2. \A u \in Thread : m \notin held[u]
  BY DEF LockInv, Take
<1>3. \A n \in Mtx, u \in Thread : n \in held'[u] <=> v'[n] = 1 /\ bmk_o'[n] = u
  BY <1>1, <1>2 DEF LockInv
<1> QED BY <1>1, <1>3 DEF LockInv

\* A mutex is given up by the thread that holds it.
LEMMA LockGiven ==
  ASSUME SynchInv, NEW t \in Thread, NEW m \in held[t], Give(t, m),
         \A u \in Thread : pc'[u] # "kern" =>
           \/ u # t /\ pc[u] # "kern"
           \/ u = t /\ held[t] \ {m} \subseteq HeldAsleep
  PROVE  /\ v' \in [Mtx -> {0, 1}] /\ bmk_o' \in [Mtx -> Thread \cup {Nobody}]
         /\ held' \in [Thread -> SUBSET Mtx]
         /\ v'[m] = 0 /\ \A n \in Mtx \ {m} : v'[n] = v[n]
         /\ LockInv' /\ UNCHANGED fault
<1> USE DEF SynchInv
<1>0. m \in Mtx /\ t # Nobody BY WaitersAssumption DEF TypeInv
<1>1. /\ v' \in [Mtx -> {0, 1}] /\ bmk_o' \in [Mtx -> Thread \cup {Nobody}]
      /\ held' \in [Thread -> SUBSET Mtx]
      /\ v'[m] = 0 /\ \A n \in Mtx \ {m} : v'[n] = v[n] /\ bmk_o'[n] = bmk_o[n]
      /\ bmk_o'[m] = Nobody /\ held'[t] = held[t] \ {m}
      /\ \A u \in Thread \ {t} : held'[u] = held[u]
  BY <1>0, Zenon DEF TypeInv, Give
<1>2. v[m] = 1 /\ \A u \in Thread \ {t} : m \notin held[u]
  BY <1>0 DEF LockInv
<1>3. \A n \in Mtx, u \in Thread : n \in held'[u] <=> v'[n] = 1 /\ bmk_o'[n] = u
  BY <1>0, <1>1, <1>2 DEF LockInv
<1>4. UNCHANGED fault
  BY <1>2 DEF Give, Check
<1> QED BY <1>0, <1>1, <1>3, <1>4 DEF LockInv

\* A wakeup of a list that leaves everybody's place alone, except that of a
\* thread on no list, keeps the lists in order.
LEMMA ListWoken ==
  ASSUME SynchInv, NEW wh \in WaitList, Woken(wh),
         \A u \in Thread : \/ pc'[u] = pc[u] /\ op'[u] = op[u]
                           \/ ~Parked(u) /\ ~Parked(u)'
  PROVE  ListInv'
<1> SUFFICES ASSUME NEW x \in WaitList, NEW u \in Thread
             PROVE  /\ Distinct(waiters'[x])
                    /\ u \in Range(waiters'[x])
                         <=> Parked(u)' /\ onlist'[u] /\ WaitsOn(op'[u], x)
  BY WaitersAssumption DEF ListInv
<1>1. /\ Distinct(waiters'[x])
      /\ u \in Range(waiters'[x]) <=> u \in Range(waiters[x]) /\ onlist'[u]
      /\ onlist'[u] => onlist[u]
  BY Zenon DEF Woken
<1>2. u \in Range(waiters[x]) <=> Parked(u) /\ onlist[u] /\ WaitsOn(op[u], x)
  BY DEF SynchInv, ListInv
<1>3. \/ (Parked(u)' <=> Parked(u)) /\ op'[u] = op[u]
      \/ ~Parked(u) /\ ~Parked(u)'
  BY DEF Parked
<1> QED BY <1>1, <1>2, <1>3, Zenon

\* Waking the first waiter of a mutex, or waiters of other lists, strands nobody.
LEMMA NobodyStranded ==
  ASSUME SynchInv, NEW wh \in WaitList, Woken(wh),
         \A m \in Mtx \ {wh} : v'[m] = v[m],
         \A m \in Mtx, u \in Thread : op[u] = <<"mutex", m>> => op'[u] = <<"mutex", m>>
  PROVE  NoStrandedWaiter'
<1> SUFFICES ASSUME NEW m \in Mtx, v'[m] = 0, waiters'[m] # <<>>
             PROVE  \E u \in Thread : op'[u] = <<"mutex", m>> /\ u \notin Range(waiters'[m])
  BY Zenon DEF NoStrandedWaiter
<1>0. m \in WaitList BY SynchAssumption
<1>1. CASE m = wh
  <2>1. PICK h \in Thread : h \in Range(waiters[wh]) /\ h \notin Range(waiters'[wh])
    BY <1>1 DEF Woken
  <2>2. WaitsOn(op[h], m)
    BY <1>1, <2>1 DEF SynchInv, ListInv
  <2>3. Parked(h)
    BY <1>1, <2>1 DEF SynchInv, ListInv
  <2>4. ~IsCvOp(op[h])
    <3> SUFFICES ASSUME IsCvOp(op[h]) PROVE FALSE OBVIOUS
    <3>1. op[h][1] = "cv" /\ op[h][2] \in Cv BY DEF IsCvOp
    <3>2. m = op[h][2] BY <2>2, <3>1, OpFacts, Zenon
    <3> QED BY <3>1, <3>2, SynchAssumption
  <2>5. op[h] # <<"sleep">>
    BY <2>2, OpFacts, Zenon
  <2>6. IsMtxOp(op[h])
    BY <2>3, <2>4, <2>5 DEF SynchInv, PlaceInv
  <2>7. op[h] = <<"mutex", m>>
    BY <2>2, <2>6, OpFacts, Zenon DEF IsMtxOp
  <2>8. op'[h] = <<"mutex", m>>
    BY <2>7, Zenon
  <2> QED BY <1>1, <2>1, <2>8
<1>2. CASE m # wh
  <2>1. waiters'[m] = waiters[m] /\ v[m] = 0
    BY <1>0, <1>2 DEF Woken
  <2>2. PICK u \in Thread : op[u] = <<"mutex", m>> /\ u \notin Range(waiters[m])
    BY <2>1, Zenon DEF SynchInv, NoStrandedWaiter
  <2>3. op'[u] = <<"mutex", m>>
    BY <2>2, Zenon
  <2> QED BY <2>1, <2>2, <2>3
<1> QED BY <1>1, <1>2

\* The attempts to enter a mutex from inside the rump kernel.
LEMMA EnterKeeps ==
  ASSUME SynchInv, NEW t \in Thread, NEW m \in Mtx,
         rumpuser_mutex_tryenter(t, m) \/ rumpuser_mutex_enter(t, m)
  PROVE  SynchInv'
<1>0. /\ UNCHANGED <<alive, cpu, wait, waiters, onlist, nwaiters>>
      /\ cpu = t /\ pc[t] = "kern" /\ op[t] = <<"none">>
  BY Zenon DEF rumpuser_mutex_tryenter, rumpuser_mutex_enter, At, cvars, lists, SynchInv, PlaceInv
<1>1. CASE Take(t, m) /\ UNCHANGED <<pc, op, vcpu>>
  <2>1. /\ v' \in [Mtx -> {0, 1}] /\ bmk_o' \in [Mtx -> Thread \cup {Nobody}]
        /\ held' \in [Thread -> SUBSET Mtx]
        /\ v'[m] = 1 /\ \A n \in Mtx \ {m} : v'[n] = v[n]
        /\ LockInv'
    BY <1>0, <1>1, LockTaken
  <2>2. TypeInv' /\ CpuInv'
    BY <1>0, <1>1, <2>1 DEF SynchInv, TypeInv, CpuInv
  <2>3. WaitersCounted'
    BY <1>0, <1>1, CountKept DEF SynchInv
  <2>4. NoStrandedWaiter'
    <3> SUFFICES ASSUME NEW n \in Mtx, v'[n] = 0, waiters'[n] # <<>>
                 PROVE  \E u \in Thread : op'[u] = <<"mutex", n>> /\ u \notin Range(waiters'[n])
      BY DEF NoStrandedWaiter
    <3>1. v[n] = 0 /\ waiters[n] # <<>> BY <1>0, <2>1
    <3> QED BY <1>0, <1>1, <3>1, Zenon DEF SynchInv, NoStrandedWaiter
  <2>5. ListInv'
    BY <1>0, <1>1 DEF SynchInv, ListInv, Parked
  <2>6. PlaceInv'
    BY <1>1 DEF SynchInv, PlaceInv, Parked
  <2> QED BY <2>1, <2>2, <2>3, <2>4, <2>5, <2>6 DEF SynchInv
<1>2. CASE Busy(m) /\ UNCHANGED <<pc, op, vcpu>>
  <2>1. UNCHANGED <<v, bmk_o, held>> BY <1>2 DEF Busy, mvars
  <2>2. TypeInv' /\ CpuInv'
    BY <1>0, <1>2, <2>1 DEF SynchInv, TypeInv, CpuInv
  <2> QED BY <1>0, <1>2, <2>1, <2>2, Quiet
<1>3. CASE /\ Busy(m) /\ MayBlock(t, {}) /\ rumpkern_unsched(t)
           /\ Begin(t, "mtxloop", <<"mutex", m>>)
  <2>1. UNCHANGED <<v, bmk_o, held>> /\ vcpu' = Nobody /\ held[t] \subseteq HeldAsleep
    BY <1>3 DEF Busy, mvars, rumpkern_unsched, MayBlock
  <2>2. /\ pc' = [pc EXCEPT ![t] = "mtxloop"]
        /\ op' = [op EXCEPT ![t] = <<"mutex", m>>]
    BY <1>3 DEF Begin
  <2>3. /\ pc'[t] = "mtxloop" /\ op'[t] = <<"mutex", m>>
        /\ \A u \in Thread \ {t} : pc'[u] = pc[u] /\ op'[u] = op[u]
    BY <2>2 DEF SynchInv, TypeInv
  <2>4. TypeInv' /\ CpuInv'
    BY <1>0, <2>1, <2>2 DEF SynchInv, TypeInv, CpuInv
  <2>5. /\ \A c \in Cv : ~CvOn(<<"mutex", m>>, c) /\ ~CvOn(op[t], c)
        /\ \A n : op[t] # <<"mutex", n>>
    BY <1>0, OpFacts, Zenon
  <2>6. IsMtxOp(<<"mutex", m>>) BY DEF IsMtxOp
  <2>7. ~Parked(t) BY <1>0 DEF Parked
  <2> QED BY <1>0, <2>1, <2>3, <2>4, <2>5, <2>6, <2>7, Moves
<1> QED BY <1>1, <1>2, <1>3, Zenon DEF rumpuser_mutex_tryenter, rumpuser_mutex_enter

\* A thread joins the list its hypercall waits on; if it is a mutex's, the mutex
\* is taken.
LEMMA JoinsList ==
  ASSUME SynchInv, NEW t \in Thread, NEW wh \in WaitList,
         cpu = t, pc[t] \in {"mtxloop", "cvwait"},
         IsMtxOp(op[t]) \/ IsCvOp(op[t]), WaitsOn(op[t], wh),
         Listed(t, wh), pc' = [pc EXCEPT ![t] = "prepared"],
         UNCHANGED <<op, v, bmk_o, held, vcpu, nwaiters>>,
         wh \in Mtx => v[wh] # 0
  PROVE  SynchInv'
<1>0. ~Parked(t) /\ Parked(t)' /\ \A u \in Thread \ {t} : pc'[u] = pc[u]
  BY DEF Parked, SynchInv, TypeInv
<1>1. /\ UNCHANGED <<alive, cpu, now>>
      /\ wait' \in [Thread -> {"no", "waiting", "woken", "timedout"}]
      /\ waiters' \in [WaitList -> Seq(Thread)]
      /\ onlist' = [onlist EXCEPT ![t] = TRUE]
      /\ \A x \in WaitList : Distinct(waiters'[x])
      /\ \A x \in WaitList \ {wh} : waiters'[x] = waiters[x]
      /\ Range(waiters'[wh]) = Range(waiters[wh]) \cup {t}
  BY DEF Listed
<1>2. TypeInv' /\ CpuInv'
  BY <1>1 DEF SynchInv, TypeInv, CpuInv
<1>3. WaitersCounted'
  BY CountKept DEF SynchInv
<1>4. NoStrandedWaiter'
  BY <1>1, SynchAssumption, Zenon DEF SynchInv, NoStrandedWaiter
<1>5. \A x \in WaitList : WaitsOn(op[t], x) <=> x = wh
  BY OpFacts, Zenon DEF IsMtxOp, IsCvOp
<1>6. ListInv'
  <2> SUFFICES ASSUME NEW x \in WaitList, NEW u \in Thread
               PROVE  u \in Range(waiters'[x])
                        <=> Parked(u)' /\ onlist'[u] /\ WaitsOn(op'[u], x)
    BY <1>1, Zenon DEF ListInv
  <2>0. u \in Range(waiters[x]) <=> Parked(u) /\ onlist[u] /\ WaitsOn(op[u], x)
    BY Zenon DEF SynchInv, ListInv
  <2>1. CASE u = t
    <3>1. onlist'[t] BY <1>1 DEF SynchInv, TypeInv
    <3> QED BY <1>0, <1>1, <1>5, <2>0, <2>1, <3>1
  <2>2. CASE u # t
    <3>1. onlist'[u] = onlist[u] /\ (Parked(u)' <=> Parked(u))
      BY <1>0, <1>1, <2>2 DEF SynchInv, TypeInv, Parked
    <3>2. u \in Range(waiters'[x]) <=> u \in Range(waiters[x])
      BY <1>1, <2>2, Zenon
    <3> QED BY <2>0, <3>1, <3>2, Zenon
  <2> QED BY <2>1, <2>2, Zenon
<1>7. LockInv'
  BY <1>0 DEF SynchInv, LockInv, TypeInv
<1>8. PlaceInv'
  <2> SUFFICES ASSUME NEW u \in Thread
               PROVE  /\ pc'[u] \in {"user", "kern"} => op'[u] = <<"none">>
                      /\ pc'[u] = "mtxloop" => IsMtxOp(op'[u])
                      /\ pc'[u] = "cvwait" => IsCvOp(op'[u])
                      /\ Parked(u)' => op'[u] = <<"sleep">> \/ IsMtxOp(op'[u]) \/ IsCvOp(op'[u])
    BY Zenon DEF PlaceInv
  <2>1. CASE u = t
    <3>1. pc'[t] = "prepared" BY DEF SynchInv, TypeInv
    <3> QED BY <2>1, <3>1
  <2>2. CASE u # t
    BY <1>0, <2>2, Zenon DEF SynchInv, PlaceInv, Parked
  <2> QED BY <2>1, <2>2, Zenon
<1> QED BY <1>2, <1>3, <1>4, <1>6, <1>7, <1>8, Zenon DEF SynchInv

\* The loop outside of it: the mutex is taken, or waited for.
LEMMA LoopKeeps ==
  ASSUME SynchInv, ListsMove, NEW t \in Thread, NEW m \in Mtx, MutexLoop(t, m)
  PROVE  SynchInv'
<1>0. /\ cpu = t /\ pc[t] = "mtxloop" /\ op[t] = <<"mutex", m>> /\ UNCHANGED nwaiters
      /\ m \in WaitList /\ ~Parked(t)
  BY SynchAssumption DEF MutexLoop, At, Parked
<1>a. ASSUME NEW n, op[t] = <<"mutex", n>> PROVE n = m
  <2>1. op[t][2] = m BY <1>0, Ops, Zenon
  <2>2. op[t][2] = n BY <1>a, Ops, Zenon
  <2> QED BY ONLY <2>1, <2>2
<1>1. CASE Take(t, m) /\ rumpkern_sched(t) /\ End(t) /\ UNCHANGED <<cvars, lists>>
  <2>1. /\ UNCHANGED <<alive, cpu, wait, waiters, onlist>> /\ vcpu' = t
        /\ pc' = [pc EXCEPT ![t] = "kern"] /\ op' = [op EXCEPT ![t] = <<"none">>]
    BY <1>1 DEF cvars, lists, rumpkern_sched, End, Begin
  <2>2. /\ pc'[t] = "kern" /\ op'[t] = <<"none">>
        /\ \A u \in Thread \ {t} : pc'[u] = pc[u] /\ op'[u] = op[u]
    BY <2>1 DEF SynchInv, TypeInv
  <2>3. /\ v' \in [Mtx -> {0, 1}] /\ bmk_o' \in [Mtx -> Thread \cup {Nobody}]
        /\ held' \in [Thread -> SUBSET Mtx]
        /\ v'[m] = 1 /\ \A n \in Mtx \ {m} : v'[n] = v[n]
        /\ LockInv'
    BY <1>0, <1>1, <2>2, LockTaken
  <2>4. TypeInv' /\ CpuInv'
    BY <1>0, <2>1, <2>3, Zenon DEF SynchInv, TypeInv, CpuInv
  <2>5. /\ \A c \in Cv : ~CvOn(op[t], c) /\ ~CvOn(op'[t], c)
        /\ ~Parked(t)'
    BY <1>0, <2>2, OpFacts DEF Parked
  <2>6. WaitersCounted'
    BY <1>0, <2>2, <2>5, CountKept, Zenon DEF SynchInv
  <2>7. NoStrandedWaiter'
    <3> SUFFICES ASSUME NEW n \in Mtx, v'[n] = 0, waiters'[n] # <<>>
                 PROVE  \E u \in Thread : op'[u] = <<"mutex", n>> /\ u \notin Range(waiters'[n])
      BY DEF NoStrandedWaiter
    <3>a. n # m
      <4>1. 0 # 1 OBVIOUS
      <4> QED BY <2>3, <4>1, Zenon
    <3>b. v[n] = 0 BY <2>3, <3>a, Zenon
    <3>c. waiters[n] # <<>> BY <2>1, Zenon
    <3>2. PICK u \in Thread : op[u] = <<"mutex", n>> /\ u \notin Range(waiters[n])
      BY <3>b, <3>c, Zenon DEF SynchInv, NoStrandedWaiter
    <3>3. u # t BY <1>a, <3>a, <3>2, Zenon
    <3> QED BY <2>1, <2>2, <3>2, <3>3
  <2>8. ListInv'
    <3> SUFFICES ASSUME NEW x \in WaitList, NEW u \in Thread
                 PROVE  /\ Distinct(waiters'[x])
                        /\ u \in Range(waiters'[x])
                             <=> Parked(u)' /\ onlist'[u] /\ WaitsOn(op'[u], x)
      BY DEF ListInv
    <3>1. CASE u = t
      BY <1>0, <2>1, <2>5, <3>1 DEF SynchInv, ListInv
    <3>2. CASE u # t
      BY <2>1, <2>2, <3>2 DEF SynchInv, ListInv, Parked
    <3> QED BY <3>1, <3>2
  <2>9. PlaceInv'
    BY <2>2, Zenon DEF SynchInv, PlaceInv, Parked
  <2> QED BY <2>3, <2>4, <2>6, <2>7, <2>8, <2>9 DEF SynchInv
<1>2. CASE Busy(m) /\ wait_prepare(t, m, Infinite) /\ Goto(t, "prepared") /\ UNCHANGED vcpu
  <2>1. /\ UNCHANGED <<op, v, bmk_o, held, vcpu>> /\ v[m] # 0
        /\ pc' = [pc EXCEPT ![t] = "prepared"]
    BY <1>2 DEF Busy, mvars, Goto
  <2>2. IsMtxOp(op[t]) /\ WaitsOn(op[t], m)
    BY <1>0, Zenon DEF IsMtxOp, WaitsOn
  <2>3. pc[t] \in {"mtxloop", "cvwait"} BY <1>0
  <2>4. Listed(t, m) BY <1>0, <1>2, Zenon DEF ListsMove
  <2> QED BY <1>0, <2>1, <2>2, <2>3, <2>4, JoinsList, Zenon
<1> QED BY <1>1, <1>2, Zenon DEF MutexLoop

\* A thread that comes out of wait() and is no longer parked leaves the lists in
\* order.
LEMMA LeavesList ==
  ASSUME SynchInv, NEW t \in Thread, Parked(t), ~Parked(t)', Unlisted(t),
         \A u \in Thread \ {t} : pc'[u] = pc[u] /\ op'[u] = op[u]
  PROVE  ListInv'
<1>0. /\ UNCHANGED onlist
      /\ \A x \in WaitList : Distinct(waiters'[x])
      /\ \A x \in WaitList : Range(waiters'[x]) = Range(waiters[x]) \ {t}
  BY DEF Unlisted
<1> SUFFICES ASSUME NEW x \in WaitList, NEW u \in Thread
             PROVE  u \in Range(waiters'[x])
                      <=> Parked(u)' /\ onlist'[u] /\ WaitsOn(op'[u], x)
  BY <1>0 DEF ListInv
<1>1. CASE u = t
  BY <1>0, <1>1
<1>2. CASE u # t
  <2>1. u \in Range(waiters[x]) <=> Parked(u) /\ onlist[u] /\ WaitsOn(op[u], x)
    BY DEF SynchInv, ListInv
  <2>2. (Parked(u)' <=> Parked(u)) /\ op'[u] = op[u]
    BY <1>2 DEF Parked
  <2>3. u \in Range(waiters'[x]) <=> u \in Range(waiters[x])
    BY <1>0, <1>2
  <2> QED BY <1>0, <2>1, <2>2, <2>3, Zenon
<1> QED BY <1>1, <1>2

\* Back from the wait for a mutex.
LEMMA RetryKeeps ==
  ASSUME SynchInv, ListsMove, NEW t \in Thread, NEW m \in Mtx, MutexRetry(t, m)
  PROVE  SynchInv'
<1>0. /\ cpu = t /\ pc[t] = "blocked" /\ op[t] = <<"mutex", m>> /\ m \in WaitList
      /\ UNCHANGED <<v, bmk_o, nwaiters, held, vcpu, op, alive, cpu>>
      /\ pc' = [pc EXCEPT ![t] = "mtxloop"] /\ wait' = [wait EXCEPT ![t] = "no"]
      /\ wait_finish(t, m)
  BY SynchAssumption DEF MutexRetry, At, Return, Goto, mvars
<1>1. /\ Parked(t) /\ ~Parked(t)' /\ pc'[t] = "mtxloop"
      /\ \A u \in Thread \ {t} : pc'[u] = pc[u] /\ op'[u] = op[u]
  BY <1>0 DEF Parked, SynchInv, TypeInv
<1>2. WaitsOn(op[t], m) /\ IsMtxOp(op[t])
  BY <1>0, Zenon DEF WaitsOn, IsMtxOp
<1>u. Unlisted(t)
  BY <1>0, <1>1, <1>2, Zenon DEF ListsMove
<1>3. /\ waiters' \in [WaitList -> Seq(Thread)] /\ UNCHANGED onlist
      /\ \A x \in WaitList : Range(waiters'[x]) = Range(waiters[x]) \ {t}
      /\ \A x \in WaitList : waiters'[x] # <<>> => waiters[x] # <<>>
  BY <1>u DEF Unlisted
<1>4. TypeInv' /\ CpuInv'
  BY <1>0, <1>3 DEF SynchInv, TypeInv, CpuInv
<1>5. ListInv'
  BY <1>1, <1>u, LeavesList
<1>6. WaitersCounted'
  BY <1>0, CountKept, Zenon DEF SynchInv
<1>7. NoStrandedWaiter'
  <2> SUFFICES ASSUME NEW n \in Mtx, v'[n] = 0, waiters'[n] # <<>>
               PROVE  \E u \in Thread : op'[u] = <<"mutex", n>> /\ u \notin Range(waiters'[n])
    BY Zenon DEF NoStrandedWaiter
  <2>0. n \in WaitList BY SynchAssumption
  <2>1. waiters[n] # <<>> BY <1>3, <2>0
  <2>2. PICK u \in Thread : op[u] = <<"mutex", n>> /\ u \notin Range(waiters[n])
    BY <1>0, <2>1, Zenon DEF SynchInv, NoStrandedWaiter
  <2> QED BY <1>0, <1>3, <2>0, <2>2, Zenon
<1>8. LockInv'
  BY <1>0, <1>1, ZenonT(40) DEF SynchInv, LockInv
<1>9. PlaceInv'
  BY <1>0, <1>1, <1>2 DEF SynchInv, PlaceInv, Parked
<1> QED BY <1>4, <1>5, <1>6, <1>7, <1>8, <1>9 DEF SynchInv

\* Giving a mutex up, and waking the waiters of a condition variable.
LEMMA WakersKeep ==
  ASSUME SynchInv, ListsMove, NEW t \in Thread,
         \/ \E m \in Mtx : rumpuser_mutex_exit(t, m)
         \/ \E c \in Cv : rumpuser_cv_signal(t, c) \/ rumpuser_cv_broadcast(t, c)
  PROVE  SynchInv'
<1>0. UNCHANGED <<pc, op, vcpu, nwaiters>>
  BY Zenon DEF rumpuser_mutex_exit, rumpuser_cv_signal, rumpuser_cv_broadcast
<1>1. PICK wh \in WaitList :
        /\ wakeup_one(wh) \/ wakeup_all(wh)
        /\ \A n \in Mtx \ {wh} : v'[n] = v[n]
        /\ v' \in [Mtx -> {0, 1}] /\ bmk_o' \in [Mtx -> Thread \cup {Nobody}]
        /\ held' \in [Thread -> SUBSET Mtx]
        /\ LockInv'
  <2>1. ASSUME NEW m \in Mtx, rumpuser_mutex_exit(t, m)
        PROVE  /\ m \in WaitList /\ wakeup_one(m)
               /\ \A n \in Mtx \ {m} : v'[n] = v[n]
               /\ v' \in [Mtx -> {0, 1}] /\ bmk_o' \in [Mtx -> Thread \cup {Nobody}]
               /\ held' \in [Thread -> SUBSET Mtx]
               /\ LockInv'
    <3>1. pc[t] = "kern" /\ m \in held[t] /\ Give(t, m)
      BY <2>1 DEF rumpuser_mutex_exit, At
    <3>2. wakeup_one(m) BY <3>1, Zenon DEF Give
    <3> QED BY <1>0, <3>1, <3>2, LockGiven, SynchAssumption
  <2>2. ASSUME NEW c \in Cv, rumpuser_cv_signal(t, c) \/ rumpuser_cv_broadcast(t, c)
        PROVE  /\ c \in WaitList /\ (wakeup_one(c) \/ wakeup_all(c))
               /\ UNCHANGED <<v, bmk_o, held>>
    BY <2>2, SynchAssumption DEF rumpuser_cv_signal, rumpuser_cv_broadcast, mvars
  <2>3. UNCHANGED <<v, bmk_o, held>> =>
               /\ \A n \in Mtx : v'[n] = v[n]
               /\ v' \in [Mtx -> {0, 1}] /\ bmk_o' \in [Mtx -> Thread \cup {Nobody}]
               /\ held' \in [Thread -> SUBSET Mtx]
               /\ LockInv'
    BY <1>0 DEF SynchInv, TypeInv, LockInv
  <2>4. CASE \E m \in Mtx : rumpuser_mutex_exit(t, m)
    BY <2>1, <2>4, Zenon
  <2>5. CASE \E c \in Cv : rumpuser_cv_signal(t, c) \/ rumpuser_cv_broadcast(t, c)
    <3>1. PICK c \in Cv : rumpuser_cv_signal(t, c) \/ rumpuser_cv_broadcast(t, c)
      BY <2>5
    <3>2. /\ c \in WaitList /\ (wakeup_one(c) \/ wakeup_all(c))
          /\ UNCHANGED <<v, bmk_o, held>>
      BY <2>2, <3>1
    <3>3. \A n \in Mtx \ {c} : v'[n] = v[n]
      BY <3>2
    <3> QED BY <2>3, <3>2, <3>3, Zenon
  <2> QED BY <2>4, <2>5
<1>w. Woken(wh) BY <1>1, Zenon DEF ListsMove
<1>2. TypeInv' /\ CpuInv'
  <2>1. /\ UNCHANGED <<alive, cpu, now>>
        /\ wait' \in [Thread -> {"no", "waiting", "woken", "timedout"}]
        /\ waiters' \in [WaitList -> Seq(Thread)]
        /\ onlist' \in [Thread -> BOOLEAN]
    BY <1>w, Zenon DEF Woken
  <2> QED BY <1>0, <1>1, <2>1 DEF SynchInv, TypeInv, CpuInv
<1>3. ListInv'
  BY <1>0, <1>w, ListWoken, Zenon
<1>4. NoStrandedWaiter'
  BY <1>0, <1>1, <1>w, NobodyStranded, Zenon
<1>5. WaitersCounted'
  BY <1>0, CountKept DEF SynchInv
<1>6. PlaceInv'
  BY <1>0, Zenon DEF SynchInv, PlaceInv, Parked
<1> QED BY <1>1, <1>2, <1>3, <1>4, <1>5, <1>6 DEF SynchInv

-----------------------------------------------------------------------------
(* Condition variables                                                     *)

\* rumpuser_cv_wait(): the mutex is given up before the thread is on the list.
LEMMA CvWaitKeeps ==
  ASSUME SynchInv, ListsMove, CountsMove, NEW t \in Thread, NEW c \in Cv, NEW m \in Mtx,
         rumpuser_cv_wait(t, c, m)
  PROVE  SynchInv'
<1>0. PICK d \in Timeout : Begin(t, "cvwait", <<"cv", c, m, d>>)
  BY DEF rumpuser_cv_wait
<1>1. /\ cpu = t /\ pc[t] = "kern" /\ op[t] = <<"none">> /\ m \in held[t] /\ m \in CvMtx
      /\ held[t] \ {m} \subseteq HeldAsleep /\ Give(t, m) /\ wakeup_one(m) /\ vcpu' = Nobody
      /\ nwaiters' = [nwaiters EXCEPT ![c] = @ + 1] /\ m \in WaitList
  BY SynchAssumption, Zenon
     DEF rumpuser_cv_wait, At, MayBlock, rumpkern_unsched, Give, SynchInv, PlaceInv
<1>2. /\ pc' = [pc EXCEPT ![t] = "cvwait"] /\ op' = [op EXCEPT ![t] = <<"cv", c, m, d>>]
  BY <1>0 DEF Begin
<1>3. /\ pc'[t] = "cvwait" /\ op'[t] = <<"cv", c, m, d>>
      /\ \A u \in Thread \ {t} : pc'[u] = pc[u] /\ op'[u] = op[u]
  BY <1>2 DEF SynchInv, TypeInv
<1>4. /\ v' \in [Mtx -> {0, 1}] /\ bmk_o' \in [Mtx -> Thread \cup {Nobody}]
      /\ held' \in [Thread -> SUBSET Mtx]
      /\ \A n \in Mtx \ {m} : v'[n] = v[n]
      /\ LockInv'
  BY <1>1, <1>3, LockGiven
<1>w. Woken(m) BY <1>1, Zenon DEF ListsMove
<1>5. /\ UNCHANGED <<alive, cpu, now>>
      /\ wait' \in [Thread -> {"no", "waiting", "woken", "timedout"}]
      /\ waiters' \in [WaitList -> Seq(Thread)]
      /\ onlist' \in [Thread -> BOOLEAN]
  BY <1>w DEF Woken
<1>6. TypeInv' /\ CpuInv'
  <2>0. nwaiters \in [Cv -> Int] BY Zenon DEF SynchInv, TypeInv
  <2>1. nwaiters' \in [Cv -> Int] BY ONLY <1>1, <2>0, c \in Cv
  <2>2. TypeInv' BY <1>1, <1>2, <1>4, <1>5, <2>1, Zenon DEF SynchInv, TypeInv
  <2>3. CpuInv' BY <1>1, <1>3, <1>5, Zenon DEF SynchInv, CpuInv
  <2> QED BY <2>2, <2>3
<1>7. ~Parked(t) /\ ~Parked(t)'
  BY <1>1, <1>3 DEF Parked
<1>8. ListInv'
  BY <1>1, <1>3, <1>7, <1>w, ListWoken
<1>9. op'[t][1] = "cv" /\ op'[t][2] = c /\ op'[t][3] = m
  BY ONLY <1>3
<1>10. \A x : ~CvOn(op[t], x) /\ (CvOn(op'[t], x) <=> x = c) /\ op[t] # <<"mutex", x>>
  BY <1>1, <1>9, OpFacts, Zenon
<1>11. NoStrandedWaiter'
  BY <1>1, <1>3, <1>4, <1>10, <1>w, NobodyStranded, Zenon
<1>12. WaitersCounted'
  <2>1. CvEntered(t, c) BY <1>1, <1>10, Zenon DEF CvEntered
  <2> QED BY <1>3, <2>1, Zenon DEF CountsMove
<1>13. PlaceInv'
  <2>1. IsCvOp(op'[t]) BY <1>1, <1>9 DEF IsCvOp
  <2> QED BY <1>3, <2>1 DEF SynchInv, PlaceInv, Parked
<1> QED BY <1>4, <1>6, <1>8, <1>11, <1>12, <1>13 DEF SynchInv

\* The rest of it: on to the list.
LEMMA CvSleepKeeps ==
  ASSUME SynchInv, ListsMove, NEW t \in Thread, NEW c \in Cv, CvSleep(t, c)
  PROVE  SynchInv'
<1>1. /\ cpu = t /\ pc[t] = "cvwait" /\ op[t][2] = c /\ IsCvOp(op[t])
      /\ wait_prepare(t, c, op[t][4]) /\ pc' = [pc EXCEPT ![t] = "prepared"]
      /\ UNCHANGED <<op, v, bmk_o, held, vcpu, nwaiters>>
      /\ c \in WaitList /\ c \notin Mtx
  BY SynchAssumption DEF CvSleep, At, Goto, mvars, SynchInv, PlaceInv
<1>2. WaitsOn(op[t], c)
  BY <1>1, Zenon DEF IsCvOp, WaitsOn, CvOn
<1>3. pc[t] \in {"mtxloop", "cvwait"} BY <1>1
<1>4. ~Parked(t) BY <1>1 DEF Parked
<1>5. Listed(t, c) BY <1>1, <1>4, Zenon DEF ListsMove
<1> QED BY <1>1, <1>2, <1>3, <1>5, JoinsList, Zenon

\* Coming back: whether or not the mutex can be had, the count and the list are
\* put right.
LEMMA CvDoneKeeps ==
  ASSUME SynchInv, ListsMove, CountsMove, NEW t \in Thread, NEW c \in Cv, NEW m \in Mtx,
         CvDone(t, c, m)
  PROVE  SynchInv'
<1>1. /\ cpu = t /\ pc[t] = "blocked" /\ op[t][1] = "cv" /\ op[t][2] = c
      /\ wait' = [wait EXCEPT ![t] = "no"] /\ UNCHANGED <<alive, cpu>>
      /\ wait_finish(t, c)
      /\ vcpu' = t /\ nwaiters' = [nwaiters EXCEPT ![c] = @ - 1]
      /\ pc' = [pc EXCEPT ![t] = "kern"] /\ op' = [op EXCEPT ![t] = <<"none">>]
      /\ c \in WaitList
  BY SynchAssumption, Zenon
     DEF CvDone, At, Return, rumpkern_sched, End, Begin
<1>a. Take(t, m) \/ UNCHANGED <<v, bmk_o, held>>
  BY Zenon DEF CvDone, Busy, mvars
<1>2. /\ pc'[t] = "kern" /\ op'[t] = <<"none">>
      /\ \A u \in Thread \ {t} : pc'[u] = pc[u] /\ op'[u] = op[u]
  BY <1>1 DEF SynchInv, TypeInv
<1>3. Parked(t) /\ ~Parked(t)'
  BY <1>1, <1>2 DEF Parked
<1>4. WaitsOn(op[t], c)
  BY <1>1, Zenon DEF WaitsOn, CvOn
<1>u. Unlisted(t) BY <1>1, <1>3, <1>4, Zenon DEF ListsMove
<1>5. /\ waiters' \in [WaitList -> Seq(Thread)] /\ UNCHANGED onlist
      /\ \A x \in WaitList : Range(waiters'[x]) = Range(waiters[x]) \ {t}
      /\ \A x \in WaitList : waiters'[x] # <<>> => waiters[x] # <<>>
  BY <1>u DEF Unlisted
<1>6. ListInv'
  BY <1>2, <1>3, <1>u, LeavesList
<1>7. \A u \in Thread : pc'[u] # "kern" => u # t /\ pc[u] # "kern"
  BY <1>1, <1>2 DEF SynchInv, CpuInv
<1>8. /\ v' \in [Mtx -> {0, 1}] /\ bmk_o' \in [Mtx -> Thread \cup {Nobody}]
      /\ held' \in [Thread -> SUBSET Mtx]
      /\ \A n \in Mtx : v'[n] = 0 => v[n] = 0
      /\ LockInv'
  <2>1. CASE Take(t, m)
    <3>1. /\ v' \in [Mtx -> {0, 1}] /\ bmk_o' \in [Mtx -> Thread \cup {Nobody}]
          /\ held' \in [Thread -> SUBSET Mtx]
          /\ v'[m] = 1 /\ \A n \in Mtx \ {m} : v'[n] = v[n]
          /\ LockInv'
      BY <1>7, <2>1, LockTaken
    <3>2. \A n \in Mtx : v'[n] = 0 => v[n] = 0 BY ONLY <3>1
    <3> QED BY <3>1, <3>2
  <2>2. CASE UNCHANGED <<v, bmk_o, held>>
    BY <1>7, <2>2 DEF SynchInv, TypeInv, LockInv
  <2> QED BY <1>a, <2>1, <2>2
<1>9. TypeInv' /\ CpuInv'
  <2>0. nwaiters \in [Cv -> Int] BY Zenon DEF SynchInv, TypeInv
  <2>1. nwaiters' \in [Cv -> Int] BY ONLY <1>1, <2>0, c \in Cv
  <2>2. TypeInv' BY <1>1, <1>5, <1>8, <2>1, Zenon DEF SynchInv, TypeInv
  <2>3. CpuInv' BY <1>1, <1>2 DEF SynchInv, CpuInv
  <2> QED BY <2>2, <2>3
<1>10. ASSUME NEW x
       PROVE  ~CvOn(op'[t], x) /\ (CvOn(op[t], x) <=> x = c) /\ op[t] # <<"mutex", x>>
  <2>1. ~CvOn(op'[t], x) BY <1>2, OpFacts, Zenon
  <2>2. CvOn(op[t], x) <=> x = op[t][2] BY <1>1, OpFacts, Zenon
  <2>3. op[t] # <<"mutex", x>> BY <1>1, OpFacts, Zenon
  <2> QED BY <1>1, <2>1, <2>2, <2>3, Zenon
<1>11. WaitersCounted'
  <2>1. CvLeft(t, c) BY <1>1, <1>10, Zenon DEF CvLeft
  <2> QED BY <1>2, <2>1, Zenon DEF CountsMove
<1>12. NoStrandedWaiter'
  <2> SUFFICES ASSUME NEW n \in Mtx, v'[n] = 0, waiters'[n] # <<>>
               PROVE  \E u \in Thread : op'[u] = <<"mutex", n>> /\ u \notin Range(waiters'[n])
    BY Zenon DEF NoStrandedWaiter
  <2>0. n \in WaitList BY SynchAssumption
  <2>1. waiters[n] # <<>> BY <1>5, <2>0
  <2>2. PICK u \in Thread : op[u] = <<"mutex", n>> /\ u \notin Range(waiters[n])
    BY <1>8, <2>1, Zenon DEF SynchInv, NoStrandedWaiter
  <2>3. u # t BY <1>10, <2>2, Zenon
  <2> QED BY <1>2, <1>5, <2>0, <2>2, <2>3
<1>13. PlaceInv'
  BY <1>2, Zenon DEF SynchInv, PlaceInv, Parked
<1> QED BY <1>6, <1>8, <1>9, <1>11, <1>12, <1>13 DEF SynchInv

-----------------------------------------------------------------------------
\* Every step keeps SynchInv.
LEMMA StepKeeps ==
  ASSUME SynchInv, ListsMove, CountsMove, [Next]_vars
  PROVE  SynchInv'
<1>1. CASE UNCHANGED vars
  <2>1. UNCHANGED <<alive, cpu, wait, waiters, onlist, pc, op, vcpu, v, bmk_o, nwaiters, held>>
    BY <1>1 DEF vars, wvars, cvars, lists, mvars
  <2>2. TypeInv' /\ CpuInv' BY <2>1 DEF SynchInv, TypeInv, CpuInv
  <2> QED BY <2>1, <2>2, Quiet
<1>2. CASE Tick /\ UNCHANGED <<mvars, nwaiters, held>>
  BY <1>2, SchedulerKeeps
<1>3. ASSUME NEW t \in Thread, Hypercall(t) PROVE SynchInv'
  BY <1>3, EnterKeeps, WakersKeep, CvWaitKeeps, Zenon DEF Hypercall
<1>4. ASSUME NEW t \in Thread, Continue(t) PROVE SynchInv'
  BY <1>4, LoopKeeps, RetryKeeps, CvSleepKeeps, CvDoneKeeps, EnvironmentKeeps, Zenon DEF Continue
<1>5. ASSUME NEW t \in Thread, Environment(t) PROVE SynchInv'
  BY <1>5, SchedulerKeeps, EnvironmentKeeps, Zenon DEF Environment
<1>6. ASSUME NEW t \in Thread, Dispatches(t) PROVE SynchInv'
  BY <1>6, SchedulerKeeps, Zenon DEF Dispatches
<1> QED BY <1>1, <1>2, <1>3, <1>4, <1>5, <1>6 DEF Next

\* A thread that comes back from a condition variable finds the mutex free: the
\* others are outside of the rump kernel, where they do not hold it.
LEMMA MutexFree ==
  ASSUME SynchInv, CvMtx \cap HeldAsleep = {},
         NEW t \in Thread, NEW c \in Cv, NEW m \in Mtx, CvDone(t, c, m)
  PROVE  v[m] = 0
<1>1. cpu = t /\ pc[t] = "blocked" /\ op[t][1] = "cv" /\ op[t][3] = m
  BY Zenon DEF CvDone, At
<1>2. IsCvOp(op[t])
  <2>1. Parked(t) BY <1>1, Zenon DEF Parked
  <2>2. op[t] # <<"sleep">>
    <3>1. "cv" # "sleep" OBVIOUS
    <3> QED BY <1>1, <3>1, Ops, Zenon
  <2>3. ~IsMtxOp(op[t]) BY <1>1, OpFacts, Zenon DEF IsMtxOp
  <2> QED BY <2>1, <2>2, <2>3, Zenon DEF SynchInv, PlaceInv
<1>3. m \notin HeldAsleep
  BY <1>1, <1>2 DEF IsCvOp
<1>4. \A u \in Thread : pc[u] # "kern"
  BY <1>1 DEF SynchInv, CpuInv
<1>5. \A u \in Thread : m \notin held[u]
  BY <1>3, <1>4, Zenon DEF SynchInv, LockInv
<1> QED BY <1>5 DEF SynchInv, LockInv, TypeInv

\* No assertion fails and no halt is reached.
LEMMA FaultStep ==
  ASSUME SynchInv, NoFault, CvMtx \cap HeldAsleep = {}, [Next]_vars
  PROVE  NoFault'
<1> SUFFICES ASSUME fault' # fault PROVE FALSE
  BY DEF NoFault
<1>1. Next
  BY DEF vars, wvars
<1>2. ASSUME NEW t \in Thread, Hypercall(t) PROVE FALSE
  <2>1. ASSUME NEW m \in Mtx, rumpuser_mutex_tryenter(t, m) \/ rumpuser_mutex_enter(t, m)
        PROVE  FALSE
    <3>1. m \notin held[t] /\ Check(bmk_o[m] # t, "locking against myself")
      BY <2>1, Zenon DEF rumpuser_mutex_tryenter, rumpuser_mutex_enter
    <3>2. bmk_o[m] # t
      <4>1. v[m] = 0 \/ v[m] = 1 BY DEF SynchInv, TypeInv
      <4>2. v[m] = 0 => bmk_o[m] # t
        BY WaitersAssumption DEF SynchInv, LockInv
      <4>3. v[m] = 1 => bmk_o[m] # t
        BY <3>1, Zenon DEF SynchInv, LockInv
      <4> QED BY <4>1, <4>2, <4>3
    <3> QED BY <3>1, <3>2, Zenon DEF Check
  <2>2. ASSUME NEW m \in Mtx,
               rumpuser_mutex_exit(t, m) \/ \E c \in Cv : rumpuser_cv_wait(t, c, m)
        PROVE  FALSE
    <3>1. m \in held[t] /\ Check(v[m] = 1, "mutex_exit assertion")
      BY <2>2, Zenon DEF rumpuser_mutex_exit, rumpuser_cv_wait, Give
    <3>2. v[m] = 1
      BY <3>1, Zenon DEF SynchInv, LockInv
    <3> QED BY <3>1, <3>2 DEF Check
  <2>3. ASSUME NEW c \in Cv, rumpuser_cv_signal(t, c) \/ rumpuser_cv_broadcast(t, c)
        PROVE  FALSE
    BY <2>3 DEF rumpuser_cv_signal, rumpuser_cv_broadcast
  <2> QED BY <1>2, <2>1, <2>2, <2>3, Zenon DEF Hypercall
<1>3. ASSUME NEW t \in Thread, Continue(t) PROVE FALSE
  <2>1. ASSUME NEW c \in Cv, NEW m \in Mtx, CvDone(t, c, m) PROVE FALSE
    <3>1. v[m] = 0 BY <2>1, MutexFree
    <3> QED BY <2>1, <3>1, Zenon DEF CvDone, Busy
  <2> QED BY <1>3, <2>1, Zenon
          DEF Continue, MutexLoop, MutexRetry, CvSleep, Block, SleepDone
<1>4. ASSUME NEW t \in Thread, Environment(t) \/ Dispatches(t) PROVE FALSE
  BY <1>4, Zenon DEF Environment, EnterKernel, Yield, LeaveKernel, rumpuser_clock_sleep,
              rumpuser_thread_create, Interrupt, Dispatches, Run
<1>5. CASE Tick
  BY <1>5 DEF Tick
<1> QED BY <1>1, <1>2, <1>3, <1>4, <1>5 DEF Next

-----------------------------------------------------------------------------
\* The system starts in it.
LEMMA SynchInit == Init => SynchInv
<1> SUFFICES ASSUME Init PROVE SynchInv OBVIOUS
<1> USE DEF Init, WaitersInit, CInit
<1>1. TypeInv
  BY WaitersAssumption DEF TypeInv
<1>2. PlaceInv
  BY Zenon DEF PlaceInv, Parked
<1>3. CpuInv
  BY DEF CpuInv
<1>4. LockInv
  BY WaitersAssumption DEF LockInv
<1>5. ListInv
  BY DEF ListInv, Distinct, Range, Parked
<1>6. WaitersCounted
  <2> SUFFICES ASSUME NEW c \in Cv PROVE nwaiters[c] = Cardinality({t \in Thread : InCv(t, c)})
    BY Zenon DEF WaitersCounted
  <2>1. {t \in Thread : InCv(t, c)} = {}
    BY OpFacts DEF InCv, CvOn
  <2> QED BY <2>1, FS_EmptySet, Zenon
<1>7. NoStrandedWaiter
  BY SynchAssumption DEF NoStrandedWaiter
<1> QED BY <1>1, <1>2, <1>3, <1>4, <1>5, <1>6, <1>7 DEF SynchInv

-----------------------------------------------------------------------------
(* What wait() and the wakeups do to the lists, and to the counts          *)

\* A thread waits on at most one list, and on none unless it is parked.
LEMMA OneList ==
  ASSUME SynchInv, NEW t \in Thread, NEW x \in WaitList, NEW y \in WaitList,
         t \in Range(waiters[x]), t \in Range(waiters[y])
  PROVE  x = y
<1>1. WaitsOn(op[t], x) /\ WaitsOn(op[t], y)
  BY DEF SynchInv, ListInv
<1>2. ~ op[t] \in {<<"none">>, <<"sleep">>}
  BY <1>1, OpFacts, Zenon
<1>3. (\E m : op[t] = <<"mutex", m>>) \/ op[t][1] = "cv"
  BY <1>1, Zenon DEF WaitsOn, CvOn
<1> QED BY <1>1, <1>3, OpFacts, Zenon

\* What the wakeups do.
LEMMA WakeList ==
  ASSUME SynchInv, NEW wh \in WaitList, wakeup_one(wh) \/ wakeup_all(wh)
  PROVE  Woken(wh)
<1> USE DEF SynchInv
<1>0. /\ waiters \in [WaitList -> Seq(Thread)] /\ onlist \in [Thread -> BOOLEAN]
      /\ wait \in [Thread -> {"no", "waiting", "woken", "timedout"}]
      /\ \A x \in WaitList : Distinct(waiters[x])
      /\ \A x \in WaitList, t \in Thread : t \in Range(waiters[x]) => onlist[t]
  BY DEF TypeInv, ListInv
<1>1. CASE waiters[wh] = <<>> /\ wakeup_one(wh)
  <2>1. UNCHANGED <<cvars, lists>>
    BY <1>1, Zenon DEF wakeup_one
  <2> QED BY <1>0, <1>1, <2>1 DEF cvars, lists, Woken
<1>2. ASSUME NEW S \in SUBSET Thread, NEW rest \in Seq(Thread), Distinct(rest),
             S = Range(waiters[wh]) \ Range(rest), Range(rest) \subseteq Range(waiters[wh]),
             rest # <<>> => S # {},
             wakeup(wh, S, rest)
      PROVE  Woken(wh)
  <2>1. /\ UNCHANGED <<alive, cpu, now>>
        /\ wait' \in [Thread -> {"no", "waiting", "woken", "timedout"}]
    BY <1>0, <1>2 DEF wakeup, Signal
  <2>2. /\ waiters' \in [WaitList -> Seq(Thread)]
        /\ waiters'[wh] = rest
        /\ \A x \in WaitList \ {wh} : waiters'[x] = waiters[x]
    BY <1>0, <1>2 DEF wakeup
  <2>3. /\ onlist' \in [Thread -> BOOLEAN]
        /\ \A t \in Thread : onlist'[t] <=> onlist[t] /\ t \notin S
    BY <1>0, <1>2, Zenon DEF wakeup
  <2>4. \A x \in WaitList : Distinct(waiters'[x])
    BY <1>0, <1>2, <2>2, Zenon
  <2>5. \A x \in WaitList \ {wh}, t \in Thread : t \in Range(waiters[x]) => t \notin S
    BY <1>2, OneList
  <2>6. \A x \in WaitList, t \in Thread :
          t \in Range(waiters'[x]) <=> t \in Range(waiters[x]) /\ onlist'[t]
    <3> SUFFICES ASSUME NEW x \in WaitList, NEW t \in Thread
                 PROVE  t \in Range(waiters'[x]) <=> t \in Range(waiters[x]) /\ onlist'[t]
      OBVIOUS
    <3>1. CASE x = wh
      BY <1>0, <1>2, <2>2, <2>3, <3>1
    <3>2. CASE x # wh
      BY <1>0, <2>2, <2>3, <2>5, <3>2
    <3> QED BY <3>1, <3>2
  <2>7. waiters'[wh] # <<>> =>
          \E h \in Thread : h \in Range(waiters[wh]) /\ h \notin Range(waiters'[wh])
    BY <1>2, <2>2
  <2> QED BY <2>1, <2>2, <2>3, <2>4, <2>6, <2>7 DEF Woken
<1>3. CASE waiters[wh] # <<>> /\ wakeup_one(wh)
  <2>1. /\ Tail(waiters[wh]) \in Seq(Thread) /\ Distinct(Tail(waiters[wh]))
        /\ Head(waiters[wh]) \in Range(waiters[wh])
        /\ Range(Tail(waiters[wh])) = Range(waiters[wh]) \ {Head(waiters[wh])}
    BY <1>0, <1>3, TailQueue
  <2>2. Range(waiters[wh]) \subseteq Thread
    BY <1>0, QueueElements
  <2>3. wakeup(wh, {Head(waiters[wh])}, Tail(waiters[wh]))
    BY <1>3, Zenon DEF wakeup_one
  <2>4. {Head(waiters[wh])} = Range(waiters[wh]) \ Range(Tail(waiters[wh]))
    BY <2>1
  <2>5. {Head(waiters[wh])} \in SUBSET Thread /\ {Head(waiters[wh])} # {}
        /\ Range(Tail(waiters[wh])) \subseteq Range(waiters[wh])
    BY <2>1, <2>2
  <2> HIDE DEF SynchInv
  <2> QED BY <1>2, <2>1, <2>3, <2>4, <2>5, Zenon
<1>4. CASE wakeup_all(wh)
  <2>1. <<>> \in Seq(Thread) /\ Distinct(<<>>) /\ Range(<<>>) = {}
    BY DEF Distinct, Range
  <2>2. Range(waiters[wh]) \in SUBSET Thread
    <3>1. Range(waiters[wh]) \subseteq Thread BY <1>0, QueueElements
    <3> QED BY ONLY <3>1
  <2>3. Range(waiters[wh]) = Range(waiters[wh]) \ Range(<<>>)
        /\ Range(<<>>) \subseteq Range(waiters[wh])
    BY <2>1
  <2>4. wakeup(wh, Range(waiters[wh]), <<>>)
    BY <1>4, Zenon DEF wakeup_all
  <2> HIDE DEF SynchInv
  <2> QED BY <1>2, <2>1, <2>2, <2>3, <2>4, Zenon
<1> QED BY <1>1, <1>3, <1>4

\* A list that somebody is on is not empty, and the other way round.
LEMMA NonEmpty ==
  ASSUME NEW q \in Seq(Thread), NEW r \in Seq(Thread), Range(r) \subseteq Range(q), r # <<>>
  PROVE  q # <<>>
<1>1. Head(r) \in Range(r) BY TailQueue, Zenon
<1>2. Range(<<>>) = {} BY DEF Range
<1> QED BY <1>1, <1>2

\* What the end of wait() does.
LEMMA FinishList ==
  ASSUME SynchInv, NEW t \in Thread, NEW wh \in WaitList, Parked(t),
         WaitsOn(op[t], wh), wait_finish(t, wh)
  PROVE  Unlisted(t)
<1>0. /\ waiters \in [WaitList -> Seq(Thread)] /\ onlist \in [Thread -> BOOLEAN]
      /\ \A x \in WaitList : Distinct(waiters[x])
      /\ \A x \in WaitList : t \in Range(waiters[x]) => onlist[t]
      /\ onlist[t] => t \in Range(waiters[wh])
  BY DEF SynchInv, TypeInv, ListInv
<1>1. ASSUME onlist[t]
      PROVE  /\ waiters' \in [WaitList -> Seq(Thread)] /\ UNCHANGED onlist
             /\ \A x \in WaitList : Distinct(waiters'[x])
             /\ \A x \in WaitList : Range(waiters'[x]) = Range(waiters[x]) \ {t}
  <2>1. \A x \in WaitList \ {wh} : t \notin Range(waiters[x])
    BY <1>0, <1>1, OneList
  <2>2. /\ Unlink(waiters[wh], t) \in Seq(Thread)
        /\ Range(Unlink(waiters[wh], t)) = Range(waiters[wh]) \ {t}
        /\ Distinct(Unlink(waiters[wh], t))
    <3>1. waiters[wh] \in Seq(Thread) /\ Distinct(waiters[wh]) /\ t \in Range(waiters[wh])
      BY <1>0, <1>1
    <3> QED BY <3>1, UnlinkRange, Zenon
  <2>3. /\ waiters' = [waiters EXCEPT ![wh] = Unlink(waiters[wh], t)] /\ UNCHANGED onlist
    BY <1>1 DEF wait_finish
  <2> QED BY <1>0, <2>1, <2>2, <2>3
<1>2. ASSUME ~onlist[t]
      PROVE  /\ waiters' \in [WaitList -> Seq(Thread)] /\ UNCHANGED onlist
             /\ \A x \in WaitList : Distinct(waiters'[x])
             /\ \A x \in WaitList : Range(waiters'[x]) = Range(waiters[x]) \ {t}
  BY <1>0, <1>2 DEF wait_finish
<1>4. /\ waiters' \in [WaitList -> Seq(Thread)] /\ UNCHANGED onlist
      /\ \A x \in WaitList : Distinct(waiters'[x])
      /\ \A x \in WaitList : Range(waiters'[x]) = Range(waiters[x]) \ {t}
  BY <1>1, <1>2, Zenon
<1>5. ASSUME NEW x \in WaitList, waiters'[x] # <<>> PROVE waiters[x] # <<>>
  <2>1. waiters[x] \in Seq(Thread) /\ waiters'[x] \in Seq(Thread)
    BY <1>0, <1>4
  <2>2. Range(waiters'[x]) \subseteq Range(waiters[x])
    BY <1>4
  <2> QED BY <1>5, <2>1, <2>2, NonEmpty, Zenon
<1> QED BY <1>4, <1>5 DEF Unlisted

\* What its beginning does.
LEMMA PrepareList ==
  ASSUME SynchInv, NEW t \in Thread, NEW wh \in WaitList, NEW d, ~Parked(t),
         wait_prepare(t, wh, d)
  PROVE  Listed(t, wh)
<1>0. /\ waiters \in [WaitList -> Seq(Thread)] /\ onlist \in [Thread -> BOOLEAN]
      /\ wait \in [Thread -> {"no", "waiting", "woken", "timedout"}]
      /\ \A x \in WaitList : Distinct(waiters[x])
      /\ t \notin Range(waiters[wh])
  BY DEF SynchInv, TypeInv, ListInv
<1>1. /\ UNCHANGED <<alive, cpu, now>>
      /\ wait' \in [Thread -> {"no", "waiting", "woken", "timedout"}]
  BY <1>0 DEF wait_prepare, Prepare
<1>2. /\ Append(waiters[wh], t) \in Seq(Thread)
      /\ Range(Append(waiters[wh], t)) = Range(waiters[wh]) \cup {t}
      /\ Distinct(Append(waiters[wh], t))
  <2>1. waiters[wh] \in Seq(Thread) /\ Distinct(waiters[wh]) /\ t \notin Range(waiters[wh])
    BY <1>0
  <2> QED BY <2>1, AppendQueue, Z3
<1>3. /\ waiters' = [waiters EXCEPT ![wh] = Append(waiters[wh], t)]
      /\ onlist' = [onlist EXCEPT ![t] = TRUE]
  BY DEF wait_prepare
<1> QED BY <1>0, <1>1, <1>2, <1>3 DEF Listed

\* One more thread, and one less, in the wait calls of a condition variable.
LEMMA CountMoves ==
  ASSUME WaitersCounted, TypeInv, NEW t \in Thread, NEW c \in Cv,
         \A u \in Thread \ {t} : op'[u] = op[u],
         CvEntered(t, c) \/ CvLeft(t, c)
  PROVE  WaitersCounted'
<1> DEFINE In(x) == {u \in Thread : CvOn(op[u], x)}
           InNext(x) == {u \in Thread : CvOn(op'[u], x)}
<1>1. \A x \in Cv : nwaiters[x] = Cardinality(In(x)) /\ IsFiniteSet(In(x))
  <2>1. \A x \in Cv : IsFiniteSet(In(x))
    BY SynchAssumption, FS_Subset
  <2> QED BY <2>1 DEF WaitersCounted, InCv, CvOn
<1>2. \A x \in Cv : Cardinality(In(x)) \in Nat
  BY <1>1, FS_CardinalityType
<1>3. \A x \in Cv \ {c} : InNext(x) = In(x) /\ nwaiters'[x] = nwaiters[x]
  BY Zenon DEF TypeInv, CvEntered, CvLeft
<1>4. nwaiters'[c] = Cardinality(InNext(c))
  <2>1. CASE CvEntered(t, c)
    <3>1. InNext(c) = In(c) \cup {t} /\ t \notin In(c)
      <4>1. CvOn(op'[t], c) /\ ~CvOn(op[t], c) BY <2>1 DEF CvEntered
      <4>2. \A u \in Thread : CvOn(op'[u], c) <=> u = t \/ CvOn(op[u], c) BY <4>1, Zenon
      <4> QED BY <4>1, <4>2
    <3>2. Cardinality(In(c) \cup {t}) = Cardinality(In(c)) + 1
      BY <1>1, <3>1, FS_AddElement
    <3> QED BY <1>1, <2>1, <3>1, <3>2, Zenon DEF TypeInv, CvEntered
  <2>2. CASE CvLeft(t, c)
    <3>1. InNext(c) = In(c) \ {t} /\ t \in In(c)
      BY <2>2 DEF CvLeft
    <3>2. Cardinality(In(c) \ {t}) = Cardinality(In(c)) - 1
      BY <1>1, <3>1, FS_RemoveElement
    <3> QED BY <1>1, <2>2, <3>1, <3>2, Zenon DEF TypeInv, CvLeft
  <2> QED BY <2>1, <2>2
<1>5. \A x \in Cv : nwaiters'[x] = Cardinality(InNext(x))
  BY <1>1, <1>3, <1>4
<1> QED BY <1>5, Zenon DEF WaitersCounted, InCv, CvOn

\* SynchInv is inductive.
LEMMA SynchStep == SynchInv /\ [Next]_vars => SynchInv'
<1> SUFFICES ASSUME SynchInv, [Next]_vars PROVE SynchInv' OBVIOUS
<1>1. ListsMove
  BY WakeList, FinishList, PrepareList, Zenon DEF ListsMove
<1>2. CountsMove
  <2>1. WaitersCounted /\ TypeInv BY DEF SynchInv
  <2> QED BY <2>1, CountMoves, Zenon DEF CountsMove
<1> QED BY <1>1, <1>2, StepKeeps

-----------------------------------------------------------------------------
(* What the invariant says                                                 *)

\* What SynchInv says of the lists.
LEMMA SleepersFromInv == SynchInv => SleepersKept
<1> SUFFICES ASSUME SynchInv PROVE NoDanglingWaiter
  BY DEF SynchInv, SleepersKept
<1> SUFFICES ASSUME NEW t \in Thread
             PROVE  LET on == {wh \in WaitList : t \in Range(waiters[wh])}
                    IN  /\ on # {} => pc[t] \in {"prepared", "blocked"} /\ onlist[t]
                        /\ Cardinality(on) <= 1
                        /\ \A wh \in on : Distinct(waiters[wh])
  BY Zenon DEF NoDanglingWaiter
<1> DEFINE on == {wh \in WaitList : t \in Range(waiters[wh])}
<1>1. \A wh \in on : Distinct(waiters[wh])
  BY DEF SynchInv, ListInv
<1>2. on # {} => Parked(t) /\ onlist[t]
  BY DEF SynchInv, ListInv
<1>3. Cardinality(on) <= 1
  <2>1. CASE on = {}
    BY <2>1, FS_EmptySet
  <2>2. CASE on # {}
    <3>1. PICK wh : wh \in on BY <2>2
    <3>2. on = {wh} BY <3>1, OneList
    <3>3. Cardinality({wh}) = 1 BY FS_Singleton, Zenon
    <3>4. Cardinality(on) = 1 BY <3>2, <3>3, Zenon
    <3> HIDE DEF on
    <3> QED BY <3>4
  <2> QED BY <2>1, <2>2
<1> QED BY <1>1, <1>2, <1>3, Zenon DEF Parked

\* What SynchInv says of the locks.
LEMMA LocksFromInv == SynchInv /\ NoFault => LocksSound
<1> SUFFICES ASSUME SynchInv PROVE TypeOK /\ MutualExclusion /\ VcpuWithRunner
  BY DEF SynchInv, LocksSound
<1>1. VcpuWithRunner
  BY DEF SynchInv, CpuInv, VcpuWithRunner
<1>2. MutualExclusion
  BY DEF SynchInv, LockInv, TypeInv, MutualExclusion
<1>3. nwaiters \in [Cv -> 0 .. Cardinality(Thread)]
  <2>1. ASSUME NEW c \in Cv
        PROVE  nwaiters[c] \in Nat /\ nwaiters[c] <= Cardinality(Thread)
    <3> DEFINE In == {t \in Thread : InCv(t, c)}
    <3>1. IsFiniteSet(In) /\ Cardinality(In) <= Cardinality(Thread)
      BY SynchAssumption, FS_Subset
    <3>2. Cardinality(In) \in Nat
      BY <3>1, FS_CardinalityType
    <3>3. nwaiters[c] = Cardinality(In)
      BY Zenon DEF SynchInv, WaitersCounted
    <3> QED BY <3>1, <3>2, <3>3
  <2>2. Cardinality(Thread) \in Nat
    BY SynchAssumption, FS_CardinalityType
  <2> QED BY <2>1, <2>2 DEF SynchInv, TypeInv
<1>4. TypeOK
  BY <1>3 DEF SynchInv, TypeInv, TypeOK
<1> QED BY <1>1, <1>2, <1>4

-----------------------------------------------------------------------------
\* Whatever the threads, locks and deadlines: the mutexes exclude, the waiters
\* are counted, the virtual CPU is with the thread that runs, and none of the
\* assertions and halts of rumpuser_synch.c is reached, provided that no thread
\* goes to sleep with a mutex that condition variables are used with.  (With
\* such a thread rumpuser_mutex_enter_nowrap() does halt.)
THEOREM LocksAlwaysSound ==
  ASSUME CvMtx \cap HeldAsleep = {}
  PROVE  Spec => []LocksSound
<1>1. Init => SynchInv /\ NoFault
  BY SynchInit DEF Init, WaitersInit, NoFault
<1>2. SynchInv /\ NoFault /\ [Next]_vars => (SynchInv /\ NoFault)'
  BY SynchStep, FaultStep
<1> QED BY <1>1, <1>2, LocksFromInv, PTL DEF Spec

\* In every instance, a thread that waits for a mutex is woken after the mutex
\* becomes free, by wakeup_one() in rumpuser_mutex_exit(), and no wait list keeps
\* a thread that has returned from wait().
THEOREM SleepersNeverLost == Spec => []SleepersKept
BY SynchInit, SynchStep, SleepersFromInv, PTL DEF Spec
=============================================================================
