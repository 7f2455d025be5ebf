-------------------------- MODULE RumpuserRwProofs --------------------------
(***************************************************************************)
(* The reader/writer lock keeps its types and strands no waiter, for every *)
(* set of threads and every bound on rw->v.                                *)
(***************************************************************************)
EXTENDS RumpuserRw, QueueLemmas, FiniteSetTheorems

\* A thread that has prepared to block, or has.
Parked(t) == pc[t] \in {"prepared", "blocked"}

\* The list that a hypercall p waits on.
WaitsOn(p, wh) ==
  \/ p = <<"rw", "writer">> /\ wh = "wwait"
  \/ p = <<"rw", "reader">> /\ wh = "rwait"

IsRwOp(p) == p = <<"rw", "writer">> \/ p = <<"rw", "reader">>

TypeInv ==
  /\ TypeOK
  /\ wait \in [Thread -> {"no", "waiting", "woken", "timedout"}]
  /\ DOMAIN op = Thread

\* The hypercall that a thread is in fits the point where it is.
PlaceInv ==
  \A t \in Thread :
    /\ pc[t] \in {"user", "kern"} => op[t] = <<"none">>
    /\ pc[t] = "rwloop" => IsRwOp(op[t])
    /\ Parked(t) => op[t] = <<"sleep">> \/ IsRwOp(op[t])

\* A thread inside the rump kernel does not let go of the CPU.
CpuInv ==
  /\ \A t \in Thread : pc[t] = "kern" => cpu = t
  /\ vcpu # Nobody => cpu = vcpu /\ pc[vcpu] = "kern"

\* A thread is on the list of the hypercall that it is parked in while its flag
\* says so, and on no other.
ListInv ==
  \A wh \in WaitList :
    /\ Distinct(waiters[wh])
    /\ \A t \in Thread : t \in Range(waiters[wh]) <=> Parked(t) /\ onlist[t] /\ WaitsOn(op[t], wh)

\* The inductive invariant.
RwInv == TypeInv /\ PlaceInv /\ CpuInv /\ ListInv /\ NoStrandedWaiter


\* The wakeups take off the list whom they wake, at least one if there is one.
Woken(wh) ==
  /\ UNCHANGED <<alive, cpu, now>>
  /\ wait' \in [Thread -> {"no", "waiting", "woken", "timedout"}]
  /\ waiters' \in [WaitList -> Seq(Thread)]
  /\ onlist' \in [Thread -> BOOLEAN]
  /\ \A x \in WaitList \ {wh} : waiters'[x] = waiters[x]
  /\ \A x \in WaitList : Distinct(waiters'[x])
  /\ \A x \in WaitList, t \in Thread :
       t \in Range(waiters'[x]) <=> t \in Range(waiters[x]) /\ onlist'[t]
  /\ \A t \in Thread : onlist'[t] => onlist[t]
  /\ waiters[wh] # <<>> =>
       \E h \in Thread : h \in Range(waiters[wh]) /\ h \notin Range(waiters'[wh])

\* A thread that comes out of wait() is on no list.
Unlisted(t) ==
  /\ waiters' \in [WaitList -> Seq(Thread)] /\ UNCHANGED onlist
  /\ \A x \in WaitList : Distinct(waiters'[x])
  /\ \A x \in WaitList : Range(waiters'[x]) = Range(waiters[x]) \ {t}
  /\ \A x \in WaitList : waiters'[x] # <<>> => waiters[x] # <<>>

\* A thread that is about to wait joins one list.
Listed(t, wh) ==
  /\ UNCHANGED <<alive, cpu, now>>
  /\ wait' \in [Thread -> {"no", "waiting", "woken", "timedout"}]
  /\ waiters' \in [WaitList -> Seq(Thread)]
  /\ onlist' = [onlist EXCEPT ![t] = TRUE]
  /\ \A x \in WaitList : Distinct(waiters'[x])
  /\ \A x \in WaitList \ {wh} : waiters'[x] = waiters[x]
  /\ Range(waiters'[wh]) = Range(waiters[wh]) \cup {t}

-----------------------------------------------------------------------------
\* The hypercalls differ.
LEMMA Ops ==
  /\ <<"none">> # <<"sleep">>
  /\ <<"none">> # <<"rw", "writer">> /\ <<"none">> # <<"rw", "reader">>
  /\ <<"sleep">> # <<"rw", "writer">> /\ <<"sleep">> # <<"rw", "reader">>
  /\ <<"rw", "writer">> # <<"rw", "reader">>
OBVIOUS

\* What each of them waits on.
LEMMA OpFacts ==
  /\ \A wh : ~WaitsOn(<<"none">>, wh) /\ ~WaitsOn(<<"sleep">>, wh)
  /\ \A lk \in Lk : /\ IsRwOp(<<"rw", lk>>) /\ List(lk) \in WaitList
                    /\ \A wh : WaitsOn(<<"rw", lk>>, wh) <=> wh = List(lk)
                    /\ lk = "reader" <=> lk # "writer"
<1>1. \A wh : ~WaitsOn(<<"none">>, wh) /\ ~WaitsOn(<<"sleep">>, wh)
  BY Ops, Zenon DEF WaitsOn
<1>2. ASSUME NEW lk \in Lk
      PROVE  /\ IsRwOp(<<"rw", lk>>) /\ List(lk) \in WaitList
             /\ \A wh : WaitsOn(<<"rw", lk>>, wh) <=> wh = List(lk)
             /\ lk = "reader" <=> lk # "writer"
  <2>0. "reader" # "writer" OBVIOUS
  <2>1. CASE lk = "writer"
    BY <2>0, <2>1, Ops, RwAssumption, Zenon DEF WaitsOn, IsRwOp, List
  <2>2. CASE lk = "reader"
    BY <2>0, <2>2, Ops, RwAssumption, Zenon DEF WaitsOn, IsRwOp, List
  <2> QED BY <2>1, <2>2 DEF Lk
<1> QED BY <1>1, <1>2, Zenon

\* The system starts in RwInv.
LEMMA RwInit == Init => RwInv
<1> SUFFICES ASSUME Init PROVE RwInv OBVIOUS
<1> USE DEF Init, WaitersInit, CInit
<1>1. TypeInv
  BY WaitersAssumption, RwAssumption DEF TypeInv, TypeOK
<1>2. PlaceInv
  BY Zenon DEF PlaceInv, Parked
<1>3. CpuInv
  BY DEF CpuInv
<1>4. ListInv
  BY DEF ListInv, Distinct, Range, Parked
<1>5. NoStrandedWaiter
  BY RwAssumption DEF NoStrandedWaiter
<1> QED BY <1>1, <1>2, <1>3, <1>4, <1>5 DEF RwInv

-----------------------------------------------------------------------------
(* What wait() and the wakeups do to the lists                             *)

\* A thread waits on at most one list.
LEMMA OneList ==
  ASSUME RwInv, NEW t \in Thread, NEW x \in WaitList, NEW y \in WaitList,
         t \in Range(waiters[x]), t \in Range(waiters[y])
  PROVE  x = y
<1>1. WaitsOn(op[t], x) /\ WaitsOn(op[t], y)
  BY DEF RwInv, ListInv
<1>2. CASE op[t] = <<"rw", "writer">>
  <2>1. op[t] # <<"rw", "reader">> BY <1>2, Ops, Zenon
  <2> QED BY <1>1, <2>1, Zenon DEF WaitsOn
<1>3. CASE op[t] # <<"rw", "writer">>
  BY <1>1, <1>3, Zenon DEF WaitsOn
<1> QED BY <1>2, <1>3

\* What the wakeups do.
LEMMA WakeList ==
  ASSUME RwInv, NEW wh \in WaitList, wakeup_one(wh) \/ wakeup_all(wh)
  PROVE  Woken(wh)
<1> USE DEF RwInv
<1>0. /\ waiters \in [WaitList -> Seq(Thread)] /\ onlist \in [Thread -> BOOLEAN]
      /\ wait \in [Thread -> {"no", "waiting", "woken", "timedout"}]
      /\ \A x \in WaitList : Distinct(waiters[x])
      /\ \A x \in WaitList, t \in Thread : t \in Range(waiters[x]) => onlist[t]
  BY DEF TypeInv, TypeOK, ListInv
<1>1. CASE waiters[wh] = <<>> /\ wakeup_one(wh)
  <2>1. UNCHANGED <<cvars, lists>>
    BY <1>1, Zenon DEF wakeup_one
  <2> QED BY <1>0, <1>1, <2>1 DEF cvars, lists, Woken
<1>2. ASSUME NEW S \in SUBSET Thread, NEW rest \in Seq(Thread), Distinct(rest),
             S = Range(waiters[wh]) \ Range(rest), Range(rest) \subseteq Range(waiters[wh]),
             waiters[wh] # <<>> => S # {},
             wakeup(wh, S, rest)
      PROVE  Woken(wh)
  <2>1. /\ UNCHANGED <<alive, cpu, now>>
        /\ wait' \in [Thread -> {"no", "waiting", "woken", "timedout"}]
    BY <1>0, <1>2 DEF wakeup, Signal
  <2>2. /\ waiters' \in [WaitList -> Seq(Thread)]
        /\ waiters'[wh] = rest
        /\ \A x \in WaitList \ {wh} : waiters'[x] = waiters[x]
    BY <1>0, <1>2 DEF wakeup
  <2>3. /\ onlist' \in [Thread -> BOOLEAN]
        /\ \A t \in Thread : onlist'[t] <=> onlist[t] /\ t \notin S
    BY <1>0, <1>2, Zenon DEF wakeup
  <2>4. \A x \in WaitList : Distinct(waiters'[x])
    BY <1>0, <1>2, <2>2, Zenon
  <2>5. \A x \in WaitList \ {wh}, t \in Thread : t \in Range(waiters[x]) => t \notin S
    BY <1>2, OneList
  <2>6. \A x \in WaitList, t \in Thread :
          t \in Range(waiters'[x]) <=> t \in Range(waiters[x]) /\ onlist'[t]
    <3> SUFFICES ASSUME NEW x \in WaitList, NEW t \in Thread
                 PROVE  t \in Range(waiters'[x]) <=> t \in Range(waiters[x]) /\ onlist'[t]
      OBVIOUS
    <3>1. CASE x = wh
      BY <1>0, <1>2, <2>2, <2>3, <3>1
    <3>2. CASE x # wh
      BY <1>0, <2>2, <2>3, <2>5, <3>2
    <3> QED BY <3>1, <3>2
  <2>7. waiters[wh] # <<>> =>
          \E h \in Thread : h \in Range(waiters[wh]) /\ h \notin Range(waiters'[wh])
    BY <1>2, <2>2
  <2> QED BY <2>1, <2>2, <2>3, <2>4, <2>6, <2>7 DEF Woken
<1>3. CASE waiters[wh] # <<>> /\ wakeup_one(wh)
  <2>1. /\ Tail(waiters[wh]) \in Seq(Thread) /\ Distinct(Tail(waiters[wh]))
        /\ Head(waiters[wh]) \in Range(waiters[wh])
        /\ Range(Tail(waiters[wh])) = Range(waiters[wh]) \ {Head(waiters[wh])}
    BY <1>0, <1>3, TailQueue
  <2>2. Range(waiters[wh]) \subseteq Thread
    BY <1>0, QueueElements
  <2>3. wakeup(wh, {Head(waiters[wh])}, Tail(waiters[wh]))
    BY <1>3, Zenon DEF wakeup_one
  <2>4. {Head(waiters[wh])} = Range(waiters[wh]) \ Range(Tail(waiters[wh]))
    BY <2>1
  <2>5. {Head(waiters[wh])} \in SUBSET Thread /\ {Head(waiters[wh])} # {}
        /\ Range(Tail(waiters[wh])) \subseteq Range(waiters[wh])
    BY <2>1, <2>2
  <2> HIDE DEF RwInv
  <2> QED BY <1>2, <2>1, <2>3, <2>4, <2>5, Zenon
<1>4. CASE wakeup_all(wh)
  <2>1. <<>> \in Seq(Thread) /\ Distinct(<<>>) /\ Range(<<>>) = {}
    BY DEF Distinct, Range
  <2>2. Range(waiters[wh]) \in SUBSET Thread
    BY <1>0, QueueElements
  <2>3. Range(waiters[wh]) = Range(waiters[wh]) \ Range(<<>>)
        /\ Range(<<>>) \subseteq Range(waiters[wh])
    BY <2>1
  <2>4. wakeup(wh, Range(waiters[wh]), <<>>)
    BY <1>4, Zenon DEF wakeup_all
  <2>5. waiters[wh] # <<>> => Range(waiters[wh]) # {}
    BY <1>0, TailQueue
  <2> HIDE DEF RwInv
  <2> QED BY <1>2, <2>1, <2>2, <2>3, <2>4, <2>5, Zenon
<1> QED BY <1>1, <1>3, <1>4

\* A list that somebody is on is not empty, and the other way round.
LEMMA NonEmpty ==
  ASSUME NEW q \in Seq(Thread), NEW r \in Seq(Thread), Range(r) \subseteq Range(q), r # <<>>
  PROVE  q # <<>>
<1>1. Head(r) \in Range(r) BY TailQueue, Zenon
<1>2. Range(<<>>) = {} BY DEF Range
<1> QED BY <1>1, <1>2

\* What the end of wait() does.
LEMMA FinishList ==
  ASSUME RwInv, NEW t \in Thread, NEW wh \in WaitList, Parked(t),
         WaitsOn(op[t], wh), wait_finish(t, wh)
  PROVE  Unlisted(t)
<1>0. /\ waiters \in [WaitList -> Seq(Thread)] /\ onlist \in [Thread -> BOOLEAN]
      /\ \A x \in WaitList : Distinct(waiters[x])
      /\ \A x \in WaitList : t \in Range(waiters[x]) => onlist[t]
      /\ onlist[t] => t \in Range(waiters[wh])
  BY DEF RwInv, TypeInv, TypeOK, ListInv
<1>1. ASSUME onlist[t]
      PROVE  /\ waiters' \in [WaitList -> Seq(Thread)] /\ UNCHANGED onlist
             /\ \A x \in WaitList : Distinct(waiters'[x])
             /\ \A x \in WaitList : Range(waiters'[x]) = Range(waiters[x]) \ {t}
  <2>1. \A x \in WaitList \ {wh} : t \notin Range(waiters[x])
    BY <1>0, <1>1, OneList
  <2>2. /\ Unlink(waiters[wh], t) \in Seq(Thread)
        /\ Range(Unlink(waiters[wh], t)) = Range(waiters[wh]) \ {t}
        /\ Distinct(Unlink(waiters[wh], t))
    <3>1. waiters[wh] \in Seq(Thread) /\ Distinct(waiters[wh]) /\ t \in Range(waiters[wh])
      BY <1>0, <1>1
    <3> QED BY <3>1, UnlinkRange, Zenon
  <2>3. /\ waiters' = [waiters EXCEPT ![wh] = Unlink(waiters[wh], t)] /\ UNCHANGED onlist
    BY <1>1 DEF wait_finish
  <2> QED BY <1>0, <2>1, <2>2, <2>3
<1>2. ASSUME ~onlist[t]
      PROVE  /\ waiters' \in [WaitList -> Seq(Thread)] /\ UNCHANGED onlist
             /\ \A x \in WaitList : Distinct(waiters'[x])
             /\ \A x \in WaitList : Range(waiters'[x]) = Range(waiters[x]) \ {t}
  BY <1>0, <1>2 DEF wait_finish
<1>4. /\ waiters' \in [WaitList -> Seq(Thread)] /\ UNCHANGED onlist
      /\ \A x \in WaitList : Distinct(waiters'[x])
      /\ \A x \in WaitList : Range(waiters'[x]) = Range(waiters[x]) \ {t}
  BY <1>1, <1>2, Zenon
<1>5. ASSUME NEW x \in WaitList, waiters'[x] # <<>> PROVE waiters[x] # <<>>
  <2>1. waiters[x] \in Seq(Thread) /\ waiters'[x] \in Seq(Thread)
    BY <1>0, <1>4
  <2>2. Range(waiters'[x]) \subseteq Range(waiters[x])
    BY <1>4
  <2> QED BY <1>5, <2>1, <2>2, NonEmpty, Zenon
<1> QED BY <1>4, <1>5 DEF Unlisted

\* What its beginning does.
LEMMA PrepareList ==
  ASSUME RwInv, NEW t \in Thread, NEW wh \in WaitList, NEW d, ~Parked(t),
         wait_prepare(t, wh, d)
  PROVE  Listed(t, wh)
<1>0. /\ waiters \in [WaitList -> Seq(Thread)] /\ onlist \in [Thread -> BOOLEAN]
      /\ wait \in [Thread -> {"no", "waiting", "woken", "timedout"}]
      /\ \A x \in WaitList : Distinct(waiters[x])
      /\ t \notin Range(waiters[wh])
  BY DEF RwInv, TypeInv, TypeOK, ListInv
<1>1. /\ UNCHANGED <<alive, cpu, now>>
      /\ wait' \in [Thread -> {"no", "waiting", "woken", "timedout"}]
  BY <1>0 DEF wait_prepare, Prepare
<1>2. /\ Append(waiters[wh], t) \in Seq(Thread)
      /\ Range(Append(waiters[wh], t)) = Range(waiters[wh]) \cup {t}
      /\ Distinct(Append(waiters[wh], t))
  <2>1. waiters[wh] \in Seq(Thread) /\ Distinct(waiters[wh]) /\ t \notin Range(waiters[wh])
    BY <1>0
  <2> QED BY <2>1, AppendQueue, Z3
<1>3. /\ waiters' = [waiters EXCEPT ![wh] = Append(waiters[wh], t)]
      /\ onlist' = [onlist EXCEPT ![t] = TRUE]
  BY DEF wait_prepare
<1> QED BY <1>0, <1>1, <1>2, <1>3 DEF Listed

-----------------------------------------------------------------------------
(* The steps                                                               *)

\* Steps of the scheduler and of handlers, which touch neither lock nor list.
LEMMA Quiet ==
  ASSUME RwInv, TypeInv', CpuInv', UNCHANGED <<waiters, onlist, pc, op>>, o' # Nobody \/ o' = o
  PROVE  RwInv'
<1>1. NoStrandedWaiter'
  BY Zenon DEF RwInv, NoStrandedWaiter
<1>2. ListInv'
  BY DEF RwInv, ListInv, Parked
<1>3. PlaceInv'
  BY DEF RwInv, PlaceInv, Parked
<1> QED BY <1>1, <1>2, <1>3 DEF RwInv

\* Dispatching, yielding, creating a thread, an interrupt, the clock.
LEMMA SchedulerKeeps ==
  ASSUME RwInv, UNCHANGED <<rwvars, hold>>,
         \/ Tick
         \/ \E t \in Thread : \/ Run(t) \/ Yield(t) \/ Interrupt(t)
                              \/ \E x \in Thread : rumpuser_thread_create(t, x)
  PROVE  RwInv'
<1>1. UNCHANGED <<waiters, onlist, pc, op, vcpu, v, o, hold>>
  BY Zenon DEF rwvars, lists, Tick, Run, Yield, Interrupt, rumpuser_thread_create
<1>2. TypeInv' /\ CpuInv'
  <2>1. CASE Tick
    BY <1>1, <2>1 DEF RwInv, Tick, Advance, TypeInv, TypeOK, CpuInv
  <2>2. ASSUME NEW t \in Thread, Run(t) PROVE TypeInv' /\ CpuInv'
    <3>1. /\ cpu = Nobody /\ cpu' = t /\ UNCHANGED alive
          /\ wait' \in [Thread -> {"no", "waiting", "woken", "timedout"}]
      BY <2>2 DEF RwInv, TypeInv, TypeOK, Run, Dispatch
    <3> QED BY <1>1, <3>1, WaitersAssumption DEF RwInv, TypeInv, TypeOK, CpuInv
  <2>3. ASSUME NEW t \in Thread, Yield(t) PROVE TypeInv' /\ CpuInv'
    BY <1>1, <2>3 DEF RwInv, TypeInv, TypeOK, CpuInv, Yield, At, Release
  <2>4. ASSUME NEW t \in Thread, Interrupt(t) PROVE TypeInv' /\ CpuInv'
    BY <1>1, <2>4 DEF RwInv, TypeInv, TypeOK, CpuInv, Interrupt, Signal
  <2>5. ASSUME NEW t \in Thread, NEW x \in Thread, rumpuser_thread_create(t, x)
        PROVE  TypeInv' /\ CpuInv'
    BY <1>1, <2>5 DEF RwInv, TypeInv, TypeOK, CpuInv, rumpuser_thread_create, Spawn
  <2> QED BY <2>1, <2>2, <2>3, <2>4, <2>5
<1> QED BY <1>1, <1>2, Quiet

\* A thread goes from one point to another, and no list changes.
LEMMA Moves ==
  ASSUME RwInv, NEW t \in Thread, NEW l, NEW p,
         UNCHANGED <<waiters, onlist>>, o' # Nobody \/ o' = o,
         pc'[t] = l, op'[t] = p, \A u \in Thread \ {t} : pc'[u] = pc[u] /\ op'[u] = op[u],
         TypeInv', CpuInv',
         l \in {"user", "kern"} => p = <<"none">>,
         l = "rwloop" => IsRwOp(p),
         l \in {"prepared", "blocked"} => p = <<"sleep">> \/ IsRwOp(p),
         o' = Nobody /\ op[t] = <<"rw", "writer">> => p = op[t],
         \A wh \in WaitList : Parked(t) /\ WaitsOn(op[t], wh)
                              <=> l \in {"prepared", "blocked"} /\ WaitsOn(p, wh)
  PROVE  RwInv'
<1>1. NoStrandedWaiter'
  <2> SUFFICES ASSUME o' = Nobody, waiters'["wwait"] # <<>> \/ waiters'["rwait"] # <<>>
               PROVE  \E u \in Thread : /\ op'[u] = <<"rw", "writer">>
                                        /\ u \notin Range(waiters'["wwait"])
    BY DEF NoStrandedWaiter
  <2>1. PICK u \in Thread : op[u] = <<"rw", "writer">> /\ u \notin Range(waiters["wwait"])
    BY Zenon DEF RwInv, NoStrandedWaiter
  <2>2. op'[u] = <<"rw", "writer">>
    BY <2>1, Zenon
  <2> QED BY <2>1, <2>2
<1>2. ListInv'
  <2> SUFFICES ASSUME NEW wh \in WaitList, NEW u \in Thread
               PROVE  /\ Distinct(waiters'[wh])
                      /\ u \in Range(waiters'[wh])
                           <=> Parked(u)' /\ onlist'[u] /\ WaitsOn(op'[u], wh)
    BY DEF ListInv
  <2>1. Parked(u)' /\ WaitsOn(op'[u], wh) <=> Parked(u) /\ WaitsOn(op[u], wh)
    BY Zenon DEF Parked
  <2> QED BY <2>1 DEF RwInv, ListInv
<1>3. PlaceInv'
  BY Zenon DEF RwInv, PlaceInv, Parked
<1> QED BY <1>1, <1>2, <1>3 DEF RwInv

\* Entering and leaving the rump kernel, and sleeping.
LEMMA EnvironmentKeeps ==
  ASSUME RwInv, NEW t \in Thread, UNCHANGED <<rwvars, hold>>,
         \/ EnterKernel(t) \/ LeaveKernel(t) \/ rumpuser_clock_sleep(t)
         \/ Block(t) \/ SleepDone(t)
  PROVE  RwInv'
<1> USE DEF rwvars, lists, cvars
<1>0. t # Nobody BY WaitersAssumption
<1>1. CASE EnterKernel(t)
  <2>1. /\ UNCHANGED <<waiters, onlist, v, o, hold, alive, cpu, wait, op>>
        /\ pc' = [pc EXCEPT ![t] = "kern"] /\ vcpu' = t /\ cpu = t /\ pc[t] = "user"
    BY <1>1 DEF EnterKernel, At, Goto, rumpkern_sched
  <2>2. TypeInv' /\ CpuInv'
    BY <2>1 DEF RwInv, TypeInv, TypeOK, CpuInv
  <2>3. /\ op'[t] = <<"none">> /\ op[t] = <<"none">> /\ pc'[t] = "kern"
        /\ \A u \in Thread \ {t} : pc'[u] = pc[u] /\ op'[u] = op[u]
    BY <2>1 DEF RwInv, TypeInv, TypeOK, PlaceInv
  <2>4. ~Parked(t) BY <2>1 DEF Parked
  <2> QED BY <2>1, <2>2, <2>3, <2>4, Moves, Zenon
<1>2. CASE LeaveKernel(t)
  <2>1. /\ UNCHANGED <<waiters, onlist, v, o, hold, alive, cpu, wait, op>>
        /\ pc' = [pc EXCEPT ![t] = "user"] /\ vcpu' = Nobody /\ cpu = t /\ pc[t] = "kern"
    BY <1>2 DEF LeaveKernel, At, Goto, rumpkern_unsched
  <2>2. TypeInv' /\ CpuInv'
    BY <2>1 DEF RwInv, TypeInv, TypeOK, CpuInv
  <2>3. /\ op'[t] = <<"none">> /\ op[t] = <<"none">> /\ pc'[t] = "user"
        /\ \A u \in Thread \ {t} : pc'[u] = pc[u] /\ op'[u] = op[u]
    BY <2>1 DEF RwInv, TypeInv, TypeOK, PlaceInv
  <2>4. ~Parked(t) BY <2>1 DEF Parked
  <2> QED BY <2>1, <2>2, <2>3, <2>4, Moves, Zenon
<1>3. CASE rumpuser_clock_sleep(t)
  <2>1. /\ UNCHANGED <<waiters, onlist, v, o, hold, alive, cpu>>
        /\ pc' = [pc EXCEPT ![t] = "prepared"] /\ op' = [op EXCEPT ![t] = <<"sleep">>]
        /\ vcpu' = Nobody /\ cpu = t /\ pc[t] = "kern"
        /\ wait' = [wait EXCEPT ![t] = "waiting"]
    BY <1>3 DEF rumpuser_clock_sleep, At, Begin, rumpkern_unsched, Prepare
  <2>2. TypeInv' /\ CpuInv'
    BY <2>1 DEF RwInv, TypeInv, TypeOK, CpuInv
  <2>3. op[t] = <<"none">>
    BY <2>1 DEF RwInv, PlaceInv
  <2>4. ~Parked(t) BY <2>1 DEF Parked
  <2>5. op[t] # <<"rw", "writer">>
    BY <2>3, Ops, Zenon
  <2>6. /\ pc'[t] = "prepared" /\ op'[t] = <<"sleep">>
        /\ \A u \in Thread \ {t} : pc'[u] = pc[u] /\ op'[u] = op[u]
    BY <2>1 DEF RwInv, TypeInv, TypeOK
  <2> QED BY <2>1, <2>2, <2>4, <2>5, <2>6, OpFacts, Moves
<1>4. CASE Block(t)
  <2>1. /\ UNCHANGED <<waiters, onlist, v, o, hold, alive, wait, op, vcpu>>
        /\ pc' = [pc EXCEPT ![t] = "blocked"] /\ cpu' = Nobody /\ cpu = t /\ pc[t] = "prepared"
    BY <1>4 DEF Block, At, Goto, Release
  <2>2. TypeInv' /\ CpuInv'
    BY <1>0, <2>1 DEF RwInv, TypeInv, TypeOK, CpuInv
  <2>3. /\ pc'[t] = "blocked" /\ op'[t] = op[t]
        /\ \A u \in Thread \ {t} : pc'[u] = pc[u] /\ op'[u] = op[u]
    BY <2>1 DEF RwInv, TypeInv, TypeOK
  <2>4. Parked(t) BY <2>1 DEF Parked
  <2>5. op[t] = <<"sleep">> \/ IsRwOp(op[t])
    BY <2>4, Zenon DEF RwInv, PlaceInv
  <2> QED BY <2>1, <2>2, <2>3, <2>4, <2>5, Moves
<1>5. CASE SleepDone(t)
  <2>1. /\ UNCHANGED <<waiters, onlist, v, o, hold, alive, cpu>>
        /\ pc' = [pc EXCEPT ![t] = "kern"] /\ op' = [op EXCEPT ![t] = <<"none">>]
        /\ vcpu' = t /\ cpu = t /\ pc[t] = "blocked" /\ op[t] = <<"sleep">>
        /\ wait' = [wait EXCEPT ![t] = "no"]
    BY <1>5 DEF SleepDone, At, End, Begin, rumpkern_sched, Return
  <2>2. TypeInv' /\ CpuInv'
    BY <2>1 DEF RwInv, TypeInv, TypeOK, CpuInv
  <2>3. /\ pc'[t] = "kern" /\ op'[t] = <<"none">>
        /\ \A u \in Thread \ {t} : pc'[u] = pc[u] /\ op'[u] = op[u]
    BY <2>1 DEF RwInv, TypeInv, TypeOK
  <2>4. op[t] # <<"rw", "writer">>
    BY <2>1, Ops, Zenon
  <2>5. \A wh : ~WaitsOn(op[t], wh)
    BY <2>1, OpFacts, Zenon
  <2> QED BY <2>1, <2>2, <2>3, <2>4, <2>5, Moves
<1> QED BY <1>1, <1>2, <1>3, <1>4, <1>5

\* The lock keeps its types when a thread enters.
LEMMA EntersTypes ==
  ASSUME TypeInv, NEW t \in Thread, NEW lk \in Lk, Enters(t, lk)
  PROVE  /\ v' \in -MaxV .. MaxV /\ o' \in Thread \cup {Nobody}
         /\ hold' \in [Thread -> {"no", "reader", "writer"}]
         /\ o' # Nobody \/ o' = o
         /\ lk = "writer" => o' # Nobody
<1>1. v' \in -MaxV .. MaxV
  BY RwAssumption DEF TypeInv, TypeOK, Enters
<1>2. hold' \in [Thread -> {"no", "reader", "writer"}]
  BY DEF TypeInv, TypeOK, Enters, Lk
<1> QED BY <1>1, <1>2, WaitersAssumption DEF TypeInv, TypeOK, Enters, Lk

\* rumpuser_rw_tryenter() and rumpuser_rw_enter().
LEMMA EnterKeeps ==
  ASSUME RwInv, NEW t \in Thread, NEW lk \in Lk,
         rumpuser_rw_tryenter(t, lk) \/ rumpuser_rw_enter(t, lk)
  PROVE  RwInv'
<1> USE DEF rwvars, wvars, lists, cvars
<1>0. TypeInv /\ CpuInv BY DEF RwInv
<1>1. CASE Enters(t, lk) /\ UNCHANGED wvars
  <2>1. UNCHANGED <<waiters, onlist, alive, cpu, wait, pc, op, vcpu>>
    BY <1>1
  <2>2. TypeInv' /\ CpuInv'
    BY <1>0, <1>1, <2>1, EntersTypes DEF TypeInv, TypeOK, CpuInv
  <2> QED BY <1>0, <1>1, <2>1, <2>2, EntersTypes, Quiet
<1>2. CASE Busy(lk) /\ UNCHANGED wvars
  <2>1. UNCHANGED <<waiters, onlist, alive, cpu, wait, pc, op, vcpu, v, o, hold>>
    BY <1>2 DEF Busy
  <2>2. TypeInv' /\ CpuInv'
    BY <1>0, <2>1 DEF TypeInv, TypeOK, CpuInv
  <2> QED BY <2>1, <2>2, Quiet
<1>3. CASE /\ At(t, "kern") /\ Busy(lk) /\ rumpkern_unsched(t)
           /\ Begin(t, "rwloop", <<"rw", lk>>) /\ UNCHANGED <<cvars, lists, fault>>
  <2>1. /\ UNCHANGED <<waiters, onlist, alive, cpu, wait, v, o, hold>>
        /\ pc' = [pc EXCEPT ![t] = "rwloop"] /\ op' = [op EXCEPT ![t] = <<"rw", lk>>]
        /\ vcpu' = Nobody /\ cpu = t /\ pc[t] = "kern"
    BY <1>3 DEF At, Busy, rumpkern_unsched, Begin
  <2>2. TypeInv' /\ CpuInv'
    BY <1>0, <2>1 DEF TypeInv, TypeOK, CpuInv
  <2>3. /\ pc'[t] = "rwloop" /\ op'[t] = <<"rw", lk>>
        /\ \A u \in Thread \ {t} : pc'[u] = pc[u] /\ op'[u] = op[u]
    BY <1>0, <2>1 DEF TypeInv, TypeOK
  <2>4. op[t] = <<"none">> BY <2>1 DEF RwInv, PlaceInv
  <2>5. op[t] # <<"rw", "writer">> BY <2>4, Ops, Zenon
  <2>6. ~Parked(t) BY <2>1 DEF Parked
  <2>7. IsRwOp(<<"rw", lk>>) BY OpFacts, Zenon
  <2> QED BY <2>1, <2>2, <2>3, <2>5, <2>6, <2>7, Moves
<1> QED
  BY <1>1, <1>2, <1>3, Zenon DEF rumpuser_rw_tryenter, rumpuser_rw_enter

\* A turn of the loop in rumpuser_rw_enter() that gets the lock.
LEMMA LoopEntersKeeps ==
  ASSUME RwInv, NEW t \in Thread, NEW lk \in Lk,
         At(t, "rwloop"), op[t] = <<"rw", lk>>, Enters(t, lk), rumpkern_sched(t), End(t),
         UNCHANGED <<cvars, lists>>
  PROVE  RwInv'
<1> USE DEF lists, cvars
<1>0. TypeInv /\ CpuInv BY DEF RwInv
<1>1. /\ UNCHANGED <<waiters, onlist, alive, cpu, wait>>
      /\ pc' = [pc EXCEPT ![t] = "kern"] /\ op' = [op EXCEPT ![t] = <<"none">>]
      /\ vcpu' = t /\ cpu = t /\ pc[t] = "rwloop"
  BY DEF At, rumpkern_sched, End, Begin
<1>2. TypeInv' /\ CpuInv'
  BY <1>0, <1>1, EntersTypes DEF TypeInv, TypeOK, CpuInv
<1>3. /\ pc'[t] = "kern" /\ op'[t] = <<"none">>
      /\ \A u \in Thread \ {t} : pc'[u] = pc[u] /\ op'[u] = op[u]
  BY <1>0, <1>1 DEF TypeInv, TypeOK
<1>4. ~Parked(t) BY <1>1 DEF Parked
<1>5. o' = Nobody => op[t] # <<"rw", "writer">>
  <2>1. o' = Nobody => lk = "reader" BY <1>0, EntersTypes, OpFacts
  <2> QED BY <2>1, Ops, Zenon
<1>6. o' # Nobody \/ o' = o BY <1>0, EntersTypes
<1> QED BY <1>1, <1>2, <1>3, <1>4, <1>5, <1>6, Moves

\* One that has to wait.
LEMMA LoopWaitsKeeps ==
  ASSUME RwInv, NEW t \in Thread, NEW lk \in Lk,
         At(t, "rwloop"), op[t] = <<"rw", lk>>, Busy(lk),
         wait_prepare(t, List(lk), Infinite), Goto(t, "prepared"), UNCHANGED vcpu
  PROVE  RwInv'
<1> USE DEF rwvars
<1>1. /\ UNCHANGED <<v, o, hold, op, vcpu>>
      /\ pc' = [pc EXCEPT ![t] = "prepared"] /\ cpu = t /\ pc[t] = "rwloop"
  BY DEF At, Busy, Goto
<1>2. ~Parked(t) BY <1>1 DEF Parked
<1>3. List(lk) \in WaitList /\ WaitsOn(op[t], List(lk)) /\ IsRwOp(op[t])
      /\ \A wh \in WaitList \ {List(lk)} : ~WaitsOn(op[t], wh)
  BY OpFacts, Zenon
<1>4. Listed(t, List(lk))
  BY <1>2, <1>3, PrepareList
<1>5. TypeInv' /\ CpuInv'
  BY <1>1, <1>4 DEF RwInv, TypeInv, TypeOK, CpuInv, Listed
<1>6. \A u \in Thread : Parked(u)' <=> Parked(u) \/ u = t
  BY <1>1 DEF RwInv, TypeInv, TypeOK, Parked
<1>7. PlaceInv'
  <2>1. \A u \in Thread \ {t} : pc'[u] = pc[u]
    BY <1>1 DEF RwInv, TypeInv, TypeOK
  <2>2. pc'[t] = "prepared"
    BY <1>1 DEF RwInv, TypeInv, TypeOK
  <2> QED BY <1>1, <1>3, <1>6, <2>1, <2>2 DEF RwInv, PlaceInv
<1>8. ListInv'
  <2> SUFFICES ASSUME NEW wh \in WaitList, NEW u \in Thread
               PROVE  /\ Distinct(waiters'[wh])
                      /\ u \in Range(waiters'[wh])
                           <=> Parked(u)' /\ onlist'[u] /\ WaitsOn(op[u], wh)
    BY <1>1 DEF ListInv
  <2>1. u \in Range(waiters[wh]) <=> Parked(u) /\ onlist[u] /\ WaitsOn(op[u], wh)
    BY DEF RwInv, ListInv
  <2>2. Distinct(waiters'[wh])
    BY <1>4 DEF Listed
  <2>3. u \in Range(waiters'[wh]) <=> u \in Range(waiters[wh]) \/ (u = t /\ wh = List(lk))
    BY <1>2, <1>3, <1>4, <2>1 DEF Listed
  <2>4. onlist'[u] <=> onlist[u] \/ u = t
    BY <1>4 DEF RwInv, TypeInv, TypeOK, Listed
  <2> QED BY <1>2, <1>3, <1>6, <2>1, <2>2, <2>3, <2>4
<1>9. NoStrandedWaiter'
  <2> SUFFICES ASSUME o = Nobody
               PROVE  \E u \in Thread : /\ op[u] = <<"rw", "writer">>
                                        /\ u \notin Range(waiters'["wwait"])
    BY <1>1 DEF NoStrandedWaiter
  <2>1. lk = "reader" /\ waiters["wwait"] # <<>>
    BY DEF Busy
  <2>2. PICK u \in Thread : op[u] = <<"rw", "writer">> /\ u \notin Range(waiters["wwait"])
    BY <2>1, Zenon DEF RwInv, NoStrandedWaiter
  <2>3. waiters'["wwait"] = waiters["wwait"]
    BY <1>4, <2>1, RwAssumption DEF Listed, List
  <2> QED BY <2>2, <2>3
<1> QED BY <1>5, <1>7, <1>8, <1>9 DEF RwInv

\* The thread comes back from wait().
LEMMA RetryKeeps ==
  ASSUME RwInv, NEW t \in Thread, NEW lk \in Lk, RwRetry(t, lk)
  PROVE  RwInv'
<1> USE DEF rwvars
<1>1. /\ UNCHANGED <<v, o, hold, op, vcpu, alive, cpu>>
      /\ wait' = [wait EXCEPT ![t] = "no"]
      /\ pc' = [pc EXCEPT ![t] = "rwloop"] /\ cpu = t /\ pc[t] = "blocked"
      /\ op[t] = <<"rw", lk>> /\ wait_finish(t, List(lk))
  BY DEF RwRetry, At, Goto, Return
<1>2. Parked(t) BY <1>1 DEF Parked
<1>3. List(lk) \in WaitList /\ WaitsOn(op[t], List(lk)) /\ IsRwOp(op[t])
  BY <1>1, OpFacts, Zenon
<1>4. Unlisted(t)
  BY <1>1, <1>2, <1>3, FinishList
<1>5. TypeInv' /\ CpuInv'
  BY <1>1, <1>4 DEF RwInv, TypeInv, TypeOK, CpuInv, Unlisted
<1>6. \A u \in Thread : Parked(u)' <=> Parked(u) /\ u # t
  BY <1>1 DEF RwInv, TypeInv, TypeOK, Parked
<1>7. PlaceInv'
  <2>1. \A u \in Thread \ {t} : pc'[u] = pc[u]
    BY <1>1 DEF RwInv, TypeInv, TypeOK
  <2>2. pc'[t] = "rwloop"
    BY <1>1 DEF RwInv, TypeInv, TypeOK
  <2> QED BY <1>1, <1>3, <1>6, <2>1, <2>2 DEF RwInv, PlaceInv
<1>8. ListInv'
  <2> SUFFICES ASSUME NEW wh \in WaitList, NEW u \in Thread
               PROVE  /\ Distinct(waiters'[wh])
                      /\ u \in Range(waiters'[wh])
                           <=> Parked(u)' /\ onlist'[u] /\ WaitsOn(op[u], wh)
    BY <1>1 DEF ListInv
  <2>1. u \in Range(waiters[wh]) <=> Parked(u) /\ onlist[u] /\ WaitsOn(op[u], wh)
    BY DEF RwInv, ListInv
  <2> QED BY <1>4, <1>6, <2>1 DEF Unlisted
<1>9. NoStrandedWaiter'
  <2> SUFFICES ASSUME o = Nobody, waiters'["wwait"] # <<>> \/ waiters'["rwait"] # <<>>
               PROVE  \E u \in Thread : /\ op[u] = <<"rw", "writer">>
                                        /\ u \notin Range(waiters'["wwait"])
    BY <1>1 DEF NoStrandedWaiter
  <2>1. waiters["wwait"] # <<>> \/ waiters["rwait"] # <<>>
    BY <1>4, RwAssumption DEF Unlisted
  <2>2. PICK u \in Thread : op[u] = <<"rw", "writer">> /\ u \notin Range(waiters["wwait"])
    BY <2>1, Zenon DEF RwInv, NoStrandedWaiter
  <2> QED BY <1>4, <2>2, RwAssumption DEF Unlisted
<1> QED BY <1>5, <1>7, <1>8, <1>9 DEF RwInv

\* rumpuser_rw_exit(): the writer that is woken, or the empty lists, answer for
\* whoever still waits.
LEMMA ExitKeeps ==
  ASSUME RwInv, NEW t \in Thread, rumpuser_rw_exit(t)
  PROVE  RwInv'
<1>1. /\ UNCHANGED <<pc, op, vcpu>> /\ o' = Nobody
      /\ v' = IF o = Nobody THEN v - 1 ELSE v
      /\ v' >= -MaxV
      /\ hold' = [hold EXCEPT ![t] = "no"]
  BY DEF rumpuser_rw_exit
<1>2. PICK wh \in WaitList : Woken(wh)
  BY WakeList, RwAssumption, Zenon DEF rumpuser_rw_exit, RwHandover
<1>3. TypeInv' /\ CpuInv'
  <2>1. v' \in -MaxV .. MaxV
    BY <1>1, RwAssumption DEF RwInv, TypeInv, TypeOK
  <2> QED BY <1>1, <1>2, <2>1 DEF RwInv, TypeInv, TypeOK, CpuInv, Woken
<1>4. PlaceInv'
  BY <1>1 DEF RwInv, PlaceInv, Parked
<1>5. ListInv'
  <2> SUFFICES ASSUME NEW x \in WaitList, NEW u \in Thread
               PROVE  /\ Distinct(waiters'[x])
                      /\ u \in Range(waiters'[x])
                           <=> Parked(u) /\ onlist'[u] /\ WaitsOn(op[u], x)
    BY <1>1 DEF ListInv, Parked
  <2>1. u \in Range(waiters[x]) <=> Parked(u) /\ onlist[u] /\ WaitsOn(op[u], x)
    BY DEF RwInv, ListInv
  <2> QED BY <1>2, <2>1 DEF Woken
<1>6. NoStrandedWaiter'
  <2>1. CASE waiters["wwait"] # <<>>
    <3>1. Woken("wwait")
      BY <2>1, WakeList, RwAssumption, Zenon DEF rumpuser_rw_exit, RwHandover
    <3>2. PICK h \in Thread : h \in Range(waiters["wwait"]) /\ h \notin Range(waiters'["wwait"])
      BY <2>1, <3>1 DEF Woken
    <3>3. WaitsOn(op[h], "wwait")
      BY <3>2, RwAssumption DEF RwInv, ListInv
    <3>4. "wwait" # "rwait" OBVIOUS
    <3>5. op[h] = <<"rw", "writer">>
      BY <3>3, <3>4, Zenon DEF WaitsOn
    <3> QED BY <1>1, <3>2, <3>5 DEF NoStrandedWaiter
  <2>2. CASE waiters["wwait"] = <<>>
    <3>1. wakeup_all("rwait")
      BY <2>2, Zenon DEF rumpuser_rw_exit, RwHandover
    <3>2. waiters'["rwait"] = <<>> /\ waiters'["wwait"] = <<>>
      BY <2>2, <3>1, RwAssumption DEF RwInv, TypeInv, TypeOK, wakeup_all, wakeup
    <3> QED BY <3>2 DEF NoStrandedWaiter
  <2> QED BY <2>1, <2>2
<1> QED BY <1>3, <1>4, <1>5, <1>6 DEF RwInv

\* rumpuser_rw_downgrade() and rumpuser_rw_tryupgrade().
LEMMA GradeKeeps ==
  ASSUME RwInv, NEW t \in Thread, rumpuser_rw_downgrade(t) \/ rumpuser_rw_tryupgrade(t)
  PROVE  RwInv'
<1> USE DEF wvars, lists, cvars
<1>1. /\ UNCHANGED <<waiters, onlist, alive, cpu, wait, pc, op, vcpu>>
      /\ v' \in {-1, 1} /\ o' \in {o, t}
      /\ hold' \in {[hold EXCEPT ![t] = "reader"], [hold EXCEPT ![t] = "writer"]}
  BY DEF rumpuser_rw_downgrade, rumpuser_rw_tryupgrade
<1>2. v' \in -MaxV .. MaxV
  BY <1>1, RwAssumption
<1>3. hold' \in [Thread -> {"no", "reader", "writer"}]
  BY <1>1 DEF RwInv, TypeInv, TypeOK
<1>4. TypeInv' /\ CpuInv'
  BY <1>1, <1>2, <1>3 DEF RwInv, TypeInv, TypeOK, CpuInv
<1> QED BY <1>1, <1>4, WaitersAssumption, Quiet

-----------------------------------------------------------------------------
\* RwInv is inductive.
LEMMA RwStep == RwInv /\ [Next]_vars => RwInv'
<1> SUFFICES ASSUME RwInv, [Next]_vars PROVE RwInv' OBVIOUS
<1>1. CASE UNCHANGED vars
  <2>1. UNCHANGED <<waiters, onlist, alive, cpu, wait, pc, op, vcpu, v, o, hold>>
    BY <1>1 DEF vars, rwvars, wvars, lists, cvars
  <2>2. TypeInv' /\ CpuInv'
    BY <2>1 DEF RwInv, TypeInv, TypeOK, CpuInv
  <2> QED BY <2>1, <2>2, Quiet
<1>2. CASE Tick /\ UNCHANGED <<rwvars, hold>>
  BY <1>2, SchedulerKeeps, Zenon
<1>3. ASSUME NEW t \in Thread, Hypercall(t) PROVE RwInv'
  BY <1>3, EnterKeeps, ExitKeeps, GradeKeeps, Zenon DEF Hypercall
<1>4. ASSUME NEW t \in Thread, Continue(t) PROVE RwInv'
  <2>1. ASSUME NEW lk \in Lk, RwLoop(t, lk) PROVE RwInv'
    BY <2>1, LoopEntersKeeps, LoopWaitsKeeps, Zenon DEF RwLoop
  <2> QED BY <1>4, <2>1, RetryKeeps, EnvironmentKeeps, Zenon DEF Continue
<1>5. ASSUME NEW t \in Thread, Environment(t) PROVE RwInv'
  BY <1>5, SchedulerKeeps, EnvironmentKeeps, Zenon DEF Environment
<1>6. ASSUME NEW t \in Thread, Dispatches(t) PROVE RwInv'
  BY <1>6, SchedulerKeeps, Zenon DEF Dispatches
<1> QED BY <1>1, <1>2, <1>3, <1>4, <1>5, <1>6, Zenon DEF Next

\* What RwInv says of the lists and of the virtual CPU.
LEMMA SoundFromInv == RwInv => RwSound
<1> SUFFICES ASSUME RwInv PROVE NoDanglingWaiter /\ VcpuWithRunner
  BY DEF RwInv, TypeInv, RwSound
<1>1. VcpuWithRunner
  BY DEF RwInv, CpuInv, VcpuWithRunner
<1>2. ASSUME NEW t \in Thread
      PROVE  LET on == {wh \in WaitList : t \in Range(waiters[wh])}
             IN  /\ on # {} => pc[t] \in {"prepared", "blocked"} /\ onlist[t]
                 /\ Cardinality(on) <= 1
                 /\ \A wh \in on : Distinct(waiters[wh])
  <2> DEFINE on == {wh \in WaitList : t \in Range(waiters[wh])}
  <2>1. \A wh \in on : Distinct(waiters[wh])
    BY DEF RwInv, ListInv
  <2>2. on # {} => Parked(t) /\ onlist[t]
    BY DEF RwInv, ListInv
  <2>3. Cardinality(on) <= 1
    <3>1. CASE on = {}
      BY <3>1, FS_EmptySet
    <3>2. CASE on # {}
      <4>1. PICK wh : wh \in on BY <3>2
      <4>2. on = {wh} BY <4>1, OneList
      <4>3. Cardinality({wh}) = 1 BY FS_Singleton, Zenon
      <4>4. Cardinality(on) = 1 BY <4>2, <4>3, Zenon
      <4> HIDE DEF on
      <4> QED BY <4>4
    <3> QED BY <3>1, <3>2
  <2> QED BY <2>1, <2>2, <2>3, Zenon DEF Parked
<1> QED BY <1>1, <1>2, Zenon DEF NoDanglingWaiter

\* Whatever the threads and the bound on rw->v: whenever rumpuser_rw_exit() has
\* left the lock without an owner, whoever still waits for it has a writer that
\* was woken and will wake them in turn; no list keeps a thread that has returned
\* from wait(), and the virtual CPU is with the thread that runs.
THEOREM RwAlwaysSound == Spec => []RwSound
BY RwInit, RwStep, SoundFromInv, PTL DEF Spec
=============================================================================
