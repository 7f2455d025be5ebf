------------------------- MODULE BmkSchedStepProofs --------------------------
(***************************************************************************)
(* The initial state of the scheduler, and what each of its calls does to  *)
(* its invariant.                                                          *)
(***************************************************************************)
EXTENDS BmkSched, QueueLemmas, WellFoundedInduction

-----------------------------------------------------------------------------
(* What a thread does: creating, blocking, yielding, exiting and joining   *)

\* A set of positions that is not empty has a first one.
LEMMA FirstPosition ==
  ASSUME NEW S \in SUBSET Nat, S # {}
  PROVE  Min(S) \in S /\ \A y \in S : Min(S) <= y
<1> DEFINE R == OpToRel(<, Nat)
<1>1. IsWellFoundedOn(R, Nat)
  BY NatLessThanWellFounded
<1>2. \A x, y \in Nat : <<y, x>> \in R <=> y < x
  BY DEF OpToRel
<1> HIDE DEF R
<1>3. PICK x \in S : \A y \in S : ~ (<<y, x>> \in R)
  BY <1>1, WFMin
<1>4. x \in S /\ \A y \in S : x <= y
  <2>1. x \in Nat
    OBVIOUS
  <2>2. ASSUME NEW y \in S PROVE x <= y
    <3>1. y \in Nat
      OBVIOUS
    <3>2. ~(y < x)
      BY <1>2, <1>3, <2>1, <3>1
    <3> QED
      BY <2>1, <3>1, <3>2
  <2> QED
    BY <2>2
<1> QED
  BY <1>4 DEF Min

\* The state that bmk_sched_startmain() hands over satisfies the invariant.
LEMMA InitInv == Init => IInv
<1> SUFFICES ASSUME Init PROVE IInv
  OBVIOUS
<1> USE SchedAssumption
<1>1. TypeOK
  BY DEF Init, TypeOK, Fault, Flag, QMASK, Label, Time, NoWake, BMK_SCHED_BLOCK_INFTIME
<1>2. Range(runq) = {} /\ Range(timeq) = {} /\ Distinct(runq) /\ Distinct(timeq)
  BY DEF Init, Range, Distinct
<1>3. QueueFlagsAgree /\ NoOversleep
  BY <1>2 DEF Init, QueueFlagsAgree, QMASK, NoOversleep
<1>4. LifeInv /\ OthersInv /\ CurrentInv /\ WakeInv /\ JoinedInv /\ JoiningInv
  BY DEF Init, LifeInv, OthersInv, CurrentInv, WakeInv, JoinedInv, JoiningInv, InJoin, OffQueues,
         OnOneQueue, QMASK
<1>5. TimeqInv
  BY DEF Init, TimeqInv
<1>6. StacksOwned /\ NoFault
  BY DEF Init, StacksOwned, NoFault
<1> QED
  BY <1>1, <1>3, <1>4, <1>5, <1>6, Zenon DEF IInv

\* A step that leaves the queues and the queue flags alone keeps them in accord.
LEMMA SameQueues ==
  ASSUME QueueFlagsAgree, UNCHANGED <<runq, timeq, blockq>>,
         \A u \in Thread : flags'[u] \cap QMASK = flags[u] \cap QMASK
  PROVE  QueueFlagsAgree'
<1>1. \A u \in Thread, q \in QMASK : q \in flags'[u] <=> q \in flags[u]
  OBVIOUS
<1>2. "RUNQ" \in QMASK /\ "TIMEQ" \in QMASK /\ "BLOCKQ" \in QMASK
  BY DEF QMASK
<1>3. \A u \in Thread :
        /\ "RUNQ" \in flags'[u] <=> u \in Range(runq')
        /\ "TIMEQ" \in flags'[u] <=> u \in Range(timeq')
        /\ "BLOCKQ" \in flags'[u] <=> u \in blockq'
  BY <1>1, <1>2, Zenon DEF QueueFlagsAgree
<1> QED
  BY <1>3 DEF QueueFlagsAgree

\* The same for the stacks.
LEMMA SameStacks ==
  ASSUME StacksOwned, UNCHANGED stacks, threadq \subseteq Thread,
         zombieq \subseteq Thread, threadq' \cup zombieq' = threadq \cup zombieq,
         \A u \in Thread : "EXTSTACK" \in flags'[u] <=> "EXTSTACK" \in flags[u]
  PROVE  StacksOwned'
BY DEF StacksOwned

\* The same for who joins whom.
LEMMA SameJoins ==
  ASSUME TypeOK, JoinedInv, JoiningInv, UNCHANGED <<threadq, joinwq, wanted>>,
         \A u \in Thread : "MUSTJOIN" \in flags'[u] <=> "MUSTJOIN" \in flags[u],
         \A u \in Thread : InJoin(u)' <=> InJoin(u),
         \A u \in Thread : pc'[u] = "join" <=> pc[u] = "join"
  PROVE  JoinedInv' /\ JoiningInv'
<1>1. \A u \in Thread : wanted[u] \in Thread
  BY DEF TypeOK
<1>2. joinwq \subseteq Thread
  BY DEF TypeOK
<1>3. JoinedInv'
  BY <1>1 DEF JoinedInv
<1> QED
  BY <1>2, <1>3, Zenon DEF JoiningInv

\* Time passes.
LEMMA TickInv ==
  ASSUME IInv, Tick
  PROVE  IInv'
<1>1. NoFault'
  BY DEF IInv, TypeOK, NoFault, Tick, queues, locals
<1>2. TypeOK'
  BY <1>1 DEF IInv, TypeOK, Fault, NoFault, Label, Tick, queues, locals
<1>3. QueueFlagsAgree'
  BY DEF IInv, TypeOK, QueueFlagsAgree, Tick, queues, locals
<1>4. LifeInv'
  BY DEF IInv, TypeOK, LifeInv, Tick, queues, locals
<1>5. OthersInv'
  BY Zenon DEF IInv, TypeOK, OthersInv, OffQueues, OnOneQueue, Tick, queues, locals
<1>6. CurrentInv'
  BY Zenon DEF IInv, TypeOK, CurrentInv, OffQueues, OnOneQueue, Tick, queues,
         locals
<1>7. WakeInv'
  BY DEF IInv, TypeOK, WakeInv, Tick, queues, locals
<1>8. JoinedInv'
  BY DEF IInv, TypeOK, JoinedInv, Tick, queues, locals
<1>9. JoiningInv'
  BY DEF IInv, TypeOK, JoiningInv, InJoin, Tick, queues, locals
<1>10. TimeqInv'
  BY DEF IInv, TypeOK, TimeqInv, BeingWoken, Tick, queues, locals
<1>11. NoOversleep'
  BY DEF IInv, TypeOK, NoOversleep, Tick, queues, locals
<1>12. StacksOwned'
  BY DEF IInv, TypeOK, StacksOwned, Tick, queues, locals
<1> QED
  BY Zenon, <1>1, <1>2, <1>3, <1>4, <1>5, <1>6, <1>7, <1>8, <1>9, <1>10, <1>11,
     <1>12 DEF IInv

\* bmk_platform_cpu_block() returns.
LEMMA CpuUnblockInv ==
  ASSUME IInv, CpuUnblock
  PROVE  IInv'
<1>1. NoFault'
  BY DEF IInv, TypeOK, NoFault, CpuUnblock, queues, locals
<1>2. TypeOK'
  BY <1>1 DEF IInv, TypeOK, Fault, NoFault, Label, CpuUnblock, queues, locals
<1>3. QueueFlagsAgree'
  BY DEF IInv, TypeOK, QueueFlagsAgree, CpuUnblock, queues, locals
<1>4. LifeInv'
  BY DEF IInv, TypeOK, LifeInv, CpuUnblock, queues, locals
<1>5. OthersInv'
  BY Zenon DEF IInv, TypeOK, OthersInv, OffQueues, OnOneQueue, CpuUnblock, queues,
         locals
<1>6. CurrentInv'
  BY Zenon DEF IInv, TypeOK, CurrentInv, OffQueues, OnOneQueue, CpuUnblock, queues,
         locals
<1>7. WakeInv'
  BY DEF IInv, TypeOK, WakeInv, CpuUnblock, queues, locals
<1>8. JoinedInv'
  BY DEF IInv, TypeOK, JoinedInv, CpuUnblock, queues, locals
<1>9. JoiningInv'
  BY DEF IInv, TypeOK, JoiningInv, InJoin, CpuUnblock, queues, locals
<1>10. TimeqInv'
  BY DEF IInv, TypeOK, TimeqInv, BeingWoken, CpuUnblock, queues, locals
<1>11. NoOversleep'
  BY DEF IInv, TypeOK, NoOversleep, CpuUnblock, queues, locals
<1>12. StacksOwned'
  BY DEF IInv, TypeOK, StacksOwned, CpuUnblock, queues, locals
<1> QED
  BY Zenon, <1>1, <1>2, <1>3, <1>4, <1>5, <1>6, <1>7, <1>8, <1>9, <1>10, <1>11,
     <1>12 DEF IInv

\* bmk_sched_block() enters schedule().
LEMMA BlockInv ==
  ASSUME IInv, NEW t \in Thread, Block(t)
  PROVE  IInv'
<1>1. NoFault'
  BY Zenon DEF IInv, TypeOK, NoFault, Block, At, Check, queues, locals, LifeInv
<1>2. TypeOK'
  BY <1>1 DEF IInv, TypeOK, Fault, NoFault, Label, Block, At, Check, queues,
              locals
<1>3. QueueFlagsAgree'
  BY Zenon DEF IInv, TypeOK, QueueFlagsAgree, Block, At, Check, queues, locals
<1>4. LifeInv'
  BY Zenon DEF IInv, TypeOK, LifeInv, Block, At, Check, queues, locals
<1>5. OthersInv'
  BY Zenon DEF IInv, TypeOK, OthersInv, OffQueues, OnOneQueue, Block, At, Check,
         queues, locals
<1>6. CurrentInv'
  BY Zenon DEF IInv, TypeOK, CurrentInv, OffQueues, OnOneQueue, Block, At, Check,
         queues, locals
<1>7. WakeInv'
  BY Zenon DEF IInv, TypeOK, WakeInv, Block, At, Check, queues, locals
<1>8. JoinedInv'
  BY Zenon DEF IInv, TypeOK, JoinedInv, Block, At, Check, queues, locals
<1>9. JoiningInv'
  BY ZenonT(30) DEF IInv, TypeOK, JoiningInv, InJoin, Block, At, Check, queues, locals
<1>10. TimeqInv'
  BY Zenon DEF IInv, TypeOK, TimeqInv, BeingWoken, Block, At, Check, queues, locals
<1>11. NoOversleep'
  BY Zenon DEF IInv, TypeOK, NoOversleep, Block, At, Check, queues, locals
<1>12. StacksOwned'
  BY Zenon DEF IInv, TypeOK, StacksOwned, Block, At, Check, queues, locals
<1> QED
  BY Zenon, <1>1, <1>2, <1>3, <1>4, <1>5, <1>6, <1>7, <1>8, <1>9, <1>10, <1>11,
     <1>12 DEF IInv

\* A thread calls bmk_sched_exit_withtls().
LEMMA ExitInv ==
  ASSUME IInv, NEW t \in Thread, Exit(t)
  PROVE  IInv'
<1>1. NoFault'
  BY DEF IInv, TypeOK, NoFault, Exit, At, Check, queues, locals
<1>2. TypeOK'
  BY <1>1 DEF IInv, TypeOK, Fault, NoFault, Label, Exit, At, Check, queues,
              locals
<1>3. QueueFlagsAgree'
  BY DEF IInv, TypeOK, QueueFlagsAgree, Exit, At, Check, queues, locals
<1>4. LifeInv'
  BY DEF IInv, TypeOK, LifeInv, Exit, At, Check, queues, locals
<1>5. OthersInv'
  BY DEF IInv, TypeOK, OthersInv, OffQueues, OnOneQueue, Exit, At, Check,
         queues, locals
<1>6. CurrentInv'
  BY DEF IInv, TypeOK, CurrentInv, OffQueues, OnOneQueue, Exit, At, Check,
         queues, locals
<1>7. WakeInv'
  BY DEF IInv, TypeOK, WakeInv, Exit, At, Check, queues, locals
<1>8. JoinedInv'
  BY DEF IInv, TypeOK, JoinedInv, Exit, At, Check, queues, locals
<1>9. JoiningInv'
  BY DEF IInv, TypeOK, JoiningInv, InJoin, Exit, At, Check, queues, locals
<1>10. TimeqInv'
  BY DEF IInv, TypeOK, TimeqInv, BeingWoken, Exit, At, Check, queues, locals
<1>11. NoOversleep'
  BY DEF IInv, TypeOK, NoOversleep, Exit, At, Check, queues, locals
<1>12. StacksOwned'
  BY DEF IInv, TypeOK, StacksOwned, Exit, At, Check, queues, locals
<1> QED
  BY Zenon, <1>1, <1>2, <1>3, <1>4, <1>5, <1>6, <1>7, <1>8, <1>9, <1>10, <1>11,
     <1>12 DEF IInv

\* A thread that need not be joined dies.
LEMMA DieInv ==
  ASSUME IInv, NEW t \in Thread, ExitDie(t)
  PROVE  IInv'
<1>1. NoFault'
  BY Zenon DEF IInv, TypeOK, NoFault, ExitDie, Dies, At, Check, queues, locals,
         CurrentInv, OffQueues
<1>2. TypeOK'
  BY <1>1 DEF IInv, TypeOK, Fault, NoFault, Label, ExitDie, Dies, At, Check,
              queues, locals, Flag, QMASK
<1>3. QueueFlagsAgree'
  <2>1. \A u \in Thread : flags'[u] \cap QMASK = flags[u] \cap QMASK
    BY Zenon DEF IInv, TypeOK, ExitDie, Dies, QMASK
  <2> QED
    BY <2>1, SameQueues, Zenon DEF IInv, ExitDie, Dies
<1>4. LifeInv'
  BY Zenon DEF IInv, TypeOK, LifeInv, ExitDie, Dies, At, Check, queues, locals
<1>5. OthersInv'
  BY Zenon DEF IInv, TypeOK, OthersInv, OffQueues, OnOneQueue, ExitDie, Dies, At,
         Check, queues, locals
<1>6. CurrentInv'
  BY Zenon DEF IInv, TypeOK, CurrentInv, OffQueues, OnOneQueue, ExitDie, Dies, At,
         Check, queues, locals, QMASK
<1>7. WakeInv'
  BY Zenon DEF IInv, TypeOK, WakeInv, ExitDie, Dies, At, Check, queues, locals
<1>8. JoinedInv'
  <2>1. wanted[t] = t /\ "MUSTJOIN" \notin flags[t]
    BY DEF IInv, JoiningInv, InJoin, ExitDie, At
  <2>2. \A u \in Thread : wanted[u] # u => u # t /\ wanted[u] # t
    BY <2>1 DEF IInv, JoinedInv
  <2> QED
    BY <2>2, Zenon DEF IInv, TypeOK, JoinedInv, ExitDie, Dies, locals
<1>9. JoiningInv'
  BY ZenonT(40) DEF IInv, TypeOK, JoiningInv, InJoin, ExitDie, Dies, At, Check, queues,
         locals
<1>10. TimeqInv'
  BY Zenon DEF IInv, TypeOK, TimeqInv, BeingWoken, ExitDie, Dies, At, Check, queues,
         locals
<1>11. NoOversleep'
  BY Zenon DEF IInv, TypeOK, NoOversleep, ExitDie, Dies, At, Check, queues, locals
<1>12. StacksOwned'
  <2>1. threadq' \cup zombieq' = threadq \cup zombieq
    BY Zenon DEF IInv, LifeInv, ExitDie, Dies, At
  <2>2. \A u \in Thread : "EXTSTACK" \in flags'[u] <=> "EXTSTACK" \in flags[u]
    BY Zenon DEF IInv, TypeOK, ExitDie, Dies
  <2> QED
    BY <2>1, <2>2, SameStacks, Zenon DEF IInv, TypeOK, ExitDie, Dies
<1> QED
  BY Zenon, <1>1, <1>2, <1>3, <1>4, <1>5, <1>6, <1>7, <1>8, <1>9, <1>10, <1>11,
     <1>12 DEF IInv

\* A thread calls bmk_sched_join().
LEMMA JoinInv ==
  ASSUME IInv, NEW t \in Thread, NEW x \in Thread, Join(t, x)
  PROVE  IInv'
<1>1. NoFault'
  BY DEF IInv, TypeOK, NoFault, Join, At, Check, queues, locals
<1>2. TypeOK'
  BY <1>1 DEF IInv, TypeOK, Fault, NoFault, Label, Join, At, Check, queues,
              locals
<1>3. QueueFlagsAgree'
  BY DEF IInv, TypeOK, QueueFlagsAgree, Join, At, Check, queues, locals
<1>4. LifeInv'
  BY DEF IInv, TypeOK, LifeInv, Join, At, Check, queues, locals
<1>5. OthersInv'
  BY Zenon DEF IInv, TypeOK, OthersInv, OffQueues, OnOneQueue, Join, At, Check,
         queues, locals
<1>6. CurrentInv'
  BY DEF IInv, TypeOK, CurrentInv, OffQueues, OnOneQueue, Join, At, Check,
         queues, locals
<1>7. WakeInv'
  BY DEF IInv, TypeOK, WakeInv, Join, At, Check, queues, locals
<1>8. JoinedInv'
  <2>1. t \in threadq /\ wanted[t] = t
    BY DEF IInv, LifeInv, JoiningInv, InJoin, Join, At
  <2>2. /\ wanted'[t] = x /\ x # t
        /\ \A u \in Thread \ {t} : wanted'[u] = wanted[u]
        /\ \A u \in Thread \ {x} : wanted[u] # x
    BY DEF IInv, TypeOK, Join
  <2>3. ASSUME NEW u \in Thread, wanted'[u] # u, NEW v \in Thread,
               v # wanted'[u], wanted'[v] = wanted'[u]
        PROVE  v = u
    BY <2>1, <2>2, <2>3 DEF IInv, TypeOK, JoinedInv
  <2> QED
    BY <2>1, <2>2, <2>3 DEF IInv, TypeOK, JoinedInv, Join, queues
<1>9. JoiningInv'
  BY DEF IInv, TypeOK, JoiningInv, InJoin, Join, At, Check, queues, locals
<1>10. TimeqInv'
  BY DEF IInv, TypeOK, TimeqInv, BeingWoken, Join, At, Check, queues, locals
<1>11. NoOversleep'
  BY DEF IInv, TypeOK, NoOversleep, Join, At, Check, queues, locals
<1>12. StacksOwned'
  BY DEF IInv, TypeOK, StacksOwned, Join, At, Check, queues, locals
<1> QED
  BY Zenon, <1>1, <1>2, <1>3, <1>4, <1>5, <1>6, <1>7, <1>8, <1>9, <1>10, <1>11,
     <1>12 DEF IInv

\* A step that moves x from one queue to another and says so in its flags.
LEMMA MovedThread ==
  ASSUME QueueFlagsAgree, NEW x \in Thread,
         \A u \in Thread \ {x} : flags'[u] \cap QMASK = flags[u] \cap QMASK,
         \A p, q \in flags'[x] \cap QMASK : p = q,
         Distinct(runq'), Distinct(timeq'),
         Range(runq') \ {x} = Range(runq) \ {x},
         Range(timeq') \ {x} = Range(timeq) \ {x},
         blockq' \ {x} = blockq \ {x},
         "RUNQ" \in flags'[x] <=> x \in Range(runq'),
         "TIMEQ" \in flags'[x] <=> x \in Range(timeq'),
         "BLOCKQ" \in flags'[x] <=> x \in blockq'
  PROVE  QueueFlagsAgree'
<1>1. "RUNQ" \in QMASK /\ "TIMEQ" \in QMASK /\ "BLOCKQ" \in QMASK
  BY DEF QMASK
<1>2. ASSUME NEW u \in Thread \ {x}
      PROVE  /\ "RUNQ" \in flags'[u] <=> u \in Range(runq')
             /\ "TIMEQ" \in flags'[u] <=> u \in Range(timeq')
             /\ "BLOCKQ" \in flags'[u] <=> u \in blockq'
             /\ \A p, q \in flags'[u] \cap QMASK : p = q
  <2>1. \A q \in QMASK : q \in flags'[u] <=> q \in flags[u]
    OBVIOUS
  <2>2. /\ u \in Range(runq') <=> u \in Range(runq)
        /\ u \in Range(timeq') <=> u \in Range(timeq)
        /\ u \in blockq' <=> u \in blockq
    OBVIOUS
  <2> QED
    BY <1>1, <2>1, <2>2, Zenon DEF QueueFlagsAgree
<1> QED
  BY <1>2 DEF QueueFlagsAgree

\* A thread yields.
LEMMA YieldInv ==
  ASSUME IInv, NEW t \in Thread, Yield(t)
  PROVE  IInv'
<1>0. OffQueues(t) /\ "RUNNING" \in flags[t] /\ t = current
  BY Zenon DEF IInv, CurrentInv, Yield, At
<1>11. NoFault'
  BY <1>0 DEF IInv, TypeOK, NoFault, Yield, At, Check, queues, locals
<1>12. TypeOK'
  BY <1>11 DEF IInv, TypeOK, Fault, NoFault, Label, Yield, At, Check, queues,
               locals, Flag, QMASK
<1>13. QueueFlagsAgree'
  <2>1. t \notin Range(runq) /\ t \notin Range(timeq) /\ t \notin blockq
    BY <1>0 DEF IInv, QueueFlagsAgree, OffQueues, QMASK
  <2>2. Range(runq') = Range(runq) \cup {t} /\ Distinct(runq')
    <3>1. runq \in Seq(Thread) /\ Distinct(runq) /\ runq' = Append(runq, t)
      BY Zenon DEF IInv, TypeOK, QueueFlagsAgree, Yield
    <3> QED
      BY <2>1, <3>1, AppendQueue
  <2>3. flags'[t] \cap QMASK = {"RUNQ"}
    BY <1>0, Zenon DEF IInv, TypeOK, Yield, OffQueues, QMASK
  <2>4. \A u \in Thread \ {t} : flags'[u] = flags[u]
    BY Zenon DEF IInv, TypeOK, Yield
  <2>5. "RUNQ" \in flags'[t] /\ "TIMEQ" \notin flags'[t] /\ "BLOCKQ" \notin flags'[t]
    BY <2>3 DEF QMASK
  <2>6. UNCHANGED <<timeq, blockq>> /\ Distinct(timeq)
    BY Zenon DEF Yield, IInv, QueueFlagsAgree
  <2> QED
    BY <2>1, <2>2, <2>3, <2>4, <2>5, <2>6, MovedThread, Zenon DEF IInv
<1>14. LifeInv'
  BY Zenon DEF IInv, TypeOK, LifeInv, Yield, At, Check, queues, locals
<1>15. OthersInv'
  BY ZenonT(40) DEF IInv, TypeOK, OthersInv, OffQueues, OnOneQueue, Yield, At, Check,
         queues, locals
<1>16. CurrentInv'
  BY <1>0 DEF IInv, TypeOK, CurrentInv, OffQueues, OnOneQueue, Yield, At,
              Check, queues, locals, QMASK
<1>17. WakeInv'
  BY Zenon DEF IInv, TypeOK, WakeInv, Yield, At, Check, queues, locals
<1>18. JoinedInv'
  BY Zenon DEF IInv, TypeOK, JoinedInv, Yield, At, Check, queues, locals
<1>19. JoiningInv'
  BY ZenonT(40) DEF IInv, TypeOK, JoiningInv, InJoin, Yield, At, Check, queues, locals
<1>20. TimeqInv'
  BY Zenon DEF IInv, TypeOK, TimeqInv, BeingWoken, Yield, At, Check, queues, locals
<1>21. NoOversleep'
  BY Zenon DEF IInv, TypeOK, NoOversleep, Yield, At, Check, queues, locals
<1>22. StacksOwned'
  BY Zenon DEF IInv, TypeOK, StacksOwned, Yield, At, Check, queues, locals
<1> QED
  BY Zenon, <1>11, <1>12, <1>13, <1>14, <1>15, <1>16, <1>17, <1>18, <1>19, <1>20,
     <1>21, <1>22 DEF IInv

\* The deadlines of timeq are finite and ascending.
Ascending(q, w) ==
  /\ \A i \in DOMAIN q : w[q[i]] \in Nat
  /\ \A i, j \in DOMAIN q : i < j => w[q[i]] <= w[q[j]]

\* timeq_sorted_insert() keeps timeq sorted.
LEMMA SortedInsert ==
  ASSUME timeq \in Seq(Thread), Distinct(timeq), NEW t \in Thread,
         t \notin Range(timeq), NEW d \in Nat, wakeup \in [Thread -> Time],
         Ascending(timeq, wakeup)
  PROVE  LET r == timeq_sorted_insert(t, d)
         IN  /\ r \in Seq(Thread)
             /\ Range(r) = Range(timeq) \cup {t}
             /\ Distinct(r)
             /\ Ascending(r, [wakeup EXCEPT ![t] = d])
<1> DEFINE later == {i \in DOMAIN timeq : wakeup[timeq[i]] > d}
           pos == IF later = {} THEN Len(timeq) + 1 ELSE Min(later)
           r == InsertBefore(timeq, pos, t)
           w == [wakeup EXCEPT ![t] = d]
<1>1. DOMAIN timeq = 1 .. Len(timeq) /\ Len(timeq) \in Nat
  BY QueueElements
<1>2. later \in SUBSET Nat
  BY <1>1
<1>3. /\ pos \in 1 .. Len(timeq) + 1
      /\ \A i \in DOMAIN timeq : i < pos => i \notin later
      /\ pos \in DOMAIN timeq => pos \in later
  <2>1. CASE later = {}
    BY <1>1, <2>1
  <2>2. CASE later # {}
    <3>1. pos \in later /\ \A y \in later : pos <= y
      BY <1>2, <2>2, FirstPosition, Zenon
    <3> HIDE DEF pos
    <3>2. pos \in 1 .. Len(timeq)
      BY <1>1, <3>1, Zenon
    <3> HIDE DEF later
    <3> QED
      BY <1>1, <1>2, <3>1, <3>2
  <2> QED
    BY <2>1, <2>2, Zenon
<1> HIDE DEF pos
<1>4. /\ \A i \in DOMAIN timeq : i < pos => wakeup[timeq[i]] <= d
      /\ \A i \in DOMAIN timeq : i >= pos => wakeup[timeq[i]] >= d
  <2>1. ASSUME NEW i \in DOMAIN timeq, i < pos PROVE wakeup[timeq[i]] <= d
    BY <1>3, <2>1 DEF Ascending
  <2>2. ASSUME NEW i \in DOMAIN timeq, i >= pos PROVE wakeup[timeq[i]] >= d
    <3>1. pos \in DOMAIN timeq
      BY <1>1, <1>3, <2>2
    <3>2. wakeup[timeq[pos]] > d /\ wakeup[timeq[pos]] \in Nat
      BY <1>3, <3>1, Zenon DEF Ascending
    <3>3. wakeup[timeq[i]] \in Nat /\ (i > pos => wakeup[timeq[pos]] <= wakeup[timeq[i]])
      BY <1>1, <3>1, Zenon DEF Ascending
    <3> QED
      BY <1>1, <1>3, <2>2, <3>2, <3>3
  <2> QED
    BY <2>1, <2>2, Zenon
<1>5. /\ r \in Seq(Thread)
      /\ Range(r) = Range(timeq) \cup {t}
      /\ Distinct(r)
      /\ DOMAIN r = 1 .. Len(timeq) + 1
      /\ \A i \in DOMAIN r :
           r[i] = IF i < pos THEN timeq[i] ELSE IF i = pos THEN t ELSE timeq[i - 1]
  BY <1>3, InsertQueue
<1> HIDE DEF r, later
<1>6. \A i \in DOMAIN timeq : w[timeq[i]] = wakeup[timeq[i]]
  <2>1. \A i \in DOMAIN timeq : timeq[i] \in Thread /\ timeq[i] # t
    BY <1>1, QueueElements, SMTT(30)
  <2> QED
    BY <2>1
<1>7. w[t] = d
  OBVIOUS
<1> HIDE DEF w
<1>8. ASSUME NEW i \in DOMAIN r
      PROVE  /\ w[r[i]] \in Nat
             /\ i < pos => i \in DOMAIN timeq /\ w[r[i]] = wakeup[timeq[i]]
             /\ i = pos => w[r[i]] = d
             /\ i > pos => i - 1 \in DOMAIN timeq /\ w[r[i]] = wakeup[timeq[i - 1]]
  <2>1. CASE i < pos
    BY <1>1, <1>3, <1>5, <1>6, <2>1 DEF Ascending
  <2>2. CASE i = pos
    BY <1>1, <1>3, <1>5, <1>7, <2>2
  <2>3. CASE i > pos
    <3>1. i - 1 \in DOMAIN timeq /\ r[i] = timeq[i - 1]
      BY <1>1, <1>3, <1>5, <2>3, SMTT(30)
    <3> QED
      BY <1>1, <1>3, <1>5, <1>6, <2>3, <3>1 DEF Ascending
  <2>4. i \in Nat /\ pos \in Nat
    BY <1>1, <1>3, <1>5
  <2>5. i < pos \/ i = pos \/ i > pos
    BY <2>4
  <2> QED
    BY <2>1, <2>2, <2>3, <2>5, Zenon
<1>9. ASSUME NEW i \in DOMAIN r, NEW j \in DOMAIN r, i < j
      PROVE  w[r[i]] <= w[r[j]]
  <2>1. i \in Nat /\ j \in Nat /\ pos \in Nat
    BY <1>1, <1>3, <1>5
  <2>2. CASE j < pos
    BY <1>8, <1>9, <2>1, <2>2 DEF Ascending
  <2>3. CASE i > pos
    <3>1. /\ i - 1 \in DOMAIN timeq /\ w[r[i]] = wakeup[timeq[i - 1]]
          /\ j - 1 \in DOMAIN timeq /\ w[r[j]] = wakeup[timeq[j - 1]]
      BY <1>8, <1>9, <2>1, <2>3
    <3>2. i - 1 < j - 1
      BY <1>9, <2>1
    <3> QED
      BY <3>1, <3>2, Zenon DEF Ascending
  <2>4. CASE i < pos /\ j > pos
    <3>1. /\ i \in DOMAIN timeq /\ w[r[i]] = wakeup[timeq[i]]
          /\ j - 1 \in DOMAIN timeq /\ w[r[j]] = wakeup[timeq[j - 1]]
      BY <1>8, <2>1, <2>4, Zenon
    <3>2. i < j - 1
      BY <2>1, <2>4
    <3> QED
      BY <3>1, <3>2, Zenon DEF Ascending
  <2>5. CASE i < pos /\ j = pos
    BY <1>4, <1>8, <2>5, Zenon
  <2>6. CASE i = pos /\ j > pos
    <3>1. /\ w[r[i]] = d
          /\ j - 1 \in DOMAIN timeq /\ w[r[j]] = wakeup[timeq[j - 1]]
      BY <1>8, <2>1, <2>6, Zenon
    <3>2. j - 1 >= pos
      BY <2>1, <2>6
    <3> QED
      BY <1>4, <3>1, <3>2, Zenon
  <2> QED
    BY <1>9, <2>1, <2>2, <2>3, <2>4, <2>5, <2>6
<1>10. Ascending(r, w)
  BY <1>8, <1>9, Zenon DEF Ascending
<1>11. timeq_sorted_insert(t, d) = r
  BY DEF timeq_sorted_insert, r, pos, later
<1> QED
  BY <1>5, <1>10, <1>11, Zenon DEF w

\* A thread that is not woken at the moment has its deadline in wakeup.
LEMMA TimeqAscending ==
  ASSUME TypeOK, TimeqInv, \A x \in Thread : ~BeingWoken(x)
  PROVE  Ascending(timeq, wakeup)
<1>1. \A i \in DOMAIN timeq : timeq[i] \in Thread
  BY QueueElements DEF TypeOK
<1> QED
  BY <1>1 DEF TypeOK, TimeqInv, Ascending, Time, BMK_SCHED_BLOCK_INFTIME

\* What clear_runnable() leaves a thread with names one queue.
LEMMA OnlyTimeq ==
  ASSUME NEW F, F \cap {"RUNQ", "TIMEQ", "BLOCKQ"} = {"TIMEQ"}
  PROVE  /\ "RUNQ" \notin F /\ "TIMEQ" \in F /\ "BLOCKQ" \notin F
         /\ \A p, q \in F \cap QMASK : p = q
BY DEF QMASK

\* The same for a thread that blocks without a deadline.
LEMMA OnlyBlockq ==
  ASSUME NEW F, F \cap {"RUNQ", "TIMEQ", "BLOCKQ"} = {"BLOCKQ"}
  PROVE  /\ "RUNQ" \notin F /\ "TIMEQ" \notin F /\ "BLOCKQ" \in F
         /\ \A p, q \in F \cap QMASK : p = q
BY DEF QMASK

\* A thread announces that it will block: bmk_sched_blockprepare_timeout() from
\* wherever it is called.
LEMMA PrepareInv ==
  ASSUME IInv, NEW t \in Thread, At(t, "user") \/ At(t, "gateprep") \/ At(t, "join"),
         NEW d \in Nat \cup {BMK_SCHED_BLOCK_INFTIME},
         NEW ret \in {"user", "gate", "join"}, blockprepare(t, d, ret),
         ret = "join" <=> pc[t] = "join",
         joinwq' = IF ret = "join" THEN joinwq \cup {t} ELSE joinwq,
         UNCHANGED <<threadq, zombieq, runq, stacks, current, mode, wanted, wk,
                     clock, until>>
  PROVE  IInv'
<1>0. OffQueues(t) /\ "RUNNING" \in flags[t] /\ t = current /\ mode = "thread"
  BY DEF IInv, CurrentInv, At
<1>1. t \notin Range(runq) /\ t \notin Range(timeq) /\ t \notin blockq
  BY <1>0 DEF IInv, QueueFlagsAgree, OffQueues, QMASK
<1>2. Ascending(timeq, wakeup)
  BY <1>0, TimeqAscending, Zenon DEF IInv, At, BeingWoken
<1>3. /\ timeq' \in Seq(Thread) /\ Distinct(timeq')
      /\ timeq' = timeq \/ Range(timeq') = Range(timeq) \cup {t}
      /\ Ascending(timeq', wakeup')
      /\ Range(timeq') = IF d # BMK_SCHED_BLOCK_INFTIME THEN Range(timeq) \cup {t}
                        ELSE Range(timeq)
  <2>1. CASE d # BMK_SCHED_BLOCK_INFTIME
    <3>1. /\ timeq' = timeq_sorted_insert(t, d) /\ d \in Nat
          /\ wakeup' = [wakeup EXCEPT ![t] = d]
      BY <2>1, Zenon DEF blockprepare, Check
    <3>2. timeq \in Seq(Thread) /\ Distinct(timeq) /\ wakeup \in [Thread -> Time]
      BY DEF IInv, TypeOK, QueueFlagsAgree
    <3> QED
      BY <1>1, <1>2, <2>1, <3>1, <3>2, SortedInsert, Zenon
  <2>2. CASE d = BMK_SCHED_BLOCK_INFTIME
    <3>1. timeq' = timeq /\ wakeup' = [wakeup EXCEPT ![t] = d]
      BY <2>2, Zenon DEF blockprepare, Check
    <3>2. \A i \in DOMAIN timeq : timeq[i] \in Thread /\ timeq[i] # t
      BY <1>1, QueueElements DEF IInv, TypeOK
    <3>3. \A i \in DOMAIN timeq : wakeup'[timeq[i]] = wakeup[timeq[i]]
      BY <3>1, <3>2, Zenon DEF IInv, TypeOK
    <3>4. Ascending(timeq', wakeup')
      <4>1. \A i \in DOMAIN timeq : wakeup'[timeq[i]] \in Nat
        BY <1>2, <3>3, Zenon DEF Ascending
      <4>2. \A i, j \in DOMAIN timeq : i < j => wakeup'[timeq[i]] <= wakeup'[timeq[j]]
        BY <1>2, <3>3, Zenon DEF Ascending
      <4> QED
        BY <3>1, <4>1, <4>2, Zenon DEF Ascending
    <3> QED
      BY <2>2, <3>1, <3>4, Zenon DEF IInv, TypeOK, QueueFlagsAgree
  <2> QED
    BY <2>1, <2>2, Zenon
<1>4. /\ flags' = [flags EXCEPT ![t] = @ \cup {"BLOCKPREP",
                       IF d # BMK_SCHED_BLOCK_INFTIME THEN "TIMEQ" ELSE "BLOCKQ"}]
      /\ blockq' = IF d # BMK_SCHED_BLOCK_INFTIME THEN blockq ELSE blockq \cup {t}
  BY Zenon DEF blockprepare, Check
<1>5. flags'[t] \cap QMASK = {IF d # BMK_SCHED_BLOCK_INFTIME THEN "TIMEQ" ELSE "BLOCKQ"}
  BY <1>0, <1>4, Zenon DEF IInv, TypeOK, OffQueues, QMASK
<1>6. \A u \in Thread \ {t} : flags'[u] = flags[u]
  BY <1>4, Zenon DEF IInv, TypeOK
<1>7. pc' = [pc EXCEPT ![t] = "prep"] /\ cont' = [cont EXCEPT ![t] = ret]
  BY Zenon DEF blockprepare, Check
<1>11. NoFault'
  BY <1>0, Zenon DEF IInv, TypeOK, NoFault, At, Check, blockprepare, LifeInv,
              OffQueues, QMASK
<1>12. TypeOK'
  BY <1>11, <1>3, <1>4, Zenon DEF IInv, TypeOK, Fault, NoFault, Label, At, Check,
                           blockprepare, Flag, QMASK, Time
<1>13. QueueFlagsAgree'
  <2>1. /\ "RUNQ" \notin flags'[t]
        /\ "TIMEQ" \in flags'[t] <=> d # BMK_SCHED_BLOCK_INFTIME
        /\ "BLOCKQ" \in flags'[t] <=> d = BMK_SCHED_BLOCK_INFTIME
        /\ \A p, q \in flags'[t] \cap QMASK : p = q
    <3>1. CASE d # BMK_SCHED_BLOCK_INFTIME
      <4>1. flags'[t] \cap {"RUNQ", "TIMEQ", "BLOCKQ"} = {"TIMEQ"}
        BY <1>5, <3>1, Zenon DEF QMASK
      <4> QED
        BY <3>1, <4>1, OnlyTimeq, Zenon
    <3>2. CASE d = BMK_SCHED_BLOCK_INFTIME
      <4>1. flags'[t] \cap {"RUNQ", "TIMEQ", "BLOCKQ"} = {"BLOCKQ"}
        BY <1>5, <3>2, Zenon DEF QMASK
      <4> QED
        BY <3>2, <4>1, OnlyBlockq, Zenon
    <3> QED
      BY <3>1, <3>2, Zenon
  <2>2. /\ runq' = runq /\ Distinct(runq')
        /\ "RUNQ" \in flags'[t] <=> t \in Range(runq')
        /\ "TIMEQ" \in flags'[t] <=> t \in Range(timeq')
        /\ "BLOCKQ" \in flags'[t] <=> t \in blockq'
    BY <1>1, <1>3, <1>4, <2>1, Zenon DEF IInv, QueueFlagsAgree
  <2>3. /\ Range(timeq') \ {t} = Range(timeq) \ {t}
        /\ blockq' \ {t} = blockq \ {t}
    BY <1>3, <1>4, Zenon
  <2> QED
    BY <1>3, <1>6, <2>1, <2>2, <2>3, MovedThread, Zenon DEF IInv
<1>14. LifeInv'
  BY <1>0, <1>4, <1>7, ZenonT(30) DEF IInv, TypeOK, LifeInv, At
<1>15. OthersInv'
  <2> SUFFICES ASSUME NEW u \in Thread \ {current'}
               PROVE  /\ pc'[u] \in {"none", "dead", "virgin", "block", "yield"}
                      /\ "RUNNING" \notin flags'[u]
                      /\ pc'[u] \in {"none", "dead"} => OffQueues(u)'
                      /\ pc'[u] \in {"virgin", "block", "yield"} => OnOneQueue(u)'
    BY Zenon DEF OthersInv
  <2>1. u \in Thread \ {current} /\ u # t
    BY <1>0
  <2>2. flags'[u] = flags[u] /\ pc'[u] = pc[u]
    BY <1>6, <1>7, <2>1, Zenon DEF IInv, TypeOK
  <2> QED
    BY <2>1, <2>2, Zenon DEF IInv, OthersInv, OffQueues, OnOneQueue
<1>16. CurrentInv'
  <2>1. OnOneQueue(t)'
    BY <1>5 DEF OnOneQueue, QMASK
  <2>2. "RUNNING" \in flags'[t] /\ pc'[t] = "prep"
    BY <1>0, <1>4, <1>7, Zenon DEF IInv, TypeOK
  <2> QED
    BY <1>0, <2>1, <2>2, Zenon DEF CurrentInv
<1>17. WakeInv'
  BY <1>0, <1>7, Zenon DEF IInv, TypeOK, WakeInv
<1>18. JoinedInv'
  <2>1. \A u \in Thread : "MUSTJOIN" \in flags[u] => "MUSTJOIN" \in flags'[u]
    BY <1>4, Zenon DEF IInv, TypeOK
  <2> QED
    BY <2>1, Zenon DEF IInv, TypeOK, JoinedInv
<1>19. JoiningInv'
  BY <1>0, <1>7 DEF IInv, TypeOK, JoiningInv, InJoin, At
<1>20. TimeqInv'
  <2>1. \A i \in DOMAIN timeq' : wakeup'[timeq'[i]] \in Nat
    BY <1>3, Zenon DEF Ascending
  <2>2. \A i \in DOMAIN timeq' : wakeup'[timeq'[i]] # BMK_SCHED_BLOCK_INFTIME
    <3>1. \A n \in Nat : n # BMK_SCHED_BLOCK_INFTIME
      BY DEF BMK_SCHED_BLOCK_INFTIME
    <3> QED
      BY <2>1, <3>1, Zenon
  <2>3. \A i, j \in DOMAIN timeq' : i < j => wakeup'[timeq'[i]] <= wakeup'[timeq'[j]]
    BY <1>3, Zenon DEF Ascending
  <2> QED
    BY <2>2, <2>3, Zenon DEF TimeqInv
<1>21. NoOversleep'
  BY <1>0 DEF NoOversleep
<1>22. StacksOwned'
  <2>1. \A u \in Thread : "EXTSTACK" \in flags'[u] <=> "EXTSTACK" \in flags[u]
    BY <1>4 DEF IInv, TypeOK
  <2> QED
    BY <2>1, SameStacks, Zenon DEF IInv, TypeOK
<1> QED
  BY Zenon, <1>11, <1>12, <1>13, <1>14, <1>15, <1>16, <1>17, <1>18, <1>19, <1>20,
     <1>21, <1>22 DEF IInv

\* The three callers of bmk_sched_blockprepare_timeout().
LEMMA BlockPrepareInv ==
  ASSUME IInv, NEW t \in Thread,
         BlockPrepare(t) \/ ExitGateBlock(t) \/ JoinWait(t)
  PROVE  IInv'
<1> USE SchedAssumption
<1>1. CASE BlockPrepare(t)
  <2>1. PICK d \in Deadline \cup {BMK_SCHED_BLOCK_INFTIME} : blockprepare(t, d, "user")
    BY <1>1 DEF BlockPrepare
  <2>2. At(t, "user") /\ pc[t] # "join"
    BY <1>1 DEF BlockPrepare, At
  <2> QED
    BY <1>1, <2>1, <2>2, PrepareInv, Zenon DEF BlockPrepare
<1>2. CASE ExitGateBlock(t)
  <2>1. At(t, "gateprep") /\ pc[t] # "join"
    BY <1>2 DEF ExitGateBlock, At
  <2> QED
    BY <1>2, <2>1, PrepareInv, Zenon DEF ExitGateBlock
<1>3. CASE JoinWait(t)
  <2>1. At(t, "join") /\ pc[t] = "join"
    BY <1>3, Zenon DEF JoinWait, At
  <2> QED
    BY <1>3, <2>1, PrepareInv, Zenon DEF JoinWait
<1> QED
  BY <1>1, <1>2, <1>3, Zenon

\* bmk_sched_create() makes a new thread runnable.
LEMMA CreateInv ==
  ASSUME IInv, NEW t \in Thread, NEW x \in Thread, Create(t, x)
  PROVE  IInv'
<1>1. /\ mode = "thread" /\ t = current /\ pc[t] = "user" /\ pc[x] = "none"
      /\ stacks' = stacks \cup ({x} \ ExtStack)
      /\ threadq' = threadq \cup {x}
      /\ runq' = Append(runq, x)
      /\ wakeup' = [wakeup EXCEPT ![x] = BMK_SCHED_BLOCK_INFTIME]
      /\ pc' = [pc EXCEPT ![x] = "virgin"]
      /\ UNCHANGED <<zombieq, timeq, blockq, joinwq, current, mode, cont, wanted, wk,
                     clock, until, fault>>
  BY DEF Create, At, locals
<1>2. /\ flags' = [flags EXCEPT ![x] = flags'[x]]
      /\ flags'[x] \subseteq {"RUNQ", "MUSTJOIN", "EXTSTACK"}
      /\ "RUNQ" \in flags'[x]
      /\ "EXTSTACK" \in flags'[x] <=> x \in ExtStack
  BY DEF Create, IInv, TypeOK
<1>3. \A u \in Thread \ {x} : flags'[u] = flags[u]
  BY <1>2 DEF IInv, TypeOK
<1>4. /\ flags[x] = {} /\ x \notin threadq /\ x \notin zombieq /\ x # current
      /\ t \in threadq
  BY <1>1, Zenon DEF IInv, LifeInv
<1>5. x \notin Range(runq) /\ x \notin Range(timeq) /\ x \notin blockq
  BY <1>4 DEF IInv, QueueFlagsAgree
<1>6. runq' \in Seq(Thread) /\ Range(runq') = Range(runq) \cup {x} /\ Distinct(runq')
  <2>1. runq \in Seq(Thread) /\ Distinct(runq)
    BY DEF IInv, TypeOK, QueueFlagsAgree
  <2> QED
    BY <1>1, <1>5, <2>1, AppendQueue
<1>7. pc'[x] = "virgin" /\ \A u \in Thread \ {x} : pc'[u] = pc[u]
  BY <1>1, Zenon DEF IInv, TypeOK
<1>8. flags'[x] \cap QMASK = {"RUNQ"}
  BY <1>2 DEF QMASK
<1>9. /\ wakeup' \in [Thread -> Time]
      /\ \A u \in Thread \ {x} : wakeup'[u] = wakeup[u]
  BY <1>1, Zenon DEF IInv, TypeOK, Time
<1>11. NoFault'
  BY <1>1 DEF IInv, NoFault
<1>12. TypeOK'
  <2>1. flags' \in [Thread -> SUBSET Flag]
    BY <1>2, Zenon DEF IInv, TypeOK, Flag, QMASK
  <2> QED
    BY <1>1, <1>6, <1>9, <2>1, Zenon DEF IInv, TypeOK, Label
<1>13. QueueFlagsAgree'
  <2>1. /\ Range(runq') \ {x} = Range(runq) \ {x}
        /\ Range(timeq') \ {x} = Range(timeq) \ {x}
        /\ blockq' \ {x} = blockq \ {x}
        /\ Distinct(timeq')
    BY <1>1, <1>6, Zenon DEF IInv, QueueFlagsAgree
  <2>2. /\ "RUNQ" \in flags'[x] <=> x \in Range(runq')
        /\ "TIMEQ" \in flags'[x] <=> x \in Range(timeq')
        /\ "BLOCKQ" \in flags'[x] <=> x \in blockq'
    BY <1>1, <1>2, <1>5, <1>6, Zenon
  <2>3. \A p, q \in flags'[x] \cap QMASK : p = q
    BY <1>8
  <2> QED
    BY <1>3, <1>6, <2>1, <2>2, <2>3, MovedThread, Zenon DEF IInv
<1>14. LifeInv'
  <2>1. ASSUME NEW u \in Thread, u # x
        PROVE  /\ u \in threadq' <=> u \in threadq
               /\ u \in zombieq' <=> u \in zombieq
               /\ pc'[u] = pc[u] /\ flags'[u] = flags[u]
    BY <1>1, <1>3, <1>7, <2>1, Zenon
  <2>2. /\ x \in threadq' /\ x \notin zombieq' /\ pc'[x] = "virgin"
        /\ "DEAD" \notin flags'[x] /\ "BLOCKPREP" \notin flags'[x]
        /\ "TIMEDOUT" \notin flags'[x] /\ "TIMEQ" \notin flags'[x]
    BY <1>1, <1>2, <1>4, <1>7, Zenon
  <2> QED
    BY <2>1, <2>2, Zenon DEF IInv, LifeInv
<1>15. OthersInv'
  <2>1. "RUNNING" \notin flags'[x] /\ OnOneQueue(x)'
    BY <1>2, <1>8, Zenon DEF OnOneQueue, QMASK
  <2>2. ASSUME NEW u \in Thread \ {current}, u # x
        PROVE  /\ pc[u] \in {"none", "dead", "virgin", "block", "yield"}
               /\ "RUNNING" \notin flags'[u]
               /\ pc[u] \in {"none", "dead"} => OffQueues(u)'
               /\ pc[u] \in {"virgin", "block", "yield"} => OnOneQueue(u)'
    BY <1>3, <2>2, Zenon DEF IInv, OthersInv, OffQueues, OnOneQueue
  <2> QED
    BY <1>1, <1>4, <1>7, <2>1, <2>2, Zenon DEF OthersInv
<1>16. CurrentInv'
  BY <1>1, <1>3, <1>4, <1>7, ZenonT(30) DEF IInv, TypeOK, CurrentInv, OffQueues, OnOneQueue
<1>17. WakeInv'
  BY <1>1, <1>4, <1>7, Zenon DEF IInv, TypeOK, WakeInv
<1>18. JoinedInv'
  <2>1. \A u \in Thread : wanted[u] # u => wanted[u] # x
    BY <1>4, Zenon DEF IInv, JoinedInv
  <2> QED
    BY <1>1, <1>3, <2>1, SMTT(30) DEF IInv, TypeOK, JoinedInv
<1>19. JoiningInv'
  BY <1>1, <1>7, ZenonT(40) DEF IInv, TypeOK, JoiningInv, InJoin
<1>20. TimeqInv'
  <2>1. \A i \in DOMAIN timeq : timeq[i] \in Thread \ {x}
    BY <1>5, QueueElements DEF IInv, TypeOK
  <2>2. \A u \in Thread : ~BeingWoken(u) /\ ~BeingWoken(u)'
    BY <1>1, <1>4, <1>7, Zenon DEF BeingWoken
  <2> QED
    BY <1>1, <1>9, <2>1, <2>2, Zenon DEF IInv, TimeqInv
<1>21. NoOversleep'
  BY <1>1 DEF NoOversleep
<1>22. StacksOwned'
  <2>1. /\ threadq' \cup zombieq' = (threadq \cup zombieq) \cup {x}
        /\ x \notin threadq \cup zombieq
        /\ threadq \cup zombieq \subseteq Thread
    BY <1>1, <1>4, Zenon DEF IInv, TypeOK
  <2>2. stacks = {u \in threadq \cup zombieq : "EXTSTACK" \notin flags[u]}
    BY DEF IInv, StacksOwned
  <2>3. ASSUME NEW u
        PROVE  u \in stacks' <=> u \in threadq' \cup zombieq' /\ "EXTSTACK" \notin flags'[u]
    <3>1. CASE u = x
      BY <1>1, <1>2, <2>1, <2>2, <3>1, Zenon
    <3>2. CASE u # x
      BY <1>1, <1>3, <2>1, <2>2, <3>2, Zenon
    <3> QED
      BY <3>1, <3>2, Zenon
  <2> QED
    BY <2>3 DEF StacksOwned
<1> QED
  BY Zenon, <1>11, <1>12, <1>13, <1>14, <1>15, <1>16, <1>17, <1>18, <1>19, <1>20,
     <1>21, <1>22 DEF IInv

-----------------------------------------------------------------------------
(* Waking, and the turns of schedule()                                     *)

\* set_runnable() finds every live thread in a state it can handle.
LEMMA QueueOfLive ==
  ASSUME IInv, NEW x \in threadq
  PROVE  /\ x \in Thread
         /\ QueueOf(flags[x]) \in {"none", "TIMEQ", "BLOCKQ"}
         /\ QueueOf(flags[x]) = "none" => x \notin Range(timeq) /\ x \notin blockq
<1>1. x \in Thread /\ pc[x] \notin {"none", "dead"}
  BY DEF IInv, TypeOK, LifeInv
<1>2. OnOneQueue(x) \/ ("RUNNING" \in flags[x] /\ OffQueues(x))
  <2>1. CASE x # current
    BY <1>1, <2>1, Zenon DEF IInv, TypeOK, OthersInv
  <2>2. CASE x = current
    BY <1>1, <2>2, Zenon DEF IInv, TypeOK, CurrentInv
  <2> QED
    BY <2>1, <2>2, Zenon
<1>3. CASE OnOneQueue(x)
  <2>1. PICK q \in QMASK : flags[x] \cap QMASK = {q}
    BY <1>3 DEF OnOneQueue
  <2>2. /\ "RUNQ" \in flags[x] <=> q = "RUNQ"
        /\ "TIMEQ" \in flags[x] <=> q = "TIMEQ"
        /\ "BLOCKQ" \in flags[x] <=> q = "BLOCKQ"
    BY <2>1 DEF QMASK
  <2>3. q \in {"RUNQ", "TIMEQ", "BLOCKQ"}
    BY DEF QMASK
  <2> QED
    BY <1>1, <2>1, <2>2, <2>3, Zenon DEF IInv, QueueFlagsAgree, QueueOf
<1>4. CASE "RUNNING" \in flags[x] /\ OffQueues(x)
  <2>1. "RUNQ" \notin flags[x] /\ "TIMEQ" \notin flags[x] /\ "BLOCKQ" \notin flags[x]
    BY <1>4 DEF OffQueues, QMASK
  <2> QED
    BY <1>1, <1>4, <2>1, Zenon DEF IInv, QueueFlagsAgree, QueueOf, OffQueues
<1> QED
  BY <1>1, <1>2, <1>3, <1>4, Zenon

\* What moving a thread to runq does to the queues.
LEMMA MoveFacts ==
  ASSUME TypeOK, QueueFlagsAgree, NEW x \in Thread, NEW tq \in {"TIMEQ", "BLOCKQ"},
         tq = QueueOf(flags[x]), MoveToRunq(x, tq)
  PROVE  /\ fault' = fault
         /\ runq' \in Seq(Thread) /\ timeq' \in Seq(Thread) /\ blockq' \subseteq blockq
         /\ flags' = [flags EXCEPT ![x] = (flags[x] \ QMASK) \cup {"RUNQ"}]
         /\ flags[x] \cap QMASK = {tq}
         /\ flags'[x] \cap QMASK = {"RUNQ"}
         /\ QueueFlagsAgree'
         /\ Range(timeq') = Range(timeq) \ {x}
         /\ \A i, j \in DOMAIN timeq' : i < j =>
              \E k, l \in DOMAIN timeq : /\ k < l
                                        /\ timeq'[i] = timeq[k]
                                        /\ timeq'[j] = timeq[l]
<1>1. flags[x] \cap QMASK = {tq}
  BY DEF QueueOf
<1>2. /\ "RUNQ" \notin flags[x]
      /\ "TIMEQ" \in flags[x] <=> tq = "TIMEQ"
      /\ "BLOCKQ" \in flags[x] <=> tq = "BLOCKQ"
  BY <1>1 DEF QMASK
<1>3. /\ x \notin Range(runq)
      /\ x \in Range(timeq) <=> tq = "TIMEQ"
      /\ x \in blockq <=> tq = "BLOCKQ"
  BY <1>2 DEF QueueFlagsAgree
<1>4. Moved(x, tq, (flags[x] \ QMASK) \cup {"RUNQ"}, Append(runq, x))
  BY <1>3, Zenon DEF MoveToRunq, OnQueue
<1>5. /\ fault' = fault
      /\ flags' = [flags EXCEPT ![x] = (flags[x] \ QMASK) \cup {"RUNQ"}]
      /\ runq' = Append(runq, x)
      /\ timeq' = IF tq = "TIMEQ" THEN Unlink(timeq, x) ELSE timeq
      /\ blockq' = IF tq = "BLOCKQ" THEN blockq \ {x} ELSE blockq
  BY <1>4 DEF Moved
<1>6. /\ runq \in Seq(Thread) /\ timeq \in Seq(Thread)
      /\ Distinct(runq) /\ Distinct(timeq)
      /\ flags \in [Thread -> SUBSET Flag]
  BY DEF TypeOK, QueueFlagsAgree
<1>7. runq' \in Seq(Thread) /\ Range(runq') = Range(runq) \cup {x} /\ Distinct(runq')
  BY <1>3, <1>5, <1>6, AppendQueue
<1>8. /\ timeq' \in Seq(Thread) /\ Range(timeq') = Range(timeq) \ {x}
      /\ Distinct(timeq')
      /\ \A i, j \in DOMAIN timeq' : i < j =>
           \E k, l \in DOMAIN timeq : /\ k < l
                                     /\ timeq'[i] = timeq[k]
                                     /\ timeq'[j] = timeq[l]
  <2>1. CASE tq = "TIMEQ"
    <3>1. timeq' = Unlink(timeq, x) /\ x \in Range(timeq)
      BY <1>3, <1>5, <2>1, Zenon
    <3> QED
      BY <1>6, <3>1, UnlinkQueue
  <2>2. CASE tq # "TIMEQ"
    <3>1. timeq' = timeq /\ Range(timeq) = Range(timeq) \ {x}
      BY <1>3, <1>5, <2>2, Zenon
    <3> QED
      BY <1>6, <3>1, Zenon
  <2> QED
    BY <2>1, <2>2, Zenon
<1>9. flags'[x] \cap QMASK = {"RUNQ"} /\ "RUNQ" \in flags'[x]
  BY <1>5, <1>6, Zenon DEF QMASK
<1>10. "TIMEQ" \notin flags'[x] /\ "BLOCKQ" \notin flags'[x]
  BY <1>9 DEF QMASK
<1>11. \A u \in Thread \ {x} : flags'[u] = flags[u]
  BY <1>5, <1>6, Zenon
<1>12. blockq' = blockq \ {x}
  BY <1>3, <1>5, Zenon
<1>13. QueueFlagsAgree'
  <2>1. /\ Range(runq') \ {x} = Range(runq) \ {x}
        /\ Range(timeq') \ {x} = Range(timeq) \ {x}
        /\ blockq' \ {x} = blockq \ {x}
    BY <1>7, <1>8, <1>12, Zenon
  <2>2. /\ "RUNQ" \in flags'[x] <=> x \in Range(runq')
        /\ "TIMEQ" \in flags'[x] <=> x \in Range(timeq')
        /\ "BLOCKQ" \in flags'[x] <=> x \in blockq'
    BY <1>7, <1>8, <1>9, <1>10, <1>12, Zenon
  <2>3. \A p, q \in flags'[x] \cap QMASK : p = q
    BY <1>9
  <2> QED
    BY <1>7, <1>8, <1>11, <2>1, <2>2, <2>3, MovedThread, Zenon
<1> QED
  BY <1>1, <1>5, <1>7, <1>8, <1>9, <1>12, <1>13, Zenon

\* timeq stays sorted when the thread that is woken leaves it.
LEMMA TimeqShrinks ==
  ASSUME NEW x \in Thread, TimeqInv, timeq \in Seq(Thread), timeq' \in Seq(Thread),
         Range(timeq') = Range(timeq) \ {x},
         \A i, j \in DOMAIN timeq' : i < j =>
           \E k, l \in DOMAIN timeq : /\ k < l
                                     /\ timeq'[i] = timeq[k]
                                     /\ timeq'[j] = timeq[l],
         \A u \in Thread \ {x} : /\ wakeup'[u] = wakeup[u]
                                 /\ BeingWoken(u) => BeingWoken(u)'
  PROVE  TimeqInv'
<1>1. \A i \in DOMAIN timeq' : timeq'[i] \in Thread \ {x}
  <2>1. \A i \in DOMAIN timeq' : timeq'[i] \in Thread /\ timeq'[i] \in Range(timeq')
    BY QueueElements
  <2> QED
    BY <2>1, Zenon
<1>2. \A i \in DOMAIN timeq' : \E k \in DOMAIN timeq : timeq'[i] = timeq[k]
  <2>1. \A i \in DOMAIN timeq' : timeq'[i] \in Range(timeq)
    BY QueueElements
  <2> QED
    BY <2>1, Zenon DEF Range
<1>3. \A i \in DOMAIN timeq' :
        ~BeingWoken(timeq[i])' => wakeup'[timeq'[i]] # BMK_SCHED_BLOCK_INFTIME
  <2> SUFFICES ASSUME NEW i \in DOMAIN timeq', ~BeingWoken(timeq[i])'
               PROVE  wakeup'[timeq'[i]] # BMK_SCHED_BLOCK_INFTIME
    BY Zenon
  <2>1. PICK k \in DOMAIN timeq : timeq'[i] = timeq[k]
    BY <1>2, Zenon
  <2>2. timeq[k] \in Thread \ {x} /\ ~BeingWoken(timeq[k])
    BY <1>1, <2>1, Zenon DEF BeingWoken
  <2>3. wakeup[timeq[k]] # BMK_SCHED_BLOCK_INFTIME
    BY <2>2, Zenon DEF TimeqInv
  <2> QED
    BY <2>1, <2>2, <2>3, Zenon
<1>4. \A i, j \in DOMAIN timeq' :
        i < j /\ ~BeingWoken(timeq[i])' /\ ~BeingWoken(timeq[j])' =>
          wakeup'[timeq'[i]] <= wakeup'[timeq'[j]]
  <2> SUFFICES ASSUME NEW i \in DOMAIN timeq', NEW j \in DOMAIN timeq', i < j,
                      ~BeingWoken(timeq[i])', ~BeingWoken(timeq[j])'
               PROVE  wakeup'[timeq'[i]] <= wakeup'[timeq'[j]]
    OBVIOUS
  <2>1. PICK k \in DOMAIN timeq, l \in DOMAIN timeq :
          k < l /\ timeq'[i] = timeq[k] /\ timeq'[j] = timeq[l]
    BY Zenon
  <2>2. /\ timeq[k] \in Thread \ {x} /\ ~BeingWoken(timeq[k])
        /\ timeq[l] \in Thread \ {x} /\ ~BeingWoken(timeq[l])
    BY <1>1, <2>1, Zenon DEF BeingWoken
  <2>3. wakeup[timeq[k]] <= wakeup[timeq[l]]
    BY <2>1, <2>2, Zenon DEF TimeqInv
  <2> QED
    BY <2>1, <2>2, <2>3, Zenon
<1> QED
  BY <1>3, <1>4, Zenon DEF TimeqInv

\* An interrupt handler calls bmk_sched_wake() at any point of the others' code.
LEMMA InterruptInv ==
  ASSUME WakeDiscipline, IInv, NEW x \in Thread, Interrupt(x)
  PROVE  IInv'
<1> DEFINE tq == QueueOf(flags[x])
<1>1. /\ x \in threadq /\ x \in IntrWoken
      /\ wakeup' = [wakeup EXCEPT ![x] = BMK_SCHED_BLOCK_INFTIME]
      /\ UNCHANGED <<threadq, zombieq, joinwq, stacks, current, mode, pc, cont,
                     wanted, wk, clock, until>>
  BY Zenon DEF Interrupt, WakeAtomically, locals
<1>2. tq \in {"none", "TIMEQ", "BLOCKQ"} /\ (tq = "none" => x \notin Range(timeq))
  BY <1>1, QueueOfLive, Zenon
<1>3. fault = "none"
  BY DEF IInv, NoFault
<1>4. wakeup' \in [Thread -> Time]
  BY <1>1 DEF IInv, TypeOK, Time
<1>5. \A u \in Thread \ {x} : wakeup'[u] = wakeup[u]
  BY <1>1, Zenon DEF IInv, TypeOK
<1>6. \A u \in Thread : BeingWoken(u)' <=> BeingWoken(u)
  BY <1>1 DEF BeingWoken
<1>7. CASE tq = "none"
  <2>1. UNCHANGED <<timeq, blockq, flags, runq, fault>>
    BY <1>1, <1>7, Zenon DEF Interrupt, WakeAtomically, Check
  <2>2. \A i \in DOMAIN timeq : timeq[i] \in Thread \ {x}
    BY <1>2, <1>7, QueueElements DEF IInv, TypeOK
  <2>3. TypeOK' /\ NoFault'
    BY <1>1, <1>4, <2>1, Zenon DEF IInv, TypeOK, NoFault
  <2>4. QueueFlagsAgree' /\ StacksOwned' /\ JoinedInv' /\ JoiningInv'
    <3>1. QueueFlagsAgree'
      BY <2>1, SameQueues, Zenon DEF IInv
    <3>2. StacksOwned'
      BY <1>1, <2>1 DEF IInv, StacksOwned
    <3>3. JoinedInv'
      BY <1>1, <2>1 DEF IInv, JoinedInv
    <3>4. JoiningInv'
      BY <1>1, <2>1 DEF IInv, JoiningInv, InJoin
    <3> QED
      BY <3>1, <3>2, <3>3, <3>4
  <2>5. LifeInv' /\ OthersInv' /\ CurrentInv' /\ WakeInv'
    BY <1>1, <2>1, Zenon DEF IInv, LifeInv, OthersInv, CurrentInv, WakeInv, OffQueues,
                      OnOneQueue
  <2>6. TimeqInv'
    BY <1>5, <1>6, <2>1, <2>2, Zenon DEF IInv, TimeqInv
  <2>7. NoOversleep'
    BY <1>1, <1>5, <2>1, <2>2, ZenonT(40) DEF IInv, NoOversleep, Range
  <2> QED
    BY <2>3, <2>4, <2>5, <2>6, <2>7, Zenon DEF IInv
<1>8. CASE tq \in {"TIMEQ", "BLOCKQ"}
  <2>1. MoveToRunq(x, tq)
    BY <1>8, Zenon DEF Interrupt, WakeAtomically
  <2> HIDE DEF tq
  <2>2. /\ fault' = fault
        /\ runq' \in Seq(Thread) /\ timeq' \in Seq(Thread) /\ blockq' \subseteq blockq
        /\ flags' = [flags EXCEPT ![x] = (flags[x] \ QMASK) \cup {"RUNQ"}]
        /\ flags[x] \cap QMASK = {tq}
        /\ flags'[x] \cap QMASK = {"RUNQ"}
        /\ QueueFlagsAgree'
        /\ Range(timeq') = Range(timeq) \ {x}
        /\ \A i, j \in DOMAIN timeq' : i < j =>
             \E k, l \in DOMAIN timeq : /\ k < l
                                       /\ timeq'[i] = timeq[k]
                                       /\ timeq'[j] = timeq[l]
    BY <1>8, <2>1, MoveFacts, Zenon DEF IInv, tq
  <2>3. \A u \in Thread \ {x} : flags'[u] = flags[u]
    BY <2>2, Zenon DEF IInv, TypeOK
  <2>4. \A f \in Flag \ QMASK : f \in flags'[x] <=> f \in flags[x]
    BY <2>2 DEF IInv, TypeOK, QMASK
  <2>5. \A u \in Thread, f \in Flag \ QMASK : f \in flags'[u] <=> f \in flags[u]
    BY <2>3, <2>4, Zenon
  <2>6. {"RUNNING", "TIMEDOUT", "MUSTJOIN", "JOINED", "EXTSTACK", "DEAD",
         "BLOCKPREP"} \subseteq Flag \ QMASK
    BY DEF Flag, QMASK
  <2>7. flags[x] # {} /\ ~OffQueues(x) /\ OnOneQueue(x)'
    BY <2>2, Zenon DEF OffQueues, OnOneQueue, QMASK
  <2>8. TypeOK' /\ NoFault'
    BY <1>1, <1>3, <1>4, <2>2, Zenon DEF IInv, TypeOK, NoFault, Flag, QMASK
  <2>9. LifeInv'
    <3>1. \A u \in Thread : "TIMEQ" \in flags'[u] => "TIMEQ" \in flags[u]
      BY <2>2, <2>3 DEF QMASK
    <3> QED
      BY <1>1, <2>3, <2>5, <2>6, <2>7, <3>1, Zenon DEF IInv, LifeInv
  <2>10. OthersInv'
    <3>1. ASSUME NEW u \in Thread \ {current}, u # x
          PROVE  /\ pc[u] \in {"none", "dead", "virgin", "block", "yield"}
                 /\ "RUNNING" \notin flags'[u]
                 /\ pc[u] \in {"none", "dead"} => OffQueues(u)'
                 /\ pc[u] \in {"virgin", "block", "yield"} => OnOneQueue(u)'
      BY <2>3, <3>1 DEF IInv, OthersInv, OffQueues, OnOneQueue
    <3>2. ASSUME x # current
          PROVE  /\ pc[x] \in {"virgin", "block", "yield"}
                 /\ "RUNNING" \notin flags'[x]
      BY <2>5, <2>6, <2>7, <3>2, Zenon DEF IInv, TypeOK, OthersInv
    <3> QED
      BY <1>1, <2>7, <3>1, <3>2, Zenon DEF OthersInv
  <2>11. CurrentInv'
    <3>1. CASE x = current
      BY <1>1, <2>5, <2>6, <2>7, <3>1, ZenonT(30) DEF IInv, TypeOK, CurrentInv
    <3>2. CASE x # current
      BY <1>1, <2>3, <3>2, Zenon DEF IInv, TypeOK, CurrentInv, OffQueues, OnOneQueue
    <3> QED
      BY <3>1, <3>2, Zenon
  <2>12. WakeInv'
    BY <1>1, <2>3, Zenon DEF IInv, TypeOK, WakeInv, WakeDiscipline
  <2>13. JoinedInv' /\ JoiningInv'
    <3>1. \A u \in Thread : "MUSTJOIN" \in flags'[u] <=> "MUSTJOIN" \in flags[u]
      BY <2>5, <2>6, Zenon
    <3>2. \A u \in Thread : InJoin(u)' <=> InJoin(u)
      BY <1>1, Zenon DEF InJoin
    <3> QED
      BY <1>1, <3>1, <3>2, SameJoins, Zenon DEF IInv
  <2>14. TimeqInv'
    BY <1>5, <1>6, <2>2, TimeqShrinks, Zenon DEF IInv, TypeOK
  <2>15. NoOversleep'
    <3>1. \A u \in Range(timeq') : u \in Thread \ {x} /\ u \in Range(timeq)
      BY <2>2, QueueElements, Zenon DEF IInv, TypeOK
    <3> QED
      BY <1>1, <1>5, <3>1, Zenon DEF IInv, NoOversleep
  <2>16. StacksOwned'
    BY <1>1, <2>5, <2>6, SameStacks, Zenon DEF IInv, TypeOK
  <2> QED
    BY <2>2, <2>8, <2>9, <2>10, <2>11, <2>12, <2>13, <2>14, <2>15, <2>16, Zenon DEF IInv
<1> QED
  BY <1>2, <1>7, <1>8, Zenon

\* bmk_sched_wake() in thread context, before it raises the interrupt level.
LEMMA WakeBeginFacts ==
  ASSUME IInv, NEW t \in Thread, mode = "thread", t = current, pc[t] # "wake",
         NEW x \in threadq, NEW ret \in {"user", "gateprep"}, WakeBegin(t, x, ret),
         UNCHANGED <<mode, current, timeq>>
  PROVE  /\ fault' = fault
         /\ wk' = [who |-> x, tq |-> QueueOf(flags[x]), ret |-> ret]
         /\ wk' \in [who : Thread, tq : {"none", "TIMEQ", "BLOCKQ"},
                     ret : {"user", "gateprep"}]
         /\ wakeup' \in [Thread -> Time]
         /\ pc' = [pc EXCEPT ![t] = "wake"]
         /\ TimeqInv'
<1>1. /\ x \in Thread
      /\ QueueOf(flags[x]) \in {"none", "TIMEQ", "BLOCKQ"}
      /\ QueueOf(flags[x]) = "none" => x \notin Range(timeq)
  BY QueueOfLive
<1>2. /\ wakeup' = [wakeup EXCEPT ![x] = BMK_SCHED_BLOCK_INFTIME]
      /\ wk' = [who |-> x, tq |-> QueueOf(flags[x]), ret |-> ret]
      /\ pc' = [pc EXCEPT ![t] = "wake"]
      /\ fault' = fault
  BY <1>1, Zenon DEF WakeBegin, Check
<1>3. wakeup' \in [Thread -> Time] /\ \A u \in Thread \ {x} : wakeup'[u] = wakeup[u]
  BY <1>1, <1>2, Zenon DEF IInv, TypeOK, Time
<1>4. \A u \in Thread : ~BeingWoken(u)
  BY DEF BeingWoken
<1>5. QueueOf(flags[x]) # "none" => BeingWoken(x)'
  BY <1>2 DEF IInv, TypeOK, BeingWoken
<1>6. \A i \in DOMAIN timeq : timeq[i] \in Thread /\ timeq[i] \in Range(timeq)
  BY QueueElements, ZenonT(40) DEF IInv, TypeOK
<1>7. TimeqInv'
  <2>1. ASSUME NEW i \in DOMAIN timeq, ~BeingWoken(timeq[i])'
        PROVE  wakeup'[timeq[i]] = wakeup[timeq[i]]
    BY <1>1, <1>3, <1>5, <1>6, <2>1, Zenon
  <2> QED
    BY <1>4, <1>6, <2>1, Zenon DEF IInv, TimeqInv
<1> QED
  BY <1>1, <1>2, <1>3, <1>7, Zenon

\* What set_runnable() does depends on the queue flags and RUNNING only.
LEMMA QueueOfSame ==
  ASSUME NEW fl, NEW gl, fl \cap QMASK = gl \cap QMASK,
         "RUNNING" \in fl <=> "RUNNING" \in gl
  PROVE  QueueOf(fl) = QueueOf(gl)
<1>1. "RUNQ" \in fl <=> "RUNQ" \in gl
  BY DEF QMASK
<1> QED
  BY <1>1 DEF QueueOf

\* A thread calls bmk_sched_wake().
LEMMA WakeInvariant ==
  ASSUME IInv, NEW t \in Thread, NEW x \in Thread, Wake(t, x)
  PROVE  IInv'
<1>0. /\ t = current /\ mode = "thread" /\ t \in threadq
      /\ OffQueues(t) /\ "RUNNING" \in flags[t]
  BY DEF IInv, CurrentInv, LifeInv, Wake, At
<1>1. x \in threadq /\ x \in ThreadWoken /\ pc[t] = "user"
  BY DEF Wake, At
<1>2. /\ fault' = fault
      /\ wk' = [who |-> x, tq |-> QueueOf(flags[x]), ret |-> "user"]
      /\ wk' \in [who : Thread, tq : {"none", "TIMEQ", "BLOCKQ"},
                  ret : {"user", "gateprep"}]
      /\ wakeup' \in [Thread -> Time]
      /\ pc' = [pc EXCEPT ![t] = "wake"]
      /\ TimeqInv'
  BY <1>0, <1>1, WakeBeginFacts, Zenon DEF Wake, queues
<1>3. UNCHANGED <<threadq, zombieq, runq, timeq, blockq, joinwq, flags, stacks,
                  current, mode, cont, wanted, clock, until>>
  BY DEF Wake, queues
<1>11. NoFault'
  BY <1>0, <1>1, <1>2, <1>3, Zenon DEF IInv, TypeOK, NoFault
<1>12. TypeOK'
  BY <1>0, <1>1, <1>2, <1>3, Zenon DEF IInv, TypeOK, Label
<1>13. QueueFlagsAgree'
  BY <1>3 DEF IInv, QueueFlagsAgree
<1>14. LifeInv'
  BY <1>0, <1>1, <1>2, <1>3, ZenonT(30) DEF IInv, TypeOK, LifeInv
<1>15. OthersInv'
  BY <1>0, <1>1, <1>2, <1>3, ZenonT(30) DEF IInv, TypeOK, OthersInv, OffQueues, OnOneQueue
<1>16. CurrentInv'
  BY <1>0, <1>1, <1>2, <1>3, ZenonT(30) DEF IInv, TypeOK, CurrentInv, OffQueues, OnOneQueue
<1>17. WakeInv'
  BY <1>0, <1>1, <1>2, <1>3, Zenon DEF IInv, TypeOK, WakeInv
<1>18. JoinedInv'
  BY <1>3 DEF IInv, JoinedInv
<1>19. JoiningInv'
  BY <1>0, <1>1, <1>2, <1>3, ZenonT(30) DEF IInv, TypeOK, JoiningInv, InJoin
<1>20. TimeqInv'
  BY <1>2, Zenon
<1>21. NoOversleep'
  BY <1>0, <1>1, <1>2, <1>3, Zenon DEF IInv, TypeOK, NoOversleep
<1>22. StacksOwned'
  BY <1>0, <1>1, <1>2, <1>3, Zenon DEF IInv, TypeOK, StacksOwned
<1> QED
  BY Zenon, <1>11, <1>12, <1>13, <1>14, <1>15, <1>16, <1>17, <1>18, <1>19, <1>20,
     <1>21, <1>22 DEF IInv

\* A joinable thread reaches its exit and looks for its joiner.
LEMMA ExitGateInv ==
  ASSUME IInv, NEW t \in Thread, ExitGate(t)
  PROVE  IInv'
<1>0. /\ t = current /\ mode = "thread" /\ t \in threadq
      /\ OffQueues(t) /\ "RUNNING" \in flags[t]
  BY DEF IInv, CurrentInv, LifeInv, ExitGate, At
<1>1. /\ pc[t] = "gate" /\ "MUSTJOIN" \in flags[t]
      /\ flags' = [flags EXCEPT ![t] = @ \cup {"JOINED"}]
      /\ UNCHANGED <<threadq, zombieq, runq, timeq, blockq, joinwq, stacks, current,
                     mode, cont, wanted, clock, until>>
  BY DEF ExitGate, At, queues
<1>2. /\ fault' = fault
      /\ wk' \in [who : Thread, tq : {"none", "TIMEQ", "BLOCKQ"},
                  ret : {"user", "gateprep"}]
      /\ wakeup' \in [Thread -> Time]
      /\ \/ /\ pc' = [pc EXCEPT ![t] = "wake"]
            /\ wk'.who \in threadq \cap ThreadWoken
            /\ wk'.tq = QueueOf(flags[wk'.who])
         \/ pc' = [pc EXCEPT ![t] = "gateprep"]
      /\ TimeqInv'
  <2>1. CASE \E u \in joinwq : wanted[u] = t /\ WakeBegin(t, u, "gateprep")
    <3>1. PICK u \in joinwq : wanted[u] = t /\ WakeBegin(t, u, "gateprep")
      BY <2>1
    <3>2. u \in threadq \cap ThreadWoken
      BY <3>1, Zenon DEF IInv, TypeOK, JoiningInv, JoinedInv
    <3>3. u \in threadq
      BY <3>2
    <3>4. /\ fault' = fault
          /\ wk' = [who |-> u, tq |-> QueueOf(flags[u]), ret |-> "gateprep"]
          /\ wk' \in [who : Thread, tq : {"none", "TIMEQ", "BLOCKQ"},
                      ret : {"user", "gateprep"}]
          /\ wakeup' \in [Thread -> Time]
          /\ pc' = [pc EXCEPT ![t] = "wake"]
          /\ TimeqInv'
      BY <1>0, <1>1, <3>1, <3>3, WakeBeginFacts, Zenon
    <3> QED
      BY <3>2, <3>4, Zenon
  <2>2. CASE ~\E u \in joinwq : wanted[u] = t /\ WakeBegin(t, u, "gateprep")
    <3>1. /\ pc' = [pc EXCEPT ![t] = "gateprep"]
          /\ UNCHANGED <<wakeup, wk, fault>>
      BY <2>2 DEF ExitGate
    <3>2. \A u \in Thread : ~BeingWoken(u) /\ ~BeingWoken(u)'
      BY <1>0, <1>1, <3>1, Zenon DEF IInv, TypeOK, BeingWoken
    <3>3. \A i \in DOMAIN timeq : timeq[i] \in Thread
      BY QueueElements DEF IInv, TypeOK
    <3>4. TimeqInv'
      BY <1>1, <3>1, <3>2, <3>3, Zenon DEF IInv, TimeqInv
    <3> QED
      BY <3>1, <3>4, Zenon DEF IInv, TypeOK
  <2> QED
    BY <2>1, <2>2, Zenon
<1>3. \A u \in Thread : flags'[u] \cap QMASK = flags[u] \cap QMASK
  BY <1>1, Zenon DEF IInv, TypeOK, QMASK
<1>4. \A u \in Thread, f \in Flag \ {"JOINED"} : f \in flags'[u] <=> f \in flags[u]
  BY <1>1, Zenon DEF IInv, TypeOK
<1>5. {"RUNNING", "TIMEDOUT", "MUSTJOIN", "EXTSTACK", "DEAD", "BLOCKPREP"}
        \subseteq Flag \ {"JOINED"}
  BY DEF Flag, QMASK
<1>6. pc'[t] \in {"wake", "gateprep"} /\ \A u \in Thread \ {t} : pc'[u] = pc[u]
  BY <1>2, ZenonT(40) DEF IInv, TypeOK
<1>7. \A u \in Thread : (flags'[u] = {} <=> flags[u] = {})
  BY <1>1, Zenon DEF IInv, TypeOK
<1>11. NoFault'
  BY <1>2 DEF IInv, NoFault
<1>12. TypeOK'
  BY <1>1, <1>2, Zenon DEF IInv, TypeOK, Flag, QMASK, Label
<1>13. QueueFlagsAgree'
  BY <1>1, <1>3, SameQueues, Zenon DEF IInv
<1>14. LifeInv'
  <2>1. ASSUME NEW u \in Thread
        PROVE  \A f \in {"DEAD", "MUSTJOIN", "BLOCKPREP", "TIMEDOUT", "TIMEQ"} : f \in flags'[u] <=> f \in flags[u]
    <3>1. {"DEAD", "MUSTJOIN", "BLOCKPREP", "TIMEDOUT", "TIMEQ"} \subseteq Flag \ {"JOINED"}
      BY DEF Flag, QMASK
    <3> QED BY <1>4, <3>1, Zenon
  <2>2. ASSUME NEW u \in Thread
        PROVE  \A p \in {"none", "dead", "prep", "block"} : pc'[u] = p <=> pc[u] = p
    <3>1. CASE u = t BY <1>1, <1>6, <3>1
    <3>2. CASE u # t BY <1>6, <3>2, Zenon
    <3> QED BY <3>1, <3>2
  <2> QED BY <1>1, <1>7, <2>1, <2>2 DEF IInv, LifeInv
<1>15. OthersInv'
  BY <1>0, <1>1, <1>3, <1>4, <1>5, <1>6 DEF IInv, OthersInv, OffQueues, OnOneQueue
<1>16. CurrentInv'
  BY <1>0, <1>1, <1>3, <1>4, <1>5, <1>6, ZenonT(30) DEF IInv, CurrentInv, OffQueues, OnOneQueue
<1>17. WakeInv'
  <2>1. ASSUME pc'[t] = "wake"
        PROVE  /\ wk'.who \in threadq \cap ThreadWoken
               /\ wk'.tq = QueueOf(flags[wk'.who])
    BY <1>2, <2>1, Zenon DEF IInv, TypeOK
  <2>2. ASSUME NEW u \in Thread PROVE QueueOf(flags'[u]) = QueueOf(flags[u])
    BY <1>3, <1>4, <1>5, QueueOfSame, Zenon
  <2> QED
    BY <1>0, <1>1, <1>2, <2>1, <2>2, Zenon DEF WakeInv
<1>18. JoinedInv'
  BY <1>1, <1>4, <1>5, Zenon DEF IInv, TypeOK, JoinedInv
<1>19. JoiningInv'
  BY <1>0, <1>1, <1>6 DEF IInv, TypeOK, JoiningInv, InJoin
<1>20. TimeqInv'
  BY <1>2, Zenon
<1>21. NoOversleep'
  BY <1>0, <1>1, Zenon DEF NoOversleep
<1>22. StacksOwned'
  BY <1>1, <1>4, <1>5, SameStacks, Zenon DEF IInv, TypeOK
<1> QED
  BY Zenon, <1>11, <1>12, <1>13, <1>14, <1>15, <1>16, <1>17, <1>18, <1>19, <1>20,
     <1>21, <1>22 DEF IInv

\* The joiner lets the joined thread go.
LEMMA JoinDoneInv ==
  ASSUME IInv, NEW t \in Thread, JoinDone(t)
  PROVE  IInv'
<1> DEFINE x == wanted[t]
<1>0. /\ t = current /\ mode = "thread" /\ t \in threadq
      /\ OffQueues(t) /\ "RUNNING" \in flags[t]
  BY DEF IInv, CurrentInv, LifeInv, JoinDone, At
<1>1. /\ pc[t] = "join"
      /\ flags' = [flags EXCEPT ![x] = @ \ {"MUSTJOIN"}]
      /\ WakeBegin(t, x, "user")
      /\ wanted' = [wanted EXCEPT ![t] = t]
      /\ UNCHANGED <<threadq, zombieq, runq, timeq, blockq, joinwq, stacks, current,
                     mode, cont, clock, until>>
  BY DEF JoinDone, At, queues
<1>8. /\ x \in threadq /\ x \in ThreadWoken /\ x \in Thread /\ x # t
      /\ \A u \in Thread \ {t} : wanted[u] # u => wanted[u] # x
  BY <1>1, Zenon DEF IInv, TypeOK, JoiningInv, InJoin, JoinedInv
<1> HIDE DEF x
<1>2. /\ fault' = fault
      /\ wk' = [who |-> x, tq |-> QueueOf(flags[x]), ret |-> "user"]
      /\ wk' \in [who : Thread, tq : {"none", "TIMEQ", "BLOCKQ"},
                  ret : {"user", "gateprep"}]
      /\ wakeup' \in [Thread -> Time]
      /\ pc' = [pc EXCEPT ![t] = "wake"]
      /\ TimeqInv'
  BY <1>0, <1>1, <1>8, WakeBeginFacts, Zenon
<1>3. \A u \in Thread : flags'[u] \cap QMASK = flags[u] \cap QMASK
  BY <1>1, Zenon DEF IInv, TypeOK, QMASK
<1>4. \A u \in Thread, f \in Flag \ {"MUSTJOIN"} : f \in flags'[u] <=> f \in flags[u]
  BY <1>1, Zenon DEF IInv, TypeOK
<1>5. {"RUNNING", "TIMEDOUT", "JOINED", "EXTSTACK", "DEAD", "BLOCKPREP"}
        \subseteq Flag \ {"MUSTJOIN"}
  BY DEF Flag, QMASK
<1>6. /\ \A u \in Thread \ {x} : flags'[u] = flags[u]
      /\ \A u \in Thread : "MUSTJOIN" \in flags'[u] => "MUSTJOIN" \in flags[u]
      /\ \A u \in Thread : flags[u] = {} => flags'[u] = {}
  BY <1>1, Zenon DEF IInv, TypeOK
<1>7. pc'[t] = "wake" /\ \A u \in Thread \ {t} : pc'[u] = pc[u]
  BY <1>2, Zenon DEF IInv, TypeOK
<1>9. wanted'[t] = t /\ \A u \in Thread \ {t} : wanted'[u] = wanted[u]
  BY <1>1, Zenon DEF IInv, TypeOK
<1>11. NoFault'
  BY <1>2, Zenon DEF IInv, NoFault
<1>12. TypeOK'
  BY <1>1, <1>2, Zenon DEF IInv, TypeOK, Label
<1>13. QueueFlagsAgree'
  BY <1>1, <1>3, SameQueues, Zenon DEF IInv
<1>14. LifeInv'
  BY <1>0, <1>1, <1>4, <1>5, <1>6, <1>7 DEF IInv, LifeInv
<1>15. OthersInv'
  <2> SUFFICES ASSUME NEW u \in Thread \ {current'}
               PROVE  /\ pc'[u] \in {"none", "dead", "virgin", "block", "yield"}
                      /\ "RUNNING" \notin flags'[u]
                      /\ pc'[u] \in {"none", "dead"} => OffQueues(u)'
                      /\ pc'[u] \in {"virgin", "block", "yield"} => OnOneQueue(u)'
    BY Zenon DEF OthersInv
  <2>1. u \in Thread \ {current} /\ u # t
    BY <1>0, <1>1
  <2>2. /\ flags'[u] \cap QMASK = flags[u] \cap QMASK /\ pc'[u] = pc[u]
        /\ "RUNNING" \in flags'[u] <=> "RUNNING" \in flags[u]
    BY <1>3, <1>4, <1>5, <1>7, <2>1, Zenon
  <2> QED
    BY <2>1, <2>2, Zenon DEF IInv, OthersInv, OffQueues, OnOneQueue
<1>16. CurrentInv'
  BY <1>0, <1>1, <1>3, <1>4, <1>5, <1>7, Zenon DEF IInv, CurrentInv, OffQueues, OnOneQueue
<1>17. WakeInv'
  <2>1. QueueOf(flags'[x]) = QueueOf(flags[x])
    BY <1>3, <1>4, <1>5, <1>8, QueueOfSame, Zenon
  <2> QED
    BY <1>1, <1>2, <1>8, <2>1, Zenon DEF WakeInv
<1>18. JoinedInv'
  BY <1>1, <1>6, <1>8, <1>9, SMTT(30) DEF IInv, TypeOK, JoinedInv
<1>19. JoiningInv'
  BY <1>0, <1>1, <1>7, <1>9 DEF IInv, TypeOK, JoiningInv, InJoin
<1>20. TimeqInv'
  BY <1>2
<1>21. NoOversleep'
  BY <1>0, <1>1, Zenon DEF NoOversleep
<1>22. StacksOwned'
  BY <1>1, <1>4, <1>5, SameStacks, Zenon DEF IInv, TypeOK
<1> QED
  BY Zenon, <1>11, <1>12, <1>13, <1>14, <1>15, <1>16, <1>17, <1>18, <1>19, <1>20,
     <1>21, <1>22 DEF IInv

\* set_runnable() raises the level and moves the thread it has chosen.
LEMMA WakeCommitInv ==
  ASSUME IInv, NEW t \in Thread, WakeCommit(t)
  PROVE  IInv'
<1> DEFINE tq == wk.tq
<1>1. /\ mode = "thread" /\ t = current /\ pc[t] = "wake"
      /\ wk.ret \in {"user", "gateprep"}
      /\ pc' = [pc EXCEPT ![t] = wk.ret] /\ wk' = NoWake
      /\ UNCHANGED <<threadq, zombieq, joinwq, wakeup, stacks, current, mode, cont,
                     wanted, clock, until>>
  BY DEF WakeCommit, At, IInv, TypeOK
<1>2. PICK x \in threadq : x = wk.who /\ tq = QueueOf(flags[x])
  BY <1>1 DEF IInv, WakeInv
<1>3. /\ x \in Thread
      /\ tq \in {"none", "TIMEQ", "BLOCKQ"}
      /\ tq = "none" => x \notin Range(timeq)
  BY <1>2, QueueOfLive, Zenon
<1>4. fault = "none"
  BY DEF IInv, NoFault
<1>5. /\ pc'[t] \in {"user", "gateprep"}
      /\ \A u \in Thread \ {t} : pc'[u] = pc[u]
  BY <1>1, Zenon DEF IInv, TypeOK
<1>6. /\ \A u \in Thread : ~BeingWoken(u)'
      /\ \A u \in Thread \ {x} : ~BeingWoken(u)
  BY <1>1, <1>2, <1>5, Zenon DEF BeingWoken, NoWake
<1>7. CASE tq = "none"
  <2>1. UNCHANGED <<timeq, blockq, flags, runq, fault>>
    BY <1>7 DEF WakeCommit
  <2>2. \A i \in DOMAIN timeq : timeq[i] \in Thread \ {x}
    BY <1>3, <1>7, QueueElements DEF IInv, TypeOK
  <2>3. TypeOK' /\ NoFault'
    BY <1>1, <2>1, SchedAssumption, Zenon DEF IInv, TypeOK, NoFault, NoWake, Label
  <2>4. QueueFlagsAgree' /\ StacksOwned' /\ JoinedInv'
    BY <1>1, <2>1, Zenon DEF IInv, QueueFlagsAgree, StacksOwned, JoinedInv
  <2>5. JoiningInv'
    BY <1>1, <1>5, <2>1, ZenonT(30) DEF IInv, TypeOK, JoiningInv, InJoin
  <2>6. LifeInv'
    BY <1>1, <1>5, <2>1 DEF IInv, LifeInv
  <2>9. OthersInv'
    BY <1>1, <1>5, <2>1 DEF IInv, OthersInv, OffQueues, OnOneQueue
  <2>10. CurrentInv' /\ WakeInv'
    BY <1>1, <1>5, <2>1 DEF IInv, CurrentInv, WakeInv, OffQueues, OnOneQueue
  <2>7. TimeqInv'
    BY <1>1, <1>6, <2>1, <2>2, Zenon DEF IInv, TimeqInv
  <2>8. NoOversleep'
    BY <1>1 DEF NoOversleep
  <2> QED
    BY <2>3, <2>4, <2>5, <2>6, <2>7, <2>8, <2>9, <2>10, Zenon DEF IInv
<1>8. CASE tq \in {"TIMEQ", "BLOCKQ"}
  <2>1. MoveToRunq(x, tq)
    BY <1>2, <1>8, Zenon DEF WakeCommit
  <2> HIDE DEF tq
  <2>2. /\ fault' = fault
        /\ runq' \in Seq(Thread) /\ timeq' \in Seq(Thread) /\ blockq' \subseteq blockq
        /\ flags' = [flags EXCEPT ![x] = (flags[x] \ QMASK) \cup {"RUNQ"}]
        /\ flags[x] \cap QMASK = {tq}
        /\ flags'[x] \cap QMASK = {"RUNQ"}
        /\ QueueFlagsAgree'
        /\ Range(timeq') = Range(timeq) \ {x}
        /\ \A i, j \in DOMAIN timeq' : i < j =>
             \E k, l \in DOMAIN timeq : /\ k < l
                                       /\ timeq'[i] = timeq[k]
                                       /\ timeq'[j] = timeq[l]
    BY <1>2, <1>3, <1>8, <2>1, MoveFacts DEF IInv
  <2>3. \A u \in Thread \ {x} : flags'[u] = flags[u]
    BY <1>3, <2>2, Zenon DEF IInv, TypeOK
  <2>4. \A f \in Flag \ QMASK : f \in flags'[x] <=> f \in flags[x]
    BY <1>3, <2>2, Zenon DEF IInv, TypeOK, QMASK
  <2>5. \A u \in Thread, f \in Flag \ QMASK : f \in flags'[u] <=> f \in flags[u]
    BY <2>3, <2>4, Zenon
  <2>6. {"RUNNING", "TIMEDOUT", "MUSTJOIN", "JOINED", "EXTSTACK", "DEAD",
         "BLOCKPREP"} \subseteq Flag \ QMASK
    BY DEF Flag, QMASK
  <2>7. flags[x] # {} /\ ~OffQueues(x) /\ OnOneQueue(x)'
    BY <2>2, Zenon DEF OffQueues, OnOneQueue, QMASK
  <2>8. x # current
    BY <1>1, <2>7, Zenon DEF IInv, CurrentInv
  <2>9. TypeOK' /\ NoFault'
    <3>1. flags' \in [Thread -> SUBSET Flag]
      BY <1>3, <2>2, Zenon DEF IInv, TypeOK, Flag, QMASK
    <3> QED
      BY <1>1, <1>4, <2>2, <3>1, SchedAssumption, ZenonT(30) DEF IInv, TypeOK, NoFault, NoWake,
                                                    Label
  <2>10. LifeInv'
    <3>1. \A u \in Thread : flags[u] = {} => flags'[u] = {}
      BY <2>3, <2>7, Zenon
    <3>2. pc'[t] \in {"user", "gateprep"} /\ pc[t] = "wake"
      BY <1>1, <1>5, Zenon
    <3>3. \A u \in Thread : "TIMEQ" \in flags'[u] => "TIMEQ" \in flags[u]
      BY <2>2, <2>3 DEF QMASK
    <3> QED
      BY <1>1, <1>5, <2>5, <2>6, <3>1, <3>2, <3>3, ZenonT(30) DEF IInv, LifeInv
  <2>11. OthersInv'
    <3>1. ASSUME NEW u \in Thread \ {current}, u # x
          PROVE  /\ pc[u] \in {"none", "dead", "virgin", "block", "yield"}
                 /\ "RUNNING" \notin flags'[u]
                 /\ pc[u] \in {"none", "dead"} => OffQueues(u)'
                 /\ pc[u] \in {"virgin", "block", "yield"} => OnOneQueue(u)'
      BY <2>3, <3>1, Zenon DEF IInv, OthersInv, OffQueues, OnOneQueue
    <3>2. pc[x] \in {"virgin", "block", "yield"} /\ "RUNNING" \notin flags'[x]
      BY <1>3, <2>5, <2>6, <2>7, <2>8, Zenon DEF IInv, TypeOK, OthersInv
    <3> QED
      BY <1>1, <1>3, <1>5, <2>7, <2>8, <3>1, <3>2, ZenonT(30) DEF OthersInv
  <2>12. CurrentInv' /\ WakeInv'
    BY <1>1, <1>5, <2>3, <2>8, ZenonT(30) DEF IInv, TypeOK, CurrentInv, WakeInv, OffQueues,
                                  OnOneQueue
  <2>13. JoinedInv' /\ JoiningInv'
    <3>1. \A u \in Thread : "MUSTJOIN" \in flags'[u] <=> "MUSTJOIN" \in flags[u]
      BY <2>5, <2>6, Zenon
    <3>2. \A u \in Thread : /\ InJoin(u)' <=> InJoin(u)
                            /\ pc'[u] = "join" <=> pc[u] = "join"
      BY <1>1, <1>5 DEF InJoin
    <3> QED
      BY <1>1, <3>1, <3>2, SameJoins, Zenon DEF IInv
  <2>14. TimeqInv'
    BY <1>1, <1>3, <1>6, <2>2, TimeqShrinks, Zenon DEF IInv, TypeOK
  <2>15. NoOversleep'
    BY <1>1 DEF NoOversleep
  <2>16. StacksOwned'
    BY <1>1, <2>5, <2>6, SameStacks, Zenon DEF IInv, TypeOK
  <2> QED
    BY <2>2, <2>9, <2>10, <2>11, <2>12, <2>13, <2>14, <2>15, <2>16, Zenon DEF IInv
<1> QED
  BY <1>3, <1>7, <1>8, Zenon

=============================================================================
