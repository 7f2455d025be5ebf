----------------------- MODULE BmkSchedContractProofs -----------------------
(***************************************************************************)
(* The order of the run queue, and that the scheduler keeps the contract   *)
(* of SchedContract, for any number of threads, deadlines and any clock    *)
(* bound, given that no thread is woken both by interrupt handlers and by  *)
(* threads (WakeDiscipline).  Both rest on the invariant of                *)
(* BmkSchedProofs.                                                         *)
(***************************************************************************)
EXTENDS BmkSchedProofs

-----------------------------------------------------------------------------
(* The order of runq                                                       *)

\* What a step may do to runq.
FifoStep ==
  \/ GrowsTo(runq, runq')
  \/ /\ runq # <<>>
     /\ GrowsTo(Tail(runq), runq')
     /\ current' = Head(runq)

LEMMA MovedFifo ==
  ASSUME TypeOK, NEW x \in Thread, NEW tq, MoveToRunq(x, tq)
  PROVE  FifoStep
<1>1. runq \in Seq(Thread) BY DEF TypeOK
<1>2. runq' = Append(runq, x) \/ runq' = runq BY Zenon DEF MoveToRunq, Moved
<1> QED BY <1>1, <1>2, GrowsAppend, Zenon DEF FifoStep

LEMMA ScheduleFifo ==
  ASSUME IInv, Schedule
  PROVE  FifoStep
<1> DEFINE a == SubSeq(timeq, 1, Expired)
           rq == runq \o a
<1>1. runq \in Seq(Thread) BY DEF IInv, TypeOK
<1>2. a \in Seq(Thread) BY ExpiredFacts, Zenon DEF Schedule
<1>3. CASE rq = <<>>
  <2>1. runq' = runq BY <1>3, Zenon DEF Schedule
  <2> QED BY <1>1, <2>1, GrowsAppend, Zenon DEF FifoStep
<1>4. CASE rq # <<>>
  <2>1. runq' = Tail(rq) /\ current' = Head(rq) BY <1>4, Zenon DEF Schedule
  <2> HIDE DEF a
  <2>2. CASE runq = <<>>
    <3>1. rq = a BY <1>2, <2>2, ConcatNothing
    <3>2. Tail(a) \in Seq(Thread) BY <1>2, <1>4, <3>1, TailElements
    <3> QED BY <2>1, <2>2, <3>1, <3>2, GrowsAppend, Zenon DEF FifoStep
  <2>3. CASE runq # <<>>
    <3>1. Tail(rq) = Tail(runq) \o a /\ Head(rq) = Head(runq)
      BY <1>1, <1>2, <2>3, TailConcat
    <3>2. Tail(runq) \in Seq(Thread) BY <1>1, <2>3, TailElements
    <3>3. GrowsTo(Tail(runq), Tail(runq) \o a) BY <1>2, <3>2, GrowsConcat
    <3> QED BY <2>1, <2>3, <3>1, <3>3, Zenon DEF FifoStep
  <2> QED BY <2>2, <2>3
<1> QED BY <1>3, <1>4

LEMMA NextFifo ==
  ASSUME IInv, Next
  PROVE  FifoStep
<1>1. runq \in Seq(Thread) /\ TypeOK BY DEF IInv, TypeOK
<1>2. ASSUME UNCHANGED runq PROVE FifoStep
  BY <1>1, <1>2, GrowsAppend, Zenon DEF FifoStep
<1>3. ASSUME NEW x \in Thread, runq' = Append(runq, x) PROVE FifoStep
  BY <1>1, <1>3, GrowsAppend, Zenon DEF FifoStep
<1>4. ASSUME NEW t \in Thread, ThreadStep(t) PROVE FifoStep
  <2>1. CASE BlockPrepare(t) \/ ExitGateBlock(t) \/ JoinWait(t)
    BY <1>2, <2>1, Zenon DEF BlockPrepare, ExitGateBlock, JoinWait
  <2>2. CASE Block(t) \/ Exit(t) \/ ExitGate(t) \/ ExitDie(t) \/ JoinDone(t)
    BY <1>2, <2>2, Zenon DEF Block, Exit, ExitGate, ExitDie, Dies, JoinDone, queues
  <2>3. CASE Yield(t)
    BY <1>3, <2>3, Zenon DEF Yield
  <2>4. CASE WakeCommit(t)
    <3>1. wk.who \in Thread BY <1>1 DEF TypeOK
    <3>2. UNCHANGED runq \/ MoveToRunq(wk.who, wk.tq) BY <2>4, Zenon DEF WakeCommit
    <3> QED BY <1>1, <1>2, <3>1, <3>2, MovedFifo, Zenon
  <2>5. ASSUME NEW x \in Thread, Wake(t, x) \/ Join(t, x) PROVE FifoStep
    BY <1>2, <2>5, Zenon DEF Wake, Join, queues
  <2>6. ASSUME NEW x \in Thread, Create(t, x) PROVE FifoStep
    BY <1>3, <2>6, Zenon DEF Create
  <2> QED BY <1>4, <2>1, <2>2, <2>3, <2>4, <2>5, <2>6, Zenon DEF ThreadStep
<1>5. ASSUME NEW x \in Thread, Interrupt(x) PROVE FifoStep
  <2>1. UNCHANGED runq \/ \E tq : MoveToRunq(x, tq)
    BY <1>5, Zenon DEF Interrupt, WakeAtomically
  <2> QED BY <1>1, <1>2, <2>1, MovedFifo, Zenon
<1>6. CASE Schedule
  BY <1>6, ScheduleFifo
<1>7. CASE CpuUnblock \/ Resume \/ Tick
  BY <1>2, <1>7, Zenon DEF CpuUnblock, Resume, Tick, queues
<1> QED BY <1>4, <1>5, <1>6, <1>7, Zenon DEF Next

\* Under WakeDiscipline runq is first in, first out, for any number of threads:
\* whatever threads and interrupt handlers do, nobody overtakes a thread that is
\* runnable.
THEOREM RunqStaysFifo == WakeDiscipline => (Spec => RunqFifo)
<1>1. IInv /\ [Next]_vars => [FifoStep]_vars
  BY NextFifo, Zenon
<1>2. [FifoStep]_vars => [\/ GrowsTo(runq, runq')
                         \/ /\ runq # <<>>
                            /\ GrowsTo(Tail(runq), runq')
                            /\ current' = Head(runq)]_vars
  BY DEF FifoStep
<1> QED BY <1>1, <1>2, SchedulerInvariant, PTL DEF Spec, RunqFifo

-----------------------------------------------------------------------------
(* The contract                                                            *)

\* What the contract knows as cpu and due.
cpuBar == IF mode \in {"sched", "idle"} THEN "nobody" ELSE current
dueBar == [t \in Thread |-> IF waitBar[t] = "waiting" THEN wakeup[t]
                            ELSE BMK_SCHED_BLOCK_INFTIME]

\* The state of a thread's request to block, by its flags.
LEMMA BarValue ==
  ASSUME NEW t \in Thread
  PROVE  waitBar[t] = IF "BLOCKPREP" \notin flags[t] THEN "no"
                      ELSE IF "TIMEQ" \notin flags[t] /\ "BLOCKQ" \notin flags[t]
                      THEN IF "TIMEDOUT" \in flags[t] THEN "timedout" ELSE "woken"
                      ELSE IF BeingWoken(t) THEN "woken" ELSE "waiting"
<1>1. flags[t] \cap QMASK \subseteq {"RUNQ"} <=> "TIMEQ" \notin flags[t] /\ "BLOCKQ" \notin flags[t]
  BY DEF QMASK
<1> QED BY <1>1, Zenon DEF waitBar

LEMMA BarValueNext ==
  ASSUME NEW t \in Thread
  PROVE  waitBar'[t] = IF "BLOCKPREP" \notin flags'[t] THEN "no"
                       ELSE IF "TIMEQ" \notin flags'[t] /\ "BLOCKQ" \notin flags'[t]
                       THEN IF "TIMEDOUT" \in flags'[t] THEN "timedout" ELSE "woken"
                       ELSE IF BeingWoken(t)' THEN "woken" ELSE "waiting"
<1>1. flags'[t] \cap QMASK \subseteq {"RUNQ"} <=> "TIMEQ" \notin flags'[t] /\ "BLOCKQ" \notin flags'[t]
  BY DEF QMASK
<1> QED BY <1>1, Zenon DEF waitBar

LEMMA BarFunction ==
  /\ waitBar = [t \in Thread |-> waitBar[t]]
  /\ waitBar' = [t \in Thread |-> waitBar'[t]]
BY DEF waitBar

\* Steps of the contract, thread by thread.
LEMMA ToStutter ==
  ASSUME UNCHANGED <<threadq, clock>>, cpuBar' = cpuBar,
         \A u \in Thread : waitBar'[u] = waitBar[u],
         \A u \in Thread : waitBar[u] = "waiting" => wakeup'[u] = wakeup[u]
  PROVE  UNCHANGED Contract!cvars
<1>1. waitBar' = waitBar BY BarFunction
<1>2. dueBar' = dueBar BY <1>1 DEF dueBar
<1> QED BY <1>1, <1>2 DEF Contract!cvars, dueBar, cpuBar

LEMMA ToSignal ==
  ASSUME UNCHANGED <<threadq, clock>>, cpuBar' = cpuBar, NEW x \in Thread,
         \A u \in Thread \ {x} : waitBar'[u] = waitBar[u],
         \A u \in Thread \ {x} : waitBar[u] = "waiting" => wakeup'[u] = wakeup[u],
         waitBar[x] = "waiting" => waitBar'[x] = "woken",
         waitBar[x] # "waiting" => waitBar'[x] = waitBar[x]
  PROVE  Contract!CNext
<1> DEFINE woken == {u \in {x} : waitBar[u] = "waiting"}
<1>1. waitBar' = [u \in Thread |-> IF u \in woken THEN "woken" ELSE waitBar[u]]
  <2>1. \A u \in Thread : waitBar'[u] = IF u \in woken THEN "woken" ELSE waitBar[u]
    OBVIOUS
  <2> HIDE DEF woken
  <2> QED BY <2>1, BarFunction
<1>2. dueBar' = [u \in Thread |-> IF u \in woken THEN BMK_SCHED_BLOCK_INFTIME ELSE dueBar[u]]
  <2>1. \A u \in Thread : dueBar'[u] = IF u \in woken THEN BMK_SCHED_BLOCK_INFTIME ELSE dueBar[u]
    BY DEF dueBar
  <2> HIDE DEF woken
  <2> QED BY <2>1 DEF dueBar
<1>3. Contract!Signal({x})
  BY <1>1, <1>2, Zenon DEF Contract!Signal, dueBar, cpuBar
<1>4. {x} \in SUBSET Thread OBVIOUS
<1> QED BY <1>3, <1>4, Zenon DEF Contract!CNext

LEMMA ToPrepare ==
  ASSUME UNCHANGED <<threadq, clock>>, cpuBar' = cpuBar, NEW t \in Thread, cpuBar = t,
         NEW d \in Deadline \cup {BMK_SCHED_BLOCK_INFTIME},
         \A u \in Thread \ {t} : waitBar'[u] = waitBar[u] /\ wakeup'[u] = wakeup[u],
         waitBar[t] = "no", waitBar'[t] = "waiting", wakeup'[t] = d
  PROVE  Contract!CNext
<1>1. waitBar' = [waitBar EXCEPT ![t] = "waiting"]
  <2>1. \A u \in Thread : waitBar'[u] = IF u = t THEN "waiting" ELSE waitBar[u]
    OBVIOUS
  <2> QED BY <2>1, BarFunction
<1>2. dueBar' = [dueBar EXCEPT ![t] = d]
  <2>1. \A u \in Thread : dueBar'[u] = IF u = t THEN d ELSE dueBar[u]
    BY DEF dueBar
  <2> QED BY <2>1 DEF dueBar
<1>3. Contract!Prepare(t, d)
  BY <1>1, <1>2, Zenon DEF Contract!Prepare, dueBar, cpuBar
<1> QED BY <1>3, Zenon DEF Contract!CNext

LEMMA ToReturn ==
  ASSUME UNCHANGED <<threadq, clock>>, cpuBar' = cpuBar, NEW t \in Thread, cpuBar = t,
         \A u \in Thread \ {t} : waitBar'[u] = waitBar[u],
         \A u \in Thread \ {t} : waitBar[u] = "waiting" => wakeup'[u] = wakeup[u],
         waitBar[t] \in {"woken", "timedout"}, waitBar'[t] = "no"
  PROVE  Contract!CNext
<1>1. waitBar' = [waitBar EXCEPT ![t] = "no"]
  <2>1. \A u \in Thread : waitBar'[u] = IF u = t THEN "no" ELSE waitBar[u]
    OBVIOUS
  <2> QED BY <2>1, BarFunction
<1>2. dueBar' = dueBar
  <2>1. \A u \in Thread : dueBar'[u] = dueBar[u]
    BY DEF dueBar
  <2> QED BY <2>1 DEF dueBar
<1>3. Contract!Return(t)
  BY <1>1, <1>2, Zenon DEF Contract!Return, dueBar, cpuBar
<1> QED BY <1>3, Zenon DEF Contract!CNext

LEMMA ToRelease ==
  ASSUME UNCHANGED <<threadq, clock, wakeup>>, cpuBar # "nobody", cpuBar' = "nobody",
         \A u \in Thread : waitBar'[u] = waitBar[u]
  PROVE  Contract!CNext
<1>1. waitBar' = waitBar BY BarFunction
<1>2. dueBar' = dueBar BY <1>1 DEF dueBar
<1>3. Contract!Release
  BY <1>1, <1>2, Zenon DEF Contract!Release, dueBar, cpuBar
<1> QED BY <1>3, Zenon DEF Contract!CNext

LEMMA ToDie ==
  ASSUME UNCHANGED <<clock, wakeup>>, cpuBar # "nobody", cpuBar' = "nobody",
         threadq' = threadq \ {cpuBar}, waitBar[cpuBar] = "no",
         \A u \in Thread : waitBar'[u] = waitBar[u]
  PROVE  Contract!CNext
<1>1. waitBar' = waitBar BY BarFunction
<1>2. dueBar' = dueBar BY <1>1 DEF dueBar
<1>3. Contract!Die
  BY <1>1, <1>2, Zenon DEF Contract!Die, dueBar, cpuBar
<1> QED BY <1>3, Zenon DEF Contract!CNext

LEMMA ToSpawn ==
  ASSUME UNCHANGED clock, cpuBar # "nobody", cpuBar' = cpuBar, NEW x \in Thread,
         x \notin threadq, x # cpuBar, threadq' = threadq \cup {x},
         \A u \in Thread : waitBar'[u] = waitBar[u],
         \A u \in Thread : waitBar[u] = "waiting" => wakeup'[u] = wakeup[u]
  PROVE  Contract!CNext
<1>1. waitBar' = waitBar BY BarFunction
<1>2. dueBar' = dueBar BY <1>1 DEF dueBar
<1>3. Contract!Spawn(x)
  BY <1>1, <1>2, Zenon DEF Contract!Spawn, dueBar, cpuBar
<1> QED BY <1>3, Zenon DEF Contract!CNext

LEMMA ToAdvance ==
  ASSUME UNCHANGED <<threadq, wakeup>>, clock' = clock + 1, cpuBar' = cpuBar,
         \A u \in Thread : waitBar'[u] = waitBar[u]
  PROVE  Contract!CNext
<1>1. waitBar' = waitBar BY BarFunction
<1>2. dueBar' = dueBar BY <1>1 DEF dueBar
<1>3. Contract!Advance
  BY <1>1, <1>2, Zenon DEF Contract!Advance, dueBar, cpuBar
<1> QED BY <1>3, Zenon DEF Contract!CNext

LEMMA ToDispatch ==
  ASSUME UNCHANGED <<threadq, clock>>, cpuBar = "nobody", NEW n \in Thread, cpuBar' = n,
         n \in threadq, NEW E \in SUBSET Thread,
         \A u \in Thread : u \in E <=> /\ waitBar[u] = "waiting"
                                       /\ wakeup[u] # BMK_SCHED_BLOCK_INFTIME
                                       /\ wakeup[u] <= clock,
         \A u \in E : waitBar'[u] = "timedout",
         \A u \in Thread \ E : waitBar'[u] = waitBar[u],
         \A u \in Thread \ E : waitBar[u] = "waiting" => wakeup'[u] = wakeup[u],
         waitBar'[n] # "waiting"
  PROVE  Contract!CNext
<1>1. Contract!Overdue = E
  BY DEF Contract!Overdue
<1>2. waitBar' = [u \in Thread |-> IF u \in E THEN "timedout" ELSE waitBar[u]]
  <2>1. \A u \in Thread : waitBar'[u] = IF u \in E THEN "timedout" ELSE waitBar[u]
    OBVIOUS
  <2> QED BY <2>1, BarFunction
<1>3. dueBar' = [u \in Thread |-> IF u \in E THEN BMK_SCHED_BLOCK_INFTIME ELSE dueBar[u]]
  <2>1. \A u \in Thread : dueBar'[u] = IF u \in E THEN BMK_SCHED_BLOCK_INFTIME ELSE dueBar[u]
    BY DEF dueBar
  <2> QED BY <2>1 DEF dueBar
<1>4. Contract!Dispatch(n)
  BY <1>1, <1>2, <1>3, Zenon DEF Contract!Dispatch, dueBar, cpuBar
<1> QED BY <1>4, Zenon DEF Contract!CNext

-----------------------------------------------------------------------------
\* What the contract needs beyond the scheduler's own invariant: a thread with a
\* verdict is on no sleeping queue, and one that blocks without a deadline has none.
WaitInv ==
  \A t \in Thread :
    /\ "TIMEDOUT" \in flags[t] => "TIMEQ" \notin flags[t] /\ "BLOCKQ" \notin flags[t]
    /\ "BLOCKQ" \in flags[t] => wakeup[t] = BMK_SCHED_BLOCK_INFTIME

\* Steps that put nobody on a sleeping queue.
LEMMA WaitKept ==
  ASSUME WaitInv,
         \A u \in Thread :
           \/ "TIMEQ" \notin flags'[u] /\ "BLOCKQ" \notin flags'[u]
           \/ /\ "TIMEQ" \in flags'[u] <=> "TIMEQ" \in flags[u]
              /\ "BLOCKQ" \in flags'[u] <=> "BLOCKQ" \in flags[u]
              /\ "TIMEDOUT" \in flags'[u] => "TIMEDOUT" \in flags[u]
              /\ wakeup'[u] = wakeup[u] \/ wakeup'[u] = BMK_SCHED_BLOCK_INFTIME
  PROVE  WaitInv'
BY DEF WaitInv

\* Queue flags by name.
LEMMA OffFacts ==
  ASSUME NEW F
  PROVE  /\ F \cap QMASK = {} => "RUNQ" \notin F /\ "TIMEQ" \notin F /\ "BLOCKQ" \notin F
         /\ F \cap QMASK = {"RUNQ"} => "RUNQ" \in F /\ "TIMEQ" \notin F /\ "BLOCKQ" \notin F
         /\ F \cap QMASK = {"TIMEQ"} => "RUNQ" \notin F /\ "TIMEQ" \in F /\ "BLOCKQ" \notin F
         /\ F \cap QMASK = {"BLOCKQ"} => "RUNQ" \notin F /\ "TIMEQ" \notin F /\ "BLOCKQ" \in F
BY DEF QMASK

\* Announcing to block is a Prepare of the contract.
LEMMA PrepareRefines ==
  ASSUME IInv, WaitInv, NEW t \in Thread, At(t, "user") \/ At(t, "gateprep") \/ At(t, "join"),
         NEW d \in Deadline \cup {BMK_SCHED_BLOCK_INFTIME}, NEW ret, blockprepare(t, d, ret),
         UNCHANGED <<threadq, clock, mode, current>>
  PROVE  WaitInv' /\ Contract!CNext
<1>1. /\ mode = "thread" /\ t = current /\ pc[t] \in {"user", "gateprep", "join"}
      /\ wakeup' = [wakeup EXCEPT ![t] = d] /\ pc' = [pc EXCEPT ![t] = "prep"]
  BY Zenon DEF At, blockprepare
<1>2. \/ /\ d # BMK_SCHED_BLOCK_INFTIME
         /\ flags' = [flags EXCEPT ![t] = @ \cup {"BLOCKPREP", "TIMEQ"}]
      \/ /\ d = BMK_SCHED_BLOCK_INFTIME
         /\ flags' = [flags EXCEPT ![t] = @ \cup {"BLOCKPREP", "BLOCKQ"}]
  BY Zenon DEF blockprepare
<1>3. /\ flags \in [Thread -> SUBSET Flag] /\ wakeup \in [Thread -> Time] /\ pc \in [Thread -> Label]
  BY DEF IInv, TypeOK
<1>4. /\ "BLOCKPREP" \notin flags[t] /\ "TIMEDOUT" \notin flags[t]
      /\ "TIMEQ" \notin flags[t] /\ "BLOCKQ" \notin flags[t]
  <2>1. flags[t] \cap QMASK = {} BY <1>1, Zenon DEF IInv, CurrentInv, OffQueues
  <2>2. pc[t] \notin {"prep", "block"} BY <1>1
  <2> QED BY <2>1, <2>2, OffFacts, Zenon DEF IInv, LifeInv
<1>5. /\ \A u \in Thread \ {t} : flags'[u] = flags[u] /\ wakeup'[u] = wakeup[u]
      /\ wakeup'[t] = d /\ "BLOCKPREP" \in flags'[t] /\ "TIMEDOUT" \notin flags'[t]
      /\ "TIMEQ" \in flags'[t] \/ "BLOCKQ" \in flags'[t]
      /\ "BLOCKQ" \in flags'[t] => d = BMK_SCHED_BLOCK_INFTIME
  BY <1>1, <1>2, <1>3, <1>4
<1>6. pc'[t] = "prep" BY <1>1, <1>3
<1>7. WaitInv'
  BY <1>5 DEF WaitInv
<1>8. \A u \in Thread : ~BeingWoken(u) /\ ~BeingWoken(u)'
  BY <1>1, <1>6 DEF BeingWoken
<1>9. cpuBar = t /\ cpuBar' = t
  BY <1>1 DEF cpuBar
<1>10. \A u \in Thread \ {t} : waitBar'[u] = waitBar[u]
  BY <1>5, <1>8, BarValue, BarValueNext, Zenon
<1>11. waitBar[t] = "no" /\ waitBar'[t] = "waiting"
  BY <1>4, <1>5, <1>8, BarValue, BarValueNext, Zenon
<1>12. \A u \in Thread \ {t} : waitBar'[u] = waitBar[u] /\ wakeup'[u] = wakeup[u]
  BY <1>5, <1>10, Zenon
<1>13. Contract!CNext
  BY <1>5, <1>9, <1>11, <1>12, ToPrepare, Zenon
<1> QED BY <1>7, <1>13

\* A wakeup is a Signal of the contract when it chooses the queue ...
LEMMA WakeBeginRefines ==
  ASSUME IInv, WaitInv, NEW t \in Thread, mode = "thread", t = current,
         pc[t] \in {"user", "gate", "join"}, NEW x \in threadq, NEW ret, WakeBegin(t, x, ret),
         UNCHANGED <<threadq, clock, mode, current>>,
         \A u \in Thread : flags'[u] \cap (QMASK \cup {"BLOCKPREP", "TIMEDOUT"})
                             = flags[u] \cap (QMASK \cup {"BLOCKPREP", "TIMEDOUT"})
  PROVE  WaitInv' /\ Contract!CNext
<1>1. /\ wakeup' = [wakeup EXCEPT ![x] = BMK_SCHED_BLOCK_INFTIME]
      /\ wk' = [who |-> x, tq |-> QueueOf(flags[x]), ret |-> ret]
      /\ pc' = [pc EXCEPT ![t] = "wake"]
  BY Zenon DEF WakeBegin
<1>2. /\ wakeup \in [Thread -> Time] /\ pc \in [Thread -> Label] /\ x \in Thread
  BY DEF IInv, TypeOK
<1>3. /\ wakeup'[x] = BMK_SCHED_BLOCK_INFTIME /\ \A u \in Thread \ {x} : wakeup'[u] = wakeup[u]
      /\ pc'[t] = "wake" /\ wk'.who = x /\ wk'.tq = QueueOf(flags[x])
  BY <1>1, <1>2
<1>4. ASSUME NEW u \in Thread
      PROVE  /\ "TIMEQ" \in flags'[u] <=> "TIMEQ" \in flags[u]
             /\ "BLOCKQ" \in flags'[u] <=> "BLOCKQ" \in flags[u]
             /\ "BLOCKPREP" \in flags'[u] <=> "BLOCKPREP" \in flags[u]
             /\ "TIMEDOUT" \in flags'[u] <=> "TIMEDOUT" \in flags[u]
  <2>1. \A f \in QMASK \cup {"BLOCKPREP", "TIMEDOUT"} : f \in flags'[u] <=> f \in flags[u]
    OBVIOUS
  <2> QED BY <2>1 DEF QMASK
<1>5. WaitInv'
  BY <1>3, <1>4, WaitKept, Zenon
<1>6. \A u \in Thread : ~BeingWoken(u)
  BY DEF BeingWoken
<1>7. \A u \in Thread \ {x} : ~BeingWoken(u)'
  BY <1>3 DEF BeingWoken
<1>8. "TIMEQ" \in flags[x] \/ "BLOCKQ" \in flags[x] => BeingWoken(x)'
  <2>1. QueueOf(flags[x]) # "none" => BeingWoken(x)'
    BY <1>3, Zenon DEF BeingWoken
  <2>2. QueueOf(flags[x]) = "none" => x \notin Range(timeq) /\ x \notin blockq
    BY QueueOfLive, Zenon
  <2> QED BY <1>2, <2>1, <2>2, Zenon DEF IInv, QueueFlagsAgree
<1>9. \A u \in Thread \ {x} : waitBar'[u] = waitBar[u]
  BY <1>4, <1>6, <1>7, BarValue, BarValueNext, Zenon
<1>10. /\ waitBar[x] = "waiting" => waitBar'[x] = "woken"
       /\ waitBar[x] # "waiting" => waitBar'[x] = waitBar[x]
  BY <1>2, <1>4, <1>6, <1>8, BarValue, BarValueNext
<1>11. cpuBar' = cpuBar BY DEF cpuBar
<1>12. Contract!CNext
  BY <1>2, <1>3, <1>9, <1>10, <1>11, ToSignal, Zenon
<1> QED BY <1>5, <1>12

\* ... and nothing new when it moves the thread.
LEMMA WakeCommitRefines ==
  ASSUME IInv, WaitInv, NEW t \in Thread, WakeCommit(t)
  PROVE  WaitInv' /\ UNCHANGED Contract!cvars
<1> DEFINE x == wk.who
<1>1. /\ mode = "thread" /\ t = current /\ pc[t] = "wake"
      /\ pc' = [pc EXCEPT ![t] = wk.ret]
      /\ UNCHANGED <<threadq, wakeup, current, mode, clock>>
  BY Zenon DEF WakeCommit, At
<1>2. /\ x \in Thread /\ wk.tq \in {"none", "TIMEQ", "BLOCKQ"} /\ wk.ret \in {"user", "gateprep"}
      /\ pc \in [Thread -> Label] /\ flags \in [Thread -> SUBSET Flag]
  BY DEF IInv, TypeOK
<1>3. wk.tq = QueueOf(flags[x])
  BY <1>1, Zenon DEF IInv, WakeInv
<1>4. pc'[t] # "wake"
  BY <1>1, <1>2
<1>5. \A u \in Thread : ~BeingWoken(u)'
  BY <1>1, <1>4, Zenon DEF BeingWoken
<1>6. \A u \in Thread : BeingWoken(u) <=> u = x /\ wk.tq # "none"
  BY <1>1, Zenon DEF BeingWoken
<1>7. cpuBar' = cpuBar BY <1>1, Zenon DEF cpuBar
<1> HIDE DEF x
<1>8. CASE wk.tq = "none"
  <2>1. flags' = flags BY <1>8, Zenon DEF WakeCommit
  <2>2. WaitInv' BY <1>1, <2>1, WaitKept, Zenon
  <2>3. \A u \in Thread : waitBar'[u] = waitBar[u]
    BY <1>5, <1>6, <1>8, <2>1, BarValue, BarValueNext, Zenon
  <2>4. UNCHANGED Contract!cvars BY <1>1, <1>7, <2>3, ToStutter, Zenon
  <2> QED BY <2>2, <2>4
<1>9. CASE wk.tq # "none"
  <2>1. wk.tq \in {"TIMEQ", "BLOCKQ"} BY <1>2, <1>9
  <2>2. MoveToRunq(x, wk.tq) BY <1>9, Zenon DEF WakeCommit, x
  <2>3. /\ flags' = [flags EXCEPT ![x] = (flags[x] \ QMASK) \cup {"RUNQ"}]
        /\ flags[x] \cap QMASK = {wk.tq} /\ flags'[x] \cap QMASK = {"RUNQ"}
    BY <1>2, <1>3, <2>1, <2>2, MoveFacts, ZenonT(40) DEF IInv
  <2>4. /\ \A u \in Thread \ {x} : flags'[u] = flags[u]
        /\ "TIMEQ" \notin flags'[x] /\ "BLOCKQ" \notin flags'[x]
        /\ "TIMEQ" \in flags[x] \/ "BLOCKQ" \in flags[x]
        /\ "BLOCKPREP" \in flags'[x] <=> "BLOCKPREP" \in flags[x]
        /\ "TIMEDOUT" \in flags'[x] <=> "TIMEDOUT" \in flags[x]
    BY <1>2, <2>1, <2>3 DEF QMASK
  <2>5. WaitInv' BY <1>1, <2>4, WaitKept, Zenon
  <2>6. "TIMEDOUT" \notin flags[x] BY <1>2, <2>4 DEF WaitInv
  <2>7. \A u \in Thread \ {x} : waitBar'[u] = waitBar[u]
    BY <1>5, <1>6, <2>4, BarValue, BarValueNext, Zenon
  <2>8. waitBar'[x] = waitBar[x]
    BY <1>2, <1>5, <1>6, <1>9, <2>4, <2>6, BarValue, BarValueNext, Zenon
  <2>9. UNCHANGED Contract!cvars BY <1>1, <1>7, <2>7, <2>8, ToStutter, Zenon
  <2> QED BY <2>5, <2>9
<1> QED BY <1>8, <1>9

\* An interrupt handler's wakeup is a Signal.
LEMMA InterruptRefines ==
  ASSUME WakeDiscipline, IInv, WaitInv, NEW x \in Thread, Interrupt(x)
  PROVE  WaitInv' /\ Contract!CNext
<1> DEFINE tq == QueueOf(flags[x])
<1>1. /\ x \in threadq /\ x \in IntrWoken
      /\ wakeup' = [wakeup EXCEPT ![x] = BMK_SCHED_BLOCK_INFTIME]
      /\ UNCHANGED <<threadq, current, mode, pc, wk, clock>>
  BY Zenon DEF Interrupt, WakeAtomically, locals
<1>2. \/ tq \in {"TIMEQ", "BLOCKQ"} /\ MoveToRunq(x, tq)
      \/ tq \in {"none", "halt"} /\ UNCHANGED flags
  BY Zenon DEF Interrupt, WakeAtomically
<1>3. /\ wakeup \in [Thread -> Time] /\ flags \in [Thread -> SUBSET Flag]
  BY DEF IInv, TypeOK
<1>4. /\ wakeup'[x] = BMK_SCHED_BLOCK_INFTIME
      /\ \A u \in Thread \ {x} : wakeup'[u] = wakeup[u]
  BY <1>1, <1>3
<1>5. cpuBar' = cpuBar BY <1>1, Zenon DEF cpuBar
<1>6. \A u \in Thread : BeingWoken(u)' <=> BeingWoken(u)
  BY <1>1, Zenon DEF BeingWoken
<1>7. ~BeingWoken(x)
  <2>1. x \notin ThreadWoken BY <1>1 DEF WakeDiscipline
  <2> QED BY <2>1, Zenon DEF BeingWoken, IInv, WakeInv
<1>8. CASE tq \in {"none", "halt"} /\ UNCHANGED flags
  <2>1. WaitInv' BY <1>4, <1>8, WaitKept, Zenon
  <2>2. \A u \in Thread : waitBar'[u] = waitBar[u]
    BY <1>6, <1>8, BarValue, BarValueNext, Zenon
  <2>3. waitBar[x] # "waiting"
    <3>1. tq \in {"none", "TIMEQ", "BLOCKQ"} /\ (tq = "none" => x \notin Range(timeq) /\ x \notin blockq)
      BY <1>1, QueueOfLive, Zenon
    <3>2. tq = "none" BY <1>8, <3>1
    <3>3. "TIMEQ" \notin flags[x] /\ "BLOCKQ" \notin flags[x]
      BY <3>1, <3>2, Zenon DEF IInv, QueueFlagsAgree
    <3> QED BY <3>3, BarValue
  <2>4. Contract!CNext BY <1>1, <1>4, <1>5, <2>2, <2>3, ToSignal, Zenon
  <2> QED BY <2>1, <2>4
<1>9. CASE tq \in {"TIMEQ", "BLOCKQ"} /\ MoveToRunq(x, tq)
  <2>3. /\ flags' = [flags EXCEPT ![x] = (flags[x] \ QMASK) \cup {"RUNQ"}]
        /\ flags[x] \cap QMASK = {tq} /\ flags'[x] \cap QMASK = {"RUNQ"}
    <3>1. PICK q \in {"TIMEQ", "BLOCKQ"} : q = tq /\ MoveToRunq(x, q) BY <1>9
    <3>2. q = QueueOf(flags[x]) BY <3>1
    <3> QED BY <3>1, <3>2, MoveFacts, ZenonT(40) DEF IInv
  <2>4. /\ \A u \in Thread \ {x} : flags'[u] = flags[u]
        /\ "TIMEQ" \notin flags'[x] /\ "BLOCKQ" \notin flags'[x]
        /\ "TIMEQ" \in flags[x] \/ "BLOCKQ" \in flags[x]
        /\ "BLOCKPREP" \in flags'[x] <=> "BLOCKPREP" \in flags[x]
        /\ "TIMEDOUT" \in flags'[x] <=> "TIMEDOUT" \in flags[x]
    <3> HIDE DEF tq
    <3> QED BY <1>3, <1>9, <2>3 DEF QMASK
  <2>5. WaitInv' BY <1>4, <2>4, WaitKept, Zenon
  <2>6. "TIMEDOUT" \notin flags[x] BY <2>4 DEF WaitInv
  <2>7. \A u \in Thread \ {x} : waitBar'[u] = waitBar[u]
    BY <1>6, <2>4, BarValue, BarValueNext, Zenon
  <2>8. /\ waitBar[x] = "waiting" => waitBar'[x] = "woken"
        /\ waitBar[x] # "waiting" => waitBar'[x] = waitBar[x]
    BY <1>7, <2>4, <2>6, BarValue, BarValueNext
  <2>9. Contract!CNext BY <1>1, <1>4, <1>5, <2>7, <2>8, ToSignal, Zenon
  <2> QED BY <2>5, <2>9
<1> QED BY <1>2, <1>8, <1>9

\* Calling schedule() lets go of the CPU.
LEMMA ReleaseRefines ==
  ASSUME IInv, WaitInv, NEW t \in Thread, Block(t) \/ Yield(t)
  PROVE  WaitInv' /\ Contract!CNext
<1>1. /\ mode = "thread" /\ t = current /\ pc[t] \in {"prep", "user"} /\ mode' = "sched"
      /\ UNCHANGED <<threadq, wakeup, current, clock>>
  BY DEF Block, Yield, At, queues
<1>2. UNCHANGED flags \/ flags' = [flags EXCEPT ![t] = (@ \ {"RUNNING"}) \cup {"RUNQ"}]
  BY Zenon DEF Block, Yield
<1>3. \A u \in Thread : /\ "TIMEQ" \in flags'[u] <=> "TIMEQ" \in flags[u]
                        /\ "BLOCKQ" \in flags'[u] <=> "BLOCKQ" \in flags[u]
                        /\ "BLOCKPREP" \in flags'[u] <=> "BLOCKPREP" \in flags[u]
                        /\ "TIMEDOUT" \in flags'[u] <=> "TIMEDOUT" \in flags[u]
  BY <1>2 DEF IInv, TypeOK
<1>4. \A u \in Thread : ~BeingWoken(u) /\ ~BeingWoken(u)'
  BY <1>1 DEF BeingWoken
<1>5. WaitInv' BY <1>1, <1>3, WaitKept, Zenon
<1>6. \A u \in Thread : waitBar'[u] = waitBar[u]
  BY <1>3, <1>4, BarValue, BarValueNext, Zenon
<1>7. cpuBar # "nobody" /\ cpuBar' = "nobody"
  BY <1>1, SchedAssumption DEF cpuBar
<1> QED BY <1>1, <1>5, <1>6, <1>7, ToRelease

\* So does dying.
LEMMA DieRefines ==
  ASSUME IInv, WaitInv, NEW t \in Thread, ExitDie(t)
  PROVE  WaitInv' /\ Contract!CNext
<1>1. /\ mode = "thread" /\ t = current /\ pc[t] = "gate" /\ mode' = "sched"
      /\ threadq' = threadq \ {t}
      /\ flags' = [flags EXCEPT ![t] = (@ \ {"RUNNING"}) \cup {"DEAD"}]
      /\ UNCHANGED <<wakeup, current, clock>>
  BY Zenon DEF ExitDie, Dies, At
<1>3. \A u \in Thread : /\ "TIMEQ" \in flags'[u] <=> "TIMEQ" \in flags[u]
                        /\ "BLOCKQ" \in flags'[u] <=> "BLOCKQ" \in flags[u]
                        /\ "BLOCKPREP" \in flags'[u] <=> "BLOCKPREP" \in flags[u]
                        /\ "TIMEDOUT" \in flags'[u] <=> "TIMEDOUT" \in flags[u]
  BY <1>1 DEF IInv, TypeOK
<1>4. \A u \in Thread : ~BeingWoken(u) /\ ~BeingWoken(u)'
  BY <1>1 DEF BeingWoken
<1>5. WaitInv' BY <1>1, <1>3, WaitKept, Zenon
<1>6. \A u \in Thread : waitBar'[u] = waitBar[u]
  BY <1>3, <1>4, BarValue, BarValueNext, Zenon
<1>7. cpuBar = t /\ cpuBar # "nobody" /\ cpuBar' = "nobody"
  BY <1>1, SchedAssumption DEF cpuBar
<1>8. waitBar[t] = "no"
  <2>1. "BLOCKPREP" \notin flags[t] BY <1>1 DEF IInv, LifeInv
  <2> QED BY <2>1, BarValue, Zenon
<1> QED BY <1>1, <1>5, <1>6, <1>7, <1>8, ToDie

\* Creating a thread.
LEMMA CreateRefines ==
  ASSUME IInv, WaitInv, NEW t \in Thread, NEW x \in Thread, Create(t, x)
  PROVE  WaitInv' /\ Contract!CNext
<1>1. /\ mode = "thread" /\ t = current /\ pc[t] = "user" /\ pc[x] = "none"
      /\ threadq' = threadq \cup {x}
      /\ wakeup' = [wakeup EXCEPT ![x] = BMK_SCHED_BLOCK_INFTIME]
      /\ pc' = [pc EXCEPT ![x] = "virgin"]
      /\ UNCHANGED <<current, mode, clock>>
  BY Zenon DEF Create, At
<1>2. \E F \in SUBSET {"RUNQ", "MUSTJOIN", "EXTSTACK"} : flags' = [flags EXCEPT ![x] = F]
  <2>1. PICK j \in BOOLEAN :
          flags' = [flags EXCEPT
                      ![x] = {"RUNQ"} \cup (IF j THEN {"MUSTJOIN"} ELSE {})
                               \cup (IF x \in ExtStack THEN {"EXTSTACK"} ELSE {})]
    BY Zenon DEF Create
  <2> DEFINE F == {"RUNQ"} \cup (IF j THEN {"MUSTJOIN"} ELSE {})
                     \cup (IF x \in ExtStack THEN {"EXTSTACK"} ELSE {})
  <2>2. F \in SUBSET {"RUNQ", "MUSTJOIN", "EXTSTACK"} OBVIOUS
  <2> QED BY <2>1, <2>2, Zenon
<1>3. /\ flags \in [Thread -> SUBSET Flag] /\ wakeup \in [Thread -> Time] /\ pc \in [Thread -> Label]
      /\ flags[x] = {} /\ x \notin threadq /\ x # t
  BY <1>1 DEF IInv, TypeOK, LifeInv
<1>4. /\ \A u \in Thread \ {x} : flags'[u] = flags[u] /\ wakeup'[u] = wakeup[u]
      /\ "TIMEQ" \notin flags'[x] /\ "BLOCKQ" \notin flags'[x] /\ "BLOCKPREP" \notin flags'[x]
  BY <1>1, <1>2, <1>3
<1>5. pc'[t] = "user" BY <1>1, <1>3
<1>6. \A u \in Thread : ~BeingWoken(u) /\ ~BeingWoken(u)'
  BY <1>1, <1>5 DEF BeingWoken
<1>7. WaitInv' BY <1>4, WaitKept, Zenon
<1>8. waitBar'[x] = "no" /\ waitBar[x] = "no"
  BY <1>3, <1>4, BarValue, BarValueNext
<1>9. \A u \in Thread \ {x} : waitBar'[u] = waitBar[u]
  BY <1>4, <1>6, BarValue, BarValueNext, Zenon
<1>10. cpuBar = t /\ cpuBar' = t /\ cpuBar # "nobody"
  BY <1>1, SchedAssumption DEF cpuBar
<1>11. /\ \A u \in Thread : waitBar'[u] = waitBar[u]
       /\ \A u \in Thread : waitBar[u] = "waiting" => wakeup'[u] = wakeup[u]
  BY <1>4, <1>8, <1>9
<1>12. Contract!CNext BY <1>1, <1>3, <1>10, <1>11, ToSpawn
<1> QED BY <1>7, <1>12

\* Steps the contract does not see.
LEMMA HiddenRefines ==
  ASSUME IInv, WaitInv, UNCHANGED <<threadq, clock, current, wakeup>>,
         cpuBar' = cpuBar,
         ~(mode = "thread" /\ pc[current] = "wake"),
         ~(mode' = "thread" /\ pc'[current'] = "wake"),
         \A u \in Thread : flags'[u] = flags[u] \/ flags'[u] = flags[u] \cup {"JOINED"}
  PROVE  WaitInv' /\ UNCHANGED Contract!cvars
<1>3. \A u \in Thread : /\ "TIMEQ" \in flags'[u] <=> "TIMEQ" \in flags[u]
                        /\ "BLOCKQ" \in flags'[u] <=> "BLOCKQ" \in flags[u]
                        /\ "BLOCKPREP" \in flags'[u] <=> "BLOCKPREP" \in flags[u]
                        /\ "TIMEDOUT" \in flags'[u] <=> "TIMEDOUT" \in flags[u]
  OBVIOUS
<1>4. \A u \in Thread : ~BeingWoken(u) /\ ~BeingWoken(u)'
  BY DEF BeingWoken
<1>5. WaitInv' BY <1>3, WaitKept, Zenon
<1>6. \A u \in Thread : waitBar'[u] = waitBar[u]
  BY <1>3, <1>4, BarValue, BarValueNext, Zenon
<1> QED BY <1>5, <1>6, ToStutter, Zenon

\* schedule() expires exactly the threads whose deadline has come.
LEMMA ExpiredDue ==
  ASSUME IInv, mode = "sched"
  PROVE  /\ Range(SubSeq(timeq, 1, Expired)) \subseteq Range(timeq)
         /\ \A i \in DOMAIN timeq : timeq[i] \in Range(SubSeq(timeq, 1, Expired))
                                      <=> wakeup[timeq[i]] <= clock
<1> DEFINE waiting == {i \in DOMAIN timeq : wakeup[timeq[i]] > clock}
           k == Expired
           a == SubSeq(timeq, 1, k)
<1>1. timeq \in Seq(Thread) /\ Distinct(timeq) /\ clock \in Nat /\ wakeup \in [Thread -> Time]
  BY DEF IInv, TypeOK, QueueFlagsAgree
<1>2. DOMAIN timeq = 1 .. Len(timeq) /\ Len(timeq) \in Nat
  BY <1>1, QueueElements, Zenon
<1>3. /\ \A i \in DOMAIN timeq : wakeup[timeq[i]] # BMK_SCHED_BLOCK_INFTIME
      /\ \A i, j \in DOMAIN timeq : i < j => wakeup[timeq[i]] <= wakeup[timeq[j]]
  BY DEF IInv, TimeqInv, BeingWoken
<1>4. \A i \in DOMAIN timeq : wakeup[timeq[i]] \in Nat
  <2>1. \A i \in DOMAIN timeq : timeq[i] \in Thread BY <1>1, QueueElements, Zenon
  <2> QED BY <1>1, <1>3, <2>1 DEF Time
<1>5. k = IF waiting = {} THEN Len(timeq) ELSE Min(waiting) - 1
  BY DEF Expired
<1>6. waiting # {} => Min(waiting) \in waiting /\ \A j \in waiting : Min(waiting) <= j
  <2>1. waiting \in SUBSET Nat BY <1>2
  <2> HIDE DEF waiting
  <2> QED BY <2>1, FirstPosition, Zenon
<1> HIDE DEF k
<1>7. k \in 0 .. Len(timeq)
  BY <1>2, <1>5, <1>6
<1>8. \A i \in DOMAIN timeq : i <= k <=> wakeup[timeq[i]] <= clock
  <2>1. CASE waiting = {}
    <3>1. \A i \in DOMAIN timeq : wakeup[timeq[i]] <= clock BY <1>1, <1>4, <2>1
    <3>2. k = Len(timeq) BY <1>5, <2>1
    <3> QED BY <1>2, <3>1, <3>2
  <2>2. CASE waiting # {}
    <3> DEFINE m == Min(waiting)
    <3>1. /\ k = m - 1 /\ m \in DOMAIN timeq /\ wakeup[timeq[m]] > clock
          /\ \A j \in DOMAIN timeq : wakeup[timeq[j]] > clock => m <= j
      BY <1>5, <1>6, <2>2
    <3> HIDE DEF m
    <3>2. ASSUME NEW i \in DOMAIN timeq, i <= k PROVE wakeup[timeq[i]] <= clock
      BY <1>1, <1>2, <1>4, <3>1, <3>2
    <3>3. ASSUME NEW i \in DOMAIN timeq, ~(i <= k) PROVE ~(wakeup[timeq[i]] <= clock)
      <4>1. i = m \/ m < i BY <1>2, <3>1, <3>3
      <4>2. wakeup[timeq[m]] \in Nat /\ wakeup[timeq[i]] \in Nat BY <1>4, <3>1, Zenon
      <4>3. CASE m < i
        <5>1. wakeup[timeq[m]] <= wakeup[timeq[i]] BY <1>3, <3>1, <4>3, Zenon
        <5> QED BY <1>1, <3>1, <4>2, <5>1
      <4>4. CASE i = m BY <1>1, <3>1, <4>2, <4>4
      <4> QED BY <4>1, <4>3, <4>4
    <3> QED BY <3>2, <3>3
  <2> QED BY <2>1, <2>2
<1>9. Range(a) = {timeq[i] : i \in 1 .. k}
  BY <1>1, <1>7, SplitQueue
<1> HIDE DEF a
<1>10. Range(a) \subseteq Range(timeq)
  <2>1. \A i \in 1 .. k : i \in DOMAIN timeq BY <1>2, <1>7
  <2> QED BY <1>9, <2>1, Zenon DEF Range
<1>11. ASSUME NEW i \in DOMAIN timeq PROVE timeq[i] \in Range(a) <=> i <= k
  <2>1. i \in 1 .. k <=> i <= k BY <1>2, <1>7
  <2>2. ASSUME timeq[i] \in Range(a) PROVE i \in 1 .. k
    <3>1. PICK j \in 1 .. k : timeq[i] = timeq[j] BY <1>9, <2>2
    <3>2. j \in DOMAIN timeq BY <1>2, <1>7
    <3>3. i = j BY <1>1, <3>1, <3>2, Zenon DEF Distinct
    <3> QED BY <3>1, <3>3
  <2> QED BY <1>9, <2>1, <2>2, Zenon
<1> QED BY <1>8, <1>10, <1>11, Zenon DEF a, k

\* A round of schedule() that finds a thread to run.
LEMMA DispatchRefines ==
  ASSUME IInv, WaitInv, Schedule, runq \o SubSeq(timeq, 1, Expired) # <<>>
  PROVE  WaitInv' /\ Contract!CNext
<1> DEFINE a == SubSeq(timeq, 1, Expired)
           rq == runq \o a
           E == Range(a)
           fl == [t \in Thread |-> IF t \in E
                                   THEN (flags[t] \ QMASK) \cup {"RUNQ", "TIMEDOUT"}
                                   ELSE flags[t]]
           off == [fl EXCEPT ![current] = @ \ {"RUNNING"}]
<1>1. /\ mode = "sched" /\ UNCHANGED <<threadq, pc, wk, clock>>
  BY Zenon DEF Schedule, locals
<1>2. PICK n : n = Head(rq)
  OBVIOUS
<1>3. /\ wakeup' = [t \in Thread |-> IF t \in E THEN BMK_SCHED_BLOCK_INFTIME ELSE wakeup[t]]
      /\ flags' = [off EXCEPT ![n] = (@ \ {"RUNQ"}) \cup {"RUNNING"}]
      /\ current' = n /\ mode' = "resume"
  BY <1>2, Zenon DEF Schedule
<1>4. /\ runq \in Seq(Thread) /\ flags \in [Thread -> SUBSET Flag] /\ current \in Thread
      /\ wakeup \in [Thread -> Time] /\ timeq \in Seq(Thread) /\ a \in Seq(Thread)
  BY <1>1, ExpiredFacts, Zenon DEF IInv, TypeOK
<1>5. /\ E \subseteq Range(timeq)
      /\ \A i \in DOMAIN timeq : timeq[i] \in E <=> wakeup[timeq[i]] <= clock
  BY <1>1, ExpiredDue, Zenon
<1>6. \A u \in Range(timeq) : u \in Thread /\ (u \in E <=> wakeup[u] <= clock)
  <2>1. \A u \in Range(timeq) : \E i \in DOMAIN timeq : u = timeq[i] BY DEF Range
  <2>2. \A i \in DOMAIN timeq : timeq[i] \in Thread BY <1>4, QueueElements, ZenonT(40)
  <2> QED BY <1>5, <2>1, <2>2, Zenon
<1>7. n \in Range(runq) \cup E /\ n \in Thread
  <2>1. rq \in Seq(Thread) /\ Range(rq) = Range(runq) \cup E BY <1>4, ConcatQueue, ZenonT(40)
  <2>2. n \in Range(rq)
    <3> HIDE DEF rq
    <3> QED BY <1>2, <2>1, TailQueue, Zenon DEF rq
  <2>3. Range(rq) \subseteq Thread
    <3> HIDE DEF rq
    <3> QED BY <2>1, QueueElements, Zenon
  <2> QED BY <2>1, <2>2, <2>3, Zenon
<1>8. n \in threadq
  <2>1. pc[n] \notin {"none", "dead"}
    <3>1. "RUNQ" \in flags[n] \/ "TIMEQ" \in flags[n]
      BY <1>5, <1>7, Zenon DEF IInv, QueueFlagsAgree
    <3>2. ~OffQueues(n) BY <3>1, OffFacts, Zenon DEF OffQueues
    <3>3. CASE n = current BY <1>1, <3>2, <3>3, Zenon DEF IInv, CurrentInv
    <3>4. CASE n # current BY <1>7, <3>2, <3>4, Zenon DEF IInv, OthersInv
    <3> QED BY <3>3, <3>4
  <2> QED BY <1>7, <2>1 DEF IInv, LifeInv
<1>9. ASSUME NEW u \in Thread
      PROVE  /\ u \notin E => /\ wakeup'[u] = wakeup[u]
                              /\ "TIMEQ" \in flags'[u] <=> "TIMEQ" \in flags[u]
                              /\ "BLOCKQ" \in flags'[u] <=> "BLOCKQ" \in flags[u]
                              /\ "TIMEDOUT" \in flags'[u] <=> "TIMEDOUT" \in flags[u]
             /\ u \in E => /\ "TIMEQ" \notin flags'[u] /\ "BLOCKQ" \notin flags'[u]
                           /\ "TIMEDOUT" \in flags'[u]
             /\ "BLOCKPREP" \in flags'[u] <=> "BLOCKPREP" \in flags[u]
  <2> HIDE DEF E
  <2>1. /\ fl[u] = IF u \in E THEN (flags[u] \ QMASK) \cup {"RUNQ", "TIMEDOUT"} ELSE flags[u]
        /\ off[u] = fl[u] \/ off[u] = fl[u] \ {"RUNNING"}
    BY <1>4
  <2>2. flags'[u] = off[u] \/ flags'[u] = (off[u] \ {"RUNQ"}) \cup {"RUNNING"}
    <3>1. off = [t \in Thread |-> off[t]] BY <1>4
    <3> HIDE DEF off
    <3> QED BY <1>3, <3>1
  <2>3. wakeup'[u] = IF u \in E THEN BMK_SCHED_BLOCK_INFTIME ELSE wakeup[u] BY <1>3
  <2> HIDE DEF fl, off
  <2> QED BY <2>1, <2>2, <2>3 DEF QMASK
<1> HIDE DEF E, fl, off, rq, a
<1>10. WaitInv' BY <1>9, WaitKept, Zenon
<1>11. \A u \in Thread : ~BeingWoken(u) /\ ~BeingWoken(u)'
  BY <1>1, <1>3 DEF BeingWoken
<1>12. ASSUME NEW u \in Thread
       PROVE  u \in E <=> /\ waitBar[u] = "waiting"
                          /\ wakeup[u] # BMK_SCHED_BLOCK_INFTIME
                          /\ wakeup[u] <= clock
  <2>1. ASSUME u \in E
        PROVE  /\ waitBar[u] = "waiting" /\ wakeup[u] # BMK_SCHED_BLOCK_INFTIME
               /\ wakeup[u] <= clock
    <3>1. u \in Range(timeq) BY <1>5, <2>1, Zenon
    <3>2. "TIMEQ" \in flags[u] /\ wakeup[u] <= clock
      BY <1>6, <2>1, <3>1, Zenon DEF IInv, QueueFlagsAgree
    <3>3. "BLOCKPREP" \in flags[u] BY <3>2, Zenon DEF IInv, LifeInv
    <3>4. waitBar[u] = "waiting" BY <1>11, <3>2, <3>3, BarValue, Zenon
    <3>5. wakeup[u] # BMK_SCHED_BLOCK_INFTIME
      BY <1>11, <3>1, Zenon DEF IInv, TimeqInv, Range
    <3> QED BY <3>2, <3>4, <3>5
  <2>2. ASSUME waitBar[u] = "waiting", wakeup[u] # BMK_SCHED_BLOCK_INFTIME, wakeup[u] <= clock
        PROVE  u \in E
    <3>1. "TIMEQ" \in flags[u] \/ "BLOCKQ" \in flags[u] BY <2>2, BarValue
    <3>2. "TIMEQ" \in flags[u] BY <2>2, <3>1, Zenon DEF WaitInv
    <3>3. u \in Range(timeq) BY <3>2, Zenon DEF IInv, QueueFlagsAgree
    <3> QED BY <1>6, <2>2, <3>3, Zenon
  <2> QED BY <2>1, <2>2
<1>13. \A u \in Thread \ E : waitBar'[u] = waitBar[u]
  BY <1>9, <1>11, BarValue, BarValueNext, Zenon
<1>14. \A u \in E : waitBar'[u] = "timedout"
  <2>1. \A u \in E : u \in Thread /\ "BLOCKPREP" \in flags[u]
    <3>1. \A u \in E : u \in Thread BY <1>5, <1>6, Zenon
    <3>2. \A u \in E : waitBar[u] = "waiting" BY <1>12, <3>1, Zenon
    <3>3. "no" # "waiting" OBVIOUS
    <3> QED BY <3>1, <3>2, <3>3, BarValue, Zenon
  <2> QED BY <1>9, <2>1, BarValueNext, Zenon
<1>15. waitBar'[n] # "waiting"
  <2>1. n \in E => waitBar'[n] # "waiting" BY <1>14
  <2>2. ASSUME n \notin E PROVE waitBar[n] # "waiting"
    <3>1. n \in Range(runq) BY <1>7, <2>2, Zenon
    <3>2. "RUNQ" \in flags[n] /\ \A p, q \in flags[n] \cap QMASK : p = q
      BY <1>7, <3>1, Zenon DEF IInv, QueueFlagsAgree
    <3>3. "TIMEQ" \notin flags[n] /\ "BLOCKQ" \notin flags[n]
      BY <3>2 DEF QMASK
    <3> QED BY <1>7, <3>3, BarValue
  <2> QED BY <1>7, <1>13, <2>1, <2>2
<1>16. cpuBar = "nobody" /\ cpuBar' = n
  BY <1>1, <1>3 DEF cpuBar
<1>17. E \in SUBSET Thread BY <1>5, <1>6
<1>18. \A u \in Thread \ E : waitBar[u] = "waiting" => wakeup'[u] = wakeup[u]
  BY <1>9, Zenon
<1>19. Contract!CNext
  BY <1>1, <1>7, <1>8, <1>12, <1>13, <1>14, <1>15, <1>16, <1>17, <1>18, ToDispatch, Zenon
<1> QED BY <1>10, <1>19

\* schedule() returns, or a new thread starts.
LEMMA ResumeRefines ==
  ASSUME IInv, WaitInv, Resume
  PROVE  WaitInv' /\ (Contract!CNext \/ UNCHANGED Contract!cvars)
<1>1. /\ mode = "resume" /\ mode' = "thread"
      /\ UNCHANGED <<threadq, current, wk, clock>>
  BY Zenon DEF Resume
<1>2. PICK c \in Thread : c = current
  BY DEF IInv, TypeOK
<1>3. /\ flags \in [Thread -> SUBSET Flag] /\ wakeup \in [Thread -> Time] /\ pc \in [Thread -> Label]
      /\ cont \in [Thread -> {"user", "gate", "join"}]
  BY DEF IInv, TypeOK
<1>4. cpuBar = c /\ cpuBar' = c BY <1>1, <1>2 DEF cpuBar
<1>5. pc'[c] # "wake"
  <2>1. CASE pc[c] = "virgin"
    <3>1. pc' = [pc EXCEPT ![c] = "user"] BY <1>2, <2>1, Zenon DEF Resume
    <3> QED BY <1>3, <3>1
  <2>2. CASE pc[c] # "virgin"
    <3>1. pc' = [t \in Thread |-> IF t \in zombieq THEN "none"
                                  ELSE IF t # current THEN pc[t]
                                  ELSE IF pc[t] = "block" THEN cont[t] ELSE "user"]
      BY <1>2, <2>2, Zenon DEF Resume
    <3>2. pc'[c] \in {"none", cont[c], "user"} BY <1>2, <3>1
    <3> QED BY <1>3, <3>2
  <2> QED BY <2>1, <2>2
<1>6. \A u \in Thread : ~BeingWoken(u) /\ ~BeingWoken(u)'
  BY <1>1, <1>2, <1>5 DEF BeingWoken
<1>7. CASE pc[c] = "virgin"
  <2>1. UNCHANGED <<flags, wakeup>> BY <1>2, <1>7, Zenon DEF Resume
  <2>2. WaitInv' BY <2>1, WaitKept, Zenon
  <2>3. \A u \in Thread : waitBar'[u] = waitBar[u]
    BY <1>6, <2>1, BarValue, BarValueNext, Zenon
  <2> QED BY <1>1, <1>4, <2>1, <2>2, <2>3, ToStutter, Zenon
<1>8. CASE pc[c] # "virgin"
  <2>1. /\ flags' = [t \in Thread |->
                       IF t \in zombieq THEN {}
                       ELSE IF t = current /\ pc[t] = "block"
                       THEN flags[t] \ {"TIMEDOUT", "BLOCKPREP"} ELSE flags[t]]
        /\ wakeup' = [t \in Thread |-> IF t \in zombieq
                                       THEN BMK_SCHED_BLOCK_INFTIME ELSE wakeup[t]]
    BY <1>2, <1>8, Zenon DEF Resume
  <2>2. pc[c] \in {"block", "yield"} /\ OffQueues(c)
    BY <1>1, <1>2, <1>8 DEF IInv, CurrentInv
  <2>3. c \notin zombieq BY <2>2 DEF IInv, LifeInv
  <2>4. \A u \in zombieq : u \in Thread /\ "BLOCKPREP" \notin flags[u]
    BY DEF IInv, LifeInv, TypeOK
  <2>5. \A u \in zombieq : flags'[u] = {}
    BY <2>1, <2>4
  <2>6. \A u \in (Thread \ zombieq) \ {c} : flags'[u] = flags[u]
    BY <1>2, <2>1
  <2>7. \A u \in Thread \ zombieq : wakeup'[u] = wakeup[u]
    BY <2>1
  <2>8. flags'[c] = IF pc[c] = "block" THEN flags[c] \ {"TIMEDOUT", "BLOCKPREP"} ELSE flags[c]
    BY <1>2, <2>1, <2>3
  <2>9. "TIMEQ" \notin flags[c] /\ "BLOCKQ" \notin flags[c] BY <2>2, OffFacts, Zenon DEF OffQueues
  <2>10. "TIMEQ" \notin flags'[c] /\ "BLOCKQ" \notin flags'[c] BY <2>8, <2>9
  <2>11. WaitInv'
    <3>1. \A u \in zombieq : "TIMEQ" \notin flags'[u] /\ "BLOCKQ" \notin flags'[u] BY <2>5
    <3> QED BY <2>6, <2>7, <2>10, <3>1, WaitKept, Zenon
  <2>12. \A u \in zombieq : waitBar'[u] = "no" /\ waitBar[u] = "no"
    <3>1. \A u \in zombieq : "BLOCKPREP" \notin flags'[u] BY <2>5
    <3> QED BY <2>4, <3>1, BarValue, BarValueNext, Zenon
  <2>13. \A u \in (Thread \ zombieq) \ {c} : waitBar'[u] = waitBar[u]
    BY <1>6, <2>6, BarValue, BarValueNext, Zenon
  <2>14. \A u \in Thread \ {c} : waitBar'[u] = waitBar[u]
    BY <2>12, <2>13
  <2>15. \A u \in Thread : waitBar[u] = "waiting" => wakeup'[u] = wakeup[u]
    BY <2>7, <2>12
  <2>16. CASE pc[c] = "block"
    <3>1. "BLOCKPREP" \in flags[c] BY <2>16 DEF IInv, LifeInv
    <3>2. "BLOCKPREP" \notin flags'[c] BY <2>8, <2>16
    <3>3. waitBar[c] \in {"woken", "timedout"} BY <2>9, <3>1, BarValue
    <3>4. waitBar'[c] = "no" BY <3>2, BarValueNext, Zenon
    <3>5. Contract!CNext BY <1>1, <1>4, <2>14, <2>15, <3>3, <3>4, ToReturn, Zenon
    <3> QED BY <2>11, <3>5
  <2>17. CASE pc[c] # "block"
    <3>1. flags'[c] = flags[c] BY <2>8, <2>17
    <3>2. waitBar'[c] = waitBar[c] BY <1>6, <3>1, BarValue, BarValueNext, Zenon
    <3>3. \A u \in Thread : waitBar'[u] = waitBar[u] BY <2>14, <3>2
    <3>4. UNCHANGED Contract!cvars BY <1>1, <1>4, <2>15, <3>3, ToStutter, Zenon
    <3> QED BY <2>11, <3>4
  <2> QED BY <2>16, <2>17
<1> QED BY <1>7, <1>8

\* The calls of a thread.
LEMMA ThreadRefines ==
  ASSUME IInv, WaitInv, NEW t \in Thread, ThreadStep(t)
  PROVE  WaitInv' /\ (Contract!CNext \/ UNCHANGED Contract!cvars)
<1>1. CASE BlockPrepare(t) \/ ExitGateBlock(t) \/ JoinWait(t)
  <2>1. /\ At(t, "user") \/ At(t, "gateprep") \/ At(t, "join")
        /\ UNCHANGED <<threadq, clock, mode, current>>
    BY <1>1, Zenon DEF BlockPrepare, ExitGateBlock, JoinWait
  <2>2. \E d \in Deadline \cup {BMK_SCHED_BLOCK_INFTIME}, ret \in {"user", "gate", "join"} :
          blockprepare(t, d, ret)
    BY <1>1, Zenon DEF BlockPrepare, ExitGateBlock, JoinWait
  <2> QED BY <2>1, <2>2, PrepareRefines, Zenon
<1>2. CASE Block(t) \/ Yield(t)
  BY <1>2, ReleaseRefines, Zenon
<1>3. CASE WakeCommit(t)
  BY <1>3, WakeCommitRefines, Zenon
<1>4. CASE Exit(t)
  <2>1. /\ mode = "thread" /\ t = current /\ pc[t] = "user" /\ pc' = [pc EXCEPT ![t] = "gate"]
        /\ UNCHANGED <<threadq, clock, current, wakeup, mode, flags>>
    BY <1>4, Zenon DEF Exit, At, queues
  <2>2. pc'[t] = "gate" BY <2>1 DEF IInv, TypeOK
  <2>3. cpuBar' = cpuBar BY <2>1 DEF cpuBar
  <2>4. ~(mode = "thread" /\ pc[current] = "wake") /\ ~(mode' = "thread" /\ pc'[current'] = "wake")
    BY <2>1, <2>2
  <2> QED BY <2>1, <2>3, <2>4, HiddenRefines, Zenon
<1>5. ASSUME NEW x \in Thread, Join(t, x)
      PROVE  WaitInv' /\ UNCHANGED Contract!cvars
  <2>1. /\ mode = "thread" /\ t = current /\ pc[t] = "user" /\ pc' = [pc EXCEPT ![t] = "join"]
        /\ UNCHANGED <<threadq, clock, current, wakeup, mode, flags>>
    BY <1>5, Zenon DEF Join, At, queues
  <2>2. pc'[t] = "join" BY <2>1 DEF IInv, TypeOK
  <2>3. cpuBar' = cpuBar BY <2>1 DEF cpuBar
  <2>4. ~(mode = "thread" /\ pc[current] = "wake") /\ ~(mode' = "thread" /\ pc'[current'] = "wake")
    BY <2>1, <2>2
  <2> QED BY <2>1, <2>3, <2>4, HiddenRefines, Zenon
<1>6. CASE ExitGate(t)
  <2>1. /\ mode = "thread" /\ t = current /\ pc[t] = "gate"
        /\ flags' = [flags EXCEPT ![t] = @ \cup {"JOINED"}]
        /\ UNCHANGED <<threadq, clock, current, mode>>
    BY <1>6, Zenon DEF ExitGate, At, queues
  <2>2. \A u \in Thread : flags'[u] = flags[u] \/ flags'[u] = flags[u] \cup {"JOINED"}
    BY <2>1 DEF IInv, TypeOK
  <2>3. CASE \E u \in joinwq : wanted[u] = t /\ WakeBegin(t, u, "gateprep")
    <3>1. PICK u \in joinwq : WakeBegin(t, u, "gateprep") BY <2>3, Zenon
    <3>2. u \in threadq
      <4>1. u \in Thread /\ InJoin(u) BY DEF IInv, TypeOK, JoiningInv
      <4> QED BY <4>1, Zenon DEF IInv, JoinedInv, JoiningInv
    <3>3. \A y \in Thread : flags'[y] \cap (QMASK \cup {"BLOCKPREP", "TIMEDOUT"})
                              = flags[y] \cap (QMASK \cup {"BLOCKPREP", "TIMEDOUT"})
      BY <2>2 DEF QMASK
    <3>4. pc[t] \in {"user", "gate", "join"} BY <2>1
    <3> QED BY <2>1, <3>1, <3>2, <3>3, <3>4, WakeBeginRefines, Zenon
  <2>4. CASE pc' = [pc EXCEPT ![t] = "gateprep"] /\ UNCHANGED wakeup
    <3>1. pc'[t] = "gateprep" BY <2>4 DEF IInv, TypeOK
    <3>2. cpuBar' = cpuBar BY <2>1 DEF cpuBar
    <3>3. ~(mode = "thread" /\ pc[current] = "wake") /\ ~(mode' = "thread" /\ pc'[current'] = "wake")
      BY <2>1, <3>1
    <3> QED BY <2>1, <2>2, <2>4, <3>2, <3>3, HiddenRefines, Zenon
  <2> QED BY <1>6, <2>3, <2>4, Zenon DEF ExitGate
<1>7. CASE JoinDone(t)
  <2>1. /\ mode = "thread" /\ t = current /\ pc[t] = "join"
        /\ flags' = [flags EXCEPT ![wanted[t]] = @ \ {"MUSTJOIN"}]
        /\ WakeBegin(t, wanted[t], "user")
        /\ UNCHANGED <<threadq, clock, current, mode>>
    BY <1>7, Zenon DEF JoinDone, At, queues
  <2>2. wanted[t] \in threadq
    <3>1. InJoin(t) BY <2>1, Zenon DEF InJoin
    <3> QED BY <3>1, Zenon DEF IInv, JoinedInv, JoiningInv
  <2>3. \A y \in Thread : flags'[y] = flags[y] \/ flags'[y] = flags[y] \ {"MUSTJOIN"}
    BY <2>1 DEF IInv, TypeOK
  <2>4. \A y \in Thread : flags'[y] \cap (QMASK \cup {"BLOCKPREP", "TIMEDOUT"})
                            = flags[y] \cap (QMASK \cup {"BLOCKPREP", "TIMEDOUT"})
    BY <2>3 DEF QMASK
  <2>5. pc[t] \in {"user", "gate", "join"} BY <2>1
  <2> QED BY <2>1, <2>2, <2>4, <2>5, WakeBeginRefines, Zenon
<1>8. CASE ExitDie(t)
  BY <1>8, DieRefines, Zenon
<1>9. ASSUME NEW x \in Thread, Wake(t, x)
      PROVE  WaitInv' /\ Contract!CNext
  <2>1. /\ mode = "thread" /\ t = current /\ pc[t] = "user" /\ x \in threadq
        /\ WakeBegin(t, x, "user") /\ UNCHANGED <<threadq, clock, current, mode, flags>>
    BY <1>9, Zenon DEF Wake, At, queues
  <2>2. pc[t] \in {"user", "gate", "join"} BY <2>1
  <2> QED BY <2>1, <2>2, WakeBeginRefines, Zenon
<1>10. ASSUME NEW x \in Thread, Create(t, x)
       PROVE  WaitInv' /\ Contract!CNext
  BY <1>10, CreateRefines, Zenon
<1> QED BY <1>1, <1>2, <1>3, <1>4, <1>5, <1>6, <1>7, <1>8, <1>9, <1>10, Zenon DEF ThreadStep

\* Every step of the scheduler is a step of the contract, or none.
LEMMA NextRefines ==
  ASSUME WakeDiscipline, IInv, WaitInv, [Next]_vars
  PROVE  WaitInv' /\ [Contract!CNext]_(Contract!cvars)
<1>1. ASSUME NEW x \in Thread, Interrupt(x)
      PROVE  WaitInv' /\ Contract!CNext
  BY <1>1, InterruptRefines, Zenon
<1>2. CASE Schedule
  <2>1. CASE runq \o SubSeq(timeq, 1, Expired) # <<>>
    BY <1>2, <2>1, DispatchRefines, Zenon
  <2>2. CASE runq \o SubSeq(timeq, 1, Expired) = <<>>
    <3>1. /\ mode = "sched" /\ mode' = "idle"
          /\ UNCHANGED <<threadq, clock, current, wakeup, flags>>
      BY <1>2, <2>2, Zenon DEF Schedule
    <3>2. cpuBar' = cpuBar BY <3>1 DEF cpuBar
    <3>3. mode # "thread" /\ mode' # "thread" BY <3>1
    <3> QED BY <3>1, <3>2, <3>3, HiddenRefines, Zenon
  <2> QED BY <2>1, <2>2
<1>3. CASE CpuUnblock
  <2>1. /\ mode = "idle" /\ mode' = "sched"
        /\ UNCHANGED <<threadq, clock, current, wakeup, flags>>
    BY <1>3, Zenon DEF CpuUnblock, queues
  <2>2. cpuBar' = cpuBar BY <2>1 DEF cpuBar
  <2>3. mode # "thread" /\ mode' # "thread" BY <2>1
  <2> QED BY <2>1, <2>2, <2>3, HiddenRefines, Zenon
<1>4. CASE Resume
  BY <1>4, ResumeRefines, Zenon
<1>5. CASE Tick
  <2>1. /\ clock' = clock + 1 /\ UNCHANGED <<threadq, wakeup, flags, mode, pc, current, wk>>
    BY <1>5, Zenon DEF Tick, queues, locals
  <2>2. \A u \in Thread : BeingWoken(u)' <=> BeingWoken(u) BY <2>1, Zenon DEF BeingWoken
  <2>3. \A u \in Thread : waitBar'[u] = waitBar[u]
    BY <2>1, <2>2, BarValue, BarValueNext, Zenon
  <2>4. cpuBar' = cpuBar BY <2>1, Zenon DEF cpuBar
  <2>5. WaitInv' BY <2>1, WaitKept, Zenon
  <2> QED BY <2>1, <2>3, <2>4, <2>5, ToAdvance, Zenon
<1>6. CASE UNCHANGED vars
  <2>1. UNCHANGED <<threadq, clock, wakeup, flags, mode, pc, current, wk>>
    BY <1>6, Zenon DEF vars, queues, locals
  <2>2. \A u \in Thread : BeingWoken(u)' <=> BeingWoken(u) BY <2>1, Zenon DEF BeingWoken
  <2>3. \A u \in Thread : waitBar'[u] = waitBar[u]
    BY <2>1, <2>2, BarValue, BarValueNext, Zenon
  <2>4. cpuBar' = cpuBar BY <2>1, Zenon DEF cpuBar
  <2>5. WaitInv' BY <2>1, WaitKept, Zenon
  <2> QED BY <2>1, <2>3, <2>4, <2>5, ToStutter, Zenon
<1> QED BY <1>1, <1>2, <1>3, <1>4, <1>5, <1>6, ThreadRefines, Zenon DEF Next

LEMMA InitRefines ==
  ASSUME Init
  PROVE  WaitInv /\ Contract!CInit
<1>1. /\ threadq = {Main} /\ current = Main /\ mode = "resume" /\ clock = 0
      /\ flags = [t \in Thread |-> IF t = Main THEN {"RUNNING", "EXTSTACK"} ELSE {}]
  BY DEF Init
<1>2. \A t \in Thread : /\ "TIMEDOUT" \notin flags[t] /\ "BLOCKQ" \notin flags[t]
                        /\ "BLOCKPREP" \notin flags[t]
  BY <1>1
<1>3. WaitInv BY <1>2 DEF WaitInv
<1>4. \A t \in Thread : waitBar[t] = "no" BY <1>2, BarValue, Zenon
<1>5. waitBar = [t \in Thread |-> "no"] BY <1>4, BarFunction
<1>6. dueBar = [t \in Thread |-> BMK_SCHED_BLOCK_INFTIME] BY <1>4 DEF dueBar
<1>7. cpuBar = Main BY <1>1 DEF cpuBar
<1> QED BY <1>1, <1>3, <1>5, <1>6, <1>7 DEF Contract!CInit, cpuBar, dueBar

\* Under WakeDiscipline the scheduler implements its contract, for any threads and
\* deadlines: no wakeup after blockprepare is lost, each request to block ends
\* with one verdict, and timeouts are neither early nor skipped over.
THEOREM SchedulerKeepsContract == WakeDiscipline => (Spec => KeepsContract)
<1> SUFFICES ASSUME WakeDiscipline PROVE Spec => KeepsContract
  OBVIOUS
<1>1. Init => WaitInv /\ Contract!CInit
  BY InitRefines
<1>2. IInv /\ WaitInv /\ [Next]_vars => WaitInv' /\ [Contract!CNext]_(Contract!cvars)
  BY NextRefines
<1> QED BY <1>1, <1>2, SchedulerInvariant, PTL DEF Spec, KeepsContract, Contract!CSpec

=============================================================================
