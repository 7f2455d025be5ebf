--------------------------- MODULE BmkSchedProofs ---------------------------
(***************************************************************************)
(* schedule() and the reaper preserve the scheduler's invariant, and what  *)
(* follows for any number of threads, deadlines and any clock bound, given *)
(* that no thread is woken both by interrupt handlers and by threads       *)
(* (WakeDiscipline): the invariants of sched.c.                            *)
(***************************************************************************)
EXTENDS BmkSchedStepProofs

\* current runs again: a new thread starts, another one returns from schedule()
\* and reaps the zombies.
LEMMA ResumeInv ==
  ASSUME IInv, Resume
  PROVE  IInv'
<1>1. /\ mode = "resume" /\ mode' = "thread"
      /\ UNCHANGED <<threadq, runq, timeq, blockq, current, wanted, wk, clock, until>>
  BY Zenon DEF Resume
<1>2. /\ pc[current] \in {"virgin", "block", "yield"} /\ OffQueues(current)
      /\ "RUNNING" \in flags[current] /\ current \in Thread
      /\ current \in threadq /\ current \notin zombieq
  BY <1>1, Zenon DEF IInv, TypeOK, CurrentInv, LifeInv
<1>3. PICK c \in Thread : c = current
  BY <1>2
<1>4. \A i \in DOMAIN timeq : timeq[i] \in Range(timeq) /\ timeq[i] \in Thread
  BY QueueElements DEF IInv, TypeOK
<1>5. CASE pc[c] = "virgin"
  <2>1. /\ pc' = [pc EXCEPT ![c] = "user"]
        /\ UNCHANGED <<zombieq, joinwq, flags, wakeup, stacks, cont, fault>>
    BY <1>3, <1>5, Zenon DEF Resume
  <2>2. pc'[c] = "user" /\ \A u \in Thread \ {c} : pc'[u] = pc[u]
    BY <2>1, Zenon DEF IInv, TypeOK
  <2>3. TypeOK' /\ NoFault'
    BY <1>1, <2>1, Zenon DEF IInv, TypeOK, NoFault, Label
  <2>4. QueueFlagsAgree' /\ StacksOwned' /\ JoinedInv'
    BY <1>1, <2>1, Zenon DEF IInv, QueueFlagsAgree, StacksOwned, JoinedInv
  <2>5. JoiningInv'
    BY <1>1, <1>5, <2>1, <2>2, ZenonT(30) DEF IInv, TypeOK, JoiningInv, InJoin
  <2>6. LifeInv' /\ NoOversleep'
    BY <1>1, <1>5, <2>1, <2>2, ZenonT(30) DEF IInv, LifeInv, NoOversleep
  <2>7. OthersInv'
    BY <1>1, <1>3, <2>1, <2>2, Zenon DEF IInv, OthersInv, OffQueues, OnOneQueue
  <2>8. CurrentInv' /\ WakeInv'
    BY <1>1, <1>2, <1>3, <2>1, <2>2, Zenon DEF CurrentInv, WakeInv, OffQueues
  <2>9. TimeqInv'
    <3>1. \A u \in Thread : ~BeingWoken(u) /\ ~BeingWoken(u)'
      BY <1>1, <1>3, <2>2, Zenon DEF BeingWoken
    <3> QED
      BY <1>1, <1>4, <2>1, <3>1, Zenon DEF IInv, TimeqInv
  <2> QED
    BY <2>3, <2>4, <2>5, <2>6, <2>7, <2>8, <2>9, Zenon DEF IInv
<1>6. CASE pc[c] # "virgin"
  <2>1. /\ fault' = fault
        /\ zombieq' = {} /\ stacks' = stacks \ ReapedStacks
        /\ joinwq' = joinwq \ {c}
        /\ cont' = [cont EXCEPT ![c] = "user"]
    BY <1>2, <1>3, <1>6, Zenon DEF Resume, Check
  <2>2. /\ pc' = [t \in Thread |->
                     IF t \in zombieq THEN "none"
                     ELSE IF t # c THEN pc[t]
                     ELSE IF pc[t] = "block" THEN cont[t] ELSE "user"]
        /\ flags' = [t \in Thread |->
                        IF t \in zombieq THEN {}
                        ELSE IF t = c /\ pc[t] = "block"
                        THEN flags[t] \ {"TIMEDOUT", "BLOCKPREP"} ELSE flags[t]]
        /\ wakeup' = [t \in Thread |-> IF t \in zombieq
                                       THEN BMK_SCHED_BLOCK_INFTIME ELSE wakeup[t]]
    BY <1>3, <1>6, Zenon DEF Resume
  <2>3. ASSUME NEW u \in zombieq
        PROVE  /\ u \in Thread /\ u # c /\ u \notin threadq
               /\ pc[u] = "dead" /\ OffQueues(u)
               /\ pc'[u] = "none" /\ flags'[u] = {}
    <3>1. u \in Thread
      BY DEF IInv, TypeOK
    <3>2. pc[u] = "dead" /\ u # c /\ u \notin threadq
      BY <1>2, <1>3, <3>1, Zenon DEF IInv, LifeInv
    <3>3. OffQueues(u)
      BY <1>3, <3>1, <3>2, Zenon DEF IInv, OthersInv
    <3> QED
      BY <2>2, <3>1, <3>2, <3>3, Zenon
  <2>4. \A u \in Thread : u # c /\ u \notin zombieq =>
          pc'[u] = pc[u] /\ flags'[u] = flags[u] /\ wakeup'[u] = wakeup[u]
    BY <2>2
  <2>5. /\ pc'[c] = IF pc[c] = "block" THEN cont[c] ELSE "user"
        /\ pc'[c] \in {"user", "gate", "join"}
        /\ flags'[c] \subseteq flags[c]
        /\ flags[c] \ flags'[c] \subseteq {"TIMEDOUT", "BLOCKPREP"}
        /\ wakeup'[c] = wakeup[c]
    BY <1>2, <1>3, <2>2, Zenon DEF IInv, TypeOK
  <2>6. "TIMEDOUT" \notin flags'[c] /\ "BLOCKPREP" \notin flags'[c]
    BY <1>2, <1>3, <1>6, <2>2, Zenon DEF IInv, LifeInv
  <2>7. \A u \in Thread : flags'[u] \cap QMASK = flags[u] \cap QMASK
    <3>1. flags'[c] \cap QMASK = flags[c] \cap QMASK
      BY <2>5 DEF QMASK
    <3>2. \A u \in zombieq : flags'[u] \cap QMASK = flags[u] \cap QMASK
      BY <2>3 DEF OffQueues
    <3> QED
      BY <2>4, <3>1, <3>2, Zenon
  <2>8. TypeOK' /\ NoFault'
    <3>1. flags' \in [Thread -> SUBSET Flag] /\ wakeup' \in [Thread -> Time]
      BY <2>2, Zenon DEF IInv, TypeOK, Time
    <3>2. pc' \in [Thread -> Label]
      BY <2>2, Zenon DEF IInv, TypeOK, Label
    <3> QED
      BY <1>1, <2>1, <3>1, <3>2, Zenon DEF IInv, TypeOK, NoFault
  <2>9. QueueFlagsAgree'
    BY <1>1, <2>7, SameQueues, Zenon DEF IInv
  <2>10. LifeInv'
    <3>1. ASSUME NEW u \in Thread, u # c, u \notin zombieq
          PROVE  pc'[u] = pc[u] /\ flags'[u] = flags[u] /\ pc[u] # "dead"
      BY <2>4, <3>1, Zenon DEF IInv, LifeInv
    <3>2. /\ "DEAD" \notin flags'[c] /\ "TIMEQ" \notin flags'[c]
          /\ c \in threadq
      BY <1>2, <1>3, <2>5, Zenon DEF IInv, LifeInv, OffQueues, QMASK
    <3> QED
      BY <1>1, <2>1, <2>3, <2>5, <2>6, <3>1, <3>2, ZenonT(30) DEF IInv, LifeInv
  <2>11. OthersInv'
    <3>1. ASSUME NEW u \in Thread \ {c}, u \notin zombieq
          PROVE  /\ pc'[u] \in {"none", "dead", "virgin", "block", "yield"}
                 /\ "RUNNING" \notin flags'[u]
                 /\ pc'[u] \in {"none", "dead"} => OffQueues(u)'
                 /\ pc'[u] \in {"virgin", "block", "yield"} => OnOneQueue(u)'
      BY <1>3, <2>4, <3>1, Zenon DEF IInv, OthersInv, OffQueues, OnOneQueue
    <3>2. ASSUME NEW u \in zombieq
          PROVE  pc'[u] = "none" /\ "RUNNING" \notin flags'[u] /\ OffQueues(u)'
      BY <2>3, Zenon DEF OffQueues
    <3> QED
      BY <1>1, <1>3, <3>1, <3>2, Zenon DEF OthersInv
  <2>12. CurrentInv' /\ WakeInv'
    <3>1. "RUNNING" \in flags'[c] /\ OffQueues(c)'
      BY <1>2, <1>3, <2>5 DEF OffQueues, QMASK
    <3> QED
      BY <1>1, <1>3, <2>5, <3>1, Zenon DEF CurrentInv, WakeInv, OffQueues
  <2>13. JoinedInv'
    <3>1. "MUSTJOIN" \in flags'[c] <=> "MUSTJOIN" \in flags[c]
      BY <2>5
    <3>2. \A u \in threadq : u \in Thread /\ u \notin zombieq
      BY <2>3, Zenon DEF IInv, TypeOK
    <3>3. \A u \in threadq : "MUSTJOIN" \in flags'[u] <=> "MUSTJOIN" \in flags[u]
      BY <2>4, <3>1, <3>2, Zenon
    <3> QED
      BY <1>1, <3>3, Zenon DEF IInv, TypeOK, JoinedInv
  <2>14. JoiningInv'
    <3>1. InJoin(c)' <=> InJoin(c)
      BY <1>2, <1>3, <1>6, <2>5, Zenon DEF InJoin
    <3>2. ASSUME NEW u \in Thread, u # c
          PROVE  (InJoin(u)' <=> InJoin(u)) /\ (pc'[u] = "join" => pc[u] = "join")
      <4>1. cont'[u] = cont[u]
        BY <2>1, <3>2, Zenon DEF IInv, TypeOK
      <4> QED
        BY <2>3, <2>4, <3>2, <4>1, Zenon DEF InJoin
    <3> QED
      BY <1>1, <2>1, <3>1, <3>2, Zenon DEF IInv, TypeOK, JoiningInv
  <2>15. TimeqInv' /\ NoOversleep'
    <3>1. \A u \in Thread : ~BeingWoken(u) /\ ~BeingWoken(u)'
      BY <1>1, <1>3, <2>5, Zenon DEF BeingWoken
    <3>2. \A i \in DOMAIN timeq : timeq[i] \in Thread /\ timeq[i] \notin zombieq
      <4>1. \A u \in zombieq : "TIMEQ" \notin flags[u] /\ u \in Thread
        BY <2>3 DEF OffQueues, QMASK
      <4> QED
        BY <1>4, <4>1, Zenon DEF IInv, QueueFlagsAgree
    <3>3. \A i \in DOMAIN timeq : wakeup'[timeq[i]] = wakeup[timeq[i]]
      BY <2>4, <2>5, <3>2, Zenon
    <3>4. TimeqInv'
      BY <1>1, <1>4, <3>1, <3>3, Zenon DEF IInv, TimeqInv
    <3> QED
      BY <1>1, <3>4, Zenon DEF NoOversleep
  <2>16. StacksOwned'
    <3>1. \A u \in threadq : /\ "EXTSTACK" \in flags'[u] <=> "EXTSTACK" \in flags[u]
                             /\ u \in Thread /\ u \notin zombieq
      BY <2>3, <2>4, <2>5 DEF IInv, TypeOK
    <3> QED
      BY <1>1, <2>1, <3>1, Zenon DEF IInv, StacksOwned, ReapedStacks
  <2> QED
    BY <2>8, <2>9, <2>10, <2>11, <2>12, <2>13, <2>14, <2>15, <2>16, Zenon DEF IInv
<1> QED
  BY <1>5, <1>6, Zenon

\* The loop over timeq in schedule() stops at a position of timeq, and leaves
\* the queue as two parts.
LEMMA ExpiredFacts ==
  ASSUME IInv, mode = "sched"
  PROVE  LET a == SubSeq(timeq, 1, Expired)
             b == SubSeq(timeq, Expired + 1, Len(timeq))
         IN  /\ a \in Seq(Thread) /\ b \in Seq(Thread)
             /\ Distinct(a) /\ Distinct(b)
             /\ Range(a) \cap Range(b) = {}
             /\ Range(timeq) = Range(a) \cup Range(b)
             /\ \A i \in DOMAIN b : wakeup[b[i]] # BMK_SCHED_BLOCK_INFTIME
             /\ \A i, j \in DOMAIN b : i < j => wakeup[b[i]] <= wakeup[b[j]]
<1> DEFINE waiting == {i \in DOMAIN timeq : wakeup[timeq[i]] > clock}
           k == Expired
           a == SubSeq(timeq, 1, k)
           b == SubSeq(timeq, k + 1, Len(timeq))
<1>1. timeq \in Seq(Thread) /\ Distinct(timeq)
  BY DEF IInv, TypeOK, QueueFlagsAgree
<1>2. DOMAIN timeq = 1 .. Len(timeq) /\ Len(timeq) \in Nat
  BY <1>1, QueueElements, Zenon
<1>3. k \in 0 .. Len(timeq)
  <2>1. waiting \subseteq 1 .. Len(timeq) /\ waiting \in SUBSET Nat
    BY <1>2
  <2>2. k = IF waiting = {} THEN Len(timeq) ELSE Min(waiting) - 1
    BY DEF Expired
  <2> HIDE DEF waiting, k
  <2>3. waiting # {} => Min(waiting) \in 1 .. Len(timeq)
    BY <2>1, FirstPosition, Zenon
  <2> QED
    BY <1>2, <2>2, <2>3
<1> HIDE DEF k
<1>4. /\ a \in Seq(Thread) /\ b \in Seq(Thread)
      /\ Len(b) = Len(timeq) - k
      /\ \A i \in 1 .. Len(timeq) - k : b[i] = timeq[k + i]
      /\ Range(a) = {timeq[i] : i \in 1 .. k}
      /\ Range(b) = {timeq[i] : i \in (k + 1) .. Len(timeq)}
      /\ Distinct(a) /\ Distinct(b) /\ Range(a) \cap Range(b) = {}
  BY <1>1, <1>3, SplitQueue
<1>5. Range(timeq) = Range(a) \cup Range(b)
  <2>1. Range(timeq) = {timeq[i] : i \in 1 .. Len(timeq)}
    BY <1>2, Zenon DEF Range
  <2>2. 1 .. Len(timeq) = (1 .. k) \cup ((k + 1) .. Len(timeq))
    BY <1>2, <1>3
  <2> HIDE DEF a, b
  <2> QED
    BY <1>4, <2>1, <2>2, Zenon
<1>6. DOMAIN b = 1 .. Len(timeq) - k
  BY <1>4, QueueElements
<1>7. /\ \A i \in DOMAIN timeq : wakeup[timeq[i]] # BMK_SCHED_BLOCK_INFTIME
      /\ \A i, j \in DOMAIN timeq : i < j => wakeup[timeq[i]] <= wakeup[timeq[j]]
  BY DEF IInv, TimeqInv, BeingWoken
<1> HIDE DEF a, b
<1>8. \A i \in DOMAIN b : k + i \in DOMAIN timeq /\ b[i] = timeq[k + i]
  <2>1. \A i \in 1 .. Len(timeq) - k : k + i \in 1 .. Len(timeq)
    BY <1>2, <1>3
  <2> QED
    BY <1>2, <1>4, <1>6, <2>1, Zenon
<1>9. \A i \in DOMAIN b : wakeup[b[i]] # BMK_SCHED_BLOCK_INFTIME
  BY <1>7, <1>8, Zenon
<1>10. \A i, j \in DOMAIN b : i < j => wakeup[b[i]] <= wakeup[b[j]]
  <2>1. \A i, j \in DOMAIN b : i < j => k + i < k + j
    BY <1>3, <1>6
  <2> QED
    BY <1>7, <1>8, <2>1, Zenon
<1> QED
  BY <1>4, <1>5, <1>9, <1>10, Zenon DEF a, b, k

\* schedule() finds no runnable thread and blocks the CPU.
LEMMA IdleInv ==
  ASSUME IInv, mode = "sched", mode' = "idle", until' = Waketime,
         UNCHANGED <<queues, flags, wakeup, stacks, current, pc, locals, clock, fault>>
  PROVE  IInv'
<1> USE SchedAssumption
<1>1. UNCHANGED <<threadq, zombieq, runq, timeq, blockq, joinwq, cont, wanted, wk>>
  BY DEF queues, locals
<1>2. \A u : ~BeingWoken(u) /\ ~BeingWoken(u)'
  BY DEF BeingWoken
<1>3. /\ timeq \in Seq(Thread) /\ DOMAIN timeq = 1 .. Len(timeq)
      /\ Len(timeq) \in Nat /\ wakeup \in [Thread -> Time] /\ clock \in Nat
  BY QueueElements, Zenon DEF IInv, TypeOK
<1>4. timeq # <<>> => /\ 1 \in DOMAIN timeq /\ Head(timeq) = timeq[1]
                      /\ timeq[1] \in Thread
  BY <1>3, NoElements
<1>5. \A i \in DOMAIN timeq : timeq[i] \in Thread /\ wakeup[timeq[i]] \in Nat
  BY <1>2, <1>3 DEF IInv, TimeqInv, Time
<1>6. timeq # <<>> => \A i \in DOMAIN timeq : wakeup[Head(timeq)] <= wakeup[timeq[i]]
  <2>1. ASSUME timeq # <<>>, NEW i \in DOMAIN timeq, i # 1
        PROVE  wakeup[Head(timeq)] <= wakeup[timeq[i]]
    BY <1>2, <1>3, <1>4, <2>1 DEF IInv, TimeqInv
  <2> QED
    BY <1>4, <1>5, <2>1
<1>7. Waketime \in Nat /\ \A i \in DOMAIN timeq : Waketime <= wakeup[timeq[i]]
  <2>1. CASE timeq = <<>>
    BY <1>3, <2>1 DEF Waketime
  <2>2. CASE timeq # <<>>
    <3>1. wakeup[Head(timeq)] \in Nat
      BY <1>4, <1>5, <2>2, Zenon
    <3> QED
      BY <1>3, <1>5, <1>6, <2>2, <3>1 DEF Waketime
  <2> QED
    BY <2>1, <2>2, Zenon
<1>8. TypeOK' /\ NoFault'
  BY <1>1, <1>7, Zenon DEF IInv, TypeOK, NoFault
<1>9. NoOversleep'
  <2>1. \A u \in Range(timeq) : Waketime <= wakeup[u]
    BY <1>7, Zenon DEF Range
  <2> QED
    BY <1>1, <2>1, Zenon DEF NoOversleep
<1>10. QueueFlagsAgree' /\ StacksOwned' /\ JoinedInv' /\ JoiningInv' /\ LifeInv'
  <2>1. QueueFlagsAgree' BY <1>1 DEF IInv, QueueFlagsAgree
  <2>2. StacksOwned' BY <1>1 DEF IInv, StacksOwned
  <2>3. JoinedInv' BY <1>1 DEF IInv, JoinedInv
  <2>4. JoiningInv' BY <1>1 DEF IInv, JoiningInv, InJoin
  <2>5. LifeInv' BY <1>1 DEF IInv, LifeInv
  <2> QED BY <2>1, <2>2, <2>3, <2>4, <2>5
<1>11. OthersInv' /\ CurrentInv' /\ WakeInv'
  BY <1>1, Zenon DEF IInv, OthersInv, CurrentInv, WakeInv, OffQueues, OnOneQueue
<1>12. TimeqInv'
  BY <1>1, <1>2, Zenon DEF IInv, TimeqInv
<1> QED
  BY <1>8, <1>9, <1>10, <1>11, <1>12, Zenon DEF IInv

\* One round of the loop of schedule().
LEMMA ScheduleInv ==
  ASSUME IInv, Schedule
  PROVE  IInv'
<1> DEFINE a == SubSeq(timeq, 1, Expired)
           b == SubSeq(timeq, Expired + 1, Len(timeq))
           rq == runq \o a
           E == Range(a)
           fl == [t \in Thread |-> IF t \in E
                                   THEN (flags[t] \ QMASK) \cup {"RUNQ", "TIMEDOUT"}
                                   ELSE flags[t]]
           off == [fl EXCEPT ![current] = @ \ {"RUNNING"}]
<1>1. mode = "sched" /\ UNCHANGED <<threadq, zombieq, blockq, joinwq, stacks, pc, cont,
                                   wanted, wk, clock>>
  BY Zenon DEF Schedule, locals
<1>2. /\ a \in Seq(Thread) /\ b \in Seq(Thread) /\ Distinct(a) /\ Distinct(b)
      /\ E \cap Range(b) = {} /\ Range(timeq) = E \cup Range(b)
      /\ \A i \in DOMAIN b : wakeup[b[i]] # BMK_SCHED_BLOCK_INFTIME
      /\ \A i, j \in DOMAIN b : i < j => wakeup[b[i]] <= wakeup[b[j]]
  BY <1>1, ExpiredFacts, Zenon
<1>3. CASE rq = <<>>
  <2>1. /\ mode' = "idle" /\ until' = Waketime
        /\ UNCHANGED <<timeq, runq, flags, wakeup, current, fault>>
    BY <1>3, Zenon DEF Schedule
  <2> QED
    BY <1>1, <2>1, IdleInv, Zenon DEF queues, locals
<1>4. CASE rq # <<>>
  <2>1. PICK c \in Thread : c = current
    BY DEF IInv, TypeOK
  <2>2. PICK n : n = Head(rq)
    OBVIOUS
  <2>3. /\ timeq' = b
        /\ wakeup' = [t \in Thread |-> IF t \in E THEN BMK_SCHED_BLOCK_INFTIME ELSE wakeup[t]]
        /\ runq' = Tail(rq)
        /\ flags' = [off EXCEPT ![n] = (@ \ {"RUNQ"}) \cup {"RUNNING"}]
        /\ current' = n /\ mode' = "resume" /\ until' = until
        /\ fault' = IF "RUNQ" \in fl[n] /\ "DEAD" \notin fl[n] /\ flags'[n] \cap QMASK = {}
                    THEN fault ELSE "schedule assertion"
    BY <1>4, <2>2, Zenon DEF Schedule, Check
  <2>4. /\ runq \in Seq(Thread) /\ Distinct(runq) /\ flags \in [Thread -> SUBSET Flag]
        /\ wakeup \in [Thread -> Time]
    BY DEF IInv, TypeOK, QueueFlagsAgree
  <2>5. /\ E \subseteq Thread
        /\ \A u \in E : /\ flags[u] \cap QMASK = {"TIMEQ"} /\ "RUNQ" \notin flags[u]
                         /\ pc[u] = "block"
    <3>1. E \subseteq Thread
      BY <1>2, QueueElements, Zenon
    <3>2. ASSUME NEW u \in E
          PROVE  /\ "TIMEQ" \in flags[u] /\ \A p, q \in flags[u] \cap QMASK : p = q
                 /\ pc[u] \in {"prep", "block"} /\ u \in Thread
      BY <1>2, <3>1, ZenonT(30) DEF IInv, QueueFlagsAgree, LifeInv
    <3>3. ASSUME NEW u \in E
          PROVE  flags[u] \cap QMASK = {"TIMEQ"} /\ "RUNQ" \notin flags[u]
      BY <3>2 DEF QMASK
    <3>4. ASSUME NEW u \in E PROVE pc[u] = "block"
      <4>1. CASE u = c
        BY <1>1, <2>1, <3>2, <4>1, ZenonT(30) DEF IInv, CurrentInv
      <4>2. CASE u # c
        BY <2>1, <3>2, <4>2, Zenon DEF IInv, OthersInv
      <4> QED
        BY <4>1, <4>2, Zenon
    <3> QED
      BY <3>1, <3>3, <3>4, Zenon
  <2> HIDE DEF a, b, E
  <2>6. /\ rq \in Seq(Thread) /\ Range(rq) = Range(runq) \cup E /\ Distinct(rq)
    <3>1. Range(runq) \cap Range(a) = {}
      <4>1. \A u \in Range(runq) : u \in Thread /\ "RUNQ" \in flags[u]
        BY <2>4, QueueElements, Zenon DEF IInv, QueueFlagsAgree
      <4> QED
        BY <2>5, <4>1, Zenon DEF E
    <3> QED
      BY <1>2, <2>4, <3>1, ConcatQueue DEF E
  <2> HIDE DEF rq
  <2>7. /\ Tail(rq) \in Seq(Thread) /\ n \in Range(runq) \cup E /\ n \in Thread
        /\ Range(Tail(rq)) = (Range(runq) \cup E) \ {n} /\ Distinct(Tail(rq))
    <3>1. n \in Range(rq) /\ Tail(rq) \in Seq(Thread)
          /\ Range(Tail(rq)) = Range(rq) \ {n} /\ Distinct(Tail(rq))
      BY <1>4, <2>2, <2>6, TailQueue, Zenon
    <3>2. Range(rq) \subseteq Thread
      BY <2>6, QueueElements, Zenon
    <3> QED
      BY <2>6, <3>1, <3>2, Zenon
  <2>8. /\ fl \in [Thread -> SUBSET Flag]
        /\ \A u \in Thread \ E : fl[u] = flags[u]
        /\ \A u \in E : /\ fl[u] \cap QMASK = {"RUNQ"} /\ "TIMEDOUT" \in fl[u]
                         /\ \A f \in Flag \ (QMASK \cup {"TIMEDOUT"}) :
                               f \in fl[u] <=> f \in flags[u]
    <3>1. fl \in [Thread -> SUBSET Flag] /\ \A u \in Thread \ E : fl[u] = flags[u]
      BY <2>4 DEF Flag, QMASK
    <3>2. \A u \in E : fl[u] = (flags[u] \ QMASK) \cup {"RUNQ", "TIMEDOUT"}
      BY <2>5
    <3> HIDE DEF fl
    <3> QED
      BY <3>1, <3>2, Zenon DEF QMASK
  <2> HIDE DEF fl
  <2>9. /\ flags' \in [Thread -> SUBSET Flag]
        /\ flags'[n] = (fl[n] \ {"RUNQ"}) \cup {"RUNNING"}
        /\ \A u \in Thread \ {n} : u # c => flags'[u] = fl[u]
        /\ c # n => flags'[c] = fl[c] \ {"RUNNING"}
    BY <2>1, <2>3, <2>7, <2>8, Zenon DEF Flag, QMASK
  <2>10. \A u \in Thread, f \in Flag \ (QMASK \cup {"TIMEDOUT", "RUNNING"}) :
            f \in flags'[u] <=> f \in flags[u]
    <3>1. \A u \in Thread, f \in Flag \ (QMASK \cup {"TIMEDOUT", "RUNNING"}) :
            f \in fl[u] <=> f \in flags[u]
      BY <2>8, Zenon
    <3>2. ASSUME NEW u \in Thread, NEW f \in Flag \ (QMASK \cup {"TIMEDOUT", "RUNNING"})
          PROVE  f \in flags'[u] <=> f \in fl[u]
      <4>1. f # "RUNQ" /\ f # "RUNNING"
        BY DEF QMASK
      <4> QED
        BY <2>9, <4>1, Zenon
    <3> QED
      BY <3>1, <3>2, Zenon
  <2>11. {"MUSTJOIN", "JOINED", "EXTSTACK", "DEAD", "BLOCKPREP"}
            \subseteq Flag \ (QMASK \cup {"TIMEDOUT", "RUNNING"})
    BY DEF Flag, QMASK
  <2>12. /\ fl[n] \cap QMASK = {"RUNQ"} /\ flags'[n] \cap QMASK = {}
         /\ "RUNNING" \in flags'[n]
    <3>1. CASE n \in E
      BY <2>8, <2>9, <3>1, Zenon DEF QMASK
    <3>2. CASE n \notin E
      <4>1. "RUNQ" \in flags[n] /\ \A p, q \in flags[n] \cap QMASK : p = q
        BY <2>7, <3>2, Zenon DEF IInv, QueueFlagsAgree
      <4>2. flags[n] \cap QMASK = {"RUNQ"}
        BY <4>1, Zenon DEF QMASK
      <4> QED
        BY <2>7, <2>8, <2>9, <3>2, <4>2, Zenon DEF QMASK
    <3> QED
      BY <3>1, <3>2, Zenon
  <2>13. \A u \in Thread \ {n} : flags'[u] \cap QMASK = fl[u] \cap QMASK
    BY <2>1, <2>9, Zenon DEF QMASK
  <2>14. pc[n] \in {"virgin", "block", "yield"} /\ n \in threadq /\ "DEAD" \notin flags[n]
    <3>1. CASE n \in E
      BY <2>5, <2>7, <3>1, Zenon DEF IInv, LifeInv
    <3>2. CASE n \notin E
      <4>1. "RUNQ" \in flags[n]
        BY <2>7, <3>2, Zenon DEF IInv, QueueFlagsAgree
      <4>2. ~OffQueues(n)
        BY <4>1 DEF OffQueues, QMASK
      <4>3. pc[n] \in {"virgin", "block", "yield"}
        BY <1>1, <2>1, <2>7, <4>2, ZenonT(30) DEF IInv, CurrentInv, OthersInv
      <4> QED
        BY <2>7, <4>3, Zenon DEF IInv, LifeInv
    <3> QED
      BY <3>1, <3>2, Zenon
  <2>15. fault' = fault
    <3>1. "RUNQ" \in fl[n]
      BY <2>12
    <3>2. "DEAD" \notin fl[n]
      BY <2>7, <2>8, <2>11, <2>14, Zenon
    <3> QED
      BY <2>3, <2>12, <3>1, <3>2, Zenon
  <2>16. TypeOK' /\ NoFault'
    <3>1. wakeup' \in [Thread -> Time]
      BY <2>3, <2>4, Zenon DEF Time
    <3> QED
      BY <1>1, <1>2, <2>3, <2>7, <2>9, <2>15, <3>1, ZenonT(30) DEF IInv, TypeOK, NoFault
  <2>17. QueueFlagsAgree'
    <3>1. ASSUME NEW u \in Thread, u # n, u \in E
          PROVE  /\ "RUNQ" \in flags'[u] /\ u \in Range(runq')
                 /\ "TIMEQ" \notin flags'[u] /\ u \notin Range(timeq')
                 /\ "BLOCKQ" \notin flags'[u] /\ u \notin blockq'
                 /\ \A p, q \in flags'[u] \cap QMASK : p = q
      <4>1. flags'[u] \cap QMASK = {"RUNQ"}
        BY <2>8, <2>13, <3>1, Zenon
      <4>2. u \notin blockq
        BY <2>5, <3>1, Zenon DEF IInv, QueueFlagsAgree, QMASK
      <4>3. "RUNQ" \in flags'[u] /\ "TIMEQ" \notin flags'[u] /\ "BLOCKQ" \notin flags'[u]
        BY <4>1 DEF QMASK
      <4>4. u \in Range(runq') /\ u \notin Range(timeq') /\ u \notin blockq'
        BY <1>1, <1>2, <2>3, <2>7, <3>1, <4>2, Zenon
      <4> QED
        BY <4>1, <4>3, <4>4, Zenon
    <3>2. ASSUME NEW u \in Thread, u # n, u \notin E
          PROVE  /\ "RUNQ" \in flags'[u] <=> u \in Range(runq')
                 /\ "TIMEQ" \in flags'[u] <=> u \in Range(timeq')
                 /\ "BLOCKQ" \in flags'[u] <=> u \in blockq'
                 /\ \A p, q \in flags'[u] \cap QMASK : p = q
      <4>1. flags'[u] \cap QMASK = flags[u] \cap QMASK
        BY <2>8, <2>13, <3>2, Zenon
      <4>2. /\ "RUNQ" \in flags'[u] <=> "RUNQ" \in flags[u]
            /\ "TIMEQ" \in flags'[u] <=> "TIMEQ" \in flags[u]
            /\ "BLOCKQ" \in flags'[u] <=> "BLOCKQ" \in flags[u]
        BY <4>1 DEF QMASK
      <4>3. /\ u \in Range(runq') <=> u \in Range(runq)
            /\ u \in Range(timeq') <=> u \in Range(timeq)
        BY <1>2, <2>3, <2>7, <3>2, Zenon
      <4> QED
        BY <1>1, <4>1, <4>2, <4>3, Zenon DEF IInv, QueueFlagsAgree
    <3>3. /\ "RUNQ" \notin flags'[n] /\ n \notin Range(runq')
          /\ "TIMEQ" \notin flags'[n] /\ n \notin Range(timeq')
          /\ "BLOCKQ" \notin flags'[n] /\ n \notin blockq'
          /\ \A p, q \in flags'[n] \cap QMASK : p = q
      <4>1. n \notin Range(b) /\ n \notin blockq
        <5>1. CASE n \in E
          BY <1>2, <2>5, <2>7, <5>1, Zenon DEF IInv, QueueFlagsAgree, QMASK
        <5>2. CASE n \notin E
          <6>1. "TIMEQ" \notin flags[n] /\ "BLOCKQ" \notin flags[n]
            BY <2>7, <2>8, <2>12, <5>2 DEF QMASK
          <6> QED
            BY <1>2, <2>7, <6>1, ZenonT(30) DEF IInv, QueueFlagsAgree
        <5> QED
          BY <5>1, <5>2, Zenon
      <4> QED
        BY <1>1, <2>3, <2>7, <2>12, <4>1, Zenon DEF QMASK
    <3>4. Distinct(runq') /\ Distinct(timeq')
      BY <1>2, <2>3, <2>7, Zenon
    <3> QED
      BY <3>1, <3>2, <3>3, <3>4, Zenon DEF QueueFlagsAgree
  <2>18. LifeInv'
    <3>1. \A u \in Thread : "TIMEDOUT" \in flags'[u] => u \in E \/ "TIMEDOUT" \in flags[u]
      BY <2>7, <2>8, <2>9
    <3>2. \A u \in Thread : "TIMEQ" \in flags'[u] => "TIMEQ" \in flags[u]
      BY <2>7, <2>8, <2>9 DEF QMASK
    <3>3. \A u \in Thread : flags[u] = {} => flags'[u] = {}
      <4>1. flags[n] # {}
        <5>1. CASE n \in E
          BY <2>5, <5>1, Zenon
        <5>2. CASE n \notin E
          BY <2>7, <2>8, <2>12, <5>2, Zenon
        <5> QED
          BY <5>1, <5>2, Zenon
      <4>2. \A u \in E : flags[u] # {}
        BY <2>5
      <4> QED
        BY <2>7, <2>8, <2>9, <4>1, <4>2, Zenon
    <3> QED
      BY <1>1, <2>5, <2>10, <2>11, <3>1, <3>2, <3>3, ZenonT(30) DEF IInv, LifeInv
  <2>19. OthersInv'
    <3>1. ASSUME NEW u \in Thread \ {n}
          PROVE  /\ pc[u] \in {"none", "dead", "virgin", "block", "yield"}
                 /\ "RUNNING" \notin flags'[u]
      <4>1. CASE u = c
        BY <1>1, <2>1, <2>9, <4>1, Zenon DEF IInv, CurrentInv
      <4>2. CASE u # c
        <5>1. "RUNNING" \notin fl[u]
          <6>1. "RUNNING" \in Flag \ (QMASK \cup {"TIMEDOUT"})
            BY DEF Flag, QMASK
          <6> QED
            BY <2>1, <2>8, <4>2, <6>1, Zenon DEF IInv, OthersInv
        <5> QED
          BY <2>1, <2>9, <4>2, <5>1, Zenon DEF IInv, OthersInv
      <4> QED
        BY <4>1, <4>2, Zenon
    <3>2. ASSUME NEW u \in Thread \ {n}
          PROVE  /\ pc[u] \in {"none", "dead"} => OffQueues(u)'
                 /\ pc[u] \in {"virgin", "block", "yield"} => OnOneQueue(u)'
      <4>1. CASE u \in E
        <5>1. flags'[u] \cap QMASK = {"RUNQ"} /\ pc[u] = "block"
          BY <2>5, <2>8, <2>13, <4>1, Zenon
        <5> QED
          BY <5>1 DEF OnOneQueue, QMASK
      <4>2. CASE u \notin E
        <5>1. flags'[u] \cap QMASK = flags[u] \cap QMASK
          BY <2>8, <2>13, <4>2, Zenon
        <5>2. /\ pc[u] \in {"none", "dead"} => OffQueues(u)
              /\ pc[u] \in {"virgin", "block", "yield"} => OnOneQueue(u)
          BY <1>1, <2>1, Zenon DEF IInv, OthersInv, CurrentInv
        <5> QED
          BY <5>1, <5>2, Zenon DEF OffQueues, OnOneQueue
      <4> QED
        BY <4>1, <4>2, Zenon
    <3> QED
      BY <1>1, <2>3, <3>1, <3>2, Zenon DEF OthersInv
  <2>20. CurrentInv' /\ WakeInv' /\ NoOversleep'
    BY <1>1, <2>3, <2>12, <2>14, Zenon DEF CurrentInv, WakeInv, NoOversleep, OffQueues
  <2>21. JoinedInv' /\ JoiningInv'
    <3>1. \A u \in Thread : "MUSTJOIN" \in flags'[u] <=> "MUSTJOIN" \in flags[u]
      BY <2>10, <2>11, Zenon
    <3>2. \A u \in Thread : InJoin(u)' <=> InJoin(u)
      BY <1>1, Zenon DEF InJoin
    <3> QED
      BY <1>1, <3>1, <3>2, SameJoins, Zenon DEF IInv
  <2>22. TimeqInv'
    <3>1. \A i \in DOMAIN b : b[i] \in Thread /\ b[i] \notin E
      BY <1>2, QueueElements
    <3>2. \A i \in DOMAIN b : wakeup'[b[i]] = wakeup[b[i]]
      BY <2>3, <3>1, Zenon
    <3>3. PICK r : r = b
      OBVIOUS
    <3>4. /\ timeq' = r
          /\ \A i \in DOMAIN r : /\ wakeup'[r[i]] = wakeup[r[i]]
                                /\ wakeup[r[i]] # BMK_SCHED_BLOCK_INFTIME
          /\ \A i, j \in DOMAIN r : i < j => wakeup[r[i]] <= wakeup[r[j]]
      BY <1>2, <2>3, <3>2, <3>3, Zenon
    <3>5. \A i \in DOMAIN timeq' : wakeup'[timeq'[i]] # BMK_SCHED_BLOCK_INFTIME
      BY <3>4, Zenon
    <3>6. \A i, j \in DOMAIN timeq' : i < j => wakeup'[timeq'[i]] <= wakeup'[timeq'[j]]
      BY <3>4
    <3> QED
      BY <3>5, <3>6, Zenon DEF TimeqInv
  <2>23. StacksOwned'
    BY <1>1, <2>10, <2>11, SameStacks, Zenon DEF IInv, TypeOK
  <2> QED
    BY <2>16, <2>17, <2>18, <2>19, <2>20, <2>21, <2>22, <2>23, ZenonT(30) DEF IInv
<1> QED
  BY <1>3, <1>4, Zenon

-----------------------------------------------------------------------------

\* Steps that leave the scheduler alone.
LEMMA StutterInv ==
  ASSUME IInv, UNCHANGED vars
  PROVE  IInv'
<1>1. UNCHANGED <<threadq, zombieq, runq, timeq, blockq, joinwq, flags, wakeup, stacks,
                  current, mode, pc, cont, wanted, wk, clock, until, fault>>
  BY DEF vars, queues, locals
<1>2. TypeOK' /\ NoFault' /\ QueueFlagsAgree' /\ StacksOwned' /\ NoOversleep'
  BY <1>1, Zenon DEF IInv, TypeOK, NoFault, QueueFlagsAgree, StacksOwned, NoOversleep
<1>3. LifeInv' /\ OthersInv' /\ CurrentInv' /\ WakeInv'
  BY <1>1, ZenonT(30) DEF IInv, LifeInv, OthersInv, CurrentInv, WakeInv, OffQueues, OnOneQueue
<1>4. JoinedInv' /\ JoiningInv' /\ TimeqInv'
  BY <1>1, ZenonT(30) DEF IInv, JoinedInv, JoiningInv, InJoin, TimeqInv, BeingWoken
<1> QED
  BY <1>2, <1>3, <1>4, Zenon DEF IInv

\* Every step of threads, interrupt handlers, schedule() and time.
LEMMA NextInv ==
  ASSUME WakeDiscipline, IInv, Next
  PROVE  IInv'
<1>1. ASSUME NEW t \in Thread, ThreadStep(t) PROVE IInv'
  <2>1. CASE BlockPrepare(t) \/ ExitGateBlock(t) \/ JoinWait(t)
    BY <2>1, BlockPrepareInv, Zenon
  <2>2. CASE Block(t)
    BY <2>2, BlockInv, Zenon
  <2>3. CASE Yield(t)
    BY <2>3, YieldInv, Zenon
  <2>4. CASE WakeCommit(t)
    BY <2>4, WakeCommitInv, Zenon
  <2>5. CASE Exit(t)
    BY <2>5, ExitInv, Zenon
  <2>6. CASE ExitGate(t)
    BY <2>6, ExitGateInv, Zenon
  <2>7. CASE ExitDie(t)
    BY <2>7, DieInv, Zenon
  <2>8. CASE JoinDone(t)
    BY <2>8, JoinDoneInv, Zenon
  <2>9. CASE \E x \in Thread : Wake(t, x)
    BY <2>9, WakeInvariant, Zenon
  <2>10. CASE \E x \in Thread : Create(t, x)
    BY <2>10, CreateInv, Zenon
  <2>11. CASE \E x \in Thread : Join(t, x)
    BY <2>11, JoinInv, Zenon
  <2> QED
    BY <1>1, <2>1, <2>2, <2>3, <2>4, <2>5, <2>6, <2>7, <2>8, <2>9, <2>10, <2>11, Zenon
       DEF ThreadStep
<1>2. ASSUME NEW x \in Thread, Interrupt(x) PROVE IInv'
  BY <1>2, InterruptInv, Zenon
<1>3. CASE Schedule
  BY <1>3, ScheduleInv, Zenon
<1>4. CASE CpuUnblock
  BY <1>4, CpuUnblockInv, Zenon
<1>5. CASE Resume
  BY <1>5, ResumeInv, Zenon
<1>6. CASE Tick
  BY <1>6, TickInv, Zenon
<1> QED
  BY <1>1, <1>2, <1>3, <1>4, <1>5, <1>6, Zenon DEF Next

\* Under the wake discipline the scheduler never leaves its invariant, whatever
\* threads do and whenever interrupt handlers run.
THEOREM SchedulerInvariant == WakeDiscipline => (Spec => []IInv)
<1> SUFFICES ASSUME WakeDiscipline PROVE Spec => []IInv
  OBVIOUS
<1>1. IInv /\ [Next]_vars => IInv'
  BY NextInv, StutterInv, Zenon
<1> QED
  BY InitInv, <1>1, PTL DEF Spec

\* The scheduler's state is well typed throughout, under WakeDiscipline.
THEOREM TypeCorrect == WakeDiscipline => (Spec => []TypeOK)
<1>1. IInv => TypeOK
  BY DEF IInv
<1> QED
  BY <1>1, SchedulerInvariant, PTL

\* As long as no thread is woken both by handlers and by threads (WakeDiscipline)
\* the queue flags of every thread agree with the queues: set_runnable() and
\* schedule() never unlink a thread from a queue it is not on.
THEOREM FlagsAgree == WakeDiscipline => (Spec => []QueueFlagsAgree)
<1>1. IInv => QueueFlagsAgree
  BY DEF IInv
<1> QED
  BY <1>1, SchedulerInvariant, PTL

\* As long as no thread is woken both by handlers and by threads (WakeDiscipline)
\* none of the assertions and halts of sched.c is ever reached.
THEOREM NeverFaults == WakeDiscipline => (Spec => []NoFault)
<1>1. IInv => NoFault
  BY DEF IInv
<1> QED
  BY <1>1, SchedulerInvariant, PTL

\* The sorted insertion, wakeups and expiry keep timeq sorted by deadline, under
\* WakeDiscipline.
THEOREM TimeqStaysSorted == WakeDiscipline => (Spec => []TimeqSorted)
<1>1. IInv => TimeqSorted
  <2>1. ASSUME ~(mode = "thread" /\ pc[current] = "wake")
        PROVE  \A u : ~BeingWoken(u)
    BY <2>1 DEF BeingWoken
  <2> QED
    BY <2>1, Zenon DEF IInv, TimeqInv, TimeqSorted
<1> QED
  BY <1>1, SchedulerInvariant, PTL

\* schedule() never blocks the CPU past a deadline, under WakeDiscipline.
THEOREM NeverOversleeps == WakeDiscipline => (Spec => []NoOversleep)
<1>1. IInv => NoOversleep
  BY DEF IInv
<1> QED
  BY <1>1, SchedulerInvariant, PTL

\* Exit and join keep their handshake, under WakeDiscipline.
THEOREM HandshakeKept == WakeDiscipline => (Spec => []JoinHandshake)
<1>1. IInv => JoinHandshake
  <2>1. ASSUME IInv PROVE \A t \in zombieq : t \in Thread /\ t \notin threadq
    BY <2>1, Zenon DEF IInv, TypeOK, LifeInv
  <2> QED
    BY <2>1, Zenon DEF IInv, TypeOK, LifeInv, JoinedInv, JoinHandshake
<1> QED
  BY <1>1, SchedulerInvariant, PTL

\* The reaper frees each stack once, after its thread is gone for good, under
\* WakeDiscipline.
THEOREM StacksStayOwned == WakeDiscipline => (Spec => []StacksOwned)
<1>1. IInv => StacksOwned
  BY DEF IInv
<1> QED
  BY <1>1, SchedulerInvariant, PTL
=============================================================================
