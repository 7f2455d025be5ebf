------------------------------ MODULE BmkSched ------------------------------
(***************************************************************************)
(* The cooperative thread scheduler of lib/libbmk_core/sched.c.            *)
(*                                                                         *)
(* There is one CPU and no preemption: only `current' executes, and it     *)
(* keeps the CPU until it calls schedule().  What does interleave with it  *)
(* is the interrupt handler, which may run between any two steps below and *)
(* whose only effect on the scheduler is bmk_sched_wake().  Code the       *)
(* source runs between splhigh and splx is one step; code it runs at spl0  *)
(* is split wherever an interrupt could make a difference.                 *)
(*                                                                         *)
(* Thread names stand for struct bmk_thread addresses, so a name becomes   *)
(* usable again once the reaper has freed it.                              *)
(***************************************************************************)
EXTENDS Queues

CONSTANTS
  Thread,       \* addresses of thread structures
  Main,         \* the thread bmk_sched_startmain() starts
  IntrWoken,    \* threads that interrupt handlers wake
  ThreadWoken,  \* threads that other threads wake, with interrupts enabled
  ExtStack,     \* threads whose creator supplies the stack
  Deadline,     \* the finite deadlines threads block with
  MaxTime,      \* bound on the clock
  BLOCKTIME_MAX \* longest time the CPU blocks

BMK_SCHED_BLOCK_INFTIME == -1

ASSUME SchedAssumption ==
  /\ Main \in ExtStack \ IntrWoken
  /\ ExtStack \subseteq Thread
  /\ IntrWoken \subseteq Thread
  /\ ThreadWoken \subseteq Thread
  /\ MaxTime \in Nat
  /\ Deadline \subseteq Nat
  /\ BLOCKTIME_MAX \in Nat \ {0}
  /\ "nobody" \notin Thread

\* A thread is woken either from interrupt handlers (or with interrupts off)
\* or from thread context, never from both.
WakeDiscipline == IntrWoken \cap ThreadWoken = {}

VARIABLES
  threadq,  \* live threads
  zombieq,  \* exited threads whose memory is not yet released
  runq,     \* runnable threads, in the order they will run
  timeq,    \* threads blocked with a deadline, earliest first
  blockq,   \* threads blocked without a deadline
  joinwq,   \* threads on the queue of waiting joiners
  flags,    \* bt_flags, as a set of flag names
  wakeup,   \* bt_wakeup_time
  stacks,   \* threads whose stack the scheduler allocated and still owns
  current,  \* bmk_current
  mode,     \* what the CPU executes on behalf of current
  pc,       \* where each thread is in its own code
  cont,     \* where bmk_sched_block() returns to
  wanted,   \* the thread a joiner waits for; itself when it joins nobody
  wk,       \* locals of the bmk_sched_wake() that current executes
  clock,    \* bmk_platform_cpu_clock_monotonic()
  until,    \* argument of bmk_platform_cpu_block()
  fault     \* the assertion or halt that stopped the system, if any

queues == <<threadq, zombieq, runq, timeq, blockq, joinwq>>
locals == <<cont, wanted, wk>>
vars == <<queues, flags, wakeup, stacks, current, mode, pc, locals, clock,
          until, fault>>

QMASK == {"RUNQ", "TIMEQ", "BLOCKQ"}
Flag == QMASK \cup {"RUNNING", "TIMEDOUT", "MUSTJOIN", "JOINED",
                    "EXTSTACK", "DEAD", "BLOCKPREP"}

Time == Nat \cup {BMK_SCHED_BLOCK_INFTIME}

\* wk outside of a call of bmk_sched_wake().
NoWake == [who |-> Main, tq |-> "none", ret |-> "user"]

Fault == {"none", "invalid thread queue", "queue corrupted",
          "blockprepare assertion", "block assertion", "yield assertion",
          "schedule assertion", "exit assertion",
          "schedule() returned for a dead thread"}

\* bmk_assert() and bmk_platform_halt(): record the first failure.
Check(ok, what) == fault' = IF ok THEN fault ELSE what

-----------------------------------------------------------------------------
(* Wakeups                                                                 *)

\* The queue set_runnable() will take the thread from: "none" when the wakeup
\* has no effect, "halt" when the flags name no queue.
QueueOf(fl) ==
  IF "RUNQ" \in fl THEN "none"
  ELSE IF fl \cap QMASK = {"TIMEQ"} THEN "TIMEQ"
  ELSE IF fl \cap QMASK = {"BLOCKQ"} THEN "BLOCKQ"
  ELSE IF "RUNNING" \in fl /\ fl \cap QMASK = {} THEN "none"
  ELSE "halt"

OnQueue(x, tq) ==
  IF tq = "TIMEQ" THEN x \in Range(timeq) ELSE x \in blockq

\* x leaves queue tq; its flags become fl and runq becomes rq.
Moved(x, tq, fl, rq) ==
  /\ timeq' = IF tq = "TIMEQ" THEN Unlink(timeq, x) ELSE timeq
  /\ blockq' = IF tq = "BLOCKQ" THEN blockq \ {x} ELSE blockq
  /\ flags' = [flags EXCEPT ![x] = fl]
  /\ runq' = rq
  /\ UNCHANGED fault

\* Variants of MoveToRunq: x keeps the flag of its old queue; x jumps to the
\* head of runq.
MoveToRunq_KeepsFlag(x, tq) ==
  Moved(x, tq, flags[x] \cup {"RUNQ"}, Append(runq, x))
MoveToRunq_AtHead(x, tq) ==
  Moved(x, tq, (flags[x] \ QMASK) \cup {"RUNQ"}, <<x>> \o runq)

\* The part of set_runnable() that runs at splhigh: take x from the queue tq.
\* Removing a thread from a queue it is not on wrecks the queue links.
MoveToRunq(x, tq) ==
  IF OnQueue(x, tq)
  THEN Moved(x, tq, (flags[x] \ QMASK) \cup {"RUNQ"}, Append(runq, x))
  ELSE /\ fault' = "queue corrupted"
       /\ UNCHANGED <<timeq, blockq, flags, runq>>

\* bmk_sched_wake() with interrupts off.
WakeAtomically(x) ==
  /\ wakeup' = [wakeup EXCEPT ![x] = BMK_SCHED_BLOCK_INFTIME]
  /\ LET tq == QueueOf(flags[x])
     IN  \/ /\ tq \in {"TIMEQ", "BLOCKQ"}
            /\ MoveToRunq(x, tq)
         \/ /\ tq \in {"none", "halt"}
            /\ Check(tq = "none", "invalid thread queue")
            /\ UNCHANGED <<timeq, blockq, flags, runq>>

\* An interrupt handler wakes x.
Interrupt(x) ==
  /\ x \in IntrWoken \cap threadq
  /\ WakeAtomically(x)
  /\ UNCHANGED <<threadq, zombieq, joinwq, stacks, current, mode, pc, locals,
                 clock, until>>

\* bmk_sched_wake() in thread context, up to where set_runnable() raises the
\* interrupt level: the flags of x have been read and its queue chosen.
WakeBegin(t, x, ret) ==
  LET tq == QueueOf(flags[x])
  IN  /\ wakeup' = [wakeup EXCEPT ![x] = BMK_SCHED_BLOCK_INFTIME]
      /\ wk' = [who |-> x, tq |-> tq, ret |-> ret]
      /\ pc' = [pc EXCEPT ![t] = "wake"]
      /\ Check(tq # "halt", "invalid thread queue")

-----------------------------------------------------------------------------
(* Blocking                                                                *)

\* timeq_sorted_insert(): before the first thread with a later deadline.
timeq_sorted_insert(t, d) ==
  LET later == {i \in DOMAIN timeq : wakeup[timeq[i]] > d}
  IN  InsertBefore(timeq, IF later = {} THEN Len(timeq) + 1 ELSE Min(later), t)

\* bmk_sched_blockprepare_timeout() and clear_runnable(), at splhigh.
blockprepare(t, d, ret) ==
  /\ Check(/\ "BLOCKPREP" \notin flags[t]
           /\ "RUNNING" \in flags[t]
           /\ "RUNQ" \notin flags[t], "blockprepare assertion")
  /\ wakeup' = [wakeup EXCEPT ![t] = d]
  /\ IF d # BMK_SCHED_BLOCK_INFTIME
     THEN /\ timeq' = timeq_sorted_insert(t, d)
          /\ flags' = [flags EXCEPT ![t] = @ \cup {"BLOCKPREP", "TIMEQ"}]
          /\ UNCHANGED blockq
     ELSE /\ blockq' = blockq \cup {t}
          /\ flags' = [flags EXCEPT ![t] = @ \cup {"BLOCKPREP", "BLOCKQ"}]
          /\ UNCHANGED timeq
  /\ cont' = [cont EXCEPT ![t] = ret]
  /\ pc' = [pc EXCEPT ![t] = "prep"]

\* current, at a point of its code where it may call the scheduler.
At(t, label) ==
  /\ mode = "thread"
  /\ t = current
  /\ pc[t] = label

BlockPrepare(t) ==
  /\ At(t, "user")
  /\ \E d \in Deadline \cup {BMK_SCHED_BLOCK_INFTIME} : blockprepare(t, d, "user")
  /\ UNCHANGED <<threadq, zombieq, runq, joinwq, stacks, current, mode, wanted,
                 wk, clock, until>>

\* bmk_sched_block() up to its call of schedule().
Block(t) ==
  /\ At(t, "prep")
  /\ Check("TIMEDOUT" \notin flags[t] /\ "BLOCKPREP" \in flags[t],
           "block assertion")
  /\ pc' = [pc EXCEPT ![t] = "block"]
  /\ mode' = "sched"
  /\ UNCHANGED <<queues, flags, wakeup, stacks, current, locals, clock, until>>

\* Variant: the yielding thread goes to the head of runq.
Yield_AtHead(t) ==
  /\ At(t, "user")
  /\ flags' = [flags EXCEPT ![t] = (@ \ {"RUNNING"}) \cup {"RUNQ"}]
  /\ runq' = <<t>> \o runq
  /\ pc' = [pc EXCEPT ![t] = "yield"]
  /\ mode' = "sched"
  /\ UNCHANGED <<threadq, zombieq, timeq, blockq, joinwq, wakeup, stacks,
                 current, locals, clock, until, fault>>

Yield(t) ==
  /\ At(t, "user")
  /\ Check("RUNNING" \in flags[t], "yield assertion")
  /\ flags' = [flags EXCEPT ![t] = (@ \ {"RUNNING"}) \cup {"RUNQ"}]
  /\ runq' = Append(runq, t)
  /\ pc' = [pc EXCEPT ![t] = "yield"]
  /\ mode' = "sched"
  /\ UNCHANGED <<threadq, zombieq, timeq, blockq, joinwq, wakeup, stacks,
                 current, locals, clock, until>>

\* bmk_sched_wake(x) called by thread t, in two steps.
Wake(t, x) ==
  /\ At(t, "user")
  /\ x \in ThreadWoken \cap threadq
  /\ WakeBegin(t, x, "user")
  /\ UNCHANGED <<queues, flags, stacks, current, mode, cont, wanted, clock,
                 until>>

WakeCommit(t) ==
  /\ At(t, "wake")
  /\ IF wk.tq = "none"
     THEN UNCHANGED <<timeq, blockq, flags, runq, fault>>
     ELSE MoveToRunq(wk.who, wk.tq)
  /\ pc' = [pc EXCEPT ![t] = wk.ret]
  /\ wk' = NoWake
  /\ UNCHANGED <<threadq, zombieq, joinwq, wakeup, stacks, current, mode,
                 cont, wanted, clock, until>>

-----------------------------------------------------------------------------
(* The scheduler                                                           *)

\* Variant: a thread is released only after its deadline has passed.
Expired_Late ==
  LET waiting == {i \in DOMAIN timeq : wakeup[timeq[i]] >= clock}
  IN  IF waiting = {} THEN Len(timeq) ELSE Min(waiting) - 1

\* How many threads at the front of timeq have reached their deadline.
Expired ==
  LET waiting == {i \in DOMAIN timeq : wakeup[timeq[i]] > clock}
  IN  IF waiting = {} THEN Len(timeq) ELSE Min(waiting) - 1

\* The time the CPU may block until when nothing is runnable.
Waketime ==
  IF timeq # <<>> /\ wakeup[Head(timeq)] < clock + BLOCKTIME_MAX
  THEN wakeup[Head(timeq)]
  ELSE clock + BLOCKTIME_MAX

\* One round of the loop of schedule(), interrupts off: expire deadlines, then
\* either commit to the first runnable thread or block the CPU.
Schedule ==
  /\ mode = "sched"
  /\ LET expired == SubSeq(timeq, 1, Expired)
         rq == runq \o expired
         fl == [t \in Thread |-> IF t \in Range(expired)
                                 THEN (flags[t] \ QMASK) \cup {"RUNQ", "TIMEDOUT"}
                                 ELSE flags[t]]
     IN  IF rq = <<>>
         THEN /\ mode' = "idle"
              /\ until' = Waketime
              /\ UNCHANGED <<timeq, runq, flags, wakeup, current, fault>>
         ELSE LET next == Head(rq)
                  off == [fl EXCEPT ![current] = @ \ {"RUNNING"}]
              IN  /\ timeq' = SubSeq(timeq, Expired + 1, Len(timeq))
                  /\ wakeup' = [t \in Thread |-> IF t \in Range(expired)
                                  THEN BMK_SCHED_BLOCK_INFTIME ELSE wakeup[t]]
                  /\ runq' = Tail(rq)
                  /\ flags' = [off EXCEPT
                                 ![next] = (@ \ {"RUNQ"}) \cup {"RUNNING"}]
                  /\ current' = next
                  /\ mode' = "resume"
                  /\ Check(/\ "RUNQ" \in fl[next]
                           /\ "DEAD" \notin fl[next]
                           /\ flags'[next] \cap QMASK = {}, "schedule assertion")
                  /\ UNCHANGED until
  /\ UNCHANGED <<threadq, zombieq, blockq, joinwq, stacks, pc, locals, clock>>

\* bmk_platform_cpu_block() returns: its time is up, or an interrupt came.
CpuUnblock ==
  /\ mode = "idle"
  /\ mode' = "sched"
  /\ until' = 0
  /\ UNCHANGED <<queues, flags, wakeup, stacks, current, pc, locals, clock,
                 fault>>

\* The stacks the reaper gives back.
ReapedStacks == {z \in zombieq : "EXTSTACK" \notin flags[z]}

\* current continues after schedule() let it run.  A thread that ran before
\* returns from schedule() and reaps the zombies; a new one starts its code.
Resume ==
  /\ mode = "resume"
  /\ mode' = "thread"
  /\ IF pc[current] = "virgin"
     THEN /\ pc' = [pc EXCEPT ![current] = "user"]
          /\ UNCHANGED <<zombieq, joinwq, flags, wakeup, stacks, cont, fault>>
     ELSE /\ Check(pc[current] # "dead", "schedule() returned for a dead thread")
          /\ zombieq' = {}
          /\ stacks' = stacks \ ReapedStacks
          /\ pc' = [t \in Thread |->
                      IF t \in zombieq THEN "none"
                      ELSE IF t # current THEN pc[t]
                      ELSE IF pc[t] = "block" THEN cont[t] ELSE "user"]
          /\ flags' = [t \in Thread |->
                         IF t \in zombieq THEN {}
                         ELSE IF t = current /\ pc[t] = "block"
                         THEN flags[t] \ {"TIMEDOUT", "BLOCKPREP"} ELSE flags[t]]
          /\ wakeup' = [t \in Thread |-> IF t \in zombieq
                                         THEN BMK_SCHED_BLOCK_INFTIME ELSE wakeup[t]]
          /\ cont' = [cont EXCEPT ![current] = "user"]
          /\ joinwq' = joinwq \ {current}
  /\ UNCHANGED <<threadq, runq, timeq, blockq, current, wanted, wk, clock,
                 until>>

-----------------------------------------------------------------------------
(* Thread creation, exit and join                                          *)

\* bmk_sched_create_withtls().
Create(t, x) ==
  /\ At(t, "user")
  /\ pc[x] = "none"
  /\ \E joinable \in (IF x \in IntrWoken THEN {FALSE} ELSE BOOLEAN) :
       flags' = [flags EXCEPT
                   ![x] = {"RUNQ"} \cup (IF joinable THEN {"MUSTJOIN"} ELSE {})
                            \cup (IF x \in ExtStack THEN {"EXTSTACK"} ELSE {})]
  /\ stacks' = stacks \cup ({x} \ ExtStack)
  /\ threadq' = threadq \cup {x}
  /\ runq' = Append(runq, x)
  /\ wakeup' = [wakeup EXCEPT ![x] = BMK_SCHED_BLOCK_INFTIME]
  /\ pc' = [pc EXCEPT ![x] = "virgin"]
  /\ UNCHANGED <<zombieq, timeq, blockq, joinwq, current, mode, locals, clock,
                 until, fault>>

\* bmk_sched_exit_withtls() is called; the loop at its top is ExitGate.
Exit(t) ==
  /\ At(t, "user")
  /\ t \notin IntrWoken
  /\ pc' = [pc EXCEPT ![t] = "gate"]
  /\ UNCHANGED <<queues, flags, wakeup, stacks, current, mode, locals, clock,
                 until, fault>>

\* Variant: the joiner is not woken.
ExitGate_NoWake(t) ==
  /\ At(t, "gate")
  /\ "MUSTJOIN" \in flags[t]
  /\ flags' = [flags EXCEPT ![t] = @ \cup {"JOINED"}]
  /\ pc' = [pc EXCEPT ![t] = "gateprep"]
  /\ UNCHANGED <<queues, wakeup, stacks, current, mode, locals, clock, until,
                 fault>>

\* A joinable thread marks itself and wakes its joiner, if there is one.
ExitGate(t) ==
  /\ At(t, "gate")
  /\ "MUSTJOIN" \in flags[t]
  /\ flags' = [flags EXCEPT ![t] = @ \cup {"JOINED"}]
  /\ \/ \E u \in joinwq : wanted[u] = t /\ WakeBegin(t, u, "gateprep")
     \/ /\ \A u \in joinwq : wanted[u] # t
        /\ pc' = [pc EXCEPT ![t] = "gateprep"]
        /\ UNCHANGED <<wakeup, wk, fault>>
  /\ UNCHANGED <<queues, stacks, current, mode, cont, wanted, clock, until>>

\* ... and then blocks until the joiner has seen it.
ExitGateBlock(t) ==
  /\ At(t, "gateprep")
  /\ blockprepare(t, BMK_SCHED_BLOCK_INFTIME, "gate")
  /\ UNCHANGED <<threadq, zombieq, runq, joinwq, stacks, current, mode, wanted,
                 wk, clock, until>>

\* The released thread leaves threadq for zombieq and never runs again.
Dies(t) ==
  /\ Check(flags[t] \cap QMASK = {}, "exit assertion")
  /\ threadq' = threadq \ {t}
  /\ zombieq' = zombieq \cup {t}
  /\ flags' = [flags EXCEPT ![t] = (@ \ {"RUNNING"}) \cup {"DEAD"}]
  /\ pc' = [pc EXCEPT ![t] = "dead"]
  /\ mode' = "sched"
  /\ UNCHANGED <<runq, timeq, blockq, joinwq, wakeup, stacks, current, locals,
                 clock, until>>

\* Variant: the gate does not test MUSTJOIN again after having blocked.
ExitDie_GateNotRetested(t) ==
  /\ At(t, "gate")
  /\ "MUSTJOIN" \notin flags[t] \/ "JOINED" \in flags[t]
  /\ Dies(t)

ExitDie(t) ==
  /\ At(t, "gate")
  /\ "MUSTJOIN" \notin flags[t]
  /\ Dies(t)

\* bmk_sched_join(x) is called, by the only thread that joins x.
Join(t, x) ==
  /\ At(t, "user")
  /\ t \in ThreadWoken
  /\ x \in (ThreadWoken \cap threadq) \ {t}
  /\ "MUSTJOIN" \in flags[x]
  /\ \A u \in Thread \ {x} : wanted[u] # x
  /\ wanted' = [wanted EXCEPT ![t] = x]
  /\ pc' = [pc EXCEPT ![t] = "join"]
  /\ UNCHANGED <<queues, flags, wakeup, stacks, current, mode, cont, wk, clock,
                 until, fault>>

\* The loop of bmk_sched_join() waits for x to reach its exit ...
JoinWait(t) ==
  /\ At(t, "join")
  /\ "JOINED" \notin flags[wanted[t]]
  /\ joinwq' = joinwq \cup {t}
  /\ blockprepare(t, BMK_SCHED_BLOCK_INFTIME, "join")
  /\ UNCHANGED <<threadq, zombieq, runq, stacks, current, mode, wanted, wk,
                 clock, until>>

\* ... and then lets it go.
JoinDone(t) ==
  /\ At(t, "join")
  /\ LET x == wanted[t]
     IN  /\ "JOINED" \in flags[x]
         /\ flags' = [flags EXCEPT ![x] = @ \ {"MUSTJOIN"}]
         /\ WakeBegin(t, x, "user")
  /\ wanted' = [wanted EXCEPT ![t] = t]
  /\ UNCHANGED <<queues, stacks, current, mode, cont, clock, until>>

-----------------------------------------------------------------------------

Tick ==
  /\ clock < MaxTime
  /\ clock' = clock + 1
  /\ UNCHANGED <<queues, flags, wakeup, stacks, current, mode, pc, locals,
                 until, fault>>

\* The state bmk_sched_startmain() hands to the main thread.
Init ==
  /\ threadq = {Main}
  /\ zombieq = {} /\ runq = <<>> /\ timeq = <<>> /\ blockq = {} /\ joinwq = {}
  /\ flags = [t \in Thread |-> IF t = Main THEN {"RUNNING", "EXTSTACK"} ELSE {}]
  /\ wakeup = [t \in Thread |-> BMK_SCHED_BLOCK_INFTIME]
  /\ stacks = {}
  /\ current = Main
  /\ mode = "resume"
  /\ pc = [t \in Thread |-> IF t = Main THEN "virgin" ELSE "none"]
  /\ cont = [t \in Thread |-> "user"]
  /\ wanted = [t \in Thread |-> t]
  /\ wk = NoWake
  /\ clock = 0
  /\ until = 0
  /\ fault = "none"

\* Steps of the running thread t.
ThreadStep(t) ==
  \/ BlockPrepare(t) \/ Block(t) \/ Yield(t) \/ WakeCommit(t)
  \/ Exit(t) \/ ExitGate(t) \/ ExitGateBlock(t) \/ ExitDie(t)
  \/ JoinWait(t) \/ JoinDone(t)
  \/ \E x \in Thread : Wake(t, x) \/ Create(t, x) \/ Join(t, x)

Next ==
  /\ fault = "none"
  /\ \/ \E t \in Thread : ThreadStep(t)
     \/ Schedule
     \/ CpuUnblock
     \/ Resume
     \/ \E x \in Thread : Interrupt(x)
     \/ Tick

Spec == Init /\ [][Next]_vars

\* What a thread decides when it calls the scheduler, and what follows from it.
GivesUpCpu(t) == BlockPrepare(t) \/ Yield(t) \/ Exit(t)

Proceeds(t) ==
  \/ Block(t) \/ WakeCommit(t) \/ ExitGate(t) \/ ExitGateBlock(t)
  \/ ExitDie(t) \/ JoinWait(t) \/ JoinDone(t)

\* The CPU executes, time passes, and threads honour the contract of
\* cooperative scheduling: none keeps the CPU for itself for ever.
FairSpec ==
  /\ Spec
  /\ WF_vars(Schedule) /\ WF_vars(CpuUnblock) /\ WF_vars(Resume)
  /\ WF_vars(Tick)
  /\ WF_vars(\E t \in Thread : Proceeds(t))
  /\ SF_vars(\E t \in Thread : GivesUpCpu(t))

-----------------------------------------------------------------------------
(* Properties                                                              *)

Label == {"none", "virgin", "user", "prep", "wake", "block", "yield", "gate",
          "gateprep", "join", "dead"}

\* Every variable has the type its C declaration gives it.
TypeOK ==
  /\ threadq \subseteq Thread
  /\ zombieq \subseteq Thread
  /\ runq \in Seq(Thread)
  /\ timeq \in Seq(Thread)
  /\ blockq \subseteq Thread
  /\ joinwq \subseteq Thread
  /\ flags \in [Thread -> SUBSET Flag]
  /\ wakeup \in [Thread -> Time]
  /\ stacks \subseteq Thread
  /\ current \in Thread
  /\ mode \in {"thread", "sched", "idle", "resume"}
  /\ pc \in [Thread -> Label]
  /\ cont \in [Thread -> {"user", "gate", "join"}]
  /\ wanted \in [Thread -> Thread]
  /\ wk \in [who : Thread, tq : {"none", "TIMEQ", "BLOCKQ"},
             ret : {"user", "gateprep"}]
  /\ clock \in Nat
  /\ until \in Nat
  /\ fault \in Fault

\* The queue flags of a thread say exactly which scheduler queue it is on, and
\* no thread is on two queues, or twice on one: set_runnable() unlinks a thread
\* from the queue its flags name without looking.
QueueFlagsAgree ==
  /\ \A t \in Thread : /\ "RUNQ" \in flags[t] <=> t \in Range(runq)
                       /\ "TIMEQ" \in flags[t] <=> t \in Range(timeq)
                       /\ "BLOCKQ" \in flags[t] <=> t \in blockq
                       /\ \A p, q \in flags[t] \cap QMASK : p = q
  /\ Distinct(runq)
  /\ Distinct(timeq)

\* No assertion fails and no halt is reached, in thread context or in an
\* interrupt handler, and no queue operation works on the wrong queue.
NoFault == fault = "none"

\* Whenever schedule() may look at it, timeq is sorted by deadline and holds no
\* thread without one: expiry stops at the first thread that is not due.
TimeqSorted ==
  (mode = "thread" /\ pc[current] = "wake") \/
    /\ \A i \in DOMAIN timeq : wakeup[timeq[i]] # BMK_SCHED_BLOCK_INFTIME
    /\ \A i, j \in DOMAIN timeq : i < j => wakeup[timeq[i]] <= wakeup[timeq[j]]

\* bmk_platform_cpu_block() is never asked to sleep past the deadline of any
\* blocked thread.
NoOversleep ==
  mode = "idle" => \A t \in Range(timeq) : until <= wakeup[t]

\* A joinable thread does not die before its joiner has released it, and the
\* joiner never waits for a thread that is gone.
JoinHandshake ==
  /\ \A t \in zombieq : "MUSTJOIN" \notin flags[t]
  /\ \A t \in threadq : wanted[t] # t =>
       wanted[t] \in threadq /\ "MUSTJOIN" \in flags[wanted[t]]

\* runq is first in, first out: a step adds threads at the back only, and the
\* one thread it may take away is the first, which gets the CPU.
RunqFifo ==
  [][\/ GrowsTo(runq, runq')
     \/ /\ runq # <<>>
        /\ GrowsTo(Tail(runq), runq')
        /\ current' = Head(runq)]_vars

\* The reaper releases only stacks that nobody executes on, and a thread that
\* exists and did not bring its own stack has one.
StacksOwned ==
  stacks = {t \in threadq \cup zombieq : "EXTSTACK" \notin flags[t]}

\* A runnable thread eventually runs, however often interrupts and other threads
\* put themselves on runq.
RunnableRuns ==
  \A t \in Thread : ("RUNQ" \in flags[t]) ~> ("RUNNING" \in flags[t])

\* A wait with a deadline ends even when nobody wakes the thread.
TimedWaitEnds ==
  \A t \in Thread : ("TIMEQ" \in flags[t]) ~>
                       ("RUNNING" \in flags[t] /\ "TIMEQ" \notin flags[t])

\* Once the thread to be joined has reached its exit, its joiner returns and the
\* thread dies, in whichever order the two arrived and whoever else wakes them.
JoinCompletes ==
  \A x \in Thread :
    /\ \A t \in Thread \ {x} :
         (wanted[t] = x /\ "JOINED" \in flags[x]) ~> (wanted[t] # x)
    /\ ("JOINED" \in flags[x] /\ "MUSTJOIN" \notin flags[x]) ~>
         (pc[x] \in {"dead", "none"})

\* A wakeup of a thread that is already runnable when the wakeup reaches the
\* queues has no effect, as the rules above the scheduler queues say.
RunnableWakeNoEffect ==
  [][(\E t \in Thread : WakeCommit(t)) /\ "RUNQ" \in flags[wk.who] =>
       UNCHANGED <<queues, fault>>]_vars

-----------------------------------------------------------------------------
(* The contract                                                            *)

\* x has been chosen by a wakeup that has not yet moved it to runq.
BeingWoken(x) ==
  /\ mode = "thread"
  /\ pc[current] = "wake"
  /\ wk.who = x
  /\ wk.tq # "none"

waitBar == [t \in Thread |->
  IF "BLOCKPREP" \notin flags[t] THEN "no"
  ELSE IF flags[t] \cap QMASK \subseteq {"RUNQ"} THEN
         IF "TIMEDOUT" \in flags[t] THEN "timedout" ELSE "woken"
  ELSE IF BeingWoken(t) THEN "woken" ELSE "waiting"]

Contract == INSTANCE SchedContract WITH
  Nobody <- "nobody",
  Infinite <- BMK_SCHED_BLOCK_INFTIME,
  alive <- threadq,
  cpu <- IF mode \in {"sched", "idle"} THEN "nobody" ELSE current,
  wait <- waitBar,
  due <- [t \in Thread |-> IF waitBar[t] = "waiting" THEN wakeup[t]
                           ELSE BMK_SCHED_BLOCK_INFTIME],
  now <- clock

\* The scheduler keeps its contract: no wakeup after blockprepare is lost, each
\* request to block ends with one verdict, timeouts are neither early nor
\* skipped over when schedule() picks a thread.
KeepsContract == Contract!CSpec

-----------------------------------------------------------------------------
(* The inductive invariant                                                 *)

OffQueues(t) == flags[t] \cap QMASK = {}
OnOneQueue(t) == \E q \in QMASK : flags[t] \cap QMASK = {q}

\* Which threads exist, by where they are in their code.
LifeInv ==
  \A t \in Thread :
    /\ t \in threadq <=> pc[t] \notin {"none", "dead"}
    /\ t \in zombieq <=> pc[t] = "dead"
    /\ pc[t] = "none" => flags[t] = {}
    /\ "DEAD" \in flags[t] <=> pc[t] = "dead"
    /\ "MUSTJOIN" \in flags[t] => t \in threadq
    /\ "BLOCKPREP" \in flags[t] <=> pc[t] \in {"prep", "block"}
    /\ "TIMEDOUT" \in flags[t] => pc[t] = "block"
    /\ "TIMEQ" \in flags[t] => pc[t] \in {"prep", "block"}

\* What the flags of a thread that does not have the CPU are.
OthersInv ==
  \A t \in Thread \ {current} :
    /\ pc[t] \in {"none", "dead", "virgin", "block", "yield"}
    /\ "RUNNING" \notin flags[t]
    /\ pc[t] \in {"none", "dead"} => OffQueues(t)
    /\ pc[t] \in {"virgin", "block", "yield"} => OnOneQueue(t)

\* What the flags of current are, by what the CPU does for it.
CurrentInv ==
  /\ mode = "thread" =>
       /\ pc[current] \in {"user", "wake", "gate", "gateprep", "join", "prep"}
       /\ "RUNNING" \in flags[current]
       /\ pc[current] # "prep" => OffQueues(current)
       /\ pc[current] = "prep" => OnOneQueue(current)
  /\ mode \in {"sched", "idle"} =>
       /\ pc[current] \in {"block", "yield", "dead"}
       /\ pc[current] = "dead" => OffQueues(current)
       /\ pc[current] # "dead" => OnOneQueue(current)
  /\ mode = "resume" =>
       /\ pc[current] \in {"virgin", "block", "yield"}
       /\ "RUNNING" \in flags[current]
       /\ OffQueues(current)

\* What bmk_sched_wake() read at spl0 still holds when it raises the level.
WakeInv ==
  (mode = "thread" /\ pc[current] = "wake") =>
    /\ wk.who \in threadq \cap ThreadWoken
    /\ wk.tq = QueueOf(flags[wk.who])

\* A joiner and the thread it joins are alive, and nobody else joins it.
JoinedInv ==
  \A t \in Thread : wanted[t] # t =>
    /\ t \in threadq \cap ThreadWoken
    /\ wanted[t] \in threadq \cap ThreadWoken
    /\ "MUSTJOIN" \in flags[wanted[t]]
    /\ \A u \in Thread : u # wanted[t] /\ wanted[u] = wanted[t] => u = t

\* A thread joins another one exactly while it is in bmk_sched_join().
InJoin(t) == pc[t] = "join" \/ (pc[t] \in {"prep", "block"} /\ cont[t] = "join")

JoiningInv ==
  /\ \A t \in Thread : wanted[t] # t <=> InJoin(t)
  /\ \A t \in joinwq : pc[t] # "join" /\ InJoin(t)

\* timeq is sorted but for a thread that is being woken.
TimeqInv ==
  /\ \A i \in DOMAIN timeq :
       ~BeingWoken(timeq[i]) => wakeup[timeq[i]] # BMK_SCHED_BLOCK_INFTIME
  /\ \A i, j \in DOMAIN timeq :
       i < j /\ ~BeingWoken(timeq[i]) /\ ~BeingWoken(timeq[j]) =>
         wakeup[timeq[i]] <= wakeup[timeq[j]]

\* The conjunction is inductive: every step of the scheduler, whatever the
\* interrupt handlers do in between, leads from such a state to such a state.
IInv ==
  /\ TypeOK /\ NoFault /\ QueueFlagsAgree
  /\ LifeInv /\ OthersInv /\ CurrentInv /\ WakeInv
  /\ JoinedInv /\ JoiningInv
  /\ TimeqInv /\ NoOversleep /\ StacksOwned
=============================================================================
