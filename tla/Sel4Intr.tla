------------------------------ MODULE Sel4Intr ------------------------------
(***************************************************************************)
(* Interrupts on the seL4 platform: platform/sel4/{entry,intr,kernel,      *)
(* clock}.c.  All bmk threads are multiplexed on one seL4 thread, the      *)
(* runner.  Two more seL4 threads of a higher priority, the handlers Pci   *)
(* and Stdio, turn seL4 notifications into work for the interrupt thread   *)
(* "isr", which is a bmk thread; "main" stands for the other bmk threads.  *)
(* The runner and the handlers exclude each other with spl_semaphore,      *)
(* through bmk_platform_splhigh() and splx().  The runner executes only    *)
(* while every handler is blocked; the handlers have the same priority and *)
(* share the processor in time slices.                                     *)
(***************************************************************************)
EXTENDS Integers, Sequences, FiniteSets, Queues

CONSTANTS
  Irq,        \* interrupt lines, bits of isr_todo
  Soft,       \* software events, bits of isr_todo_soft
  Pci, Stdio, \* the two handler threads
  Free        \* no thread

Handler == {Pci, Stdio}
Lines == Irq \cup Soft
Bmk == {"isr", "main"}
Unset == 32   \* isr_lowest before any handler is established

ASSUME Sel4Assumption ==
  /\ Irq \subseteq 0 .. Unset - 1 /\ IsFiniteSet(Irq)
  /\ Soft \cap Irq = {} /\ Pci # Stdio /\ Free \notin Handler
  /\ "runner" \notin Handler \cup {Free}

VARIABLES
  owner, semq,      \* spl_semaphore: its holder and the threads blocked on it
  spldepth, mask_the_mask, should_wakeup,
  timer_ntfn,       \* the runner's notification is signalled
  armed,            \* a timeout is set
  hpc, bits,        \* where each handler is, and the badge it has received
  badge,            \* what is pending for each handler
  unserved,         \* lines raised and not yet served (an Irq: not yet acked)
  isr_todo, isr_todo_soft, isr_lowest,
  bound, isr_ih,    \* lines bound to a notification, lines with a handler
  rpc, cur, tpc,    \* where the runner is, the current bmk thread, its place
  runq, asleep, overdue,  \* the scheduler's state, as far as it matters here
  isrcopy, fault

sem == <<owner, semq>>
spl == <<sem, spldepth>>
idle == <<should_wakeup, timer_ntfn, armed>>
hand == <<hpc, bits, badge>>
todo == <<isr_todo, isr_todo_soft, isrcopy>>
irqs == <<isr_lowest, bound, isr_ih, unserved>>
sched == <<runq, asleep, overdue>>
vars == <<spl, mask_the_mask, idle, hand, todo, irqs, rpc, cur, tpc, sched, fault>>

Init ==
  /\ owner = Free /\ semq = <<>> /\ spldepth = 0 /\ mask_the_mask = FALSE
  /\ should_wakeup = FALSE /\ timer_ntfn = FALSE /\ armed = FALSE
  /\ hpc = [h \in Handler |-> "wait"] /\ bits = [h \in Handler |-> {}]
  /\ badge = [h \in Handler |-> {}]
  /\ unserved = {} /\ isr_todo = {} /\ isr_todo_soft = {}
  /\ isr_lowest = Unset /\ bound = {} /\ isr_ih = {}
  /\ rpc = "thread" /\ cur = "main" /\ tpc = [isr |-> "start", main |-> "run"]
  /\ runq = <<"isr">> /\ asleep = {} /\ overdue = {}
  /\ isrcopy = {} /\ fault = "none"

Check(ok, what) == fault' = IF ok THEN fault ELSE what

-----------------------------------------------------------------------------
(* The semaphore, a seL4 library object, and the interrupt level           *)

\* A thread that finds the semaphore taken queues up behind it.
sync_bin_sem_wait(x) ==
  IF owner = Free THEN owner' = x /\ UNCHANGED semq
  ELSE semq' = Append(semq, x) /\ UNCHANGED owner

\* The semaphore goes to the first thread in the queue.
sync_bin_sem_post ==
  IF semq = <<>> THEN owner' = Free /\ UNCHANGED semq
  ELSE owner' = Head(semq) /\ semq' = Tail(semq)

Blocked(h) == \/ h \in Range(semq)
              \/ hpc[h] = "wait" /\ badge[h] = {}

\* The runner executes when no handler can.
RunnerExecutes == \A h \in Handler : Blocked(h)

\* bmk_platform_splhigh() in the runner.  If a handler kept the semaphore, the
\* runner would block in it: the action is then disabled.
splhigh ==
  IF mask_the_mask THEN UNCHANGED spl
  ELSE /\ IF spldepth = 0 THEN owner = Free /\ sync_bin_sem_wait("runner")
          ELSE UNCHANGED sem
       /\ spldepth' = spldepth + 1

\* bmk_platform_splx().
splx ==
  IF mask_the_mask THEN UNCHANGED <<spl, fault>>
  ELSE IF spldepth = 0 THEN fault' = "out_of_interrupt_depth" /\ UNCHANGED spl
  ELSE /\ spldepth' = spldepth - 1
       /\ IF spldepth = 1 THEN sync_bin_sem_post ELSE UNCHANGED sem
       /\ UNCHANGED fault
-----------------------------------------------------------------------------
(* The handlers: rump_irq_handle() and isr()                               *)

HandlerStep(h, from, to) ==
  /\ ~Blocked(h)
  /\ hpc[h] = from
  /\ hpc' = [hpc EXCEPT ![h] = to]

\* seL4_Wait() returns the badge, and the handler asks for the semaphore.
irq_begin(h) ==
  /\ HandlerStep(h, "wait", "signal")
  /\ bits' = [bits EXCEPT ![h] = badge[h]]
  /\ badge' = [badge EXCEPT ![h] = {}]
  /\ sync_bin_sem_wait(h)
  /\ UNCHANGED <<spldepth, mask_the_mask, idle, todo, irqs, rpc, cur, tpc, sched, fault>>

\* Variant: a runner that is about to wait is not signalled.
irq_signal_Never(h) ==
  /\ HandlerStep(h, "signal", "mask")
  /\ Check(spldepth = 0, "spldepth_not_0")
  /\ UNCHANGED <<bits, badge, spl, mask_the_mask, idle, todo, irqs, rpc, cur, tpc, sched>>

irq_signal(h) ==
  /\ HandlerStep(h, "signal", "mask")
  /\ Check(spldepth = 0, "spldepth_not_0")
  /\ timer_ntfn' = (timer_ntfn \/ should_wakeup)
  /\ UNCHANGED <<bits, badge, spl, mask_the_mask, should_wakeup, armed, todo, irqs,
                 rpc, cur, tpc, sched>>

irq_mask(h) ==
  /\ HandlerStep(h, "mask", "todo")
  /\ mask_the_mask' = TRUE
  /\ UNCHANGED <<bits, badge, spl, idle, todo, irqs, rpc, cur, tpc, sched, fault>>

isr_post(h) ==
  /\ HandlerStep(h, "todo", "wake")
  /\ isr_todo_soft' = isr_todo_soft \cup (bits[h] \cap Soft)
  /\ isr_todo' = isr_todo \cup (bits[h] \cap Irq)
  /\ UNCHANGED <<bits, badge, spl, mask_the_mask, idle, isrcopy, irqs, rpc, cur, tpc,
                 sched, fault>>

\* Variant: a thread that is runnable already is woken once more.
isr_wake_NoTest(h) ==
  /\ HandlerStep(h, "wake", "move")
  /\ UNCHANGED <<bits, badge, spl, mask_the_mask, idle, todo, irqs, rpc, cur, tpc, sched, fault>>

\* bmk_sched_wake(isr_thread): nothing to do if it is runnable; otherwise its
\* splhigh() returns at once, or else waits for the semaphore of its caller.
isr_wake(h) ==
  /\ HandlerStep(h, "wake", IF "isr" \notin asleep THEN "unlock"
                            ELSE IF mask_the_mask THEN "move" ELSE "nested")
  /\ IF "isr" \in asleep /\ ~mask_the_mask THEN sync_bin_sem_wait(h) ELSE UNCHANGED sem
  /\ UNCHANGED <<bits, badge, spldepth, mask_the_mask, idle, todo, irqs, rpc, cur, tpc,
                 sched, fault>>

isr_move(h) ==
  /\ HandlerStep(h, "move", "low")
  /\ runq' = Append(runq, "isr")
  /\ asleep' = asleep \ {"isr"}
  /\ overdue' = overdue \ {"isr"}
  /\ UNCHANGED <<bits, badge, spl, mask_the_mask, idle, todo, irqs, rpc, cur, tpc, fault>>

isr_splx(h) ==
  /\ HandlerStep(h, "low", "unlock")
  /\ splx
  /\ UNCHANGED <<bits, badge, mask_the_mask, idle, todo, irqs, rpc, cur, tpc, sched>>

irq_unlock(h) ==
  /\ HandlerStep(h, "unlock", "unmask")
  /\ sync_bin_sem_post
  /\ UNCHANGED <<bits, badge, spldepth, mask_the_mask, idle, todo, irqs, rpc, cur, tpc,
                 sched, fault>>

irq_unmask(h) ==
  /\ HandlerStep(h, "unmask", "wait")
  /\ mask_the_mask' = FALSE
  /\ bits' = [bits EXCEPT ![h] = {}]
  /\ UNCHANGED <<badge, spl, idle, todo, irqs, rpc, cur, tpc, sched, fault>>

rump_irq_handle(h) ==
  \/ irq_begin(h) \/ irq_signal(h) \/ irq_mask(h) \/ isr_post(h) \/ isr_wake(h)
  \/ isr_move(h) \/ isr_splx(h) \/ irq_unlock(h) \/ irq_unmask(h)

-----------------------------------------------------------------------------
(* The interrupt thread: doisr()                                           *)

Runs(t, from) == RunnerExecutes /\ rpc = "thread" /\ cur = t /\ tpc[t] = from

IsrStep(from, to) == Runs("isr", from) /\ tpc' = [tpc EXCEPT !.isr = to]

\* A step of the interrupt thread that raises or lowers the interrupt level.
IsrHigh(from, to) ==
  /\ IsrStep(from, to) /\ splhigh
  /\ UNCHANGED <<mask_the_mask, idle, hand, todo, irqs, rpc, cur, sched, fault>>
IsrLow(from, to) ==
  /\ IsrStep(from, to) /\ splx
  /\ UNCHANGED <<mask_the_mask, idle, hand, todo, irqs, rpc, cur, sched>>

IsrCopy ==
  /\ \/ IsrStep("copyhw", "clearhw") /\ isrcopy' = isr_todo
     \/ IsrStep("copysoft", "clearsoft") /\ isrcopy' = isr_todo_soft
  /\ UNCHANGED <<spl, mask_the_mask, idle, hand, isr_todo, isr_todo_soft, irqs, rpc, cur,
                 sched, fault>>

IsrClear ==
  /\ \/ IsrStep("clearhw", "lowhw") /\ isr_todo' = {} /\ UNCHANGED isr_todo_soft
     \/ IsrStep("clearsoft", "lowsoft") /\ isr_todo_soft' = {} /\ UNCHANGED isr_todo
  /\ UNCHANGED <<spl, mask_the_mask, idle, hand, isrcopy, irqs, rpc, cur, sched, fault>>

\* The runner takes and leaves the interrupt level within the step.
AtSpl == mask_the_mask \/ spldepth > 0 \/ owner = Free

\* The handlers of line i have run; an interrupt is acknowledged.
Serve(i) == unserved' = unserved \ {i}

\* One turn of the loop of process_handlers(), lowest bit first.  The handlers
\* may wake another thread.
process_handlers(i) ==
  /\ Runs("isr", IF i \in Irq THEN "hw" ELSE "soft")
  /\ i \in isrcopy /\ \A j \in isrcopy : i <= j
  /\ Check(i \in Soft \/ i >= isr_lowest, "level_out_of_range")
  /\ isrcopy' = isrcopy \ {i}
  /\ Serve(i)
  /\ \/ UNCHANGED sched
     \/ /\ "main" \in asleep /\ AtSpl
        /\ asleep' = asleep \ {"main"}
        /\ overdue' = overdue \ {"main"}
        /\ runq' = Append(runq, "main")
  /\ UNCHANGED <<spl, mask_the_mask, idle, hand, isr_todo, isr_todo_soft, isr_lowest,
                 bound, isr_ih, rpc, cur, tpc>>

\* A handler may also block, with a timeout.
IsrHandlerSleeps ==
  /\ Runs("isr", "hw") \/ Runs("isr", "soft")
  /\ isrcopy # {} /\ AtSpl
  /\ asleep' = asleep \cup {"isr"}
  /\ rpc' = "sched"
  /\ UNCHANGED <<spl, mask_the_mask, idle, hand, todo, irqs, cur, tpc, runq, overdue, fault>>

IsrHandled ==
  /\ isrcopy = {}
  /\ IsrHigh("hw", "copysoft") \/ IsrHigh("soft", "test")

\* Variant: only the hardware interrupts are looked at again.
IsrTest_HardwareOnly ==
  /\ IsrStep("test", IF isr_todo # {} THEN "copyhw" ELSE "lowblock")
  /\ asleep' = IF isr_todo # {} THEN asleep ELSE asleep \cup {"isr"}
  /\ UNCHANGED <<spl, mask_the_mask, idle, hand, todo, irqs, rpc, cur, runq, overdue, fault>>

\* More to do, or blockprepare: still at splhigh.
IsrTest ==
  /\ LET more == isr_todo # {} \/ isr_todo_soft # {}
     IN  /\ IsrStep("test", IF more THEN "copyhw" ELSE "lowblock")
         /\ asleep' = IF more THEN asleep ELSE asleep \cup {"isr"}
  /\ UNCHANGED <<spl, mask_the_mask, idle, hand, todo, irqs, rpc, cur, runq, overdue, fault>>

IsrBlock ==
  /\ IsrStep("block", "start")
  /\ rpc' = "sched"
  /\ UNCHANGED <<spl, mask_the_mask, idle, hand, todo, irqs, cur, sched, fault>>

doisr ==
  \/ IsrHigh("start", "copyhw") \/ IsrCopy \/ IsrClear
  \/ IsrLow("lowhw", "hw") \/ IsrLow("lowsoft", "soft") \/ IsrLow("lowblock", "block")
  \/ \E i \in Lines : process_handlers(i)
  \/ IsrHandlerSleeps \/ IsrHandled \/ IsrTest \/ IsrBlock
-----------------------------------------------------------------------------
(* The other bmk threads                                                   *)

MainStep(from, to) == Runs("main", from) /\ tpc' = [tpc EXCEPT !.main = to]

MainHigh ==
  /\ MainStep("run", "high") /\ splhigh
  /\ UNCHANGED <<mask_the_mask, idle, hand, todo, irqs, rpc, cur, sched, fault>>

MainLow ==
  /\ MainStep("high", "run") /\ splx
  /\ UNCHANGED <<mask_the_mask, idle, hand, todo, irqs, rpc, cur, sched>>

\* rumpcomp_pci_irq_establish(): interrupts may arrive from here on ...
rumpcomp_pci_irq_establish(i) ==
  /\ i \notin bound
  /\ MainStep("run", "bound")
  /\ bound' = bound \cup {i}
  /\ UNCHANGED <<spl, mask_the_mask, idle, hand, todo, isr_lowest, isr_ih, unserved, rpc, cur,
                 sched, fault>>

\* ... and only then is the handler registered.
bmk_isr_rumpkernel(i) ==
  /\ i \in bound \ isr_ih
  /\ MainStep("bound", "run")
  /\ isr_ih' = isr_ih \cup {i}
  /\ isr_lowest' = IF i < isr_lowest THEN i ELSE isr_lowest
  /\ UNCHANGED <<spl, mask_the_mask, idle, hand, todo, bound, unserved, rpc, cur, sched,
                 fault>>

\* bmk_sched_blockprepare_timeout() and bmk_sched_block(); bmk_sched_yield().
MainSleeps ==
  /\ Runs("main", "run") /\ AtSpl
  /\ asleep' = asleep \cup {"main"}
  /\ rpc' = "sched"
  /\ UNCHANGED <<spl, mask_the_mask, idle, hand, todo, irqs, cur, tpc, runq, overdue, fault>>

MainYields ==
  /\ Runs("main", "run") /\ AtSpl
  /\ runq' = Append(runq, "main")
  /\ rpc' = "sched"
  /\ UNCHANGED <<spl, mask_the_mask, idle, hand, todo, irqs, cur, tpc, asleep, overdue, fault>>

main ==
  \/ MainHigh \/ MainLow \/ MainSleeps \/ MainYields
  \/ \E i \in Irq : rumpcomp_pci_irq_establish(i) \/ bmk_isr_rumpkernel(i)

-----------------------------------------------------------------------------
(* schedule() and bmk_platform_cpu_block()                                 *)

SchedStep(from, to) == RunnerExecutes /\ rpc = from /\ rpc' = to

SchedHigh(from, to) ==
  /\ SchedStep(from, to) /\ splhigh
  /\ UNCHANGED <<mask_the_mask, idle, hand, todo, irqs, cur, tpc, sched, fault>>
SchedLow(from, to) ==
  /\ SchedStep(from, to) /\ splx
  /\ UNCHANGED <<mask_the_mask, idle, hand, todo, irqs, cur, tpc, sched>>

\* A turn of the loop: timeouts, then the first runnable thread, if any.
Pick ==
  LET q == runq \o InSomeOrder(overdue)
  IN  /\ SchedStep("loop", IF q # <<>> THEN "out" ELSE "block")
      /\ asleep' = asleep \ overdue
      /\ overdue' = {}
      /\ runq' = IF q # <<>> THEN Tail(q) ELSE q
      /\ cur' = IF q # <<>> THEN Head(q) ELSE cur
      /\ UNCHANGED <<spl, mask_the_mask, idle, hand, todo, irqs, tpc, fault>>

schedule == SchedHigh("sched", "loop") \/ Pick \/ SchedLow("out", "thread")

\* bmk_platform_cpu_block(): it is late already, or a timeout is set, or the
\* timer refuses.
cpu_block_begin ==
  /\ \/ SchedStep("block", "loop") /\ overdue # {} /\ UNCHANGED armed
     \/ SchedStep("block", "flag") /\ overdue = {} /\ armed' = TRUE
     \/ SchedStep("block", "refused") /\ overdue = {} /\ UNCHANGED armed
  /\ Check(spldepth > 0, "env.spldepth > 0")
  /\ UNCHANGED <<spl, mask_the_mask, should_wakeup, timer_ntfn, hand, todo, irqs, cur, tpc,
                 sched>>

cpu_block_flag ==
  /\ SchedStep("flag", "splx")
  /\ should_wakeup' = TRUE
  /\ UNCHANGED <<spl, mask_the_mask, timer_ntfn, armed, hand, todo, irqs, cur, tpc, sched,
                 fault>>

\* seL4_Wait(timer_ntfn) returns.
cpu_block_wait ==
  /\ SchedStep("wait", "unflag")
  /\ timer_ntfn
  /\ timer_ntfn' = FALSE
  /\ UNCHANGED <<spl, mask_the_mask, should_wakeup, armed, hand, todo, irqs, cur, tpc, sched,
                 fault>>

cpu_block_unflag ==
  /\ SchedStep("unflag", "splhigh")
  /\ should_wakeup' = FALSE
  /\ UNCHANGED <<spl, mask_the_mask, timer_ntfn, armed, hand, todo, irqs, cur, tpc, sched,
                 fault>>

bmk_platform_cpu_block ==
  \/ cpu_block_begin \/ cpu_block_flag \/ SchedLow("splx", "wait") \/ cpu_block_wait
  \/ cpu_block_unflag \/ SchedLow("refused", "splhigh") \/ SchedHigh("splhigh", "loop")

-----------------------------------------------------------------------------
(* Devices and timers                                                      *)

\* seL4 holds an interrupt line back until it is acknowledged.
Interrupt(i) ==
  /\ i \in bound \ unserved
  /\ unserved' = unserved \cup {i}
  /\ badge' = [badge EXCEPT ![Pci] = @ \cup {i}]
  /\ UNCHANGED <<spl, mask_the_mask, idle, hpc, bits, todo, isr_lowest, bound, isr_ih,
                 rpc, cur, tpc, sched, fault>>

Event(i) ==
  /\ unserved' = unserved \cup {i}
  /\ badge' = [badge EXCEPT ![Stdio] = @ \cup {i}]
  /\ UNCHANGED <<spl, mask_the_mask, idle, hpc, bits, todo, isr_lowest, bound, isr_ih,
                 rpc, cur, tpc, sched, fault>>

Timed == {t \in asleep : t = "main" \/ tpc.isr \in {"hw", "soft"}}

\* The deadline of a thread passes.
Elapse(t) ==
  /\ t \in Timed \ overdue
  /\ overdue' = overdue \cup {t}
  /\ UNCHANGED <<spl, mask_the_mask, idle, hand, todo, irqs, rpc, cur, tpc, runq, asleep, fault>>

TimerFires ==
  /\ armed
  /\ armed' = FALSE
  /\ timer_ntfn' = TRUE
  /\ UNCHANGED <<spl, mask_the_mask, should_wakeup, hand, todo, irqs, rpc, cur, tpc, sched, fault>>

Runner == doisr \/ main \/ schedule \/ bmk_platform_cpu_block

Next ==
  /\ fault = "none"
  /\ \/ \E h \in Handler : rump_irq_handle(h)
     \/ Runner
     \/ \E i \in Irq : Interrupt(i)
     \/ \E i \in Soft : Event(i)
     \/ \E t \in Bmk : Elapse(t)
     \/ TimerFires

Spec == Init /\ [][Next]_vars

\* The handlers and the runner execute when they can, the handlers registered
\* with the rump kernel come to an end, timers fire and time passes.
FairSpec ==
  /\ Spec
  /\ \A h \in Handler : WF_vars(rump_irq_handle(h))
  /\ SF_vars(Runner)
  /\ \A i \in Lines : SF_vars(process_handlers(i))
  /\ \A t \in Bmk : WF_vars(Elapse(t))
  /\ WF_vars(TimerFires)

-----------------------------------------------------------------------------
(* Properties                                                              *)

\* The shared words, the places of the handlers and of the runner's threads have
\* their types.
TypeOK ==
  /\ owner \in Handler \cup {"runner", Free}
  /\ Len(semq) <= 2
  /\ spldepth \in 0 .. 1
  /\ hpc \in [Handler -> {"wait", "signal", "mask", "todo", "wake", "move", "low", "unlock",
                          "unmask", "nested"}]
  /\ unserved \subseteq Lines
  /\ isr_todo \subseteq Irq /\ isr_todo_soft \subseteq Soft
  /\ isrcopy \subseteq Irq \/ isrcopy \subseteq Soft
  /\ asleep \subseteq Bmk /\ overdue \subseteq Timed
  /\ isr_lowest \in Irq \cup {Unset}

\* No assertion fails: a handler finds spldepth 0 (entry.c), cpu_block is called
\* at splhigh, splx is balanced, and an interrupt that comes in between the
\* binding of its line and the registration of its handler is processed after it.
NoFault == fault = "none"

\* A bmk thread is running, runnable or asleep, and only in one of these ways,
\* whatever the interrupt handler does to the queues.
ThreadsAccounted ==
  LET running == IF rpc \in {"thread", "out"} THEN {cur} \ asleep ELSE {}
  IN  /\ Distinct(runq)
      /\ Range(runq) \cap asleep = {}
      /\ rpc # "thread" \/ cur \in asleep => Bmk = Range(runq) \cup asleep \cup running

\* Every interrupt and event that is not served yet is still known to somebody:
\* the notification, a handler, isr_todo or the interrupt thread.
NoLostInterrupt ==
  \A i \in unserved : \/ \E h \in Handler : i \in badge[h] \cup bits[h]
                      \/ i \in isr_todo \cup isr_todo_soft \cup isrcopy

\* The interrupt thread does not sleep at the end of doisr() with work to do,
\* except while the handler that brought the work is about to wake it.
IsrNotAsleepWithWork ==
  /\ isr_todo \cup isr_todo_soft # {}
  /\ "isr" \in asleep
  /\ tpc.isr \notin {"hw", "soft"}
  => \E h \in Handler : hpc[h] \in {"wake", "move"}

\* The runner does not wait in seL4_Wait() with a runnable thread, unless it has
\* been signalled: should_wakeup leaves no gap before and after the wait.
NoMissedWakeup ==
  rpc = "wait" /\ runq # <<>> => timer_ntfn

\* Every interrupt and event is served, if the bmk threads let go of the CPU and
\* interrupts leave time for the runner.
InterruptServed ==
  []<>RunnerExecutes /\ []<>(rpc # "thread" \/ cur = "isr") =>
    \A i \in Lines : i \in unserved ~> i \notin unserved

\* splhigh() "returns immediately if called from the interrupt handler": no
\* handler waits there for the semaphore that it holds itself.
HandlerNeverWaits == \A h \in Handler : hpc[h] # "nested"

\* The handlers and the runner share the scheduler's state soundly: the types,
\* no assertion fails, no thread is in two places, no handler waits for itself.
HandlersSound == TypeOK /\ NoFault /\ ThreadsAccounted /\ HandlerNeverWaits

\* Work is never left unseen: an interrupt is known to somebody, the interrupt
\* thread does not sleep on it, and the runner does not idle on a runnable
\* thread.
WorkNeverUnseen == NoLostInterrupt /\ IsrNotAsleepWithWork /\ NoMissedWakeup
=============================================================================
