------------------------------- MODULE HwIntr -------------------------------
(***************************************************************************)
(* Interrupts on bare hardware: platform/hw/intr.c, the spl level of       *)
(* kernel.c and inline.h, the interrupt controllers' side in cpu_subr.c    *)
(* and intr.S, and bmk_platform_cpu_block of clock.c.                      *)
(*                                                                         *)
(* There is one CPU.  cpu says what runs on it: a thread of the rump       *)
(* kernel, the interrupt thread (doisr), or schedule(): "sched" choosing   *)
(* a thread, "block" about to call cpu_block, "idle" in its waiting loop.  *)
(* Interrupts come between any two steps while the interrupt flag intr_on  *)
(* is set.  The controllers latch requests (irr) and hold a line in        *)
(* service (insrv) until an end-of-interrupt command.  cpu is also         *)
(* "mismatch" or "level" after the halts in intr.c.                        *)
(*                                                                         *)
(* A handler belongs to the device on a line, and is named by the line.    *)
(* screw_routing says which build it is: the one for amd64 is compiled     *)
(* with BMK_SCREW_INTERRUPT_ROUTING, the ones for i386 and ARM without.    *)
(***************************************************************************)
EXTENDS Integers

CONSTANT Line     \* the lines with a device; 4 is the serial line

ASSUME LineAssumption == Line \subseteq {4, 5, 9, 10, 11, 14, 15}

VARIABLES cpu, runnable,          \* who runs; which of the two may run
          isrpc, isrcopy, isr_todo,
          isr_ih,                 \* the handlers on the list of each level
          isr_routed, isr_lowest, \* how a line is routed; the lowest line
          screw_routing, scan,    \* the build; the loop variable i of doisr
          spldepth, intr_on,
          irr, insrv,             \* the controllers
          work,                   \* lines whose device waits for its handler
          slept                   \* an interrupt came since the wait began

regvars == <<isr_ih, isr_routed, isr_lowest, screw_routing>>
doisrvars == <<isrpc, isrcopy, scan>>
picvars == <<irr, insrv>>
hwivars == <<cpu, runnable, doisrvars, isr_todo, regvars, spldepth, intr_on, picvars, work, slept>>

Clock == 0
Cascade == 2
Slave == 8 .. 15
INTR_ROUTED == 32     \* the level that routed interrupts are squashed to
Halted == {"mismatch", "level"}

HIInit ==
  /\ cpu = "thread" /\ runnable = {"thread"}
  /\ isrpc = "asleep" /\ isrcopy = {} /\ isr_todo = {}
  /\ isr_ih = [l \in Line \cup {INTR_ROUTED} |-> {}]
  /\ isr_routed = [n \in Line |-> "NOIDEA"] /\ isr_lowest = 32
  /\ screw_routing \in BOOLEAN /\ scan = 0
  /\ spldepth = 0 /\ intr_on = TRUE
  /\ irr = {} /\ insrv = {} /\ work = {} /\ slept = FALSE

-----------------------------------------------------------------------------
\* splhigh and spl0: interrupts come back when the depth returns to zero.
splhigh == spldepth' = spldepth + 1 /\ intr_on' = FALSE

spl0 ==
  /\ spldepth' = spldepth - 1
  /\ intr_on' = IF spldepth = 1 THEN TRUE ELSE intr_on

\* Where the handlers of a routed line are kept, and looked for.
routeintr(n) == IF screw_routing THEN INTR_ROUTED ELSE n

Level(n, how) == IF how = "YES" THEN routeintr(n) ELSE n

\* bmk_isr_rumpkernel for a line for which there is a gate (cpu_intr_init
\* unmasks it), with the flag BMK_INTR_ROUTED ("YES") or without ("NO"); the
\* caller does not block.  A line is routed for all of its handlers or none.
bmk_isr_rumpkernel(n, how) ==
  /\ cpu = "thread" /\ isr_routed[n] \in {"NOIDEA", how}
  /\ isr_routed' = [isr_routed EXCEPT ![n] = how]
  /\ isr_ih' = [isr_ih EXCEPT ![Level(n, how)] = @ \cup {n}]
  /\ isr_lowest' = IF n < isr_lowest THEN n ELSE isr_lowest
  /\ UNCHANGED <<cpu, runnable, doisrvars, isr_todo, screw_routing, spldepth, intr_on, picvars,
                 work, slept>>

routed_intr_mismatch(n, how) ==
  /\ cpu = "thread" /\ isr_routed[n] \notin {"NOIDEA", how}
  /\ cpu' = "mismatch"
  /\ UNCHANGED <<runnable, doisrvars, isr_todo, regvars, spldepth, intr_on, picvars, work, slept>>

Established == {n \in Line : isr_routed[n] # "NOIDEA"}

\* The order in which a controller serves its lines; the slave's lines come
\* in through the master's line 2.
Rank(n) == IF n \in Slave THEN <<Cascade, n>> ELSE <<n, 0>>

Before(m, n) == Rank(m)[1] < Rank(n)[1]

\* A line is let through when the master holds nothing of the same or a
\* higher rank in service.
Delivered(n) == n \in irr /\ \A m \in insrv : Before(n, m)

\* cpu_intr_ack, whichever lines it is given: one unspecific command to each
\* controller, which ends the highest line in service.
HighestInService == {m \in insrv : \A k \in insrv : k = m \/ Before(m, k)}

cpu_intr_ack == insrv' = insrv \ HighestInService

-----------------------------------------------------------------------------
\* A device with work asserts its line, once until its handler has run.
Raise(n) ==
  /\ n \in Established /\ n \notin work
  /\ work' = work \cup {n} /\ irr' = irr \cup {n}
  /\ UNCHANGED <<cpu, runnable, doisrvars, isr_todo, regvars, spldepth,
                 intr_on, insrv, slept>>

\* The interrupt thread is put on the run queue, wherever it sleeps.
WakesIsr == runnable' = runnable \cup {"isr"}

\* isr: the serial line is served and acknowledged in place, the others are
\* noted for the thread.
isr(n) ==
  /\ intr_on /\ n \in Established /\ Delivered(n)
  /\ irr' = irr \ {n} /\ slept' = TRUE
  /\ IF n = 4
     THEN /\ work' = work \ {4}
          /\ UNCHANGED <<insrv, isr_todo>>
          /\ IF isr_todo = {} THEN UNCHANGED runnable ELSE WakesIsr
     ELSE /\ insrv' = insrv \cup {n} /\ isr_todo' = isr_todo \cup {n}
          /\ WakesIsr
          /\ UNCHANGED work
  /\ UNCHANGED <<cpu, doisrvars, regvars, spldepth, intr_on>>

\* cpu_isr_clock: acknowledged at once; it only ends a wait.
cpu_isr_clock ==
  /\ intr_on /\ Delivered(Clock)
  /\ irr' = irr \ {Clock} /\ slept' = TRUE
  /\ UNCHANGED <<cpu, runnable, doisrvars, isr_todo, regvars, spldepth, intr_on,
                 insrv, work>>

-----------------------------------------------------------------------------
\* doisr, awake or going round again, with interrupts off: take what is to
\* be done.
doisr_take ==
  /\ cpu = "isr" /\ isrpc = "take"
  /\ isrcopy' = isr_todo /\ isr_todo' = {} /\ isrpc' = "work"
  /\ spl0
  /\ UNCHANGED <<scan, cpu, runnable, regvars, picvars, work, slept>>

\* The thread waits: for the virtual CPU in rumpkern_sched, which a thread
\* that runs gives up, or in a handler; it still counts as able to run.
doisr_waits ==
  /\ cpu = "isr" /\ isrpc \in {"work", "scan"}
  /\ cpu' = "sched" /\ splhigh
  /\ UNCHANGED <<runnable, doisrvars, isr_todo, regvars, picvars, work, slept>>

\* With the virtual CPU the loop begins at isr_lowest.
doisr_begins ==
  /\ cpu = "isr" /\ isrpc = "work"
  /\ isrpc' = "scan" /\ scan' = isr_lowest
  /\ UNCHANGED <<cpu, runnable, isrcopy, isr_todo, regvars, spldepth, intr_on, picvars, work, slept>>

\* The loop from i on: the next line that is to be served, with the handlers
\* on its level, which may also make a thread runnable.  The level of a routed
\* line becomes the loop variable.
doisr_work(n) ==
  /\ cpu = "isr" /\ isrpc = "scan"
  /\ n \in isrcopy /\ n >= scan /\ \A m \in isrcopy : m >= scan => n <= m
  /\ isrcopy' = isrcopy \ {n}
  /\ work' = work \ isr_ih[Level(n, isr_routed[n])]
  /\ scan' = Level(n, isr_routed[n]) + 1
  /\ runnable' \in {runnable, runnable \cup {"thread"}}
  /\ UNCHANGED <<cpu, isrpc, isr_todo, regvars, spldepth, intr_on, picvars, slept>>

\* A line is left that the loop has passed: it goes on to the last level, and
\* bmk_assert(i < sizeof(isrcopy)*8) fails.
doisr_passed ==
  /\ cpu = "isr" /\ isrpc = "scan"
  /\ isrcopy # {} /\ \A m \in isrcopy : m < scan
  /\ cpu' = "level"
  /\ UNCHANGED <<runnable, doisrvars, isr_todo, regvars, spldepth, intr_on, picvars, work, slept>>

\* splhigh; go round again if more came in.
doisr_again ==
  /\ cpu = "isr" /\ isrpc = "scan" /\ isrcopy = {} /\ isr_todo # {}
  /\ isrpc' = "take" /\ splhigh
  /\ UNCHANGED <<scan, cpu, runnable, isrcopy, isr_todo, regvars, picvars, work, slept>>

\* Otherwise acknowledge and prepare to block, all with interrupts off, then
\* spl0 and into schedule(), which turns them off again.
Sleeps == runnable' = runnable \ {"isr"} /\ isrpc' = "asleep"

\* (A variant: the last look at isr_todo is made before splhigh.)
doisr_sleep_Late ==
  /\ cpu = "isr" /\ isrpc = "scan" /\ isrcopy = {}
  /\ cpu_intr_ack /\ Sleeps /\ cpu' = "block?"
  /\ UNCHANGED <<scan, isrcopy, isr_todo, regvars, spldepth, intr_on, irr, work, slept>>

doisr_sleep ==
  /\ cpu = "isr" /\ isrpc = "scan" /\ isrcopy = {} /\ isr_todo = {}
  /\ cpu_intr_ack /\ Sleeps /\ cpu' = "block?"
  /\ UNCHANGED <<scan, isrcopy, isr_todo, regvars, spldepth, intr_on, irr, work, slept>>

\* bmk_sched_block: schedule() with interrupts off.
bmk_sched_block ==
  /\ cpu = "block?"
  /\ cpu' = "sched" /\ splhigh
  /\ UNCHANGED <<runnable, doisrvars, isr_todo, regvars, picvars, work, slept>>

\* A thread of the rump kernel gives up the CPU, to wait or to yield.
thread_blocks ==
  /\ cpu = "thread"
  /\ cpu' = "block?" /\ runnable' \in {runnable, runnable \ {"thread"}}
  /\ UNCHANGED <<doisrvars, isr_todo, regvars, spldepth, intr_on, picvars, work, slept>>

-----------------------------------------------------------------------------
\* schedule(): take a runnable thread, whose splx ends the critical section
\* (doisr begins another one at once) ...
schedule(t) ==
  /\ cpu = "sched" /\ t \in runnable
  /\ cpu' = t
  /\ IF t = "isr" /\ isrpc = "asleep"
     THEN isrpc' = "take" /\ intr_on' = FALSE /\ UNCHANGED spldepth
     ELSE spl0 /\ UNCHANGED isrpc
  /\ UNCHANGED <<scan, runnable, isrcopy, isr_todo, regvars, picvars, work, slept>>

\* ... or find none; a sleeping thread may be due meanwhile.
schedule_none ==
  /\ cpu = "sched" /\ runnable = {}
  /\ cpu' = "block"
  /\ UNCHANGED <<runnable, doisrvars, isr_todo, regvars, spldepth, intr_on, picvars,
                 work, slept>>

\* bmk_platform_cpu_block.  Too late: return at once and let the sleeping
\* thread run.
cpu_block_late ==
  /\ cpu = "block"
  /\ cpu' = "sched" /\ runnable' = runnable \cup {"thread"}
  /\ UNCHANGED <<doisrvars, isr_todo, regvars, spldepth, intr_on, picvars, work, slept>>

\* Otherwise arm the timer and wait with interrupts on; a short delay only
\* opens interrupts for an instant, which is the same wait cut short.
cpu_block ==
  /\ cpu = "block"
  /\ cpu' = "idle" /\ slept' = FALSE
  /\ spldepth' = 0 /\ intr_on' = TRUE
  /\ irr' \in {irr, irr \cup {Clock}}
  /\ UNCHANGED <<runnable, doisrvars, isr_todo, regvars, insrv, work>>

TimerFires ==
  /\ cpu = "idle" /\ irr' = irr \cup {Clock}
  /\ UNCHANGED <<cpu, runnable, doisrvars, isr_todo, regvars, spldepth, intr_on,
                 insrv, work, slept>>

\* After an interrupt the loop returns: the depth is put back, the interrupt
\* flag is not.
cpu_block_ends ==
  /\ cpu = "idle" /\ slept
  /\ cpu' = "sched" /\ spldepth' = 1
  /\ UNCHANGED <<runnable, doisrvars, isr_todo, regvars, intr_on, picvars, work, slept>>

HINext ==
  \/ \E n \in Line, how \in {"YES", "NO"} : bmk_isr_rumpkernel(n, how) \/ routed_intr_mismatch(n, how)
  \/ \E n \in Line : Raise(n) \/ isr(n) \/ doisr_work(n)
  \/ cpu_isr_clock
  \/ doisr_take \/ doisr_waits \/ doisr_begins \/ doisr_passed \/ doisr_again \/ doisr_sleep
  \/ bmk_sched_block \/ thread_blocks
  \/ \E t \in {"isr", "thread"} : schedule(t)
  \/ schedule_none \/ cpu_block_late \/ cpu_block \/ TimerFires \/ cpu_block_ends

HISpec == HIInit /\ [][HINext]_hwivars

-----------------------------------------------------------------------------
(* A device's request is never lost on its way to its handler: it is with  *)
(* the controller, noted by isr() or taken by doisr, and what is noted or  *)
(* taken keeps doisr on the run queue (intr.c's splhigh before the last    *)
(* look at isr_todo, and isr()'s wake-up of a thread about to block).      *)
(* doisr's loop passes a line that it has taken, and so halts, only in the *)
(* build that squashes routed interrupts to one level.                     *)
RequestsReachHandler ==
  /\ cpu \notin Halted =>
       /\ work \subseteq irr \cup isr_todo \cup isrcopy
       /\ isr_todo \cup isrcopy # {} => "isr" \in runnable
  /\ cpu = "level" => screw_routing

(* doisr's loop never passes a line that it has taken, as its assertion    *)
(* says.  The build with BMK_SCREW_INTERRUPT_ROUTING fails it whenever two *)
(* lines are served in one round, the first of them routed: the level      *)
(* overwrites the loop variable.                                           *)
ScanStaysBelow == cpu # "level"

(* Every interrupt is acknowledged: once doisr sleeps with nothing noted   *)
(* the controllers hold no line in service, so that each can interrupt     *)
(* again (cpu_intr_ack, called once for a whole round of lines).           *)
InterruptsAcked ==
  isrpc = "asleep" /\ isr_todo = {} => insrv = {}

(* The CPU waits only when nothing can run: schedule() looks at the run    *)
(* queue and calls cpu_block, which must open interrupts and wait in one   *)
(* indivisible step.                                                       *)
IdleOnlyWhenNoneRuns ==
  cpu = "idle" /\ runnable # {} => slept
=============================================================================
