# A TLA+ verification of rumprun

Rumprun runs an unmodified program on top of a NetBSD rump kernel without an
operating system: on bare hardware (`platform/hw`), on Xen (`platform/xen`) and
as a seL4 task (`platform/sel4`). This project models the parts of it where
correctness depends on the order in which threads, interrupts, other domains and
time act, and the sequential algorithms below them whose corner cases are hard to
test. TLC checks the models on small instances. TLAPS proves, for every value of
the constants, the invariants of the scheduler and that it implements its
contract, and the invariants of all locks, of the interrupt path on hardware and
of four Xen protocols.

## 1. The system

Everything runs on one CPU. Threads are cooperative: they switch only inside
`schedule()`. Interrupt handlers preempt threads, except between
`bmk_platform_splhigh()` and `bmk_platform_splx()` (on Xen, while events are
masked), and may call `bmk_sched_wake()`. The rump kernel has one virtual CPU,
which a thread takes and gives up by upcalls (`rumpkern_sched`,
`rumpkern_unsched`). What runs truly beside all this are seL4 threads and
processes, the hypervisor, and the other domains behind shared rings.

| Part | Modules | What is hard about it |
|---|---|---|
| bmk scheduler (`sched.c`) | `BmkSched`, `SchedContract` | wakeups before the switch, timeout against wakeup, exit against join, freeing stacks |
| queue macros (`queue.h`) | `QueueMacros`; `Queues`, `QueueLemmas` | back pointers and tail pointers at the ends |
| rumpuser locks (`rumpuser_synch.c`, `rumpuser_clock.c`) | `Waiters`, `RumpuserSynch`, `RumpuserRw` | spurious and lost wakeups, the virtual CPU held across a block |
| allocators (`pgalloc.c`, `memalloc.c`, `rumpuser_mem.c`, `malloc.c`, `sys_mman.c`) | `Pgalloc`, `Memalloc` | merging, alignment, double use |
| strings and printing (`bmk_string.c`, `strtoul.c`, `subr_prf.c`) | `BmkString`, `Kprintf` | bounded buffers, widths and precisions |
| configuration (`jsmn.c`, `config.c`, `parseargs.c`, `multiboot.c`) | `Jsmn`, `Config` | tokens without parent links, nesting, where the text is found |
| programs and lwps (`rumprun.c`, `main.c`, `_lwp.c`) | `Runner`, `Lwp` | exit against wait, pipes, unpark before park |
| system call proxy (`sysproxy.c`) | `SpWire`, `SpServer` | partial sends, answers to whom, slots and workers, exec against disconnect |
| seL4 (`entry.c`, `intr.c`, `kernel.c`, `clock.c`, `rumppci.c`, `librumpsel4_stdio`) | `Sel4Intr`, `Sel4Stdio` | real preemption between seL4 threads, going idle against a late interrupt |
| hw (`intr.c`, `kernel.c`, `cpu_subr.c`, `intr.S`, `clock.c`, `clock_subr.c`) | `HwIntr`, `HwClock`, `ClockSubr` | interrupt levels and routing, acknowledging, unlocked clock reads |
| Xen events (`events.c`, `hypervisor.c`, `evtdev.c`) | `XenEvents`, `EvtDev` | bits set one at a time by other processors, a ring filled by a handler |
| Xen bus (`xenbus.c`, `busdev.c`, `busdev_user.c`) | `Xenbus`, `Busdev` | identifiers at their limit, close with requests in flight |
| Xen grants (`gnttab.c`, `gntmap.c`, `arch/x86/mm.c`) | `Gnttab`, `Gntmap` | a semaphore beside a list, unwinding a failed mapping |
| Xen devices (`blkfront.c`, `rumphyper_bio.c`, `netfront.c`, `xenif_user.c`, `if_virt.c`, `pcifront.c`, `console.c`, `xencons_ring.c`) | `Frontend`, `Blkio`, `BlkName`, `NetTx`, `NetRx`, `PciOp`, `Xencons` | rings and their event indices, handshakes with a backend that moves by itself |

The modules compose in layers. `BmkSched` is shown to implement `SchedContract`
(`KeepsContract`), and the locks are built on `SchedContract` through `Waiters`.
The two layers do not meet everywhere: `KeepsContract` holds under
`WakeDiscipline` (section 2), while in `Waiters` threads of `IntrWoken` are woken
by handlers and by the locks alike. So what is checked of the locks carries over
to locks on this scheduler for threads that keep the discipline; for the others
finding 1 says what `BmkSched` may do instead.
`Memalloc` extends `Pgalloc`, `Config` extends `Jsmn`, `Kprintf` extends
`BmkString`, and `Busdev` extends `Xenbus`, whose requests and replies it shares. `Sel4Intr` and
`HwIntr` carry a small copy of the scheduler's state, since there the question is
how handlers and the scheduler share it. The remaining modules stand beside each
other and see what is below them through the promise that a module makes: threads
that take turns where they block, a port that may interrupt when it is open.

Definitions whose names end in a suffix after an underscore (`Merges_OrderZero`
before `Merges`) are never part of a specification. They are plausible mistakes,
used to see that a property can fail.

## 2. Modules

### BmkSched

One variable per queue of `sched.c`, plus the flags, the deadline, and for each
thread the point of its code where it is (`pc`). `mode` says what the CPU does:
a thread's code, the loop of `schedule()`, blocking idle, or resuming `current`.
Each operation is one action if it runs at splhigh or touches only its own
thread; it is split where an interrupt may come in between and matter. So
`bmk_sched_wake()` called by a thread takes two steps (`Wake`, `WakeCommit`),
because `set_runnable()` reads the flags before it raises the interrupt level,
and a request to block takes two (`BlockPrepare`, `Block`). Interrupt handlers
wake threads of `IntrWoken` in one step at any time when interrupts are enabled.
`fault` records the first assertion that fails or halt that is reached.

`WakeDiscipline` says that no thread is woken both by handlers and by threads.
`sched` and all proofs about the scheduler assume it. The code does not quite keep
it: the interrupt thread of bare hardware is woken by `isr()`, but also waits for
the virtual CPU in `rumpkern_sched` (`hw/intr.c:91`), where the thread that gives
the virtual CPU up wakes it while `isr()` still may. `sched_overlap` shows what
such a thread is exposed to (finding 1). The results that assume the discipline
are about systems without such a thread, and say nothing about the moments at
which the interrupt thread of bare hardware waits for the virtual CPU.

### Waiters, RumpuserSynch, RumpuserRw

A struct waiter lives on the stack of the thread inside `wait()`, so it is
identified with the thread. The rump kernel is the environment: a thread inside
it makes any hypercall that is legal in its state. `IntrWoken` is the set of
threads that handlers wake for reasons of their own, such as the interrupt
thread, whichever lock they may be waiting for. `HeldAsleep` names the mutexes
that threads may hold when they block. `held` and `hold` record what the callers
believe to hold, against which the fields of the locks are compared.

### The kernel library: QueueMacros, BmkString, Kprintf, Pgalloc, Memalloc, Jsmn, Config, ClockSubr

These are sequential. A call is one step, and its result is compared with a
definition that does not know how the code works: the queue macros with the
sequences they stand for (`QueuesRepresent`), `kprintf` with the text its format
asks for, cut at the buffer's end (`PrintsExactly`), the allocators with
ownership of bytes and pages (`AllocatorsSound`: pages are free or held once,
allocations do not overlap and are aligned, an allocation of pages fails only if no free
run of pages could have served it), the configuration with the programs, variables, disks and
interfaces that its text lists (`ConfigRead`), and dates with a calendar that
counts days one by one (`SecondsCount`). Integers have the width `Bits`,
`IntBits`, `ShortBits` or, for the allocators, `WordBits`, scaled down so that
overflow and sign happen: `calloc` multiplies past the end, and one length wraps
when its header is added. The configurations of `MCConfigs` are written as the
documentation has them; the ones that must fail are in it as well.

### Runner, Lwp

`Runner` follows `bmk_mainthread` and the programs it starts, with the descriptor
table of each process: a pipe ends only when all who hold its write end are gone.
`Lwp` has the list that lwpids are looked up in, park and unpark, and the CPU
field that the scheduler's hook keeps. libpthread is external and used as it uses
these calls.

### SpWire, SpServer

`SpWire` is one connection: a frame is the sequence of its bytes, reads and
writes take any number of them, threads send under the send lock and wait for
answers that the main loop delivers. A send may fail at any byte and leaves its
frame cut off (`cut`); other threads go on sending. `serv_handledisco()` is two
steps, since it lets go of the mutex between waking everyone and wiping the
connection. `SpServer` is the table of clients, their
references, the pool of workers and the requests that do more than one thing
(handshake, fork, exec, disconnect). There a section under a mutex is one step.
Clients are external and may go away at any time.

### Sel4Intr, Sel4Stdio

The runner is the seL4 thread that executes all bmk threads; the handlers `Pci`
and `Stdio` run at a higher priority (`init_rumprun` lowers its own), so the
runner takes a step only when both are blocked. The handlers have one priority
and may be switched at any point by their time slices. `spl_semaphore` is a
library object, modelled from its use: a holder and a queue. Inside the runner
there is the interrupt thread, following `doisr()` statement by statement, and
`main`, which stands for the other threads: it raises and lowers the interrupt
level, establishes interrupts, sleeps and yields. A handler registered with the
rump kernel may sleep, in which case the next interrupt wakes the interrupt
thread for the wrong reason. An interrupt line stays silent from its interrupt
to its acknowledgement; a software event may be repeated at any time.

`Sel4Stdio` has the two devices, the process at their other end and the path of a
notification to a sleeping reader. The opener's mutex is kept as a count, since
`rumpuser_cv_wait` asserts that it is held: two readers that sleep at once halt
the system, and so does a second open.

### HwIntr, HwClock

The interrupt controllers latch requests and hold lines in service; `doisr()` and
the interrupt entries are followed statement by statement, with interrupts
between any two while they are enabled. Each line is established as routed or not,
as its driver chooses. `screw_routing` is the build: with
`BMK_SCREW_INTERRUPT_ROUTING` (amd64) the handlers of routed lines are kept on one
level above all lines, otherwise on the line's own. `doisr()` looks for a line's
handlers on the level that the line is routed to and goes on from that level,
which `scan` follows. `HwClock` reads the hypervisor's clock
page field by field while it is being written, and computes with words of `2 * W`
bits.

### Xen

`XenEvents` splits what the hypervisor does to raise an event into its three
writes, and the callback at each of its reads. `minios_wait_event` is two steps
wherever it is used: the condition is tested, and only then is the queue joined.
Threads otherwise take turns where they block, which is what the code relies on
for most of its exclusion. The backends, xenstored and the console daemon are
external: they do what the shared structures allow, in any order that the
protocol permits, and may be slow at any point. `Frontend` lets xenstore calls
fail. `PciOp` translates addresses through the tables of `PciNodes`, in which an
entry may not parse: a virtual address that does not has overwritten the one being
looked for. In `NetTx` a response may be `NETIF_RSP_NULL`, which
`network_tx_buf_gc` skips. `Xencons` has guests without a console, for which
printing drops its text before `init_console` and goes on for ever after it.

## 3. Runs

| Run | Instance | Distinct states | Shows |
|---|---|---|---|
| `sched` | threads main, a and isr; deadlines 1 and 2; clock to 2; idle block of at most 2 | 73,946 | the scheduler's invariant, the join handshake, first-in first-out order, that it implements its contract, and `RunnableRuns`, `TimedWaitEnds`, `JoinCompletes` |
| `sched_overlap` | main and isr, which both kinds of caller wake | | a violation, finding 1 |
| `synch` | three threads, two mutexes, one condition variable, clock to 1 | 68,859 | exclusion, wait lists, counts, `CvWaitEnds` |
| `synch_nested` | the same without interrupts, but the mutex of the condition variable may be held asleep | | a violation, finding 2 |
| `rw` | three threads, at most two readers counted | 54,663 | wait lists of a reader-writer lock |
| `rw_downgrade` | two threads | | a violation, finding 3 |
| `sel4_intr` | two interrupt lines, one software event | 607,606 | safety of the interrupt path |
| `sel4_intr_live` | one line, one event | 84,256 | `InterruptServed` |
| `services` | `SpWire`, `SpServer`, `Runner`, `Lwp`, `Xenbus` with `Busdev`, `XenEvents` | 1,007,528 | the parts that serve requests |
| `proxy_exec` | the proxy server of `services` | | a violation, finding 4 |
| `hw_routing` | three interrupt lines, both builds | | a violation, finding 5 |
| `platform` | the kernel library, `HwIntr`, `HwClock`, the Xen devices, `Sel4Stdio` | 520,517 | what lies below the services |

`services` and `platform` check several specifications in one run: the variable
`part` names the one that moves, the others rest in an initial state. So the
states of a run add up instead of multiplying, and a property of one module is
checked in every behaviour of that module.

| Property of `services` | Says |
|---|---|
| `ConnectionSound` | frames arrive whole, apart from those a failed send has cut off, and an answer reaches the thread that asked; nobody sleeps for an answer that will not come, nor for the send lock until the connection is wiped (then see `SendersWoken`, section 5) |
| `ServerSound` | references and slots agree, a connection that is let in finds a slot, queued work has a worker |
| `ProgramsReaped` | every program that ends is reaped once; pipes end when their writers do |
| `UnparksArrive` | a parked lwp can be found by its waker; lwpctl tells who is on the CPU |
| `XenbusSound` | identifiers, requests and replies correspond; those who wait for an identifier are woken |
| `DeviceQueueLive` | what the xenbus device's queue refers to exists, over a close as well |
| `NoEventLost` | a pending event that is open will be found by the callback |

| Property of `platform` | Says |
|---|---|
| `QueuesRepresent`, `PrintsExactly`, `ConfigRead`, `SecondsCount`, `AllocatorsSound` | the library against its reference definitions (section 2) |
| `RequestsReachHandler` | no interrupt is lost between the controllers and the handlers, whichever lines are routed; the loop of `doisr()` overruns only in the build that squashes routed lines (finding 5) |
| `ClockSound` | a paravirtual clock read is of one update; the scaled clock is never ahead, whichever multiplication computes it; the delay loop counts the ticks that passed |
| `EventsConserved` | a masked port is in the hands of exactly one of handler, thread, device and program |
| `GrantsAccounted`, `MappingsAccounted` | grant entries and mapped pages are neither lost nor given out twice |
| `FrontendSound` | a driver that sleeps has not missed the backend's state; the shared page outlives its mapping |
| `BlkioSound`, `FdsNameOneDisk` | no completion is missed; a descriptor names one disk |
| `TxSound` | every transmit buffer is free, with a sender, with the backend or in a response, and only one of these (one that is answered with `NETIF_RSP_NULL` is lost), and the last responses are signalled; the order of packets is left to the backend |
| `RxSound` | packets are delivered in the order they came, each at most once, and nobody sleeps on work |
| `OwnAnswer` | a PCI operation gets its own answer, for the address it was translated to |
| `TextShown` | the console shows the text, with its line ends, unless some was dropped for want of a console |
| `StdioSound` | neither input nor output is stranded in its buffer |

**Bounds.** Three threads are the least with a sleeper, a waker and somebody who
can take the sleeper's place in a queue; threads die and are created again, so
histories are unbounded. Two deadlines are needed for an unsorted queue, and a
clock that reaches both. The clock bound only ends time; `CvWaitEnds` and `TimedWaitEnds` speak about
deadlines within it. `MaxV` bounds the reader count of a rwlock, which the code
does not keep in range. Two interrupt lines are the least for which the order of
bits and `isr_lowest` matter; `platform` has three, on both controllers. Rings have
two slots (the event device's four), so that they fill and wrap; a ring's indices
wrap at four. Identifiers, grant entries, client slots and workers are one more or
one fewer than their users, so that somebody waits. Memory has seven pages at odd
ends, so that chunks of several orders are carved and merge; a word of ten bits
holds every address, and 1,020 is a length that wraps with its header. Counters of events
that could go on for ever (requests, packets, ticks, opens, failures) end after two
to six, enough for one to overtake another and for a second round; the `Max`
constants name them. Dates run from 1970 to 2099.

`CHECK_DEADLOCK FALSE` is used where the system may stop: for the locks, as the
rump kernel may deadlock its own threads by the order in which it enters mutexes;
in `services`, `proxy_exec` and `platform`, where behaviours end with their
counters, with the programs, or with the end of a text.

**Fairness.** The CPU executes: what a thread has begun goes on, the scheduler's
loop goes on, time passes. In `BmkSched` a thread must give up the CPU in the end
(`GivesUpCpu`), which is the rule of cooperative scheduling; without it nothing
holds. The locks assume strong fairness of dispatching, which `RunnableRuns`
shows of the scheduler. `CvWaitEnds` and `InterruptServed` have as premises that
the CPU is let go of again and again. `InterruptServed` further assumes that
interrupts leave time for the runner, which has the lower priority, and that the
handlers of the rump kernel come to an end.

## 4. Proofs

**The scheduler** (`BmkSchedStepProofs`, `BmkSchedProofs`,
`BmkSchedContractProofs`), for any set of threads, any deadlines, any clock bound,
under `SchedAssumption` (the types of the constants) and `WakeDiscipline` (see
section 2 for what that leaves out): the invariant `IInv` (`SchedulerInvariant`),
and from it `TypeOK`, `QueueFlagsAgree`, `NoFault`, `TimeqSorted`, `NoOversleep`,
`JoinHandshake` and `StacksOwned`; that the run queue is first in, first out
(`RunqStaysFifo`); and that the scheduler implements `SchedContract`
(`SchedulerKeepsContract`).

None of these is inductive alone. `QueueFlagsAgree` survives a wakeup only if the
queue that `set_runnable()` chose is still the right one when it moves the
thread, so `WakeInv` says that the thread being woken is where `wk` remembers
it, which needs `WakeDiscipline`. That a thread on `timeq` may be marked
`TIMEDOUT` without tripping the assertion in `bmk_sched_block()` needs that it
is inside a request to block (`LifeInv`). That a thread that is not running is on
exactly one queue is `OthersInv`, what the running thread may be on at each point
of its code is `CurrentInv`. `JoinedInv` and `JoiningInv` tie the flags of the
handshake to the places of both partners, so that the thread named by a joiner
still exists. `TimeqInv` is sortedness without the thread that is being moved.
`QueueLemmas` provides the facts about sequences; `SortedInsert` shows that
`timeq_sorted_insert()` keeps a sorted queue sorted. `BmkSchedStepProofs` has the
operations of threads one by one, `BmkSchedProofs` the scheduler's loop and the
theorems.

The refinement maps a thread's flags, place and queue to the contract's verdict
(waiting, woken or timed out). A step of `schedule()` that moves several expired
threads at once is one step of the contract; that it moves exactly those whose
deadline has passed is where sortedness is needed, and that a step of the contract
may only wake a thread that waits is where the invariant is.

**Mutexes and condition variables** (`RumpuserSynchProofs`), for any threads,
mutexes, condition variables and deadlines, under `WaitersAssumption` and
`SynchAssumption`: `SleepersNeverLost` (`SleepersKept`), and, if no mutex of a
condition variable is held asleep, `LocksAlwaysSound` (`LocksSound`). The second
needs its premise, as `synch_nested` shows. The invariant `SynchInv` adds to what
the properties say: which hypercall a thread is in at each point (`PlaceInv`);
that a thread inside the rump kernel has the CPU, so that the virtual CPU is never
with a sleeper (`CpuInv`); that owner, count and the callers' belief agree
(`LockInv`); and that a thread is on the list it waits on exactly while it is
parked and flagged (`ListInv`). `NoStrandedWaiter` is part of the induction: a
mutex is handed to nobody, so a list that is left behind needs somebody awake who
will try. The argument is in two parts: each action keeps the invariant, given
what wait and wakeup do to the lists (`ListsMove`) and to the number of waiters
(`CountsMove`); and these two follow from the definitions, with `QueueLemmas` and
the cardinalities of finite sets.

**Reader-writer locks** (`RumpuserRwProofs`), for any threads and any bound on the
lock word: `RwAlwaysSound` (`RwSound`). The lock is passed on by waking one writer
or all readers, and a writer may be let in beside readers, so the invariant does
not say who owns the lock, but who is awake when nobody does: a waiter that is
left on a list has a writer that was taken off its own and has yet to enter, and
that will pass the lock on.

**Interrupts on hardware** (`PlatformProofs`), for any set of lines a device may
have, routed or not, in both builds: `RequestsNeverLost` (`RequestsReachHandler`).
The invariant adds that `doisr()` replaces its copy only when that is empty, that
it is runnable when it has the CPU, that a line's handlers are on the level where
they are looked for (`HandlersPlaced`), and that in the build that does not squash
levels what is left of the copy is ahead of the loop (`LoopAhead`), so that the
assertion in the loop is not reached.

**Xen events and PCI** (`PlatformProofs`), for any ports, words, threads, devices
and tables: `EventsReachCallback` (`NoEventLost`) and `AnswersNeverMixed`
(`OwnAnswer`). For events the missing fact is `SelectedIsFlagged`: a word that is
selected has the upcall flagged or somebody about to flag it; both the callback and
`minios_unmask_evtchn` leave a selected word alone and rely on this. For PCI it is
that the thread in `pcifront_op` keeps the virtual CPU, so that the slot without a
lock has one user.

**Xen network and grants** (`NetfrontProofs`), for any sizes of the rings and any
number of packets, threads and entries: `RxAlwaysSound` (`RxSound`) and
`GrantsAlwaysAccounted` (`GrantsAccounted`). For packets the invariant carries the
order along the whole way, from the slots in use to the backend's ring
(`OrderInv`), with indices that wrap measured from the read index; and a response
that nobody is taking has an event asked for or on its way (`AwakeInv`). For
grants it is that one thread at most is inside a call, since threads switch only
where they block, so that list and semaphore differ by the one entry it is about
to take or to announce.

Only model-checked: the seL4 platform, the clocks, and the remaining properties of
`services` and `platform`. Liveness is out of the prover's reach, and so is what a
recursive definition computes for every input (printing, parsing, allocating).

## 5. Findings

Shown by a run:

1. `set_runnable()` reads the flags of a thread before it raises the interrupt
   level. If a thread wakes a blocked thread and a handler wakes it in between,
   it is moved to the run queue a second time, against the rules stated above
   the queues in `sched.c`. (`sched_overlap`)
2. `rumpuser_mutex_enter_nowrap()` "must succeed" according to its comment; it
   halts if the mutex was taken by a thread that blocked while it held it.
   (`synch_nested`)
3. A writer enters a reader-writer lock that readers hold. The exit of a reader
   then clears the owner, and the writer's downgrade fails its assertion.
   (`rw_downgrade`)
4. A client that disconnects while its exec waits for its other calls leaves the
   exec's worker asleep: the flag that the last release looks at has been wiped.
   (`proxy_exec`)
5. `doisr()` overwrites its loop variable with the level of a routed interrupt. In
   the build that keeps all routed interrupts on one level, which
   `Makefile.inc` introduces as a way to avoid figuring out routing, a second line
   taken in the same round is then behind the loop, and the loop's assertion
   fails. (`hw_routing`)

Stated as a definition of a module that TLC finds violated, without a run of its
own: `LwpRestored` (`SpWire`: a failed send leaves the thread on another lwp),
`SendersWoken` (`SpWire`: a disconnect wipes the note that somebody waits for the
send lock), `RequestsCovered` (`Memalloc`: a length near the maximum wraps and is
given a small block), `KernMounts` (`Config`: the file system that `doc/config.md`
calls `kern` must be called `kernfs`), `JoinerLetsPusherEnd` (`NetRx`: destroying
an interface waits for the pusher thread with the virtual CPU held, which the
pusher may be waiting for),
`ArgvOptional` (`Config`: an rc entry without argv is a null pointer),
`InterruptsAcked` (`HwIntr`: one end-of-interrupt for two lines),
`IdleOnlyWhenNoneRuns` (`HwIntr`: an interrupt just before the idle loop is
waited out), `WriteAwaitsOnlyXenstored` (`Busdev`: a write waits for replies that
its own lock keeps from being read), `NeverBlocksMasked` (`Blkio`, with two disks:
a completion waits for the virtual CPU with events masked). And a net entry's
`cloner`, a boolean in `doc/config.md`, must be a string.

Two suspicions were not confirmed. `rump_irq_handle()` clears `mask_the_mask`
after it has released the semaphore, so that the other handler may find it cleared
while inside; `HandlersSound` holds nevertheless, because the first handler has
made the interrupt thread runnable and the runner cannot run in between. And a
character that arrives between the look of `sel4_stdio_read()` and its wait is not
lost, because `get_char_handler()` runs on the interrupt thread, which needs the
CPU that the reader keeps.

## 6. Assumptions on what surrounds the modules

- Grant entries suffice for block and network requests (`Blkio`, `NetTx`), so that
  the ring index that is read before `gnttab_grant_access()` is still right after
  it. The drivers count on this.
- The rump kernel closes a disk when its requests are done and opens one disk from
  one thread at a time (`Blkio`, `BlkName`).
- Callers of the allocators free what they hold, once (`Memalloc`).
- A length that wraps is asked for, but what its caller would do with the block is
  not in the model (`Memalloc`): `AllocatorsSound` takes the block at the size the
  allocator gave it.
- The backend fills receive buffers in the order they were posted (`NetRx`);
  `network_rx` depends on it.
- The event device's ring has not wrapped, and no port is unbound while it is
  queued (the premise of `EventsConserved`): the code checks neither.
- No xenstore call fails (the premise of `FrontendSound`); the failures themselves
  are in the model.
- Nobody types while text is printed (`Xencons`), since the echo shares the ring.
- At most one thread sleeps in a read of standard input and each device is opened
  once (`Sel4Stdio`); otherwise the system halts, and the property says nothing.

## 7. Not modelled

Suspension (`bmk_sched_suspend`) halts. TLS areas, context switching and the
creation and destruction of locks touch only their own object. Boot code, page and
descriptor tables, traps, port and PCI accesses, `privcmd` and most of the Xen
memory code are sequences of device or hypervisor operations whose effect the
sources do not determine. The DMA tables and `simple.c` of the seL4 platform are
filled and searched by one thread at a time or forward to seL4 libraries. The wall
clock page of the paravirtual clock, and the Xen clock, are read by the protocol
that `HwClock` has for the time. Message signalled interrupts, page transfers,
`blkfront_io`, PCI hot plug and `init_consfront` have no callers. The libc stubs,
the test wrapper and the build tools have no state that an order of steps could
spoil.
