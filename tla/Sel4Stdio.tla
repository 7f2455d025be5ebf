------------------------------ MODULE Sel4Stdio -----------------------------
(***************************************************************************)
(* The standard input and output devices on seL4: sel4_stdio.c and         *)
(* sel4_stdio_user.c, and the stdio thread of entry.c.  Each device is a   *)
(* circular buffer shared with another seL4 process, and a notification.   *)
(* Characters are counted, not named.  The rump kernel's threads are       *)
(* scheduled cooperatively: a thread keeps the CPU from one blocking point *)
(* to the next (oncpu), while the other process and the stdio thread run   *)
(* at any time, as seL4 threads.                                           *)
(***************************************************************************)
EXTENDS Integers, FiniteSetsExt

CONSTANTS SThread,      \* rump kernel threads
          StdioCap,     \* characters a buffer holds
          ReadLen,      \* characters a read asks for
          WriteLens,    \* characters a write brings
          NoThread

VARIABLES stdin_buf, stdout_buf,   \* characters in each buffer
          stdin_ep, stdout_ep,     \* the notifications
          open_once,               \* the devices opened
          char_handler,            \* env.custom_simple.get_char_handler is set
          mtx_v,                   \* mtxp_serial's count
          iopc, oncpu,             \* where each thread is, and who has the CPU
          left,                    \* characters its write has still to put
          isr_todo_soft,           \* the stdio bit, for the interrupt thread
          typing, draining,        \* the other process: has put and not signalled; is awake
          panicked                 \* a panic or a failed assertion

stdiovars == <<stdin_buf, stdout_buf, stdin_ep, stdout_ep, open_once, char_handler, mtx_v, iopc, oncpu,
               left, isr_todo_soft, typing, draining, panicked>>
input == <<stdin_buf, stdin_ep, isr_todo_soft, typing>>
output == <<stdout_buf, stdout_ep, left, draining>>
setup == <<open_once, char_handler>>

SIInit ==
  /\ stdin_buf = 0 /\ stdout_buf = 0 /\ stdin_ep = FALSE /\ stdout_ep = FALSE
  /\ open_once = {} /\ char_handler = FALSE /\ mtx_v = 0
  /\ iopc = [t \in SThread |-> "idle"] /\ oncpu = NoThread /\ left = [t \in SThread |-> 0]
  /\ isr_todo_soft = FALSE /\ typing = FALSE /\ draining = FALSE /\ panicked = FALSE

Starts(t, pc, to) ==
  /\ ~panicked /\ oncpu = NoThread /\ iopc[t] = pc
  /\ iopc' = [iopc EXCEPT ![t] = to] /\ oncpu' = t
Continues(t, pc, to) ==
  /\ ~panicked /\ iopc[t] = pc /\ iopc' = [iopc EXCEPT ![t] = to] /\ UNCHANGED oncpu
Yields(t, pc, to) ==
  /\ ~panicked /\ iopc[t] = pc /\ iopc' = [iopc EXCEPT ![t] = to] /\ oncpu' = NoThread

-----------------------------------------------------------------------------
\* rumpcomp_sel4_stdio_init empties the buffer; opening a device twice
\* panics.  Standard input also gets its mutex, entered for good by the
\* opener, and its handler.
rumpcomp_sel4_stdio_init(dev) ==
  /\ stdin_buf' = IF dev = "stdin" THEN 0 ELSE stdin_buf
  /\ stdout_buf' = IF dev = "stdout" THEN 0 ELSE stdout_buf

rumpcomp_register_handler == char_handler' = TRUE

sel4_stdio_open(dev) ==
  /\ ~panicked /\ oncpu = NoThread
  /\ \/ /\ dev \in open_once /\ panicked' = TRUE
        /\ UNCHANGED <<input, output, setup, mtx_v>>
     \/ /\ dev \notin open_once /\ open_once' = open_once \cup {dev}
        /\ rumpcomp_sel4_stdio_init(dev)
        /\ IF dev = "stdin" THEN mtx_v' = 1 /\ rumpcomp_register_handler
           ELSE UNCHANGED <<mtx_v, char_handler>>
        /\ UNCHANGED <<stdin_ep, stdout_ep, left, isr_todo_soft, typing, draining, panicked>>
  /\ UNCHANGED <<iopc, oncpu>>

-----------------------------------------------------------------------------
\* sel4_stdio_read: take what the buffer has, and if that is nothing wait.
sel4_stdio_read_WaitsFirst(t) ==
  /\ "stdin" \in open_once /\ Starts(t, "idle", "wait")
  /\ UNCHANGED <<input, output, setup, mtx_v, panicked>>

sel4_stdio_read(t) ==
  /\ "stdin" \in open_once /\ Starts(t, "idle", "look")
  /\ UNCHANGED <<input, output, setup, mtx_v, panicked>>

rumpcomp_sel4_stdio_gets(t) ==
  /\ \/ stdin_buf = 0 /\ Continues(t, "look", "wait")
     \/ stdin_buf > 0 /\ Yields(t, "look", "idle")
  /\ stdin_buf' = Max({0, stdin_buf - ReadLen})
  /\ UNCHANGED <<stdin_ep, isr_todo_soft, typing, output, setup, mtx_v, panicked>>

\* rumpuser_cv_wait: leave the mutex, which asserts that it is held, and
\* join the queue, with the CPU throughout.
rumpuser_cv_wait(t) ==
  /\ Yields(t, "wait", IF mtx_v > 0 THEN "asleep" ELSE "dead")
  /\ mtx_v' = Max({0, mtx_v - 1}) /\ panicked' = (mtx_v = 0)
  /\ UNCHANGED <<input, output, setup>>

\* Its return, cv_resched: rumpuser_mutex_enter_nowrap, which must succeed, ...
cv_resched_enters(t) ==
  /\ oncpu = NoThread /\ Yields(t, "woken", "resched")
  /\ mtx_v' = 1 /\ panicked' = (mtx_v > 0)
  /\ UNCHANGED <<input, output, setup>>

\* ... and rumpkern_sched, which may wait while others run; then the loop.
cv_wait_returns(t) ==
  /\ Starts(t, "resched", "look")
  /\ UNCHANGED <<input, output, setup, mtx_v, panicked>>

\* The stdio thread hands the notification to the interrupt thread.
wait_for_stdio_interrupt ==
  /\ ~panicked /\ stdin_ep /\ stdin_ep' = FALSE /\ isr_todo_soft' = TRUE
  /\ UNCHANGED <<stdin_buf, typing, output, setup, mtx_v, iopc, oncpu, panicked>>

\* stdio_handler and get_char_handler, on the interrupt thread: signal the
\* condition variable.
get_char_handler ==
  LET sleepers == {t \in SThread : iopc[t] = "asleep"} IN
    IF char_handler /\ sleepers # {}
    THEN \E t \in sleepers : iopc' = [iopc EXCEPT ![t] = "woken"]
    ELSE UNCHANGED iopc

stdio_handler ==
  /\ ~panicked /\ oncpu = NoThread /\ isr_todo_soft /\ isr_todo_soft' = FALSE
  /\ get_char_handler
  /\ UNCHANGED <<stdin_buf, stdin_ep, typing, output, setup, mtx_v, oncpu, panicked>>

-----------------------------------------------------------------------------
\* sel4_stdio_write, of up to a page: rumpcomp_sel4_stdio_puts puts characters
\* while there is room, drops the rest, and signals.
sel4_stdio_write(t, n) ==
  /\ "stdout" \in open_once /\ Starts(t, "idle", "put")
  /\ left' = [left EXCEPT ![t] = n]
  /\ UNCHANGED <<stdout_buf, stdout_ep, draining, input, setup, mtx_v, panicked>>

rumpcomp_sel4_stdio_puts(t) ==
  \/ /\ left[t] > 0 /\ stdout_buf < StdioCap /\ Continues(t, "put", "put")
     /\ stdout_buf' = stdout_buf + 1 /\ left' = [left EXCEPT ![t] = @ - 1]
     /\ UNCHANGED <<stdout_ep, draining, input, setup, mtx_v, panicked>>
  \/ /\ left[t] = 0 \/ stdout_buf >= StdioCap
     /\ Yields(t, "put", "idle") /\ stdout_ep' = TRUE /\ left' = [left EXCEPT ![t] = 0]
     /\ UNCHANGED <<stdout_buf, draining, input, setup, mtx_v, panicked>>

-----------------------------------------------------------------------------
\* The other process (external): it types and signals, and shows the output,
\* sleeping on the notification when it finds the buffer empty.
PeerTypes ==
  /\ ~panicked /\ stdin_buf < StdioCap /\ stdin_buf' = stdin_buf + 1 /\ typing' = TRUE
  /\ UNCHANGED <<stdin_ep, isr_todo_soft, output, setup, mtx_v, iopc, oncpu, panicked>>

PeerSignals ==
  /\ ~panicked /\ typing /\ typing' = FALSE /\ stdin_ep' = TRUE
  /\ UNCHANGED <<stdin_buf, isr_todo_soft, output, setup, mtx_v, iopc, oncpu, panicked>>

PeerWakes ==
  /\ ~panicked /\ ~draining /\ stdout_ep /\ stdout_ep' = FALSE /\ draining' = TRUE
  /\ UNCHANGED <<stdout_buf, left, input, setup, mtx_v, iopc, oncpu, panicked>>

PeerShows ==
  /\ ~panicked /\ draining
  /\ stdout_buf' = Max({0, stdout_buf - 1}) /\ draining' = (stdout_buf > 0)
  /\ UNCHANGED <<stdout_ep, left, input, setup, mtx_v, iopc, oncpu, panicked>>

SINext ==
  \/ \E dev \in {"stdin", "stdout"} : sel4_stdio_open(dev)
  \/ \E t \in SThread : \/ sel4_stdio_read(t) \/ rumpcomp_sel4_stdio_gets(t)
                        \/ rumpuser_cv_wait(t) \/ cv_resched_enters(t) \/ cv_wait_returns(t)
                        \/ rumpcomp_sel4_stdio_puts(t)
                        \/ \E n \in WriteLens : sel4_stdio_write(t, n)
  \/ wait_for_stdio_interrupt \/ stdio_handler
  \/ PeerTypes \/ PeerSignals \/ PeerWakes \/ PeerShows

SISpec == SIInit /\ [][SINext]_stdiovars

-----------------------------------------------------------------------------
\* A character that will still be announced to a reader, or a reader that is
\* about to look.
Announced ==
  \/ typing \/ stdin_ep \/ isr_todo_soft
  \/ \E t \in SThread : iopc[t] \in {"look", "woken", "resched"}

(* No character is stranded.  A reader is not left asleep beside a         *)
(* character nobody will announce: between sel4_stdio_read's look at the   *)
(* buffer and its place on the condition variable's queue the character    *)
(* and its notification may come, but not get_char_handler.  And output is *)
(* not left in the buffer with the other process asleep, a full buffer     *)
(* included.                                                               *)
StdioSound ==
  /\ ~panicked /\ stdin_buf > 0 /\ (\E t \in SThread : iopc[t] = "asleep") => Announced
  /\ ~panicked /\ stdout_buf > 0 /\ (\A t \in SThread : iopc[t] # "put") => draining \/ stdout_ep
=============================================================================
