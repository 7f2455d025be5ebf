--------------------------- MODULE SchedContract ---------------------------
(***************************************************************************)
(* What the scheduler promises its callers, without queues or flags: one   *)
(* thread at a time has the CPU; a request to block ends with exactly one  *)
(* verdict, "woken" or "timedout"; a wakeup after blockprepare is never    *)
(* lost, even one that comes before the thread has let go of the CPU; a    *)
(* timeout is never reported early, and whoever is overdue is released     *)
(* before the CPU is given to anybody.                                     *)
(***************************************************************************)
EXTENDS Integers

CONSTANTS Thread, Main, Deadline, Nobody, Infinite

VARIABLES
  alive,  \* threads that exist
  cpu,    \* the thread that has the CPU, or Nobody
  wait,   \* the state of each thread's request to block
  due,    \* the deadline of a waiting thread
  now     \* the time

cvars == <<alive, cpu, wait, due, now>>

CInit ==
  /\ alive = {Main}
  /\ cpu = Main
  /\ wait = [t \in Thread |-> "no"]
  /\ due = [t \in Thread |-> Infinite]
  /\ now = 0

\* A thread creates another one, which then waits for the CPU.
Spawn(x) ==
  /\ cpu # Nobody
  /\ x \notin alive /\ x # cpu
  /\ alive' = alive \cup {x}
  /\ UNCHANGED <<cpu, wait, due, now>>

\* The running thread announces that it is about to block until d.
Prepare(t, d) ==
  /\ cpu = t
  /\ wait[t] = "no"
  /\ wait' = [wait EXCEPT ![t] = "waiting"]
  /\ due' = [due EXCEPT ![t] = d]
  /\ UNCHANGED <<alive, cpu, now>>

\* A thread or an interrupt handler wakes the threads X, those of them that wait:
\* a wakeup of any other thread has no effect.
Signal(X) ==
  LET woken == {x \in X : wait[x] = "waiting"}
  IN  /\ wait' = [x \in Thread |-> IF x \in woken THEN "woken" ELSE wait[x]]
      /\ due' = [x \in Thread |-> IF x \in woken THEN Infinite ELSE due[x]]
      /\ UNCHANGED <<alive, cpu, now>>

\* The running thread lets go of the CPU.
Release ==
  /\ cpu # Nobody
  /\ cpu' = Nobody
  /\ UNCHANGED <<alive, wait, due, now>>

Die ==
  /\ cpu # Nobody
  /\ wait[cpu] = "no"
  /\ alive' = alive \ {cpu}
  /\ cpu' = Nobody
  /\ UNCHANGED <<wait, due, now>>

Overdue == {t \in Thread : /\ wait[t] = "waiting"
                           /\ due[t] # Infinite
                           /\ due[t] <= now}

\* The CPU goes to a thread that is not waiting, once the overdue are released.
Dispatch(t) ==
  /\ cpu = Nobody
  /\ cpu' = t
  /\ t \in alive
  /\ wait' = [x \in Thread |-> IF x \in Overdue THEN "timedout" ELSE wait[x]]
  /\ due' = [x \in Thread |-> IF x \in Overdue THEN Infinite ELSE due[x]]
  /\ wait'[t] # "waiting"
  /\ UNCHANGED <<alive, now>>

\* The running thread learns the verdict on its request.
Return(t) ==
  /\ cpu = t
  /\ wait[t] \in {"woken", "timedout"}
  /\ wait' = [wait EXCEPT ![t] = "no"]
  /\ UNCHANGED <<alive, cpu, due, now>>

Advance ==
  /\ now' = now + 1
  /\ UNCHANGED <<alive, cpu, wait, due>>

CNext ==
  \/ \E X \in SUBSET Thread : Signal(X)
  \/ \E t \in Thread : \/ Spawn(t) \/ Dispatch(t) \/ Return(t)
                       \/ \E d \in Deadline \cup {Infinite} : Prepare(t, d)
  \/ Release
  \/ Die
  \/ Advance

CSpec == CInit /\ [][CNext]_cvars
=============================================================================
