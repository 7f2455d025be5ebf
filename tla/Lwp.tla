-------------------------------- MODULE Lwp --------------------------------
(***************************************************************************)
(* Lightweight processes for libpthread (librumprun_base/_lwp.c) on the    *)
(* bmk threads: the list that lwpids are looked up in, park and unpark,    *)
(* and lwpctl's record of who is on the CPU, which the scheduler's hook    *)
(* keeps.                                                                  *)
(*                                                                         *)
(* There is one CPU and threads switch only where they block or yield, so  *)
(* an operation is a step of the thread that runs.  libpthread is external *)
(* and used as it uses these calls: a thread joins a sleep queue and parks *)
(* without a switch in between; a waker takes it off and unparks it.       *)
(***************************************************************************)
EXTENDS SequencesExt, Integers

CONSTANTS
  Lwps,      \* struct rumprun_lwp; one of them is the main thread's
  mainlwp,
  NoLwp,     \* a bmk thread that is no lwp: its cookie is null
  LMaxId     \* bound on the lwpids handed out

VARIABLES
  all_lwp,      \* the list
  rl_lwpid, lc_curcpu, lc_pctr,
  curlwpid,
  lthread,      \* rl_thread: "none", "ready", "running", "blocked", "timed" or "exited"
  running,      \* the thread on the CPU
  sleepq        \* libpthread's sleep queue

lwpvars == <<all_lwp, rl_lwpid, lc_curcpu, lc_pctr, curlwpid, lthread, running, sleepq>>

FIRST_LWPID == 1

\* rumprun_lwp_init()
LInit ==
  /\ all_lwp = <<mainlwp>> /\ curlwpid = FIRST_LWPID
  /\ rl_lwpid = [l \in Lwps |-> IF l = mainlwp THEN FIRST_LWPID ELSE 0]
  /\ lc_curcpu = [l \in Lwps |-> "CPU0"] /\ lc_pctr = [l \in Lwps |-> FALSE]
  /\ lthread = [l \in Lwps |-> IF l = mainlwp THEN "running" ELSE "none"]
  /\ running = mainlwp /\ sleepq = <<>>

\* lwpid2rl(): 0 is the main thread.
lwpid2rl(lid) ==
  IF lid = 0 THEN {mainlwp}
  ELSE LET is == {i \in DOMAIN all_lwp : rl_lwpid[all_lwp[i]] = lid}
       IN IF is = {} THEN {} ELSE {all_lwp[CHOOSE i \in is : \A j \in is : i <= j]}

\* bmk_sched_wake() on a thread: only one that blocks is moved.
bmk_sched_wake(th, l) == IF th[l] \in {"blocked", "timed"} THEN [th EXCEPT ![l] = "ready"] ELSE th

\* schedhook(); a null cookie is no lwp.
schedhook(prev, next) ==
  /\ lc_curcpu' = [l \in Lwps |->
       IF l = next THEN "CPU0" ELSE IF l = prev /\ lc_curcpu[l] # "EXITED" THEN "NONE" ELSE lc_curcpu[l]]
  /\ lc_pctr' = [l \in Lwps |-> lc_pctr[l] \/ l = next]

-----------------------------------------------------------------------------
\* rumprun_makelwp(): a new lwp and its thread; without memory for either
\* nothing is left behind.  The list has it when the call returns.
rumprun_makelwp(l) ==
  /\ running \in Lwps /\ lthread[l] = "none" /\ curlwpid < LMaxId
  /\ \/ /\ curlwpid' = curlwpid + 1
        /\ rl_lwpid' = [rl_lwpid EXCEPT ![l] = curlwpid + 1]
        /\ lthread' = [lthread EXCEPT ![l] = "ready"]
        /\ all_lwp' = Append(all_lwp, l)
     \/ /\ curlwpid' = curlwpid + 1  \* bmk_sched_create_withtls() failed
        /\ UNCHANGED <<rl_lwpid, lthread, all_lwp>>
     \/ UNCHANGED <<curlwpid, rl_lwpid, lthread, all_lwp>>
  /\ UNCHANGED <<lc_curcpu, lc_pctr, running, sleepq>>

\* The scheduler gives the CPU to a thread that is ready (external: BmkSched).
Switch(l) ==
  /\ running = NoLwp /\ lthread[l] = "ready"
  /\ schedhook(NoLwp, l)
  /\ lthread' = [lthread EXCEPT ![l] = "running"]
  /\ running' = l
  /\ UNCHANGED <<all_lwp, rl_lwpid, curlwpid, sleepq>>

\* The thread that runs leaves the CPU.
Leaves(l, th) ==
  /\ running = l /\ running' = NoLwp
  /\ schedhook(l, NoLwp)
  /\ lthread' = th

_sys_sched_yield(l) ==
  /\ running = l
  /\ Leaves(l, [lthread EXCEPT ![l] = "ready"])
  /\ UNCHANGED <<all_lwp, rl_lwpid, curlwpid, sleepq>>

Unparks(lid, th) ==
  IF lwpid2rl(lid) = {} THEN th ELSE bmk_sched_wake(th, CHOOSE l \in lwpid2rl(lid) : TRUE)

\* Variant: the lwp to unpark is forgotten when this one parks itself.
ParkWakes_Forgets(u, th) == th

ParkWakes(u, th) == IF u = 0 THEN th ELSE Unparks(u, th)

\* _lwp_park(), with or without a timeout: libpthread has put the thread on
\* the sleep queue and may hand over to another lwp that it took off.
_lwp_park(l) ==
  /\ running = l
  /\ \E kind \in {"blocked", "timed"} :
       \/ /\ Leaves(l, [ParkWakes(0, lthread) EXCEPT ![l] = kind])
          /\ sleepq' = Append(sleepq, l)
       \/ /\ sleepq # <<>>
          /\ Leaves(l, [ParkWakes(rl_lwpid[Head(sleepq)], lthread) EXCEPT ![l] = kind])
          /\ sleepq' = Append(Tail(sleepq), l)
  /\ UNCHANGED <<all_lwp, rl_lwpid, curlwpid>>

\* The deadline passes (external); libpthread takes the thread off its queue
\* once it runs, which it has to do before it sleeps again.
ParkTimeout(l) ==
  /\ lthread[l] = "timed" /\ lthread' = [lthread EXCEPT ![l] = "ready"]
  /\ sleepq' = SelectSeq(sleepq, LAMBDA x : x # l)
  /\ UNCHANGED <<all_lwp, rl_lwpid, lc_curcpu, lc_pctr, curlwpid, running>>

_lwp_unpark(l) ==
  /\ running = l /\ sleepq # <<>>
  /\ lthread' = Unparks(rl_lwpid[Head(sleepq)], lthread)
  /\ sleepq' = Tail(sleepq)
  /\ UNCHANGED <<all_lwp, rl_lwpid, lc_curcpu, lc_pctr, curlwpid, running>>

_lwp_unpark_all(l) ==
  /\ running = l
  /\ lthread' = FoldLeft(LAMBDA th, x : Unparks(rl_lwpid[x], th), lthread, sleepq)
  /\ sleepq' = <<>>
  /\ UNCHANGED <<all_lwp, rl_lwpid, lc_curcpu, lc_pctr, curlwpid, running>>

\* _lwp_exit(): mark, leave the list, and never come back.
_lwp_exit(l) ==
  /\ running = l /\ running' = NoLwp
  /\ all_lwp' = Remove(all_lwp, l)
  /\ lc_curcpu' = [lc_curcpu EXCEPT ![l] = "EXITED"]
  /\ lthread' = [lthread EXCEPT ![l] = "exiting"]
  /\ UNCHANGED <<rl_lwpid, lc_pctr, curlwpid, sleepq>>

\* The switch away from it (bmk_sched_exit_withtls()) calls the hook too.
Exited(l) ==
  /\ lthread[l] = "exiting" /\ running = NoLwp
  /\ schedhook(l, NoLwp)
  /\ lthread' = [lthread EXCEPT ![l] = "exited"]
  /\ UNCHANGED <<all_lwp, rl_lwpid, curlwpid, running, sleepq>>

LNext ==
  \E l \in Lwps :
    \/ rumprun_makelwp(l) \/ Switch(l) \/ _sys_sched_yield(l) \/ _lwp_park(l) \/ ParkTimeout(l)
    \/ _lwp_unpark(l) \/ _lwp_unpark_all(l) \/ _lwp_exit(l) \/ Exited(l)

-----------------------------------------------------------------------------
(* Properties                                                              *)

\* A thread that is parked for good is on libpthread's sleep queue, where a
\* waker will find it: no unpark is lost.  Every lwp that lives is found by
\* its own lwpid.  lwpctl says of an lwp that has run whether it is on the
\* CPU, and an exited one stays exited: adaptive mutexes spin on it.
UnparksArrive ==
  /\ \A l \in Lwps : lthread[l] = "blocked" => l \in ToSet(sleepq)
  /\ \A l \in Lwps : lthread[l] \in {"ready", "running", "blocked", "timed"} => lwpid2rl(rl_lwpid[l]) = {l}
  /\ \A l \in Lwps : lc_pctr[l] =>
       lc_curcpu[l] = CASE lthread[l] \in {"exiting", "exited"} -> "EXITED" [] running = l -> "CPU0" [] OTHER -> "NONE"
=============================================================================
