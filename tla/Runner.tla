------------------------------- MODULE Runner -------------------------------
(***************************************************************************)
(* The programs of an image (librumprun_base: rumprun.c, main.c and the    *)
(* exit path of syscall_misc.c): bmk_mainthread starts them one after the  *)
(* other, in the foreground, in the background or with a pipe to the next, *)
(* reaps them as they finish, and reboots.                                 *)
(*                                                                         *)
(* Programs are external: each runs, may call daemon(), and ends.  Threads *)
(* switch only where they block, so a runner is on the list before its     *)
(* program runs.  Process 0 is the main thread's; process r is program     *)
(* r's.  An entry of fds is what a descriptor is open on.                  *)
(***************************************************************************)
EXTENDS SequencesExt, FiniteSetsExt, Integers

CONSTANTS
  NProg,  \* the number of programs
  Modes   \* how each may be started: "", "BACKGROUND", "PIPE"

Prog == 1 .. NProg
Proc == 0 .. NProg
Fd == 0 .. 6
Closed == <<"closed">>
Console == <<"console">>

VARIABLES
  mode,         \* how each program is started (the config's rre_flags)
  rr_flags,     \* each runner's RUMPRUNNER_DONE and RUMPRUNNER_DAEMON
  rumprunners,  \* the list of runners
  rumprun_done,
  rthread,      \* each program's thread: "none", "main", "done" (after releaseme), "exited"
  mpc,          \* the main thread: <<where, runner>>
  fds, pipein,
  reaped        \* the runners waited for, in order

runvars == <<mode, rr_flags, rumprunners, rumprun_done, rthread, mpc, fds, pipein, reaped>>

RInit ==
  /\ mode \in {m \in [Prog -> Modes] : m[NProg] # "PIPE"}  \* the config insists
  /\ rr_flags = [r \in Prog |-> {}] /\ rumprunners = <<>> /\ rumprun_done = 0
  /\ rthread = [r \in Prog |-> "none"] /\ mpc = <<"start", 1>>
  /\ fds = [p \in Proc |-> [f \in Fd |-> IF p = 0 /\ f <= 2 THEN Console ELSE Closed]]
  /\ pipein = -1 /\ reaped = <<>>

-----------------------------------------------------------------------------
(* setupproc()                                                             *)

Lowest(tab, n) == CHOOSE fs \in kSubset(n, {f \in Fd : tab[f] = Closed}) :
                    \A f \in Fd : tab[f] = Closed /\ f \notin fs => \A g \in fs : g < f

\* pipe(): the two lowest free descriptors, for reading and for writing.
pipe(tab, r) ==
  LET fs == Lowest(tab, 2)
  IN [tab EXCEPT ![Min(fs)] = <<"r", r>>, ![Max(fs)] = <<"w", r>>]

FdOf(tab, what) == CHOOSE f \in Fd : tab[f] = what

\* dup2(from, to) and close(from), unless they are the same descriptor.
moved(tab, from, to) == IF from = to THEN tab ELSE [tab EXCEPT ![to] = tab[from], ![from] = Closed]

close(tab, f) == [tab EXCEPT ![f] = Closed]

\* Variant: the parent keeps the writing end.
ParentTable_KeepsWriter(tab, r, piped) == IF pipein # -1 THEN close(tab, pipein) ELSE tab

ParentTable(tab, r, piped) ==
  LET t == IF piped THEN close(tab, FdOf(tab, <<"w", r>>)) ELSE tab
  IN IF pipein # -1 THEN close(t, pipein) ELSE t

ChildTable(tab, r, piped) ==
  LET t == IF piped THEN moved(tab, FdOf(tab, <<"w", r>>), 1) ELSE tab
  IN IF pipein # -1 THEN moved(t, pipein, 0) ELSE t

setupproc(r) ==
  LET piped == mode[r] = "PIPE"
      tab == IF piped THEN pipe(fds[0], r) ELSE fds[0]
  IN /\ fds' = [fds EXCEPT ![0] = ParentTable(tab, r, piped), ![r] = ChildTable(tab, r, piped)]
     /\ pipein' = IF piped THEN FdOf(tab, <<"r", r>>) ELSE -1

-----------------------------------------------------------------------------
(* The main thread                                                         *)

\* RUNMAIN(r): the next program, or on to reaping.
After(r) == IF r < NProg THEN <<"start", r + 1>> ELSE <<"reap", 0>>

\* rumprun(): a process, a thread and a runner; a foreground program is
\* waited for.
rumprun(r) ==
  /\ mpc = <<"start", r>>
  /\ setupproc(r)
  /\ rthread' = [rthread EXCEPT ![r] = "main"]
  /\ rumprunners' = <<r>> \o rumprunners
  /\ mpc' = IF mode[r] = "" THEN <<"sync", r>> ELSE After(r)
  /\ UNCHANGED <<mode, rr_flags, rumprun_done, reaped>>

\* pthread_create fails: the runner is freed, the process stays as it is.
rumprun_fails(r) ==
  /\ mpc = <<"start", r>>
  /\ setupproc(r)
  /\ mpc' = After(r)
  /\ UNCHANGED <<mode, rr_flags, rumprunners, rumprun_done, rthread, reaped>>

\* The wait on w_cv for a foreground program; broadcasts make it look again.
rumprun_sync(r) ==
  /\ mpc = <<"sync", r>>
  /\ mpc' = IF rr_flags[r] = {} THEN <<"syncwait", r>> ELSE <<"synced", r>>
  /\ UNCHANGED <<mode, rr_flags, rumprunners, rumprun_done, rthread, fds, pipein, reaped>>

\* A daemon is left to itself, a finished program is waited for.
rumprun_synced(r) ==
  /\ mpc = <<"synced", r>>
  /\ mpc' = IF "DONE" \in rr_flags[r] THEN <<"syncjoin", r>> ELSE After(r)
  /\ UNCHANGED <<mode, rr_flags, rumprunners, rumprun_done, rthread, fds, pipein, reaped>>

\* rumprun_wait(): join the program's thread and forget the runner.
rumprun_wait(r) ==
  /\ mpc \in {<<"syncjoin", r>>, <<"reapjoin", r>>}
  /\ rthread[r] = "exited"
  /\ rumprunners' = Remove(rumprunners, r)
  /\ rumprun_done' = rumprun_done - 1
  /\ reaped' = Append(reaped, r)
  /\ mpc' = IF mpc[1] = "syncjoin" THEN After(r) ELSE <<"reap", 0>>
  /\ UNCHANGED <<mode, rr_flags, rthread, fds, pipein>>

FirstDone ==
  LET done == {i \in DOMAIN rumprunners : "DONE" \in rr_flags[rumprunners[i]]}
  IN IF done = {} THEN 0 ELSE rumprunners[Min(done)]

\* rumprun_get_finished(), and the reboot when no runner is left.
rumprun_get_finished ==
  /\ mpc = <<"reap", 0>>
  /\ mpc' = IF rumprunners = <<>> THEN <<"reboot", 0>>
            ELSE IF rumprun_done = 0 THEN <<"reapwait", 0>>
            ELSE IF FirstDone = 0 THEN <<"assert", 0>> ELSE <<"reapjoin", FirstDone>>
  /\ UNCHANGED <<mode, rr_flags, rumprunners, rumprun_done, rthread, fds, pipein, reaped>>

-----------------------------------------------------------------------------
(* The programs                                                            *)

Broadcast == mpc' = CASE mpc[1] = "syncwait" -> <<"sync", mpc[2]>>
                      [] mpc[1] = "reapwait" -> <<"reap", 0>>
                      [] OTHER -> mpc

\* daemon() ends in rumprun_daemon(), which finds the caller's runner.
rumprun_daemon(r) ==
  /\ rthread[r] = "main" /\ r \in ToSet(rumprunners)
  /\ rr_flags' = [rr_flags EXCEPT ![r] = @ \cup {"DAEMON"}]
  /\ Broadcast
  /\ UNCHANGED <<mode, rumprunners, rumprun_done, rthread, fds, pipein, reaped>>

\* main() returns, or the thread is cancelled or exits: mainbouncer's cleanup.
releaseme(r) ==
  /\ rthread[r] = "main" /\ rthread' = [rthread EXCEPT ![r] = "done"]
  /\ rumprun_done' = rumprun_done + 1
  /\ rr_flags' = [rr_flags EXCEPT ![r] = @ \cup {"DONE"}]
  /\ Broadcast
  /\ UNCHANGED <<mode, rumprunners, fds, pipein, reaped>>

\* exit(), and with the last lwp the process and its descriptors.
_exit(r) ==
  /\ rthread[r] = "done" /\ rthread' = [rthread EXCEPT ![r] = "exited"]
  /\ fds' = [fds EXCEPT ![r] = [f \in Fd |-> Closed]]
  /\ UNCHANGED <<mode, rr_flags, rumprunners, rumprun_done, mpc, pipein, reaped>>

RNext ==
  \/ rumprun_get_finished
  \/ \E r \in Prog :
       \/ rumprun(r) \/ rumprun_fails(r) \/ rumprun_sync(r) \/ rumprun_synced(r) \/ rumprun_wait(r)
       \/ rumprun_daemon(r) \/ releaseme(r) \/ _exit(r)

-----------------------------------------------------------------------------
(* Properties                                                              *)

Started == {r \in Prog : rthread[r] # "none"}
Holds(p, what) == what \in {fds[p][f] : f \in Fd}

\* Every program is reaped once, when it has finished, and the machine
\* reboots only when all have been; the main thread never sleeps although a
\* program it could reap, or the one it waits for, has finished.  A program
\* with a pipe writes to the next one, which alone sees the end of the pipe:
\* when the writer ends, no process is left that could write.
ProgramsReaped ==
  /\ rumprun_done = Cardinality({r \in ToSet(rumprunners) : "DONE" \in rr_flags[r]})
  /\ \A i, j \in DOMAIN reaped : i # j => reaped[i] # reaped[j]
  /\ mpc[1] \in {"reapwait", "assert"} => rumprun_done = 0 /\ mpc[1] # "assert"
  /\ mpc[1] = "syncwait" => rr_flags[mpc[2]] = {}
  /\ mpc[1] = "reboot" => ToSet(reaped) = Started /\ \A r \in Started : rthread[r] = "exited"
  /\ \A r \in Prog : mode[r] = "PIPE" =>
       /\ rthread[r] \in {"main", "done"} => fds[r][1] = <<"w", r>>
       /\ r \in Started => \A p \in Proc \ {r} : ~Holds(p, <<"w", r>>)
       /\ r < NProg /\ rthread[r + 1] \in {"main", "done"} => fds[r + 1][0] = <<"r", r>>
=============================================================================
