------------------------------ MODULE SpServer ------------------------------
(***************************************************************************)
(* The server side of the system call proxy (sysproxy.c): the main loop    *)
(* that accepts connections and takes requests, the table of clients with  *)
(* its reference counts, the pool of worker threads, exec and prefork.     *)
(*                                                                         *)
(* A section under a mutex is one step; what the code does between two     *)
(* sections is a step of its own when other threads can tell.  Sending a   *)
(* frame is one step here: SpWire has the send lock and the wire.  Clients *)
(* are external: one that has asked for exec asks for nothing more until   *)
(* it is answered, and any client may go away at any time.                 *)
(***************************************************************************)
EXTENDS SequencesExt, FiniteSetsExt, Integers

CONSTANTS
  MAXCLI,              \* size of the client table
  rumpsp_maxworker, rumpsp_idleworker,
  Worker,              \* worker threads (more than can live at a time)
  MaxConn, MaxCall     \* bounds: connections, and requests in a behaviour

Slot == 1 .. MAXCLI - 1

VARIABLES
  pfdlist,    \* pfdlist[i].fd: a connection, or -1
  spclist,    \* spclist[i]: [fd, refcnt, state, mainlwp, inexec]
  nfds, maxidx, disco, spfini,
  mainpc,     \* the main loop: "poll", or where it is in serv_handledisco
  nworker, idleworker, nwork, wrklist,
  wpc, wjob,  \* each worker's place and its struct servbouncearg
  preforks,   \* the lwps waiting for a fork to be claimed
  lwps,       \* main lwps <<"main", c>> and preforked ones <<"fork", n>>
  clients,    \* external: what each connection's client does: "out", "up", "exec", "gone"
  served,     \* the jobs that were answered, as <<connection, answered on>>
  ncalls, aborted

poolvars == <<nworker, idleworker, nwork, wrklist>>
workvars == <<wpc, wjob>>
conns == <<pfdlist, nfds, maxidx>>
spsvars == <<conns, spclist, disco, spfini, mainpc, poolvars, workvars, preforks, lwps, clients, served, ncalls, aborted>>

Conn == 1 .. MaxConn
NoJob == [type |-> "none"]
Fresh == [fd |-> -1, refcnt |-> 0, state |-> "NEW", mainlwp |-> <<>>, inexec |-> FALSE]

SSInit ==
  /\ pfdlist = [i \in Slot |-> -1] /\ spclist = [i \in Slot |-> Fresh]
  /\ nfds = 1 /\ maxidx = 0 /\ disco = 0 /\ spfini = FALSE /\ mainpc = <<"poll", 0>>
  /\ nworker = 0 /\ idleworker = 0 /\ nwork = 0 /\ wrklist = <<>>
  /\ wpc = [w \in Worker |-> "none"] /\ wjob = [w \in Worker |-> NoJob]
  /\ preforks = {} /\ lwps = {} /\ clients = [c \in Conn |-> "out"] /\ served = {} /\ ncalls = 0 /\ aborted = FALSE

-----------------------------------------------------------------------------
(* The main loop                                                           *)

\* The top of the loop: count the released slots out, one by one.
Highest(m) == IF \E i \in 1 .. m : pfdlist[i] # -1 THEN Max({i \in 1 .. m : pfdlist[i] # -1}) ELSE m

getdisco ==
  /\ mainpc = <<"poll", 0>> /\ disco > 0
  /\ disco' = 0 /\ nfds' = nfds - disco
  /\ maxidx' = Highest(maxidx)
  /\ UNCHANGED <<pfdlist, spclist, spfini, mainpc, poolvars, workvars, preforks, lwps, clients, served, ncalls, aborted>>

FreeSlot(i) == pfdlist[i] = -1 /\ spclist[i].state = "NEW"

\* serv_handleconn().  A connection that is closed before it gets a slot, for
\* its banner could not be sent, is as if it had never come.
serv_handleconn ==
  /\ mainpc = <<"poll", 0>> /\ ~spfini
  /\ \E c \in Conn :
       /\ clients[c] = "out" /\ \A d \in Conn : d < c => clients[d] # "out"
       /\ \/ /\ nfds = MAXCLI
             /\ clients' = [clients EXCEPT ![c] = "gone"]
             /\ UNCHANGED <<conns, spclist, aborted>>
          \/ /\ nfds # MAXCLI
             /\ IF \E i \in Slot : FreeSlot(i)
                THEN LET i == Min({j \in Slot : FreeSlot(j)})
                     IN /\ pfdlist' = [pfdlist EXCEPT ![i] = c]
                        /\ spclist' = [spclist EXCEPT ![i].fd = c, ![i].refcnt = 1]
                        /\ nfds' = nfds + 1 /\ maxidx' = Max({maxidx, i})
                        /\ clients' = [clients EXCEPT ![c] = "up"]
                        /\ UNCHANGED aborted
                ELSE aborted' = TRUE /\ UNCHANGED <<conns, spclist, clients>>
  /\ UNCHANGED <<disco, spfini, mainpc, poolvars, workvars, preforks, lwps, served, ncalls>>

\* A request of the client in slot i that readframe has put together.
Request(i) ==
  /\ mainpc = <<"poll", 0>> /\ i <= maxidx
  /\ pfdlist[i] # -1 /\ clients[pfdlist[i]] = "up"
  /\ ncalls < MaxCall /\ ncalls' = ncalls + 1

\* Handshakes make the client's process: from process 1 for a guest, from a
\* prefork's lwp for a fork.  A failed rfork ends in a shutdown, which the
\* client will read as the end of the connection.
handshake_guest(i) ==
  /\ Request(i) /\ spclist[i].state = "NEW"
  /\ \/ /\ spclist' = [spclist EXCEPT ![i].mainlwp = <<"main", pfdlist[i]>>, ![i].state = "RUNNING"]
        /\ lwps' = lwps \cup {<<"main", pfdlist[i]>>}
        /\ UNCHANGED clients
     \/ /\ clients' = [clients EXCEPT ![pfdlist[i]] = "gone"]
        /\ UNCHANGED <<spclist, lwps>>
  /\ UNCHANGED <<conns, disco, spfini, mainpc, poolvars, workvars, preforks, served, aborted>>

handshake_fork(i) ==
  /\ Request(i) /\ spclist[i].state = "NEW"
  /\ \/ /\ preforks = {}  \* RUMPSP_ERR_INVALID_PREFORK
        /\ clients' = [clients EXCEPT ![pfdlist[i]] = "gone"]
        /\ UNCHANGED <<preforks, spclist, lwps>>
     \/ \E pf \in preforks :
          /\ preforks' = preforks \ {pf}
          /\ \/ /\ spclist' = [spclist EXCEPT ![i].mainlwp = <<"main", pfdlist[i]>>, ![i].state = "RUNNING"]
                /\ lwps' = (lwps \ {pf}) \cup {<<"main", pfdlist[i]>>}
                /\ UNCHANGED clients
             \/ /\ lwps' = lwps \ {pf}  \* cancelled, or rfork failed
                /\ clients' = [clients EXCEPT ![pfdlist[i]] = "gone"]
                /\ UNCHANGED spclist
  /\ UNCHANGED <<conns, disco, spfini, mainpc, poolvars, workvars, served, aborted>>

\* RUMPSP_PREFORK: fork off the client's main lwp and keep the new one.
prefork(i) ==
  /\ Request(i) /\ spclist[i].state = "RUNNING" /\ ~spclist[i].inexec
  /\ preforks' = preforks \cup {<<"fork", ncalls>>} /\ lwps' = lwps \cup {<<"fork", ncalls>>}
  /\ UNCHANGED <<conns, spclist, disco, spfini, mainpc, poolvars, workvars, clients, served, aborted>>

\* schedulework(): queue the job, and wake an idle worker or start one;
\* starting one may fail.
Wakes(p) ==
  IF \E w \in Worker : p[w] = "wait"
  THEN {[p EXCEPT ![w] = "awake"] : w \in {v \in Worker : p[v] = "wait"}} ELSE {p}

\* Variant: an idle worker is woken only when there are more idle workers
\* than jobs.
EnoughIdle_Strict == nwork + 1 < idleworker

EnoughIdle == nwork + 1 <= idleworker

schedulework(i, job) ==
  /\ wrklist' = Append(wrklist, job)
  /\ nwork' = nwork + 1
  /\ \/ /\ EnoughIdle
        /\ wpc' \in Wakes(wpc)
        /\ UNCHANGED nworker
     \/ /\ ~EnoughIdle /\ nworker < rumpsp_maxworker
        /\ \/ \E w \in Worker :
                /\ wpc[w] = "none" /\ wpc' = [wpc EXCEPT ![w] = "top"]
                /\ nworker' = nworker + 1
           \/ UNCHANGED <<wpc, nworker>>  \* pthread_create failed
     \/ /\ ~EnoughIdle /\ nworker >= rumpsp_maxworker
        /\ UNCHANGED <<wpc, nworker>>
  /\ UNCHANGED idleworker

\* spcref() is in schedulework().
syscall_req(i) ==
  /\ Request(i) /\ spclist[i].state = "RUNNING"
  /\ spclist' = [spclist EXCEPT ![i].refcnt = @ + 1]
  /\ schedulework(i, [type |-> "SYSCALL", spc |-> i, conn |-> pfdlist[i]])
  /\ UNCHANGED <<conns, disco, spfini, mainpc, wjob, preforks, lwps, clients, served, aborted>>

\* RUMPSP_HANDSHAKE of a running client: drain its lwps, and let a worker
\* finish the exec.
exec_req(i) ==
  /\ Request(i) /\ spclist[i].state = "RUNNING" /\ ~spclist[i].inexec
  /\ spclist' = [spclist EXCEPT ![i].inexec = TRUE, ![i].refcnt = @ + 1]
  /\ clients' = [clients EXCEPT ![pfdlist[i]] = "exec"]
  /\ schedulework(i, [type |-> "EXEC", spc |-> i, conn |-> pfdlist[i]])
  /\ UNCHANGED <<conns, disco, spfini, mainpc, wjob, preforks, lwps, served, aborted>>

-----------------------------------------------------------------------------
(* Giving up a client                                                      *)

\* The section of spcrelease(): count down and, in an exec, wake who waits.
Woken(i, ref, p) ==
  [w \in Worker |-> IF spclist[i].inexec /\ ref <= 2 /\ p[w] = "execwait" /\ wjob[w].spc = i THEN "exec" ELSE p[w]]

\* The rest of spcrelease(), for the last reference: release the main lwp,
\* close the descriptor and free the slot.
LastRelease(i) ==
  /\ lwps' = lwps \ {spclist[i].mainlwp}
  /\ spclist' = [spclist EXCEPT ![i].mainlwp = <<>>, ![i].fd = -1, ![i].state = "NEW"]

\* serv_handledisco(): the section, which also ends pending sends and waits
\* for answers (SpWire); then it clears what is after spc_pfd, spc_inexec
\* included, and releases the connection's reference.
serv_handledisco(i) ==
  /\ mainpc = <<"poll", 0>> /\ i <= maxidx
  /\ pfdlist[i] # -1 /\ clients[pfdlist[i]] = "gone"
  /\ pfdlist' = [pfdlist EXCEPT ![i] = -1]
  /\ spclist' = [spclist EXCEPT ![i].state = "DYING"]
  /\ mainpc' = <<"clear", i>>
  /\ UNCHANGED <<nfds, maxidx, disco, spfini, poolvars, workvars, preforks, lwps, clients, served, ncalls, aborted>>

main_clear(i) ==
  /\ mainpc = <<"clear", i>>
  /\ spclist' = [spclist EXCEPT ![i].inexec = FALSE]
  /\ mainpc' = <<"release", i>>
  /\ UNCHANGED <<conns, disco, spfini, poolvars, workvars, preforks, lwps, clients, served, ncalls, aborted>>

main_release(i) ==
  /\ mainpc = <<"release", i>>
  /\ spclist' = [spclist EXCEPT ![i].refcnt = @ - 1]
  /\ wpc' = Woken(i, spclist[i].refcnt - 1, wpc)
  /\ mainpc' = IF spclist[i].refcnt > 1 THEN <<"poll", 0>> ELSE <<"free", i>>
  /\ UNCHANGED <<conns, disco, spfini, poolvars, wjob, preforks, lwps, clients, served, ncalls, aborted>>

main_free(i) ==
  /\ mainpc = <<"free", i>>
  /\ LastRelease(i)
  /\ disco' = disco + 1
  /\ mainpc' = <<"poll", 0>>
  /\ UNCHANGED <<conns, spfini, poolvars, workvars, preforks, clients, served, ncalls, aborted>>

-----------------------------------------------------------------------------
(* The workers                                                             *)

\* The top of serv_workbouncer(): leave when there are idle workers enough,
\* or wait for work.
Surplus == idleworker - nwork >= rumpsp_idleworker

TakesJob(w) ==
  /\ wjob' = [wjob EXCEPT ![w] = Head(wrklist)]
  /\ wrklist' = Tail(wrklist) /\ nwork' = nwork - 1
  /\ wpc' = [wpc EXCEPT ![w] = IF Head(wrklist).type = "SYSCALL" THEN "call" ELSE "exec"]

work_top(w) ==
  /\ wpc[w] = "top"
  /\ \/ /\ Surplus
        /\ nworker' = nworker - 1 /\ wpc' = [wpc EXCEPT ![w] = "none"]
        /\ UNCHANGED <<idleworker, wrklist, nwork, wjob>>
     \/ /\ ~Surplus /\ wrklist # <<>>
        /\ TakesJob(w)
        /\ UNCHANGED <<nworker, idleworker>>
     \/ /\ ~Surplus /\ wrklist = <<>>
        /\ idleworker' = idleworker + 1 /\ wpc' = [wpc EXCEPT ![w] = "wait"]
        /\ UNCHANGED <<nworker, wrklist, nwork, wjob>>
  /\ UNCHANGED <<conns, spclist, disco, spfini, mainpc, preforks, lwps, clients, served, ncalls, aborted>>

work_awake(w) ==
  /\ wpc[w] = "awake"
  /\ \/ /\ wrklist # <<>>
        /\ idleworker' = idleworker - 1
        /\ TakesJob(w)
     \/ /\ wrklist = <<>>
        /\ wpc' = [wpc EXCEPT ![w] = "wait"]
        /\ UNCHANGED <<idleworker, wrklist, nwork, wjob>>
  /\ UNCHANGED <<nworker, conns, spclist, disco, spfini, mainpc, preforks, lwps, clients, served, ncalls, aborted>>

\* serv_handlesyscall(): a new lwp of the client's process, if there still is
\* one, and the call, which may take its time and ends when the client is gone
\* at the latest; then the response, whatever came of it.
serv_handlesyscall(w) ==
  /\ wpc[w] = "call"
  /\ wpc' = [wpc EXCEPT ![w] = "respond"]
  /\ UNCHANGED <<conns, spclist, disco, spfini, mainpc, poolvars, wjob, preforks, lwps, clients, served, ncalls, aborted>>

respond(w) ==
  /\ wpc[w] = "respond"
  /\ served' = served \cup {<<wjob[w].conn, spclist[wjob[w].spc].fd>>}
  /\ clients' = [clients EXCEPT ![wjob[w].conn] = IF @ = "exec" /\ wjob[w].type = "EXEC" THEN "up" ELSE @]
  /\ wpc' = [wpc EXCEPT ![w] = "release"]
  /\ UNCHANGED <<conns, spclist, disco, spfini, mainpc, poolvars, wjob, preforks, lwps, ncalls, aborted>>

\* serv_handleexec(): wait until only the connection and this worker refer to
\* the client, notify the kernel, clear spc_inexec.
serv_handleexec(w) ==
  /\ wpc[w] = "exec"
  /\ wpc' = [wpc EXCEPT ![w] = IF spclist[wjob[w].spc].refcnt > 2 THEN "execwait" ELSE "execnotify"]
  /\ UNCHANGED <<conns, spclist, disco, spfini, mainpc, poolvars, wjob, preforks, lwps, clients, served, ncalls, aborted>>

execnotify(w) ==
  /\ wpc[w] = "execnotify"
  /\ spclist' = [spclist EXCEPT ![wjob[w].spc].inexec = FALSE]
  /\ wpc' = [wpc EXCEPT ![w] = "respond"]
  /\ UNCHANGED <<conns, disco, spfini, mainpc, poolvars, wjob, preforks, lwps, clients, served, ncalls, aborted>>

work_release(w) ==
  /\ wpc[w] = "release"
  /\ LET i == wjob[w].spc ref == spclist[i].refcnt - 1
     IN /\ spclist' = [spclist EXCEPT ![i].refcnt = ref]
        /\ wpc' = Woken(i, ref, [wpc EXCEPT ![w] = IF ref > 0 THEN "top" ELSE "free"])
        /\ wjob' = [wjob EXCEPT ![w] = IF ref > 0 THEN NoJob ELSE @]
  /\ UNCHANGED <<conns, disco, spfini, mainpc, poolvars, preforks, lwps, clients, served, ncalls, aborted>>

work_free(w) ==
  /\ wpc[w] = "free"
  /\ LastRelease(wjob[w].spc)
  /\ wpc' = [wpc EXCEPT ![w] = "signal"]
  /\ UNCHANGED <<conns, disco, spfini, mainpc, poolvars, wjob, preforks, clients, served, ncalls, aborted>>

signaldisco(w) ==
  /\ wpc[w] = "signal"
  /\ disco' = disco + 1
  /\ wpc' = [wpc EXCEPT ![w] = "top"] /\ wjob' = [wjob EXCEPT ![w] = NoJob]
  /\ UNCHANGED <<conns, spclist, spfini, mainpc, poolvars, preforks, lwps, clients, served, ncalls, aborted>>

-----------------------------------------------------------------------------
(* The end of the service, and the clients                                 *)

\* rumpuser_sp_fini() shuts the listening socket down, which wakes the main
\* loop: serv_shutdown() disconnects every client and then releases it once
\* more, whoever still works for it.
rumpuser_sp_fini ==
  /\ mainpc = <<"poll", 0>> /\ ~spfini
  /\ spfini' = TRUE
  /\ mainpc' = <<"shutdown", 0>>
  /\ UNCHANGED <<conns, spclist, disco, poolvars, workvars, preforks, lwps, clients, served, ncalls, aborted>>

serv_shutdown ==
  /\ mainpc = <<"shutdown", 0>>
  /\ LET up == {i \in Slot : spclist[i].fd # -1}
     IN /\ spclist' = [i \in Slot |->
             IF i \notin up THEN spclist[i]
             ELSE IF spclist[i].refcnt <= 2 THEN [Fresh EXCEPT !.refcnt = spclist[i].refcnt - 2]
             ELSE [spclist[i] EXCEPT !.state = "DYING", !.inexec = FALSE, !.refcnt = @ - 2]]
        /\ lwps' = lwps \ {spclist[i].mainlwp : i \in {j \in up : spclist[j].refcnt <= 2}}
        /\ pfdlist' = [i \in Slot |-> -1]
        /\ clients' = [c \in Conn |-> "gone"]
  /\ mainpc' = <<"out", 0>>
  /\ UNCHANGED <<nfds, maxidx, disco, spfini, poolvars, workvars, preforks, served, ncalls, aborted>>

ClientLeaves(c) ==
  /\ clients[c] \in {"up", "exec"}
  /\ clients' = [clients EXCEPT ![c] = "gone"]
  /\ UNCHANGED <<conns, spclist, disco, spfini, mainpc, poolvars, workvars, preforks, lwps, served, ncalls, aborted>>

-----------------------------------------------------------------------------
SSMain ==
  \/ getdisco \/ serv_handleconn \/ rumpuser_sp_fini \/ serv_shutdown
  \/ \E i \in Slot :
       \/ handshake_guest(i) \/ handshake_fork(i) \/ prefork(i) \/ syscall_req(i) \/ exec_req(i)
       \/ serv_handledisco(i) \/ main_clear(i) \/ main_release(i) \/ main_free(i)

SSWorker(w) ==
  \/ work_top(w) \/ work_awake(w) \/ serv_handlesyscall(w) \/ respond(w) \/ serv_handleexec(w) \/ execnotify(w)
  \/ work_release(w) \/ work_free(w) \/ signaldisco(w)

SSNext ==
  \/ SSMain
  \/ \E w \in Worker : SSWorker(w)
  \/ \E c \in Conn : ClientLeaves(c)

SSSpec == SSInit /\ [][SSNext]_spsvars

-----------------------------------------------------------------------------
(* Properties                                                              *)

Working(i) == {w \in Worker : wjob[w] # NoJob /\ wjob[w].spc = i /\ wpc[w] \notin {"free", "signal"}}
Queued(i) == {k \in DOMAIN wrklist : wrklist[k].spc = i}

\* Until the service ends, a slot's reference count is the connection's one
\* and one for every job, so a slot is reused only when nobody works for its
\* client any more: no response goes to another client than the one that
\* asked, the lwp of a client lives as long as its jobs, and every slot that
\* has a connection is polled.
SlotsCounted ==
  ~spfini =>
    /\ \A i \in Slot :
         /\ spclist[i].refcnt = Cardinality(Working(i)) + Cardinality(Queued(i))
              + (IF pfdlist[i] # -1 \/ mainpc \in {<<"clear", i>>, <<"release", i>>} THEN 1 ELSE 0)
         /\ pfdlist[i] # -1 => pfdlist[i] = spclist[i].fd /\ i <= maxidx
         /\ \A w \in Working(i) : wjob[w].conn = spclist[i].fd /\ <<"main", wjob[w].conn>> \in lwps
    /\ \A s \in served : s[1] = s[2]

\* serv_handleconn is right that a slot can be found whenever nfds is below
\* MAXCLI: nfds counts a slot until it has been released for the last time.
SlotFound == ~aborted

\* A queued job does not wait for a worker that sleeps: as long as there are
\* workers, one of them is on its way to it, or is at work and will look.
WorkTaken ==
  wrklist # <<>> /\ nworker > 0 => \E w \in Worker : wpc[w] \notin {"none", "wait", "execwait"}

\* Together: slots and references are counted, a slot is found for every
\* connection that is let in, and a worker for every job.
ServerSound == SlotsCounted /\ SlotFound /\ WorkTaken

\* An exec goes on once no more than the connection and itself refer to the
\* client, "or one is still alive and the connection is dead".
ExecGoesOn == ~spfini => \A w \in Worker : wpc[w] = "execwait" => spclist[wjob[w].spc].refcnt > 2
=============================================================================
