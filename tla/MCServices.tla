----------------------------- MODULE MCServices -----------------------------
(* Model-checking instance of the parts that serve requests: the system    *)
(* call proxy's wire and server, the programs of an image, lwps, xenbus    *)
(* with its device, and event channels.  A behaviour is about one of them. *)
EXTENDS SpWire, SpServer, Runner, Lwp, Busdev, XenEvents

VARIABLE part

\* Worker threads are alike.
WorkersAlike == Permutations(Worker)

\* The parts that do not move are in one of their initial states.
RRest == RInit /\ mode = [r \in Prog |-> ""]

Init ==
  /\ part \in {"wire", "server", "runner", "lwp", "xenbus", "events"}
  /\ SPInit /\ SSInit /\ LInit /\ XBInit /\ EVInit
  /\ IF part = "runner" THEN RInit ELSE RRest

Moves(p) == part = p /\ UNCHANGED part

Next ==
  \/ Moves("wire") /\ SPNext /\ UNCHANGED <<spsvars, runvars, lwpvars, xbvars, evtvars>>
  \/ Moves("server") /\ SSNext /\ UNCHANGED <<spwvars, runvars, lwpvars, xbvars, evtvars>>
  \/ Moves("runner") /\ RNext /\ UNCHANGED <<spwvars, spsvars, lwpvars, xbvars, evtvars>>
  \/ Moves("lwp") /\ LNext /\ UNCHANGED <<spwvars, spsvars, runvars, xbvars, evtvars>>
  \/ Moves("xenbus") /\ XBNext /\ UNCHANGED <<spwvars, spsvars, runvars, lwpvars, evtvars>>
  \/ Moves("events") /\ EVNext /\ UNCHANGED <<spwvars, spsvars, runvars, lwpvars, xbvars>>

Spec == Init /\ [][Next]_<<part, spwvars, spsvars, runvars, lwpvars, xbvars, evtvars>>
=============================================================================
