--------------------------- MODULE PlatformProofs ---------------------------
(***************************************************************************)
(* Protocols between the kernel and what is around it, each for every      *)
(* value of its constants: interrupts on bare hardware, and on Xen the     *)
(* event channels and PCI operations.                                      *)
(***************************************************************************)
EXTENDS HwIntr, XenEvents, PciOp, TLAPS

-----------------------------------------------------------------------------
(* Interrupts on hardware.  The induction needs to know that doisr         *)
(* overwrites its copy only when that is empty, that it is on the run      *)
(* queue whenever it has the CPU, that the level that a line is routed to  *)
(* has its handler, and that where routing keeps a line's level the loop   *)
(* has not passed a line that is left.                                     *)

\* Where the handlers are: on the level that doisr looks at for their line.
HandlersPlaced ==
  /\ isr_routed \in [Line -> {"NOIDEA", "YES", "NO"}]
  /\ isr_ih \in [Line \cup {INTR_ROUTED} -> SUBSET Line]
  /\ screw_routing \in BOOLEAN
  /\ isr_lowest \in Nat /\ scan \in Nat
  /\ \A n \in Established : n \in isr_ih[Level(n, isr_routed[n])] /\ isr_lowest <= n

\* What doisr has yet to serve is ahead of its loop, unless that was misled.
LoopAhead ==
  /\ isr_todo \subseteq Established /\ isrcopy \subseteq Established
  /\ isrpc = "scan" /\ ~screw_routing => \A m \in isrcopy : m >= scan

HwInv ==
  /\ HandlersPlaced
  /\ LoopAhead
  /\ cpu \notin Halted =>
       /\ work \subseteq Line                          \* never the clock's line
       /\ isrpc \in {"take", "asleep"} => isrcopy = {}
       /\ cpu = "isr" => "isr" \in runnable
  /\ RequestsReachHandler

\* The lines are numbers, and none is the level of routed interrupts.
LEMMA LineNumbers == /\ Line \subseteq Nat /\ INTR_ROUTED \in Nat /\ INTR_ROUTED \notin Line
                     /\ \A n \in Line : n < INTR_ROUTED
BY LineAssumption DEF INTR_ROUTED

\* The boot leaves nothing pending.
LEMMA HwInvInit == HIInit => HwInv
BY LineNumbers DEF HIInit, HwInv, HandlersPlaced, LoopAhead, RequestsReachHandler, Halted, Established

\* Registering a handler puts it where doisr looks.
LEMMA RegisterPlaces ==
  ASSUME HandlersPlaced, NEW n \in Line, NEW how \in {"YES", "NO"}, bmk_isr_rumpkernel(n, how)
  PROVE  HandlersPlaced' /\ Established \subseteq Established'
<1>1. Level(n, how) \in Line \cup {INTR_ROUTED}
  BY DEF Level, routeintr
<1>2. /\ isr_routed[n] \in {"NOIDEA", how}
      /\ isr_routed' = [isr_routed EXCEPT ![n] = how]
      /\ isr_ih' = [isr_ih EXCEPT ![Level(n, how)] = @ \cup {n}]
      /\ isr_lowest' = IF n < isr_lowest THEN n ELSE isr_lowest
      /\ screw_routing' = screw_routing /\ scan' = scan
  BY DEF bmk_isr_rumpkernel, doisrvars
<1>3. /\ isr_routed' \in [Line -> {"NOIDEA", "YES", "NO"}]
      /\ isr_ih' \in [Line \cup {INTR_ROUTED} -> SUBSET Line]
      /\ isr_lowest' \in Nat /\ scan' \in Nat
  <2>1. isr_routed' \in [Line -> {"NOIDEA", "YES", "NO"}]
    BY <1>2 DEF HandlersPlaced
  <2>2. isr_ih' \in [Line \cup {INTR_ROUTED} -> SUBSET Line]
    BY <1>1, <1>2 DEF HandlersPlaced
  <2>3. isr_lowest' \in Nat /\ scan' \in Nat
    BY <1>2, LineNumbers DEF HandlersPlaced
  <2> QED BY <2>1, <2>2, <2>3
<1>b. screw_routing' \in BOOLEAN
  BY <1>2, Zenon DEF HandlersPlaced
<1>4. Established' = Established \cup {n}
  BY <1>2 DEF Established, HandlersPlaced
<1>5. ASSUME NEW m \in Established' PROVE m \in isr_ih'[Level(m, isr_routed[m])'] /\ isr_lowest' <= m
  <2>1. Level(m, isr_routed[m])' = Level(m, isr_routed'[m])
    BY <1>2 DEF Level, routeintr
  <2>2. CASE m = n
    BY <1>1, <1>2, <2>1, <2>2, LineNumbers DEF HandlersPlaced
  <2>3. CASE m # n
    <3>1. m \in Established /\ m \in Line /\ isr_routed'[m] = isr_routed[m]
      BY <1>2, <1>4, <2>3 DEF HandlersPlaced, Established
    <3>2. m \in isr_ih[Level(m, isr_routed[m])] /\ isr_lowest <= m
      BY <3>1 DEF HandlersPlaced
    <3>3. Level(m, isr_routed[m]) \in Line \cup {INTR_ROUTED}
      BY <3>1 DEF Level, routeintr
    <3> QED BY <1>1, <1>2, <2>1, <3>1, <3>2, <3>3, LineNumbers DEF HandlersPlaced
  <2> QED BY <2>2, <2>3
<1> QED BY <1>3, <1>b, <1>4, <1>5, Zenon DEF HandlersPlaced

\* Nothing else moves them.
LEMMA StaysPlaced ==
  ASSUME HandlersPlaced, UNCHANGED regvars, scan' \in Nat
  PROVE  HandlersPlaced' /\ Established' = Established
BY DEF HandlersPlaced, regvars, Established, Level, routeintr

\* The devices, the interrupt entries and the registration of a handler.
LEMMA HwInvInterrupts ==
  ASSUME HwInv,
         \/ \E n \in Line, how \in {"YES", "NO"} : bmk_isr_rumpkernel(n, how) \/ routed_intr_mismatch(n, how)
         \/ \E n \in Line : Raise(n) \/ isr(n)
         \/ cpu_isr_clock
  PROVE  HwInv'
<1> USE DEF doisrvars, picvars, WakesIsr, Halted
<1>0. scan \in Nat
  BY DEF HwInv, HandlersPlaced
<1>1. ASSUME NEW n \in Line, NEW how \in {"YES", "NO"}, bmk_isr_rumpkernel(n, how) PROVE HwInv'
  <2>1. HandlersPlaced' /\ Established \subseteq Established'
    BY <1>1, RegisterPlaces DEF HwInv
  <2> QED BY <1>1, <2>1 DEF HwInv, LoopAhead, RequestsReachHandler, bmk_isr_rumpkernel
<1>2. ASSUME NEW n \in Line, NEW how \in {"YES", "NO"}, routed_intr_mismatch(n, how) PROVE HwInv'
  <2>1. HandlersPlaced' /\ Established' = Established
    BY <1>0, <1>2, StaysPlaced DEF HwInv, routed_intr_mismatch
  <2> QED BY <1>2, <2>1 DEF HwInv, LoopAhead, RequestsReachHandler, routed_intr_mismatch, regvars
<1>3. ASSUME NEW n \in Line, Raise(n) PROVE HwInv'
  <2>1. HandlersPlaced' /\ Established' = Established
    BY <1>0, <1>3, StaysPlaced DEF HwInv, Raise
  <2> QED BY <1>3, <2>1 DEF HwInv, LoopAhead, RequestsReachHandler, Raise, regvars
<1>4. ASSUME NEW n \in Line, isr(n) PROVE HwInv'
  <2>1. HandlersPlaced' /\ Established' = Established
    BY <1>0, <1>4, StaysPlaced DEF HwInv, isr
  <2> QED BY <1>4, <2>1 DEF HwInv, LoopAhead, RequestsReachHandler, isr, regvars
<1>5. CASE cpu_isr_clock
  <2>1. HandlersPlaced' /\ Established' = Established
    BY <1>0, <1>5, StaysPlaced DEF HwInv, cpu_isr_clock
  <2> QED BY <1>5, <2>1, LineAssumption DEF HwInv, LoopAhead, RequestsReachHandler, cpu_isr_clock, Clock, regvars
<1> QED BY <1>1, <1>2, <1>3, <1>4, <1>5

\* The loop serves the line whose handlers it runs.
LEMMA HwInvWork ==
  ASSUME HwInv, NEW n \in Line, doisr_work(n)
  PROVE  HwInv'
<1> DEFINE l == Level(n, isr_routed[n])
<1>1. /\ cpu = "isr" /\ isrpc = "scan" /\ n \in isrcopy /\ n >= scan
      /\ \A m \in isrcopy : m >= scan => n <= m
      /\ isrcopy' = isrcopy \ {n} /\ work' = work \ isr_ih[l] /\ scan' = l + 1
      /\ runnable \subseteq runnable'
      /\ UNCHANGED <<cpu, isrpc, isr_todo, regvars, irr>>
  BY DEF doisr_work, picvars
<1>2. l \in Nat /\ n \in isr_ih[l] /\ isrcopy \subseteq Line
  BY <1>1, LineNumbers DEF HwInv, LoopAhead, HandlersPlaced, Level, routeintr, Established
<1>3. ~screw_routing => l = n
  BY DEF Level, routeintr
<1> HIDE DEF l
<1>4. HandlersPlaced' /\ Established' = Established
  BY <1>1, <1>2, StaysPlaced DEF HwInv
<1>5. LoopAhead'
  <2>1. ASSUME ~screw_routing, NEW m \in isrcopy' PROVE m >= scan'
    BY <1>1, <1>2, <1>3, <2>1, LineNumbers DEF HwInv, LoopAhead
  <2> QED BY <1>1, <1>4, <2>1 DEF HwInv, LoopAhead, regvars
<1> QED BY <1>1, <1>2, <1>4, <1>5 DEF HwInv, RequestsReachHandler, Halted

\* The interrupt thread's other steps.
LEMMA HwInvDoisr ==
  ASSUME HwInv,
         \/ doisr_take \/ doisr_waits \/ doisr_begins \/ doisr_passed \/ doisr_again \/ doisr_sleep
  PROVE  HwInv'
<1> USE DEF doisrvars, picvars, Halted
<1>0. scan \in Nat /\ isr_lowest \in Nat
  BY DEF HwInv, HandlersPlaced
<1>1. CASE doisr_take
  <2>1. HandlersPlaced' /\ Established' = Established
    BY <1>0, <1>1, StaysPlaced DEF HwInv, doisr_take
  <2> QED BY <1>1, <2>1 DEF HwInv, LoopAhead, RequestsReachHandler, doisr_take, regvars
<1>2. CASE doisr_waits
  <2>1. HandlersPlaced' /\ Established' = Established
    BY <1>0, <1>2, StaysPlaced DEF HwInv, doisr_waits
  <2> QED BY <1>2, <2>1 DEF HwInv, LoopAhead, RequestsReachHandler, doisr_waits, regvars
<1>3. CASE doisr_begins
  <2>1. HandlersPlaced' /\ Established' = Established
    BY <1>0, <1>3, StaysPlaced DEF HwInv, doisr_begins
  <2>2. \A m \in isrcopy : m \in Nat /\ isr_lowest <= m
    BY LineNumbers DEF HwInv, LoopAhead, HandlersPlaced, Established
  <2> QED BY <1>0, <1>3, <2>1, <2>2 DEF HwInv, LoopAhead, RequestsReachHandler, doisr_begins, regvars
<1>4. CASE doisr_passed
  <2>1. HandlersPlaced' /\ Established' = Established
    BY <1>0, <1>4, StaysPlaced DEF HwInv, doisr_passed
  <2>2. ASSUME ~screw_routing PROVE FALSE
    <3>1. /\ isrpc = "scan" /\ isrcopy \subseteq Nat
          /\ \E m \in isrcopy : m < scan
      BY <1>4, LineNumbers DEF HwInv, LoopAhead, Established, doisr_passed
    <3>2. \A m \in isrcopy : m >= scan
      BY <2>2, <3>1, Zenon DEF HwInv, LoopAhead
    <3> QED BY <1>0, <3>1, <3>2
  <2> QED BY <1>4, <2>1, <2>2 DEF HwInv, LoopAhead, RequestsReachHandler, doisr_passed, regvars
<1>5. CASE doisr_again
  <2>1. HandlersPlaced' /\ Established' = Established
    BY <1>0, <1>5, StaysPlaced DEF HwInv, doisr_again
  <2> QED BY <1>5, <2>1 DEF HwInv, LoopAhead, RequestsReachHandler, doisr_again, regvars
<1>6. CASE doisr_sleep
  <2>1. HandlersPlaced' /\ Established' = Established
    BY <1>0, <1>6, StaysPlaced DEF HwInv, doisr_sleep
  <2> QED BY <1>6, <2>1 DEF HwInv, LoopAhead, RequestsReachHandler, doisr_sleep, Sleeps, regvars
<1> QED BY <1>1, <1>2, <1>3, <1>4, <1>5, <1>6

\* The scheduler, and the CPU's wait.
LEMMA HwInvSchedule ==
  ASSUME HwInv,
         \/ bmk_sched_block \/ thread_blocks
         \/ \E t \in {"isr", "thread"} : schedule(t)
         \/ schedule_none \/ cpu_block_late \/ cpu_block \/ TimerFires \/ cpu_block_ends
  PROVE  HwInv'
<1> USE DEF doisrvars, picvars, Halted
<1>0. /\ UNCHANGED <<regvars, scan, isrcopy, isr_todo, work>> /\ irr \subseteq irr'
      /\ isrpc' = isrpc \/ (isrpc = "asleep" /\ isrpc' = "take")
      /\ cpu \notin {"isr"} \cup Halted
  BY DEF bmk_sched_block, thread_blocks, schedule, schedule_none, cpu_block_late, cpu_block, TimerFires,
         cpu_block_ends
<1>1. HandlersPlaced' /\ Established' = Established
  BY <1>0, StaysPlaced DEF HwInv, HandlersPlaced
<1>2. LoopAhead'
  BY <1>0, <1>1 DEF HwInv, LoopAhead, regvars
<1>3. "isr" \in runnable => "isr" \in runnable'
  BY DEF bmk_sched_block, thread_blocks, schedule, schedule_none, cpu_block_late, cpu_block, TimerFires,
         cpu_block_ends
<1>4. cpu' # "level" /\ (cpu' = "isr" => "isr" \in runnable')
  BY <1>0 DEF bmk_sched_block, thread_blocks, schedule, schedule_none, cpu_block_late, cpu_block,
              TimerFires, cpu_block_ends
<1> QED BY <1>0, <1>1, <1>2, <1>3, <1>4 DEF HwInv, RequestsReachHandler

\* Whatever lines there are, however they are routed and whatever the build, a
\* request that a device has made is latched by a controller, noted by isr() or
\* taken by doisr(), and the interrupt thread is on the run queue as long as one
\* is noted or taken; and the loop of doisr() passes over a line only in the
\* build that squashes routed interrupts to one level.
THEOREM RequestsNeverLost == HISpec => []RequestsReachHandler
<1>1. HwInv /\ [HINext]_hwivars => HwInv'
  <2> SUFFICES ASSUME HwInv, [HINext]_hwivars PROVE HwInv' OBVIOUS
  <2>1. CASE UNCHANGED hwivars
    <3>1. UNCHANGED <<cpu, runnable, isrpc, isrcopy, isr_todo, irr, work, scan, regvars>>
      BY <2>1 DEF hwivars, doisrvars, picvars
    <3>2. HandlersPlaced' /\ Established' = Established
      BY <3>1, StaysPlaced DEF HwInv, HandlersPlaced
    <3> QED BY <3>1, <3>2 DEF HwInv, LoopAhead, RequestsReachHandler, regvars
  <2>2. CASE HINext
    BY <2>2, HwInvInterrupts, HwInvWork, HwInvDoisr, HwInvSchedule DEF HINext
  <2> QED BY <2>1, <2>2
<1> QED BY HwInvInit, <1>1, PTL DEF HISpec, HwInv

-----------------------------------------------------------------------------
(* Event channels.  What the callback and minios_unmask_evtchn rely on     *)
(* without saying so is that a selected word always has somebody who will  *)
(* flag the upcall: both leave a word alone that they find selected.       *)

EvtTypeOK ==
  /\ evtchn_pending \subseteq Port
  /\ sending \in [Port -> {"", "pending", "selected"}]
  /\ unmasking = None \/ \E p \in Port : unmasking = <<"test", p>> \/ unmasking = <<"flag", p>>

\* A selected word has the upcall flagged, or somebody about to.
SelectedIsFlagged == \A w \in pending_sel : WillFlag(w)

EvtInv == EvtTypeOK /\ SelectedIsFlagged /\ NoEventLost

\* What the start of the kernel leaves behind.
LEMMA EvtInit == EVInit => EvtInv
BY DEF EVInit, EvtInv, EvtTypeOK, SelectedIsFlagged, NoEventLost

\* The hypervisor's three steps of raising a port.
LEMMA EvtSends ==
  ASSUME EvtInv, NEW p \in Port, EvtSend(p) \/ SendSelects(p) \/ SendFlags(p)
  PROVE  EvtInv'
<1> USE DEF EvtInv
<1>1. CASE EvtSend(p)
  <2>1. EvtTypeOK' BY <1>1 DEF EvtSend, EvtTypeOK
  <2>2. \A q \in Port : sending[q] = "selected" => sending'[q] = "selected"
    BY <1>1 DEF EvtSend, EvtTypeOK
  <2>3. \A w : WillFlag(w) => WillFlag(w)'
    BY <1>1, <2>2 DEF EvtSend, WillFlag
  <2>4. \A q \in evtchn_pending : sending'[q] = sending[q]
    BY <1>1 DEF EvtSend, EvtTypeOK
  <2>5. \A q \in evtchn_pending' : q \in evtchn_pending \/ sending'[q] = "pending"
    BY <1>1 DEF EvtSend, EvtTypeOK
  <2>6. SelectedIsFlagged' BY <1>1, <2>3 DEF EvtSend, SelectedIsFlagged
  <2>7. NoEventLost'
    BY <1>1, <2>3, <2>4, <2>5 DEF EvtSend, NoEventLost
  <2> QED BY <2>1, <2>6, <2>7
<1>2. CASE SendSelects(p)
  <2>0. /\ UNCHANGED <<evtchn_pending, evtchn_mask, upcall_pending, cb, l1, unmasking>>
        /\ sending[p] = "pending" /\ sending' = [sending EXCEPT ![p] = sending'[p]]
        /\ sending'[p] \in {"", "selected"}
    BY <1>2 DEF SendSelects, EvtTypeOK
  <2>1. \A q \in Port \ {p} : sending'[q] = sending[q]
    BY <2>0 DEF EvtTypeOK
  <2>2. EvtTypeOK'
    BY <2>0 DEF EvtTypeOK
  <2>3. \A q \in Port : sending[q] = "selected" => sending'[q] = "selected"
    BY <2>0, <2>1
  <2>4. \A w : WillFlag(w) => WillFlag(w)'
    BY <2>0, <2>3 DEF WillFlag
  <2>5. \/ pending_sel' = pending_sel /\ (p \in evtchn_mask \/ Word(p) \in pending_sel)
        \/ pending_sel' = pending_sel \cup {Word(p)} /\ sending'[p] = "selected"
    BY <1>2 DEF SendSelects, EvtTypeOK
  <2>6. sending'[p] = "selected" => WillFlag(Word(p))'
    BY DEF WillFlag
  <2>7. SelectedIsFlagged'
    BY <2>4, <2>5, <2>6 DEF SelectedIsFlagged
  <2>8. NoEventLost'
    <3> SUFFICES ASSUME NEW q \in evtchn_pending \ evtchn_mask
                 PROVE  \/ sending'[q] = "pending" \/ unmasking = <<"test", q>>
                        \/ Word(q) \in pending_sel' /\ WillFlag(Word(q))'
                        \/ cb = "words" /\ Word(q) \in l1
      BY <2>0, Zenon DEF NoEventLost
    <3>1. CASE q = p
      BY <2>5, <2>7, <3>1 DEF SelectedIsFlagged
    <3>2. CASE q # p
      <4>1. sending'[q] = sending[q]
        BY <2>1, <3>2 DEF EvtTypeOK
      <4> QED BY <2>4, <2>5, <4>1 DEF NoEventLost
    <3> QED BY <3>1, <3>2
  <2> QED BY <2>2, <2>7, <2>8
<1>3. CASE SendFlags(p)
  BY <1>3 DEF SendFlags, bitvars, EvtTypeOK, SelectedIsFlagged, NoEventLost, WillFlag
<1> QED BY <1>1, <1>2, <1>3

\* The callback, from taking the flag down to its return.
LEMMA EvtCallback ==
  ASSUME EvtInv,
         \/ do_hypervisor_callback \/ callback_selector
         \/ callback_next_word \/ callback_returns
         \/ \E p \in Port : do_event(p, p = 0)
  PROVE  EvtInv'
<1> USE DEF EvtInv
<1>1. CASE do_hypervisor_callback
  BY <1>1 DEF do_hypervisor_callback, bitvars, EvtTypeOK, SelectedIsFlagged, NoEventLost, WillFlag
<1>2. CASE callback_selector
  BY <1>2 DEF callback_selector, EvtTypeOK, SelectedIsFlagged, NoEventLost, WillFlag
<1>3. CASE callback_next_word
  BY <1>3 DEF callback_next_word, active_evtchns, bitvars, EvtTypeOK, SelectedIsFlagged,
              NoEventLost, WillFlag
<1>4. CASE callback_returns
  BY <1>4 DEF callback_returns, bitvars, EvtTypeOK, SelectedIsFlagged, NoEventLost, WillFlag
<1>5. ASSUME NEW p \in Port, do_event(p, p = 0) PROVE EvtInv'
  BY <1>5 DEF do_event, EvtTypeOK, SelectedIsFlagged, NoEventLost, WillFlag
<1> QED BY <1>1, <1>2, <1>3, <1>4, <1>5

\* The steps of threads: masking upcalls, unmasking a port in three steps,
\* binding and unbinding.
LEMMA EvtThreads ==
  ASSUME EvtInv,
         \/ local_irq_save \/ local_irq_restore \/ unmask_tests \/ unmask_flags
         \/ \E p \in Port : \/ minios_unmask_evtchn(p) \/ minios_bind_evtchn(p)
                            \/ minios_unbind_evtchn(p)
  PROVE  EvtInv'
<1> USE DEF EvtInv
<1>1. CASE local_irq_save \/ local_irq_restore
  <2>1. /\ UNCHANGED <<evtchn_pending, evtchn_mask, pending_sel, upcall_pending>>
        /\ UNCHANGED <<sending, cb, l1, unmasking>>
    BY <1>1 DEF local_irq_save, local_irq_restore, bitvars
  <2> QED BY <2>1 DEF EvtTypeOK, SelectedIsFlagged, NoEventLost, WillFlag
<1>2. CASE unmask_tests
  <2>0. PICK p \in Port : unmasking = <<"test", p>> \/ unmasking = <<"flag", p>>
    BY <1>2 DEF unmask_tests, EvtTypeOK
  <2>1. unmasking = <<"test", p>>
    <3>1. unmasking[1] = "test" BY <1>2 DEF unmask_tests
    <3>2. <<"flag", p>>[1] # "test" OBVIOUS
    <3> QED BY <2>0, <3>1, <3>2, Zenon
  <2>2. /\ UNCHANGED <<evtchn_pending, evtchn_mask, upcall_pending, sending, cb, l1>>
        /\ \/ /\ p \in evtchn_pending /\ Word(p) \notin pending_sel
              /\ pending_sel' = pending_sel \cup {Word(p)} /\ unmasking' = <<"flag", p>>
           \/ /\ p \notin evtchn_pending \/ Word(p) \in pending_sel
              /\ unmasking' = None /\ UNCHANGED pending_sel
    BY <1>2, <2>1 DEF unmask_tests, Resends
  <2>3. ~(unmasking # None /\ unmasking[1] = "flag")
    BY <2>1
  <2>4. \A w : WillFlag(w) => WillFlag(w)'
    BY <2>2, <2>3 DEF WillFlag
  <2>5. EvtTypeOK'
    BY <2>2 DEF EvtTypeOK
  <2>6. \A w \in pending_sel' \ pending_sel : WillFlag(w)'
    BY <2>2 DEF WillFlag, None
  <2>7. SelectedIsFlagged'
    BY <2>4, <2>6 DEF SelectedIsFlagged
  <2>8. \A q \in evtchn_pending : unmasking = <<"test", q>> => q = p
    BY <2>1
  <2>9. p \in evtchn_pending => Word(p) \in pending_sel'
    BY <2>2
  <2> QED BY <2>2, <2>4, <2>5, <2>7, <2>8, <2>9 DEF NoEventLost, SelectedIsFlagged
<1>3. CASE unmask_flags
  <2>0. PICK p \in Port : unmasking = <<"test", p>> \/ unmasking = <<"flag", p>>
    BY <1>3 DEF unmask_flags, EvtTypeOK
  <2>1. unmasking = <<"flag", p>>
    <3>1. unmasking[1] = "flag" BY <1>3 DEF unmask_flags
    <3>2. <<"test", p>>[1] # "flag" OBVIOUS
    <3> QED BY <2>0, <3>1, <3>2, Zenon
  <2>2. /\ UNCHANGED <<evtchn_pending, evtchn_mask, pending_sel, sending, cb, l1>>
        /\ upcall_pending' /\ unmasking' = None
    BY <1>3 DEF unmask_flags, bitvars
  <2>3. \A w : WillFlag(w)'
    BY <2>2 DEF WillFlag
  <2>4. \A q : unmasking # <<"test", q>>
    BY <2>1
  <2>5. EvtTypeOK' BY <2>2 DEF EvtTypeOK
  <2> QED BY <2>2, <2>3, <2>4, <2>5 DEF SelectedIsFlagged, NoEventLost
<1>4. ASSUME NEW p \in Port, minios_unmask_evtchn(p) PROVE EvtInv'
  BY <1>4 DEF minios_unmask_evtchn, None, EvtTypeOK, SelectedIsFlagged, NoEventLost, WillFlag
<1>5. ASSUME NEW p \in Port, minios_bind_evtchn(p) PROVE EvtInv'
  BY <1>5 DEF minios_bind_evtchn, bitvars, EvtTypeOK, SelectedIsFlagged, NoEventLost, WillFlag
<1>6. ASSUME NEW p \in Port, minios_unbind_evtchn(p) PROVE EvtInv'
  BY <1>6 DEF minios_unbind_evtchn, EvtTypeOK, SelectedIsFlagged, NoEventLost, WillFlag
<1> QED BY <1>1, <1>2, <1>3, <1>4, <1>5, <1>6

\* An event that is raised on a port that is not masked always reaches the
\* callback (do_hypervisor_callback and minios_unmask_evtchn), whatever the
\* number of ports and of ports to a word, and wherever between the steps of
\* the domain the hypervisor raises it.
THEOREM EventsReachCallback == EVSpec => []NoEventLost
<1>1. EvtInv /\ [EVNext]_evtvars => EvtInv'
  <2> SUFFICES ASSUME EvtInv, [EVNext]_evtvars PROVE EvtInv' OBVIOUS
  <2>1. CASE UNCHANGED evtvars
    BY <2>1 DEF evtvars, EvtInv, EvtTypeOK, SelectedIsFlagged, NoEventLost, WillFlag
  <2>2. CASE EVNext
    BY <2>2, EvtSends, EvtCallback, EvtThreads DEF EVNext
  <2> QED BY <2>1, <2>2
<1> QED BY EvtInit, <1>1, PTL DEF EVSpec, EvtInv
-----------------------------------------------------------------------------
(* PCI operations.  One thread at a time is inside pcifront_op, the one    *)
(* with the vCPU; the slot holds its operation, and once the active flag   *)
(* is down, the answer to it.                                              *)

PciInv ==
  /\ ppcs \in [PciThread -> {"idle", "test", "prepare", "asleep", "take", "done"}]
  /\ DOMAIN pwant = PciThread /\ DOMAIN pgot = PciThread
  /\ \A t \in PciThread : ppcs[t] # "idle" => pci_vcpu = t /\ pwant[t] = info_op
  /\ (\E t \in PciThread : ppcs[t] # "idle") /\ ~active => served = info_op
  /\ \A t \in PciThread : ppcs[t] \in {"take", "done"} => ~active
  /\ \A t \in PciThread : ppcs[t] = "done" => pgot[t] = served

\* No operation is under way when the device has been found.
LEMMA PciInvInit == PCInit => PciInv
BY DEF PCInit, PciInv

\* Filling the slot, with the vCPU in hand: everybody else is outside.
LEMMA PciInvBegins ==
  ASSUME PciInv, NEW t \in PciThread, NEW a \in PciAddr, conf_op(t, a)
  PROVE  PciInv'
<1>1. CASE UNCHANGED pcivars
  BY <1>1 DEF pcivars, PciInv
<1>2. CASE ~UNCHANGED pcivars
  <2>1. \A u \in PciThread : ppcs[u] = "idle"
    BY PciAssumption DEF conf_op, PciInv, Nil
  <2> QED BY <1>2, <2>1 DEF conf_op, PciInv
<1> QED BY <1>1, <1>2

\* The steps of pcifront_op up to its return.
LEMMA PciInvGoesOn ==
  ASSUME PciInv, NEW t \in PciThread,
         op_tests(t) \/ op_sleeps(t) \/ op_takes(t) \/ op_returns(t)
  PROVE  PciInv'
<1>1. CASE op_tests(t) BY <1>1 DEF op_tests, PciInv
<1>2. CASE op_sleeps(t) BY <1>2 DEF op_sleeps, PciInv
<1>3. CASE op_takes(t) BY <1>3 DEF op_takes, PciInv
<1>4. CASE op_returns(t) BY <1>4 DEF op_returns, PciInv
<1> QED BY <1>1, <1>2, <1>3, <1>4

\* The backend and its event.
LEMMA PciInvBackend ==
  ASSUME PciInv, pcifront_handler \/ PciBackendServes
  PROVE  PciInv'
<1>1. CASE pcifront_handler BY <1>1 DEF pcifront_handler, PciInv
<1>2. CASE PciBackendServes BY <1>2 DEF PciBackendServes, PciInv
<1> QED BY <1>1, <1>2

\* However many threads read and write configuration space, each gets the
\* answer to its own operation out of the one slot of pcifront_op, which has
\* no lock: the vCPU that its callers keep protects it.
THEOREM AnswersNeverMixed == PCSpec => []OwnAnswer
<1>1. PciInv /\ [PCNext]_pcivars => PciInv'
  <2> SUFFICES ASSUME PciInv, [PCNext]_pcivars PROVE PciInv' OBVIOUS
  <2>1. CASE UNCHANGED pcivars
    BY <2>1 DEF pcivars, PciInv
  <2>2. CASE PCNext
    BY <2>2, PciInvBegins, PciInvGoesOn, PciInvBackend DEF PCNext
  <2> QED BY <2>1, <2>2
<1>2. PciInv => OwnAnswer
  BY DEF PciInv, OwnAnswer
<1> QED BY PciInvInit, <1>1, <1>2, PTL DEF PCSpec
=============================================================================
