------------------------------- MODULE PciOp --------------------------------
(***************************************************************************)
(* PCI configuration space on Xen: pcifront_conf_read and _write over the  *)
(* one operation slot that frontend and backend share (pcifront.c), as     *)
(* called from rumphyper_pci.c.  The callers are rump kernel threads and   *)
(* keep the vCPU while they wait.  A device's physical and virtual         *)
(* addresses are model values.                                             *)
(***************************************************************************)
EXTENDS Integers, Sequences

CONSTANTS PciThread, PciAddr, NoAddr,
          PciNodes,      \* the tables the toolstack may have written, see pnodes
          MaxOps         \* bound on operations

ASSUME PciAssumption == NoAddr \notin PciAddr /\ "none" \notin PciThread

VARIABLES pnodes,        \* for each device: dev-i, NoAddr if it does not parse; the
                         \* address that parsing vdev-i leaves; and whether it parses
          ppcs,          \* each thread's place
          pwant,         \* the virtual address its operation is for
          pgot,          \* what came back: the address the backend served
          pci_vcpu,      \* who has the vCPU
          info_op,       \* dev->info->op
          active,        \* _XEN_PCIF_active
          served,        \* the address the backend has served, in the slot's answer
          pci_event, pops

pcivars == <<pnodes, ppcs, pwant, pgot, pci_vcpu, info_op, active, served, pci_event, pops>>

Nil == "none"

PCInit ==
  /\ pnodes \in PciNodes
  /\ ppcs = [t \in PciThread |-> "idle"] /\ pwant = [t \in PciThread |-> NoAddr] /\ pgot = [t \in PciThread |-> NoAddr]
  /\ pci_vcpu = Nil /\ info_op = NoAddr /\ active = FALSE /\ served = NoAddr
  /\ pci_event = FALSE /\ pops = 0

\* pcifront_physical_to_virtual: the first entry for the address whose vdev
\* parses.  One that does not has overwritten the address all the same, and the
\* entries behind it are compared with what it left.
Translate(phys) ==
  LET after[i \in 0 .. Len(pnodes)] ==
        IF i = 0 THEN [addr |-> phys, found |-> FALSE]
        ELSE IF after[i - 1].found \/ pnodes[i][1] # after[i - 1].addr THEN after[i - 1]
        ELSE [addr |-> pnodes[i][2], found |-> pnodes[i][3]]
  IN after[Len(pnodes)]
physical_to_virtual(phys) == IF Translate(phys).found THEN Translate(phys).addr ELSE NoAddr

\* pcifront_conf_read and _write: the slot is filled and the backend told;
\* an unknown device is an error.
conf_op(t, phys) ==
  /\ ppcs[t] = "idle" /\ pci_vcpu = Nil /\ pops < MaxOps
  /\ IF physical_to_virtual(phys) = NoAddr THEN UNCHANGED pcivars
     ELSE /\ pops' = pops + 1 /\ pci_vcpu' = t
          /\ ppcs' = [ppcs EXCEPT ![t] = "test"] /\ pwant' = [pwant EXCEPT ![t] = physical_to_virtual(phys)]
          /\ info_op' = physical_to_virtual(phys) /\ active' = TRUE
          /\ UNCHANGED <<pnodes, pgot, served, pci_event>>

\* minios_wait_event: look at the flag, and only then join the queue.
op_tests_Inverted(t) ==
  /\ ppcs[t] = "test"
  /\ ppcs' = [ppcs EXCEPT ![t] = IF active THEN "take" ELSE "prepare"]
  /\ UNCHANGED <<pnodes, pwant, pgot, pci_vcpu, info_op, active, served, pci_event, pops>>

op_tests(t) ==
  /\ ppcs[t] = "test"
  /\ ppcs' = [ppcs EXCEPT ![t] = IF active THEN "prepare" ELSE "take"]
  /\ UNCHANGED <<pnodes, pwant, pgot, pci_vcpu, info_op, active, served, pci_event, pops>>

op_sleeps(t) ==
  /\ ppcs[t] = "prepare" /\ ppcs' = [ppcs EXCEPT ![t] = "asleep"]
  /\ UNCHANGED <<pnodes, pwant, pgot, pci_vcpu, info_op, active, served, pci_event, pops>>

pcifront_handler ==
  /\ pci_event /\ pci_event' = FALSE
  /\ ppcs' = [t \in PciThread |-> IF ppcs[t] = "asleep" THEN "test" ELSE ppcs[t]]
  /\ UNCHANGED <<pnodes, pwant, pgot, pci_vcpu, info_op, active, served, pops>>

\* The end of pcifront_op: copy the answer out.
op_takes(t) ==
  /\ ppcs[t] = "take" /\ ppcs' = [ppcs EXCEPT ![t] = "done"]
  /\ pgot' = [pgot EXCEPT ![t] = served]
  /\ UNCHANGED <<pnodes, pwant, pci_vcpu, info_op, active, served, pci_event, pops>>

op_returns(t) ==
  /\ ppcs[t] = "done" /\ ppcs' = [ppcs EXCEPT ![t] = "idle"]
  /\ pwant' = [pwant EXCEPT ![t] = NoAddr] /\ pgot' = [pgot EXCEPT ![t] = NoAddr] /\ pci_vcpu' = Nil
  /\ UNCHANGED <<pnodes, info_op, active, served, pci_event, pops>>

\* The backend serves the slot, clears the flag, then sends the event.
PciBackendServes ==
  /\ active /\ served' = info_op /\ active' = FALSE /\ pci_event' = TRUE
  /\ UNCHANGED <<pnodes, ppcs, pwant, pgot, pci_vcpu, info_op, pops>>

PCNext ==
  \/ \E t \in PciThread : \E a \in PciAddr : conf_op(t, a)
  \/ \E t \in PciThread : op_tests(t) \/ op_sleeps(t) \/ op_takes(t) \/ op_returns(t)
  \/ pcifront_handler \/ PciBackendServes

PCSpec == PCInit /\ [][PCNext]_pcivars

-----------------------------------------------------------------------------
(* A caller gets the answer to its own operation, for the virtual address  *)
(* that its device was translated to: the shared slot is not reused while  *)
(* an operation waits, and is not read before the backend has served it.   *)
(* (pcifront_op has no lock: the vCPU its callers keep is what holds the   *)
(* next one back.)                                                         *)
OwnAnswer == \A t \in PciThread : ppcs[t] = "done" => pgot[t] = pwant[t]
=============================================================================
