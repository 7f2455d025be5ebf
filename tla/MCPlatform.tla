----------------------------- MODULE MCPlatform -----------------------------
(* Model-checking instance of what lies below the services: the kernel     *)
(* library's queues, printing and allocators, the configuration and dates; *)
(* interrupts and clocks on bare hardware; grants, block, network, PCI and *)
(* console on Xen; the stdio devices on seL4.  A behaviour is about one of *)
(* them.                                                                   *)
EXTENDS QueueMacros, Kprintf, Config, ClockSubr, Memalloc, HwIntr, HwClock, EvtDev,
        Gnttab, Gntmap, Frontend, Blkio, BlkName, NetTx, NetRx, PciOp, Xencons,
        Sel4Stdio

CONSTANTS a1, a2   \* PCI addresses

VARIABLE part

MCStars == {-5, 3}

Bin(argv, mode) == [bin |-> <<"prog">>, hasargv |-> TRUE, argv |-> argv, runmode |-> mode]
MCBins == {Bin(argv, mode) : argv \in {<<>>, <<<<"x">>>>, <<<<"x">>, <<"y", "\\", "n">>>>}, mode \in {"", "&", "|"}}
MCArgs == {<<"a">>, <<"a", " ">>, <<" ", "a">>, <<"a", " ", "b">>}
Simple(key, value) == [key |-> key, value |-> value]
Fields(key, fields) == [key |-> key, fields |-> fields]
Blk(source, fs, mp) ==
  Fields("blk", <<<<"source", <<source>>>>, <<"path", <<"img">>>>, <<"fstype", <<fs>>>>, <<"mountpoint", mp>>>>)
MCConfigs ==
  {<<>>, <<Simple("swap", <<"no">>)>>}
  \cup {<<Simple("env", <<"A">>), [key |-> "rc", bins |-> <<b, c>>], Simple("env", <<"B">>), Simple("hostname", <<"h">>)>> :
          b \in MCBins, c \in MCBins}
  \cup {<<[key |-> "cmdline", argv |-> <<<<"prog">>, a, b>>]>> : a \in MCArgs, b \in MCArgs}
  \cup {<<Blk("vnd", "blk", <<"etc", "x">>), Blk("vnd", "kernfs", <<"kern">>), Blk("etfs", "blk", <<>>),
          [key |-> "cmdline", argv |-> <<<<"prog">>>>]>>,
        <<Blk("dev", "kern", <<"kern">>), [key |-> "cmdline", argv |-> <<<<"prog">>>>]>>,
        <<Fields("net", <<<<"if", <<"xenif0">>>>, <<"cloner", <<"true">>>>, <<"type", <<"inet">>>>,
                          <<"method", <<"static">>>>, <<"addr", <<"1.2">>>>, <<"mask", <<"24">>>>, <<"gw", <<"1.1">>>>>>),
          Fields("net", <<<<"if", <<"vioif0">>>>, <<"type", <<"inet6">>>>, <<"method", <<"auto">>>>>>),
          [key |-> "cmdline", argv |-> <<<<"prog">>>>]>>}
MCLayouts == {<<>>, <<"skipped">>, <<"ROOTCFG">>}

MCDiskNames ==
  {<<"hd", 2, 0>>, <<"hd", 4, 0>>, <<"sd", 0, 8>>, <<"sd", 1, 0>>, <<"xvd", 15, 9>>, <<"xvd", 16, 0>>}
MCNodes ==
  {<<<<a1, a2, TRUE>>, <<a2, a1, TRUE>>>>,
   <<<<a1, a1, FALSE>>, <<NoAddr, a1, TRUE>>, <<a1, a2, TRUE>>>>,
   <<<<a1, a2, FALSE>>, <<a2, a1, TRUE>>>>}
MCTexts == UNION {[1 .. n -> {"a", "b", LF}] : n \in 1 .. 4}

\* The parts that do not move are in one of their initial states.
QRest == kind = "SLIST" /\ QInit
KRest == size = 0 /\ bmk_dmesgoff = 0 /\ KInit
CRest == config = <<>> /\ cmdline = <<"none">> /\ CInit
HIRest == HIInit /\ ~screw_routing
HCRest == clock = "pv" /\ HCInit
FERest == drv = "blk" /\ be = XenbusStateInitWait /\ FEInit
PCRest == pnodes = <<<<a1, a2, TRUE>>, <<a2, a1, TRUE>>>> /\ PCInit
XCRest == text = <<"a">> /\ console_initialised = TRUE /\ console_evtchn = TRUE /\ out_prod = 0 /\ XCInit

Init ==
  /\ part \in {"queues", "printf", "config", "dates", "memory", "intr", "clock", "evtdev", "gnttab",
               "gntmap", "frontend", "blkio", "blkname", "nettx", "netrx", "pci", "console", "stdio"}
  /\ DInit /\ MemInit /\ EDInit /\ GRInit /\ GMInit /\ BKInit /\ BNInit /\ NTInit /\ NRInit /\ SIInit
  /\ IF part = "queues" THEN QInit ELSE QRest
  /\ IF part = "printf" THEN KInit ELSE KRest
  /\ IF part = "config" THEN CInit ELSE CRest
  /\ IF part = "intr" THEN HIInit ELSE HIRest
  /\ IF part = "clock" THEN HCInit ELSE HCRest
  /\ IF part = "frontend" THEN FEInit ELSE FERest
  /\ IF part = "pci" THEN PCInit ELSE PCRest
  /\ IF part = "console" THEN XCInit ELSE XCRest

Moves(p) == part = p /\ UNCHANGED part

LibrarySide == <<qvars, kvars, cvars, dvars, mvars>>
BusSide == <<hwivars, hwcvars, evdvars, gntvars, gmpvars, fevars>>
DriverSide == <<blkvars, bnmvars, txvars, rxvars, pcivars, consvars, stdiovars>>

Next ==
  \/ Moves("queues") /\ QNext /\ UNCHANGED <<kvars, cvars, dvars, mvars, BusSide, DriverSide>>
  \/ Moves("printf") /\ KNext /\ UNCHANGED <<qvars, cvars, dvars, mvars, BusSide, DriverSide>>
  \/ Moves("config") /\ CNext /\ UNCHANGED <<qvars, kvars, dvars, mvars, BusSide, DriverSide>>
  \/ Moves("dates") /\ DNext /\ UNCHANGED <<qvars, kvars, cvars, mvars, BusSide, DriverSide>>
  \/ Moves("memory") /\ MemNext /\ UNCHANGED <<qvars, kvars, cvars, dvars, BusSide, DriverSide>>
  \/ Moves("intr") /\ HINext /\ UNCHANGED <<hwcvars, evdvars, gntvars, gmpvars, fevars, LibrarySide, DriverSide>>
  \/ Moves("clock") /\ HCNext /\ UNCHANGED <<hwivars, evdvars, gntvars, gmpvars, fevars, LibrarySide, DriverSide>>
  \/ Moves("evtdev") /\ EDNext /\ UNCHANGED <<hwivars, hwcvars, gntvars, gmpvars, fevars, LibrarySide, DriverSide>>
  \/ Moves("gnttab") /\ GRNext /\ UNCHANGED <<hwivars, hwcvars, evdvars, gmpvars, fevars, LibrarySide, DriverSide>>
  \/ Moves("gntmap") /\ GMNext /\ UNCHANGED <<hwivars, hwcvars, evdvars, gntvars, fevars, LibrarySide, DriverSide>>
  \/ Moves("frontend") /\ FENext /\ UNCHANGED <<hwivars, hwcvars, evdvars, gntvars, gmpvars, LibrarySide, DriverSide>>
  \/ Moves("blkio") /\ BKNext /\ UNCHANGED <<bnmvars, txvars, rxvars, pcivars, consvars, stdiovars, LibrarySide, BusSide>>
  \/ Moves("blkname") /\ BNNext /\ UNCHANGED <<blkvars, txvars, rxvars, pcivars, consvars, stdiovars, LibrarySide, BusSide>>
  \/ Moves("nettx") /\ NTNext /\ UNCHANGED <<blkvars, bnmvars, rxvars, pcivars, consvars, stdiovars, LibrarySide, BusSide>>
  \/ Moves("netrx") /\ NRNext /\ UNCHANGED <<blkvars, bnmvars, txvars, pcivars, consvars, stdiovars, LibrarySide, BusSide>>
  \/ Moves("pci") /\ PCNext /\ UNCHANGED <<blkvars, bnmvars, txvars, rxvars, consvars, stdiovars, LibrarySide, BusSide>>
  \/ Moves("console") /\ XCNext /\ UNCHANGED <<blkvars, bnmvars, txvars, rxvars, pcivars, stdiovars, LibrarySide, BusSide>>
  \/ Moves("stdio") /\ SINext /\ UNCHANGED <<blkvars, bnmvars, txvars, rxvars, pcivars, consvars, LibrarySide, BusSide>>

Spec == Init /\ [][Next]_<<part, LibrarySide, BusSide, DriverSide>>
=============================================================================
