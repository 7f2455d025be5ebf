------------------------------ MODULE BlkName -------------------------------
(***************************************************************************)
(* The disk table of rumphyper_bio.c: names become Xen virtual device      *)
(* numbers and slots of blkdevs[], and slots are opened and closed.  A     *)
(* name is <<type, disk letter as a number, partition>>.  The rump kernel  *)
(* does not open one disk from two threads at a time.                      *)
(***************************************************************************)
EXTENDS Integers, FiniteSets

CONSTANTS DiskNames,   \* names that are opened
          BlkSlots,    \* NBLKDEV
          MaxOpen      \* bound on opens

VARIABLES blk_vbd, open_count, dev_live,   \* blkdevs[]: blk_vbd, blk_open, blk_dev # NULL
          blk_fds                          \* <<descriptor, name>> that callers hold

bnmvars == <<blk_vbd, open_count, dev_live, blk_fds>>

BlkSlot == 0 .. BlkSlots - 1

-----------------------------------------------------------------------------
\* Device numbers; -1 is an error.  The partition fills the low bits.
devname2vbd_Shift(name) ==
  LET disk == name[2]
      part == name[3]
  IN CASE part \notin 0 .. 9 -> -1
       [] name[1] = "hd" -> IF disk < 2 THEN (3 * 256) + (disk * 64) + part
                            ELSE IF disk < 4 THEN (22 * 256) + ((disk - 2) * 64) + part ELSE -1
       [] name[1] = "sd" -> IF disk > 16 THEN -1 ELSE (8 * 256) + (disk * 8) + part
       [] name[1] = "xvd" -> IF disk < 16 THEN (202 * 256) + (disk * 16) + part
                             ELSE IF disk > 25 THEN -1 ELSE (2^28) + (disk * 256) + part
       [] OTHER -> -1

devname2vbd(name) ==
  LET disk == name[2]
      part == name[3]
  IN CASE part \notin 0 .. 9 -> -1
       [] name[1] = "hd" -> IF disk < 2 THEN (3 * 256) + (disk * 64) + part
                            ELSE IF disk < 4 THEN (22 * 256) + ((disk - 2) * 64) + part ELSE -1
       [] name[1] = "sd" -> IF disk > 16 THEN -1 ELSE (8 * 256) + (disk * 16) + part
       [] name[1] = "xvd" -> IF disk < 16 THEN (202 * 256) + (disk * 16) + part
                             ELSE IF disk > 25 THEN -1 ELSE (2^28) + (disk * 256) + part
       [] OTHER -> -1

LowestSlot(vbd) ==
  {i \in BlkSlot : blk_vbd[i] = vbd /\ \A j \in 0 .. i - 1 : blk_vbd[j] # vbd}

\* The slot that has the number, else the first free one, else none.
devname2num(name) ==
  LET vbd == devname2vbd(name) IN
  CASE vbd = -1 -> {}
    [] LowestSlot(vbd) # {} -> LowestSlot(vbd)
    [] OTHER -> LowestSlot(-1)

\* rumprun_platform_rumpuser_init
BNInit ==
  /\ blk_vbd = [i \in BlkSlot |-> -1] /\ open_count = [i \in BlkSlot |-> 0]
  /\ dev_live = [i \in BlkSlot |-> FALSE] /\ blk_fds = {}

\* devopen: a second open is counted and returns 1, which its callers pass
\* on as an error; blkfront_init may fail.
devopen(i, ok) ==
  /\ open_count[i] < MaxOpen
  /\ open_count' = [open_count EXCEPT ![i] = IF @ > 0 THEN @ + 1 ELSE IF ok THEN 1 ELSE 0]
  /\ dev_live' = [dev_live EXCEPT ![i] = @ \/ ok]

\* rumpuser_open; a read-only disk that is opened for writing stays counted.
rumpuser_open(name, ok, rofs) ==
  \/ devname2num(name) = {} /\ UNCHANGED bnmvars
  \/ \E i \in devname2num(name) :
       /\ devopen(i, ok) /\ blk_vbd' = [blk_vbd EXCEPT ![i] = devname2vbd(name)]
       /\ blk_fds' = IF open_count[i] = 0 /\ ok /\ ~rofs THEN blk_fds \cup {<<i, name>>} ELSE blk_fds

Closed(i) ==
  /\ open_count' = [open_count EXCEPT ![i] = @ - 1]
  /\ dev_live' = [dev_live EXCEPT ![i] = open_count[i] # 1]

rumpuser_close_fd(fd) ==
  /\ fd \in blk_fds /\ Closed(fd[1])
  /\ blk_fds' = blk_fds \ {fd} /\ UNCHANGED blk_vbd

\* rumpuser_getfileinfo opens and closes.
rumpuser_getfileinfo(name, ok) ==
  \E i \in devname2num(name) :
    /\ blk_vbd' = [blk_vbd EXCEPT ![i] = devname2vbd(name)] /\ UNCHANGED blk_fds
    /\ IF open_count[i] = 0 THEN UNCHANGED <<open_count, dev_live>> ELSE devopen(i, ok)

BNNext ==
  \/ \E name \in DiskNames, ok, rofs \in BOOLEAN : rumpuser_open(name, ok, rofs)
  \/ \E name \in DiskNames, ok \in BOOLEAN : rumpuser_getfileinfo(name, ok)
  \/ \E fd \in blk_fds : rumpuser_close_fd(fd)

-----------------------------------------------------------------------------
(* A descriptor is good for one disk: it is held once, for one name, its   *)
(* slot has that name's device number, no other slot and no other name has *)
(* it, and its device is live until it is closed.  (devname2vbd packs      *)
(* type, letter and partition; devname2num hands out slots; devopen counts *)
(* opens.)                                                                 *)
FdsNameOneDisk ==
  /\ \A fd, ge \in blk_fds : fd[1] = ge[1] => fd = ge
  /\ \A fd \in blk_fds : blk_vbd[fd[1]] = devname2vbd(fd[2]) /\ dev_live[fd[1]]
  /\ \A i, j \in BlkSlot : i # j /\ blk_vbd[i] # -1 => blk_vbd[i] # blk_vbd[j]
  /\ \A i \in BlkSlot : dev_live[i] = (open_count[i] > 0)
  /\ \A fd \in blk_fds, m \in DiskNames : m # fd[2] => devname2vbd(m) # devname2vbd(fd[2])
=============================================================================
