------------------------ MODULE KernelDevice_proof ------------------------
(***************************************************************************)
(* Proofs about the devices of the module and the disks of the daemon: the *)
(* inductive invariant DeviceInv of KernelDevice, for any set of disks,    *)
(* sizes and bounds, and the properties that follow from it.               *)
(*                                                                         *)
(* Each conjunct of DeviceInv has its own step lemma; DevicesStay,         *)
(* DaemonStays and BitmapsStay say once which actions leave what alone, so *)
(* that a step lemma only looks at the actions that can disturb it.        *)
(***************************************************************************)
EXTENDS KernelDevice, SequenceTheorems, WellFoundedInduction, TLAPS

-----------------------------------------------------------------------------
(* Facts about the operators of the model.                                 *)

\* The first of the disk rows that keep db_init from finishing is one of them.
LEMMA LeastIn ==
  ASSUME NEW S, S \subseteq Nat, S # {} PROVE Least(S) \in S
<1>1. IsWellFoundedOn(OpToRel(<, Nat), Nat)
  BY NatLessThanWellFounded
<1> DEFINE R == OpToRel(<, Nat)
<1>2. \E x \in S : \A y \in S : ~(<<y, x>> \in R)
  <2> HIDE DEF R
  <2>1. IsWellFoundedOn(R, Nat)
    BY <1>1 DEF R
  <2> QED
    BY <2>1, WFMin
<1>3. PICK x \in S : \A y \in S : ~(<<y, x>> \in R)
  BY <1>2
<1>4. ASSUME NEW y \in S PROVE x <= y
  <2>1. x \in Nat /\ y \in Nat
    OBVIOUS
  <2>2. y < x => <<y, x>> \in OpToRel(<, Nat)
    BY <2>1 DEF OpToRel
  <2>3. ~(y < x)
    BY <1>3, <2>2
  <2> QED
    BY <2>1, <2>3
<1> QED
  BY <1>4 DEF Least

\* Numbers of devices, slots and partners.
LEMMA Numbers ==
  /\ MaxDevices \in Nat /\ MaxCreates \in Nat
  /\ \A m : m \in Minors <=> m \in Nat /\ m > 0 /\ m <= MaxCreates + 1
  /\ \A m : m \in Index <=> m \in Nat /\ m <= MaxDevices + MaxCreates + 1
  /\ \A p \in Pids : p \in Nat /\ p < MaxDevices
BY KernelDeviceAssumption DEF Minors, Index, Pids

\* Minors and slots are numbers of the ioctl index, a partner has a slot of
\* its own, and what a start leaves has its type.
LEMMA Slots1 ==
  /\ Minors \subseteq Index /\ 0 \in Index
  /\ \A p \in Pids : Slot(p) \in Index
  /\ \A p, q \in Pids : Slot(p) = Slot(q) => p = q
  /\ NoThread \in Loads /\ NoCmd \in Cmds /\ NoSlot \in Slots
  /\ NoBitmap \in Bitmaps /\ NoDevice \in Devices
<1>1. Minors \subseteq Index /\ 0 \in Index
  BY Numbers
<1>2. \A p \in Pids : Slot(p) \in Index
  BY Numbers DEF Slot
<1>3. \A p, q \in Pids : Slot(p) = Slot(q) => p = q
  BY Numbers DEF Slot
<1> QED
  BY <1>1, <1>2, <1>3 DEF NoThread, Loads, NoCmd, Cmds, NoSlot, Slots, NoBitmap,
     Bitmaps, NoDevice, Devices

\* A command or a stop is counted.
LEMMA Ticks ==
  ASSUME TypeOK, NEW f \in {"loads", "creates", "grains", "stops"}, NEW max,
         Tick(f, max)
  PROVE  /\ count' \in Counts /\ count'[f] = count[f] + 1 /\ count[f] < max
         /\ \A g \in {"loads", "creates", "grains", "stops"} :
              count[g] \in Nat /\ (g # f => count'[g] = count[g])
BY DEF Tick, TypeOK, Counts

\* is_disk_created keeps the types.
LEMMA TypeCreate ==
  ASSUME TypeOK, (\E d \in Disks, s \in Sizes : CreateBegin(d, s)) \/ CreateSearch
                 \/ CreateRefused
  PROVE  TypeOK'
<1>1. CASE \E d \in Disks, s \in Sizes : CreateBegin(d, s)
  <2>1. PICK d \in Disks, s \in Sizes : CreateBegin(d, s)
    BY <1>1
  <2>2. /\ cmd' = [pc |-> "search", disk |-> d, size |-> s, saved |-> index,
                   exists |-> FALSE]
        /\ mixed' \in BOOLEAN
    BY <2>1 DEF CreateBegin, TypeOK
  <2>3. cmd' \in Cmds
    BY <2>2, KernelDeviceAssumption DEF Cmds, TypeOK
  <2>4. count' \in Counts
    BY <2>1, Ticks DEF CreateBegin
  <2> QED
    BY <2>1, <2>2, <2>3, <2>4 DEF TypeOK, CreateBegin, kernelVars, callVars,
       daemonVars, rowVars
<1>2. CASE CreateSearch
  <2>1. cmd' \in Cmds
    BY <1>2 DEF CreateSearch, TypeOK, Cmds, BlkdevSearch
  <2> QED
    BY <1>2, <2>1 DEF TypeOK, CreateSearch, kernelVars, daemonVars, rowVars, histVars
<1>3. CASE CreateRefused
  <2>1. cmd' \in Cmds /\ index' \in Index
    BY <1>3, Slots1 DEF CreateRefused, RestoreIoctl, TypeOK, Cmds
  <2> QED
    BY <1>3, <2>1 DEF TypeOK, CreateRefused, kernelVars, daemonVars, rowVars, histVars
<1> QED
  BY <1>1, <1>2, <1>3

\* --setgrain keeps the types.
LEMMA TypeSetGrain ==
  ASSUME TypeOK, NEW s \in Sizes, SetGrain(s) PROVE TypeOK'
<1>1. s \in Nat
  BY KernelDeviceAssumption
<1>2. count' \in Counts
  BY Ticks DEF SetGrain
<1>3. mixed' \in BOOLEAN /\ kindex' \in Index
  BY DEF SetGrain, TypeOK
<1>4. cmd' \in Cmds
  BY DEF SetGrain, TypeOK, Cmds
<1>5. /\ bm' \in [Index -> Bitmaps] /\ vsz' \in [Minors -> Nat]
      /\ \A m \in Index : bm'[m].made = bm[m].made
  <2>1. bm' = bm \/ bm' = [bm EXCEPT ![glob].size = s]
    BY DEF SetGrain
  <2>2. vsz' = vsz \/ vsz' = [vsz EXCEPT ![minor] = s]
    BY DEF SetGrain
  <2>3. bm \in [Index -> Bitmaps] /\ glob \in Index
    BY DEF TypeOK
  <2>4. bm' \in [Index -> Bitmaps] /\ \A m \in Index : bm'[m].made = bm[m].made
    BY <1>1, <2>1, <2>3 DEF Bitmaps
  <2>5. vsz' \in [Minors -> Nat]
    BY <1>1, <2>2 DEF TypeOK
  <2> QED
    BY <2>4, <2>5
<1> QED
  BY <1>2, <1>3, <1>4, <1>5 DEF TypeOK, SetGrain, daemonVars, rowVars

\* The partner rows keep their type.
LEMMA TypeRows ==
  ASSUME TypeOK, NEW p \in Pids,
         \/ MakePartner(p) /\ prows' = Append(prows, [pid |-> p, inUse |-> TRUE])
         \/ \E v \in BOOLEAN : SetRow(p, v)
  PROVE  prows' \in Seq(PRows)
<1>1. CASE prows' = Append(prows, [pid |-> p, inUse |-> TRUE])
  <2>1. [pid |-> p, inUse |-> TRUE] \in PRows /\ prows \in Seq(PRows)
    BY DEF PRows, TypeOK
  <2> QED
    BY <1>1, <2>1
<1>2. ASSUME NEW v \in BOOLEAN, SetRow(p, v) PROVE prows' \in Seq(PRows)
  <2>1. prows \in Seq(PRows) /\ DOMAIN prows = 1 .. Len(prows) /\ Len(prows) \in Nat
    BY DEF TypeOK
  <2>2. \A i \in 1 .. Len(prows) : prows[i] \in PRows
    BY <2>1
  <2>3. prows' \in [1 .. Len(prows) -> PRows]
    BY <1>2, <2>1, <2>2 DEF SetRow, PRows
  <2> QED
    BY <2>1, <2>3, SeqDef
<1> QED
  BY <1>1, <1>2

\* make_partner, the start of a load and terminate keep the types.
LEMMA TypePartner ==
  ASSUME TypeOK, NEW p \in Pids, MakePartner(p) \/ LoadStart(p) \/ Terminate(p)
  PROVE  TypeOK'
<1>1. CASE MakePartner(p)
  <2>1. prows' \in Seq(PRows)
    BY <1>1, TypeRows DEF MakePartner
  <2> QED
    BY <1>1, <2>1 DEF TypeOK, MakePartner, kernelVars, callVars, daemonVars, histVars
<1>2. CASE LoadStart(p)
  <2>1. prows' \in Seq(PRows)
    BY <1>2, TypeRows DEF LoadStart
  <2>2. th' \in [Pids -> Loads]
    BY <1>2 DEF LoadStart, TypeOK, Loads, NoThread
  <2>3. count' \in Counts
    BY <1>2, Ticks DEF LoadStart
  <2>4. index' \in Index /\ mixed' \in BOOLEAN
    BY <1>2, Slots1 DEF LoadStart, TypeOK
  <2> QED
    BY <1>2, <2>1, <2>2, <2>3, <2>4 DEF TypeOK, LoadStart, kernelVars, daemonVars
<1>3. CASE Terminate(p)
  <2>1. prows' \in Seq(PRows)
    BY <1>3, TypeRows DEF Terminate
  <2>2. th' \in [Pids -> Loads] /\ recov' \subseteq Pids
    BY <1>3, Slots1 DEF Terminate, TypeOK
  <2> QED
    BY <1>3, <2>1, <2>2 DEF TypeOK, Terminate, kernelVars, callVars, histVars
<1> QED
  BY <1>1, <1>2, <1>3

\* A flip moves the bitmap of one device and nothing else of it.
LEMMA Flips ==
  ASSUME TypeOK, NEW m \in Index, bm[m].made
  PROVE  /\ Flip(m) \in [Index -> Bitmaps]
         /\ \A i \in Index : i # m => Flip(m)[i] = bm[i]
         /\ Flip(m)[m].made = bm[m].made /\ Flip(m)[m].size = bm[m].size
         /\ Flip(m)[m].user = IF bm[m].user = "USER" THEN "KERNEL" ELSE "USER"
         /\ Flip(m)[m].off = IF bm[m].user = "USER" THEN 0
                                                   ELSE bm[m].off + vsz[m]
<1>1. m \in Minors /\ vsz[m] \in Nat /\ bm \in [Index -> Bitmaps]
  BY DEF TypeOK
<1>2. CASE bm[m].user = "USER"
  <2>1. Flip(m) = [bm EXCEPT ![m].off = 0, ![m].user = "KERNEL"]
    BY <1>2 DEF Flip
  <2> QED
    BY <1>1, <1>2, <2>1 DEF Bitmaps
<1>3. CASE bm[m].user # "USER"
  <2>1. Flip(m) = [bm EXCEPT ![m].off = @ + vsz[m], ![m].user = "USER"]
    BY <1>3 DEF Flip
  <2> QED
    BY <1>1, <1>3, <2>1 DEF Bitmaps
<1> QED
  BY <1>2, <1>3

\* Every step of a load keeps the types.
LEMMA TypeLoadStep == ASSUME TypeOK, NEW p \in Pids, LoadStep(p) PROVE TypeOK'
<1>1. CASE CopyNowhere(p)
  BY <1>1, Slots1 DEF CopyNowhere, Stopped, TypeOK, kernelVars, callVars, rowVars,
     histVars
<1>2. CASE IoctlCopy(p) \/ IoctlLock(p) \/ IoctlUnlock(p) \/ Oops(p)
  <2>1. PICK c \in {"copied", "locked", "done", "copying", "dead"} :
          th' = [th EXCEPT ![p].pc = c]
    BY <1>2 DEF IoctlCopy, IoctlLock, IoctlUnlock, Oops
  <2>2. th' \in [Pids -> Loads]
    BY ZenonT(60), <2>1 DEF TypeOK, Loads
  <2>3. held' \subseteq Index /\ kindex' \in Index
    BY <1>2 DEF IoctlCopy, IoctlLock, IoctlUnlock, Oops, TypeOK, callVars
  <2> QED
    BY <1>2, <2>2, <2>3 DEF IoctlCopy, IoctlLock, IoctlUnlock, Oops,
       TypeOK, kernelVars, callVars, daemonVars, rowVars, histVars
<1>3. CASE IoctlAct(p)
  <2>1. th' \in [Pids -> Loads]
    <3>1. bm[kindex].user \in {"KERNEL", "USER"}
      BY DEF TypeOK, Bitmaps
    <3>2. th' = [th EXCEPT ![p].pc = "acted", ![p].user = bm[kindex].user]
      BY <1>3 DEF IoctlAct
    <3>3. th \in [Pids -> Loads] /\ th[p] \in Loads
      BY DEF TypeOK
    <3>4. ASSUME NEW u \in {"KERNEL", "USER"}
          PROVE  [th[p] EXCEPT !.pc = "acted", !.user = u] \in Loads
      BY <3>3 DEF Loads
    <3>5. th' = [th EXCEPT ![p] = [th[p] EXCEPT !.pc = "acted", !.user = bm[kindex].user]]
      BY <3>2, <3>3
    <3> QED
      BY <3>1, <3>3, <3>4, <3>5
  <2>2. /\ bm' \in [Index -> Bitmaps]
        /\ \A m \in Index : bm'[m].made => m \in Minors
    BY <1>3, Flips DEF IoctlAct, TypeOK
  <2> QED
    BY <1>3, <2>1, <2>2 DEF IoctlAct, TypeOK, callVars, daemonVars, rowVars, histVars
<1>4. CASE CopyHalf(p)
  <2>1. \/ th' = [th EXCEPT ![p] = [@ EXCEPT !.pc = "call", !.call = "FLIP",
                    !.took = Half(th[p].user), !.flips = TRUE]]
        \/ \E h \in {0, 1} : th' = [th EXCEPT ![p] =
             [@ EXCEPT !.pc = "done", !.took = h, !.flips = FALSE]]
    BY <1>4 DEF CopyHalf
  <2>2. Half(th[p].user) \in {0, 1}
    BY DEF Half
  <2>3. th' \in [Pids -> Loads]
    <3>1. th \in [Pids -> Loads]
      BY DEF TypeOK
    <3>2. ASSUME NEW h \in {0, 1}, NEW f \in BOOLEAN, NEW k \in {"GET_USER", "FLIP"},
                 NEW c \in {"call", "done"}
          PROVE  [th[p] EXCEPT !.pc = c, !.call = k, !.took = h, !.flips = f] \in Loads
      BY ZenonT(60), <3>1 DEF Loads
    <3>3. ASSUME NEW h \in {0, 1}
          PROVE  [th[p] EXCEPT !.pc = "done", !.took = h, !.flips = FALSE] \in Loads
      BY ZenonT(60), <3>1 DEF Loads
    <3>4. PICK r \in Loads : th' = [th EXCEPT ![p] = r]
      BY <2>1, <2>2, <3>2, <3>3
    <3> QED
      BY <3>1, <3>4
  <2> QED
    BY <1>4, <2>3 DEF CopyHalf, TypeOK, kernelVars, callVars, daemonVars, rowVars,
       histVars
<1> QED
  BY <1>1, <1>2, <1>3, <1>4 DEF LoadStep

\* The end of the daemon keeps the types.
LEMMA TypeStop == ASSUME TypeOK, Stop PROVE TypeOK'
<1>1. count' \in Counts /\ th' \in [Pids -> Loads]
  BY Ticks, Slots1 DEF Stop, Stopped
<1> QED
  BY <1>1 DEF Stop, TypeOK, kernelVars, callVars, rowVars, histVars

-----------------------------------------------------------------------------
(* The end of --create, restarts and unloads.                              *)

\* Where --create stands when it sends EBDRCTL_DEV_CREATE: the next minor, the
\* next slot and the next row have the same number.
LEMMA NextDevice ==
  ASSUME DeviceInv, run = "up", cmd.pc = "restore"
  PROVE  /\ minor = Len(drows) + 1 /\ ds_count = Len(drows) /\ Slot(ds_count) = minor
         /\ Len(drows) \in Nat /\ Len(drows) + 1 <= MaxCreates
         /\ minor \in Minors /\ minor + 1 \in Minors /\ minor \in Index
         /\ ds_count + 1 \in 0 .. MaxCreates
         /\ minor \notin nodes
<1>1. /\ TypeOK /\ UpInv /\ CountInv /\ MinorInv
  BY DEF DeviceInv
<1>2. Pending = 1
  BY DEF Pending
<1>3. /\ Len(drows) \in Nat /\ count.creates \in Nat /\ minor \in Nat /\ ds_count \in Nat
      /\ minor \in Minors
  BY <1>1, Numbers DEF TypeOK, Counts
<1>4. Len(drows) + 1 <= MaxCreates
  BY <1>1, <1>2, <1>3, Numbers DEF CountInv
<1>5. ds_count = Len(drows) /\ ds_count = minor - 1
  BY <1>1 DEF UpInv
<1>6. nodes = 1 .. minor - 1
  BY <1>1 DEF MinorInv
<1> QED
  BY <1>3, <1>4, <1>5, <1>6, Numbers DEF Slot

\* A --create that succeeds.
CreateOk(d, z) ==
  /\ minor' = minor + 1 /\ nodes' = nodes \cup {minor}
  /\ vsz' = [vsz EXCEPT ![minor] = z] /\ area' = [area EXCEPT ![minor] = z]
  /\ dev' = [dev EXCEPT ![minor] = [name |-> d, attached |-> TRUE, opened |-> TRUE]]
  /\ bm' = [bm EXCEPT ![minor] = [made |-> TRUE, user |-> "KERNEL", off |-> 0,
                                 size |-> z]]
  /\ glob' = minor
  /\ slot' = [slot EXCEPT ![minor] = [name |-> d, size |-> z, mapped |-> TRUE]]
  /\ ds_count' = ds_count + 1 /\ UNCHANGED <<run, th, failed>>

\* A --create that fails: the daemon ends.
CreateFails(z) ==
  /\ minor' = minor /\ nodes' = nodes
  /\ vsz' = [vsz EXCEPT ![minor] = z]
  /\ area' \in [Minors -> Nat] /\ \A m \in Minors : m # minor => area'[m] = area[m]
  /\ dev' \in [Minors -> Devices] /\ \A m \in Minors : dev'[m].name = dev[m].name
  /\ bm' \in [Index -> Bitmaps] /\ \A m \in Index : m # minor => bm'[m] = bm[m]
  /\ glob' \in Index /\ slot' \in [Index -> Slots] /\ ds_count' = ds_count
  /\ run' = "down" /\ Stopped /\ failed' = TRUE

\* The rest of --create has one of two outcomes: either both sides have one
\* device more, or the daemon ends and no device that was there is touched.
LEMMA CreateFinishes ==
  ASSUME DeviceInv, NEW why \in {"ok", "alloc", "class", "attach"}, CreateFinish(why)
  PROVE  /\ run = "up" /\ cmd.pc = "restore" /\ cmd' = NoCmd
         /\ cmd.size \in Nat /\ cmd.disk \in Disks \cup {None} /\ cmd.saved \in Index
         /\ drows' = Append(drows, [name |-> cmd.disk, size |-> cmd.size])
         /\ index' = cmd.saved /\ kindex' = cmd.saved
         /\ UNCHANGED <<held, recov, prows, count, mixed, reloaded, grown>>
         /\ CreateOk(cmd.disk, cmd.size) \/ CreateFails(cmd.size)
<1>1. /\ run = "up" /\ cmd.pc = "restore" /\ cmd' = NoCmd
      /\ drows' = Append(drows, [name |-> cmd.disk, size |-> cmd.size])
      /\ index' = cmd.saved /\ kindex' = cmd.saved
      /\ UNCHANGED <<held, recov, prows, count, mixed, reloaded, grown>>
      /\ failed' = (failed \/ why # "ok")
  BY DEF CreateFinish, RestoreIoctl, DiskSourceCreate
<1>2. cmd.size \in Nat /\ cmd.disk \in Disks \cup {None} /\ cmd.saved \in Index
  BY DEF DeviceInv, TypeOK, Cmds
<1>3. /\ Slot(ds_count) = minor /\ minor \notin nodes /\ minor \in Minors
      /\ minor \in Index /\ TypeOK
  BY <1>1, NextDevice DEF DeviceInv
<1>4. slot' = [slot EXCEPT ![minor] = [name |-> cmd.disk, size |-> cmd.size,
                                      mapped |-> minor \in nodes']]
  BY <1>3 DEF CreateFinish, DiskSourceCreate
<1>5. \/ minor \in nodes' /\ ds_count' = ds_count + 1 /\ UNCHANGED <<run, th>>
      \/ minor \notin nodes' /\ run' = "down" /\ Stopped /\ ds_count' = ds_count
  BY <1>3 DEF CreateFinish
<1>6. CASE why = "ok"
  <2>1. /\ vsz' = [vsz EXCEPT ![minor] = cmd.size]
        /\ area' = [area EXCEPT ![minor] = cmd.size]
        /\ nodes' = nodes \cup {minor} /\ minor' = minor + 1 /\ glob' = minor
        /\ dev' = [dev EXCEPT ![minor] =
                     [name |-> cmd.disk, attached |-> TRUE, opened |-> TRUE]]
        /\ bm' = [bm EXCEPT ![minor] = [made |-> TRUE, user |-> "KERNEL", off |-> 0,
                                       size |-> cmd.size]]
    BY <1>6 DEF CreateFinish, DeviceCreate, AllocMemoryMmap, RegisterMemctl, InitBmap,
       AttachBlkdev
  <2>2. minor \in nodes' /\ failed' = failed
    BY <1>1, <1>3, <1>6, <2>1 DEF TypeOK
  <2> QED
    BY <1>1, <1>2, <1>4, <1>5, <2>1, <2>2 DEF CreateOk
<1>7. CASE why # "ok"
  <2>1. DeviceCreate(cmd.disk, cmd.size, why)
    BY DEF CreateFinish
  <2>2. minor' = minor /\ nodes' = nodes /\ vsz' = [vsz EXCEPT ![minor] = cmd.size]
    BY <1>7, <2>1 DEF DeviceCreate, MinorCleanup
  <2>3. \E n \in Nat : area' = [area EXCEPT ![minor] = n] \/ area' = area
    BY <1>2, <1>7, <2>1 DEF DeviceCreate, MinorCleanup, AllocMemoryMmap
  <2>4. /\ area' \in [Minors -> Nat]
        /\ \A m \in Minors : m # minor => area'[m] = area[m]
    BY <1>3, <2>3 DEF TypeOK
  <2>5. /\ dev' \in [Minors -> Devices]
        /\ \A m \in Minors : dev'[m].name = dev[m].name
    <3>1. \/ dev' = dev
          \/ dev' = [m \in Minors |-> IF m \in 1 .. minor - 1
                       THEN [dev[m] EXCEPT !.attached = FALSE] ELSE dev[m]]
      BY <1>7, <2>1 DEF DeviceCreate, MinorCleanup, BlkdevDestroy
    <3>2. ASSUME NEW m \in Minors
          PROVE  /\ dev[m] \in Devices
                 /\ [dev[m] EXCEPT !.attached = FALSE] \in Devices
                 /\ [dev[m] EXCEPT !.attached = FALSE].name = dev[m].name
      BY <1>3 DEF TypeOK, Devices
    <3>3. CASE dev' = dev
      BY <1>3, <3>3 DEF TypeOK
    <3>4. CASE dev' = [m \in Minors |-> IF m \in 1 .. minor - 1
                         THEN [dev[m] EXCEPT !.attached = FALSE] ELSE dev[m]]
      BY <3>2, <3>4
    <3> QED
      BY <3>1, <3>3, <3>4
  <2>6. /\ bm' \in [Index -> Bitmaps] /\ \A m \in Index : m # minor => bm'[m] = bm[m]
        /\ glob' \in Index
    <3>1. \/ bm' = bm /\ glob' = glob
          \/ bm' = [bm EXCEPT ![minor] = [made |-> TRUE, user |-> "KERNEL", off |-> 0,
                                         size |-> cmd.size]] /\ glob' = minor
      BY <1>7, <2>1 DEF DeviceCreate, InitBmap
    <3>2. bm \in [Index -> Bitmaps] /\ glob \in Index
      BY <1>3 DEF TypeOK
    <3>3. [made |-> TRUE, user |-> "KERNEL", off |-> 0, size |-> cmd.size] \in Bitmaps
      BY <1>2 DEF Bitmaps
    <3> QED
      BY <1>3, <3>1, <3>2, <3>3
  <2>7. slot' \in [Index -> Slots]
    BY <1>2, <1>3, <1>4 DEF TypeOK, Slots
  <2>8. minor \notin nodes' /\ failed' = TRUE
    BY <1>1, <1>3, <1>7, <2>2
  <2> QED
    BY <1>1, <1>2, <1>5, <2>2, <2>4, <2>5, <2>6, <2>7, <2>8 DEF CreateFails
<1> QED
  BY <1>6, <1>7

\* The end of --create keeps the types.
LEMMA TypeCreateFinish ==
  ASSUME DeviceInv, NEW why \in {"ok", "alloc", "class", "attach"}, CreateFinish(why)
  PROVE  TypeOK'
<1>1. /\ TypeOK /\ minor \in Minors /\ minor \in Index /\ minor + 1 \in Minors
      /\ ds_count + 1 \in 0 .. MaxCreates /\ ds_count \in 0 .. MaxCreates
  BY CreateFinishes, NextDevice DEF DeviceInv, TypeOK
<1>2. cmd.size \in Nat /\ cmd.disk \in Disks \cup {None} /\ cmd.saved \in Index
  BY CreateFinishes
<1>3. /\ cmd' \in Cmds /\ index' \in Index /\ kindex' \in Index
      /\ UNCHANGED <<held, recov, prows, count, mixed, reloaded>>
  BY CreateFinishes, Slots1
<1>4. drows' \in Seq(DRows)
  <2>1. [name |-> cmd.disk, size |-> cmd.size] \in DRows /\ drows \in Seq(DRows)
    BY <1>1, <1>2 DEF DRows, TypeOK
  <2> QED
    BY <2>1, CreateFinishes
<1>5. CASE CreateOk(cmd.disk, cmd.size)
  <2>1. dev' \in [Minors -> Devices]
    BY <1>1, <1>2, <1>5 DEF CreateOk, TypeOK, Devices
  <2>2. /\ bm' \in [Index -> Bitmaps]
        /\ \A m \in Index : bm'[m].made => m \in Minors
    BY <1>1, <1>2, <1>5 DEF CreateOk, TypeOK, Bitmaps
  <2>3. slot' \in [Index -> Slots]
    BY <1>1, <1>2, <1>5 DEF CreateOk, TypeOK, Slots
  <2>4. area' \in [Minors -> Nat] /\ vsz' \in [Minors -> Nat]
    BY <1>1, <1>2, <1>5 DEF CreateOk, TypeOK
  <2> QED
    BY <1>1, <1>3, <1>4, <1>5, <2>1, <2>2, <2>3, <2>4 DEF CreateOk, TypeOK
<1>6. CASE CreateFails(cmd.size)
  <2>1. vsz' \in [Minors -> Nat] /\ th' \in [Pids -> Loads]
    BY <1>1, <1>2, <1>6, Slots1 DEF CreateFails, TypeOK, Stopped
  <2>2. \A m \in Index : bm'[m].made => m \in Minors
    BY <1>1, <1>6 DEF CreateFails, TypeOK
  <2> QED
    BY <1>1, <1>3, <1>4, <1>6, <2>1, <2>2 DEF CreateFails, TypeOK
<1> QED
  BY <1>5, <1>6, CreateFinishes

\* An unload of the module keeps the types.
LEMMA TypeReload == ASSUME TypeOK, Reload PROVE TypeOK'
<1>1. count' \in Counts
  BY Ticks DEF Reload
<1>2. /\ dev' \in [Minors -> Devices] /\ bm' \in [Index -> Bitmaps]
      /\ \A m \in Index : ~bm'[m].made
      /\ area' \in [Minors -> Nat] /\ vsz' \in [Minors -> Nat]
  BY Slots1 DEF Reload, NoBitmap
<1>3. 1 \in Minors /\ 0 \in Index
  BY Numbers
<1> QED
  BY <1>1, <1>2, <1>3 DEF Reload, TypeOK, daemonVars, rowVars

\* db_init keeps the types.
LEMMA TypeRestart == ASSUME DeviceInv, Restart PROVE TypeOK'
<1>1. TypeOK /\ CountInv
  BY DEF DeviceInv
<1>2. count' \in Counts
  BY <1>1, Ticks DEF Restart
<1>3. RecoveryPids \subseteq Pids
  <2>1. \A i \in DOMAIN prows : prows[i] \in PRows
    BY <1>1 DEF TypeOK
  <2> QED
    BY <2>1 DEF RecoveryPids, PRows
<1>4. \A p \in Index : DiskRow(p) \in Slots
  <2>1. \A i \in 1 .. Len(drows) : drows[i] \in DRows
    BY <1>1 DEF TypeOK
  <2>2. ASSUME NEW p \in 1 .. Len(drows)
        PROVE  [name |-> drows[p].name, size |-> drows[p].size, mapped |-> p \in nodes]
                 \in Slots
    BY <2>1 DEF DRows, Slots
  <2> QED
    BY <2>2, Slots1 DEF DiskRow
<1>5. slot' \in [Index -> Slots]
  BY <1>4 DEF Restart
<1>6. ds_count' \in 0 .. MaxCreates
  <2>1. Len(drows) \in Nat /\ Len(drows) <= MaxCreates
    <3>1. Len(drows) \in Nat /\ count.creates \in Nat /\ Pending \in {0, 1}
      BY <1>1 DEF TypeOK, Counts, Pending
    <3> QED
      BY <1>1, <3>1, Numbers DEF CountInv
  <2>2. ds_count' = Len(drows) \/ ds_count' = 0
    BY DEF Restart
  <2> QED
    BY <2>1, <2>2, Numbers
<1>7. run' \in {"up", "hung", "gone"} /\ index' \in Index /\ cmd' \in Cmds
  BY Slots1 DEF Restart
<1>8. /\ recov' = RecoveryPids
      /\ UNCHANGED <<kernelVars, held, kindex, th, rowVars, histVars>>
  BY DEF Restart
<1> QED
  BY <1>1, <1>2, <1>3, <1>5, <1>6, <1>7, <1>8
     DEF TypeOK, kernelVars, rowVars, histVars

\* The types hold at the start.
LEMMA TypeInit == Init => TypeOK
<1> SUFFICES ASSUME Init PROVE TypeOK
  OBVIOUS
<1>1. 1 \in Minors /\ 0 \in Index /\ 0 \in 0 .. MaxCreates
  BY Numbers
<1>2. /\ dev \in [Minors -> Devices] /\ bm \in [Index -> Bitmaps]
      /\ \A m \in Index : ~bm[m].made
      /\ area \in [Minors -> Nat] /\ vsz \in [Minors -> Nat]
      /\ th \in [Pids -> Loads] /\ slot \in [Index -> Slots] /\ cmd \in Cmds
  BY Slots1 DEF Init, KernelInit, NoBitmap
<1> QED
  BY <1>1, <1>2 DEF Init, KernelInit, TypeOK, Counts

-----------------------------------------------------------------------------
(* Types, counters and rows.                                               *)

\* TypeOK is preserved by every step.
LEMMA TypeStep == ASSUME DeviceInv, [Next]_vars PROVE TypeOK'
<1>1. TypeOK
  BY DEF DeviceInv
<1>2. CASE UNCHANGED vars
  BY <1>1, <1>2 DEF TypeOK, vars, kernelVars, callVars, daemonVars, rowVars, histVars
<1> QED
  BY <1>1, <1>2, TypeCreate, TypeCreateFinish, TypeSetGrain, TypePartner, TypeLoadStep,
     TypeStop, TypeRestart, TypeReload DEF Next

\* Counters are numbers.
LEMMA CountNumbers ==
  ASSUME TypeOK
  PROVE  /\ Len(drows) \in Nat /\ count.creates \in Nat /\ Pending \in {0, 1}
         /\ minor \in Nat /\ minor > 0 /\ ds_count \in Nat
BY Numbers DEF TypeOK, Counts, Pending

\* No step makes more rows than there were --create commands.
LEMMA CountStep == ASSUME DeviceInv, [Next]_vars PROVE CountInv'
<1>1. TypeOK /\ CountInv /\ TypeOK'
  BY TypeStep DEF DeviceInv
<1>2. /\ Len(drows) \in Nat /\ count.creates \in Nat /\ Pending \in {0, 1}
      /\ MaxCreates \in Nat
  BY <1>1, CountNumbers, Numbers
<1>3. ASSUME drows' = drows, count'.creates = count.creates, Pending' = Pending \/ Pending' = 0
      PROVE  CountInv'
  BY <1>1, <1>2, <1>3 DEF CountInv
<1>4. ASSUME NEW d \in Disks, NEW s \in Sizes, CreateBegin(d, s) PROVE CountInv'
  <2>1. Pending = 0 /\ Pending' = 1 /\ drows' = drows
    BY <1>4 DEF CreateBegin, Pending, rowVars
  <2>2. count'.creates = count.creates + 1 /\ count.creates < MaxCreates
    BY <1>1, <1>4, Ticks DEF CreateBegin
  <2> QED
    BY <1>1, <1>2, <2>1, <2>2 DEF CountInv
<1>5. CASE CreateSearch \/ CreateRefused
  <2>1. Pending' = Pending \/ Pending' = 0
    BY <1>1, <1>5 DEF CreateSearch, CreateRefused, Pending, NoCmd, TypeOK, Cmds
  <2> QED
    BY <1>3, <1>5, <2>1 DEF CreateSearch, CreateRefused, rowVars
<1>6. ASSUME NEW why \in {"ok", "alloc", "class", "attach"}, CreateFinish(why)
      PROVE  CountInv'
  <2>1. /\ Pending = 1 /\ Pending' = 0 /\ count' = count
        /\ drows' = Append(drows, [name |-> cmd.disk, size |-> cmd.size])
    BY <1>6, CreateFinishes DEF Pending, NoCmd
  <2>2. Len(drows') = Len(drows) + 1
    BY <1>1, <2>1 DEF TypeOK
  <2> QED
    BY <1>1, <1>2, <2>1, <2>2 DEF CountInv
<1>7. ASSUME NEW s \in Sizes, SetGrain(s) PROVE CountInv'
  <2>1. Pending' = Pending \/ Pending' = 0
    BY <1>1, <1>7 DEF SetGrain, Pending, TypeOK, Cmds
  <2>2. count'.creates = count.creates
    BY <1>1, <1>7, Ticks DEF SetGrain
  <2> QED
    BY <1>3, <1>7, <2>1, <2>2 DEF SetGrain, rowVars
<1>8. ASSUME NEW p \in Pids, MakePartner(p) \/ LoadStart(p) \/ Terminate(p)
      PROVE  CountInv'
  <2>1. count'.creates = count.creates
    BY <1>1, <1>8, Ticks DEF MakePartner, LoadStart, Terminate
  <2> QED
    BY <1>3, <1>8, <2>1 DEF MakePartner, LoadStart, Terminate, Pending
<1>9. ASSUME NEW p \in Pids, LoadStep(p) PROVE CountInv'
  BY <1>3, <1>9 DEF LoadStep, IoctlCopy, IoctlLock, IoctlAct, IoctlUnlock, Oops, CopyHalf,
     CopyNowhere, rowVars, Pending
<1>10. CASE Stop \/ Restart \/ Reload
  <2>1. count'.creates = count.creates
    BY <1>1, <1>10, Ticks DEF Stop, Restart, Reload
  <2>2. Pending' = Pending \/ Pending' = 0
    BY <1>10 DEF Stop, Restart, Reload, Pending, NoCmd
  <2>3. drows' = drows
    BY <1>10 DEF Stop, Restart, Reload, rowVars
  <2> QED
    BY <1>3, <2>1, <2>2, <2>3
<1>11. CASE UNCHANGED vars
  BY <1>3, <1>11 DEF vars, rowVars, Pending
<1> QED
  BY <1>4, <1>5, <1>6, <1>7, <1>8, <1>9, <1>10, <1>11 DEF Next

\* The rows after a --create.
LEMMA RowAdded ==
  ASSUME TypeOK, NEW r, drows' = Append(drows, r)
  PROVE  /\ Len(drows') = Len(drows) + 1 /\ drows'[Len(drows) + 1] = r
         /\ \A i \in 1 .. Len(drows) : drows'[i] = drows[i]
<1>1. drows \in Seq(DRows)
  BY DEF TypeOK
<1> QED
  BY <1>1

\* Only --create and an unload touch devices, nodes and disk rows.
LEMMA DevicesStay ==
  ASSUME [Next]_vars, \A why \in {"ok", "alloc", "class", "attach"} : ~CreateFinish(why),
         ~Reload
  PROVE  UNCHANGED <<minor, dev, area, nodes, drows, failed, reloaded>>
<1>1. ASSUME NEW p \in Pids, LoadStep(p)
      PROVE  UNCHANGED <<minor, dev, area, nodes, drows, failed, reloaded>>
  BY <1>1 DEF LoadStep, IoctlCopy, IoctlLock, IoctlAct, IoctlUnlock, Oops,
     CopyHalf, CopyNowhere, kernelVars, rowVars, histVars
<1>2. ASSUME NEW p \in Pids, MakePartner(p) \/ LoadStart(p) \/ Terminate(p)
      PROVE  UNCHANGED <<minor, dev, area, nodes, drows, failed, reloaded>>
  BY <1>2 DEF MakePartner, LoadStart, Terminate, kernelVars, histVars
<1>3. ASSUME NEW s \in Sizes, SetGrain(s)
      PROVE  UNCHANGED <<minor, dev, area, nodes, drows, failed, reloaded>>
  BY <1>3 DEF SetGrain, rowVars
<1>4. ASSUME NEW d \in Disks, NEW s \in Sizes, CreateBegin(d, s)
      PROVE  UNCHANGED <<minor, dev, area, nodes, drows, failed, reloaded>>
  BY <1>4 DEF CreateBegin, kernelVars, rowVars
<1>5. CASE CreateSearch \/ CreateRefused \/ Stop \/ Restart \/ UNCHANGED vars
  BY <1>5 DEF CreateSearch, CreateRefused, Stop, Restart, vars, kernelVars, rowVars,
     histVars
<1> QED
  BY <1>1, <1>2, <1>3, <1>4, <1>5 DEF Next

\* Minors, nodes and rows stay in step, or a failure is on record.
LEMMA MinorStep == ASSUME DeviceInv, [Next]_vars PROVE MinorInv'
<1>1. TypeOK /\ MinorInv
  BY DEF DeviceInv
<1>2. /\ Len(drows) \in Nat /\ minor \in Nat /\ minor > 0
  BY <1>1, CountNumbers
<1>3. CASE Reload
  <2>1. minor' = 1 /\ nodes' = {} /\ reloaded' = TRUE /\ drows' = drows
    BY <1>3 DEF Reload, rowVars
  <2>2. 1 .. minor' - 1 = {} /\ minor' - 1 = 0
    BY <2>1
  <2> QED
    BY <1>2, <2>1, <2>2 DEF MinorInv
<1>4. ASSUME NEW why \in {"ok", "alloc", "class", "attach"}, CreateFinish(why)
      PROVE  MinorInv'
  <2>1. minor = Len(drows) + 1 /\ minor \in Minors
    BY <1>4, CreateFinishes, NextDevice
  <2>2. /\ Len(drows') = Len(drows) + 1
        /\ drows'[minor] = [name |-> cmd.disk, size |-> cmd.size]
        /\ \A i \in 1 .. Len(drows) : drows'[i] = drows[i]
    BY <1>1, <1>4, <2>1, RowAdded, CreateFinishes
  <2>3. \A m \in 1 .. minor - 1 : m \in Minors /\ m # minor /\ m \in 1 .. Len(drows)
    BY <1>2, <2>1, Numbers
  <2>4. CASE CreateOk(cmd.disk, cmd.size)
    <3>1. minor' = minor + 1 /\ nodes' = nodes \cup {minor}
      BY <2>4 DEF CreateOk
    <3>2. 1 .. minor' - 1 = (1 .. minor - 1) \cup {minor} /\ minor' - 1 = Len(drows')
      BY <1>2, <2>1, <2>2, <3>1
    <3>3. \A m \in 1 .. minor - 1 :
            drows'[m].name = dev'[m].name /\ drows'[m].size = area'[m]
      BY <1>1, <2>1, <2>2, <2>3, <2>4 DEF CreateOk, MinorInv, TypeOK
    <3>4. drows'[minor].name = dev'[minor].name /\ drows'[minor].size = area'[minor]
      BY <1>1, <2>1, <2>2, <2>4 DEF CreateOk, TypeOK
    <3>5. nodes' = 1 .. minor' - 1 /\ minor' - 1 <= Len(drows')
      BY <1>1, <1>2, <2>2, <3>1, <3>2 DEF MinorInv
    <3> QED
      BY <3>2, <3>3, <3>4, <3>5 DEF MinorInv
  <2>5. CASE CreateFails(cmd.size)
    <3>1. minor' = minor /\ nodes' = nodes /\ failed'
      BY <2>5 DEF CreateFails
    <3>2. minor - 1 <= Len(drows')
      BY <1>2, <2>1, <2>2
    <3>3. \A m \in 1 .. minor - 1 :
            drows'[m].name = dev'[m].name /\ drows'[m].size = area'[m]
      BY <1>1, <2>2, <2>3, <2>5 DEF CreateFails, MinorInv
    <3> QED
      BY <1>1, <3>1, <3>2, <3>3 DEF MinorInv
  <2> QED
    BY <1>4, <2>4, <2>5, CreateFinishes
<1>5. CASE ~Reload /\ \A why \in {"ok", "alloc", "class", "attach"} : ~CreateFinish(why)
  BY <1>1, <1>5, DevicesStay DEF MinorInv
<1> QED
  BY <1>3, <1>4, <1>5

-----------------------------------------------------------------------------
(* The daemon and its slots.                                               *)

\* Only --create, a stop and a restart touch the daemon's slots; only a load
\* without a disk can end the daemon besides.
LEMMA DaemonStays ==
  ASSUME [Next]_vars, \A why \in {"ok", "alloc", "class", "attach"} : ~CreateFinish(why),
         ~Restart
  PROVE  /\ UNCHANGED <<ds_count, slot>>
         /\ run' = run \/ (run' = "down" /\ Stopped)
<1>1. ASSUME NEW p \in Pids, LoadStep(p)
      PROVE  UNCHANGED <<ds_count, slot>> /\ (run' = run \/ (run' = "down" /\ Stopped))
  BY <1>1 DEF LoadStep, IoctlCopy, IoctlLock, IoctlAct, IoctlUnlock, Oops,
     CopyHalf, CopyNowhere, daemonVars
<1>2. ASSUME NEW p \in Pids, MakePartner(p) \/ LoadStart(p) \/ Terminate(p)
      PROVE  UNCHANGED <<ds_count, slot, run>>
  BY <1>2 DEF MakePartner, LoadStart, Terminate, daemonVars
<1>3. ASSUME NEW s \in Sizes, SetGrain(s) PROVE UNCHANGED <<ds_count, slot, run>>
  BY <1>3 DEF SetGrain, daemonVars
<1>4. ASSUME NEW d \in Disks, NEW s \in Sizes, CreateBegin(d, s)
      PROVE  UNCHANGED <<ds_count, slot, run>>
  BY <1>4 DEF CreateBegin, daemonVars
<1>5. CASE CreateSearch \/ CreateRefused \/ Stop \/ Reload \/ UNCHANGED vars
  BY <1>5 DEF CreateSearch, CreateRefused, Stop, Reload, vars, daemonVars
<1> QED
  BY <1>1, <1>2, <1>3, <1>4, <1>5 DEF Next

\* The devices that were made have minors below the next one.
LEMMA BelowMinor ==
  ASSUME TypeOK, NEW m \in 1 .. minor - 1
  PROVE  m \in Minors /\ m \in Index /\ m # minor /\ m \in Nat
<1>1. minor \in Nat /\ minor <= MaxCreates + 1 /\ MaxCreates \in Nat
  BY Numbers DEF TypeOK
<1>2. m \in Nat /\ m > 0 /\ m <= MaxCreates + 1 /\ m # minor
  BY <1>1
<1>3. m \in Minors
  BY <1>2, Numbers
<1> QED
  BY <1>2, <1>3, Slots1

\* A running daemon keeps a mapped slot for every device.
LEMMA UpStep == ASSUME DeviceInv, [Next]_vars PROVE UpInv'
<1>1. TypeOK /\ MinorInv /\ UpInv
  BY DEF DeviceInv
<1>2. /\ Len(drows) \in Nat /\ minor \in Nat /\ minor > 0 /\ ds_count \in Nat
  BY <1>1, CountNumbers
<1>3. CASE Restart
  <2>1. SUFFICES ASSUME run' = "up" PROVE UpInv'
    BY DEF UpInv
  <2>2. /\ Unmapped = {} /\ ds_count' = Len(drows)
        /\ slot' = [p \in Index |-> DiskRow(p)] /\ UNCHANGED <<minor, nodes, drows>>
    BY <1>3, <2>1 DEF Restart, kernelVars, rowVars
  <2>3. \A i \in 1 .. Len(drows) : i \in 1 .. minor - 1
    BY <1>1, <2>2 DEF Unmapped, MinorInv
  <2>4. Len(drows) = minor - 1
    <3>1. Len(drows) = 0 \/ Len(drows) \in 1 .. minor - 1
      BY <1>2, <2>3
    <3>2. minor - 1 <= Len(drows)
      BY <1>1 DEF MinorInv
    <3> QED
      BY <1>2, <3>1, <3>2
  <2>5. \A p \in Index : slot'[p].mapped <=> p \in 1 .. Len(drows)
    BY <1>1, <2>2, <2>4 DEF DiskRow, MinorInv, NoSlot
  <2>6. \A p \in 1 .. Len(drows) :
          /\ p \in Index /\ slot'[p].name = drows[p].name
          /\ slot'[p].size = drows[p].size
    <3>1. \A p \in 1 .. Len(drows) : p \in Index
      BY <1>1, <2>4, BelowMinor
    <3> QED
      BY <2>2, <3>1 DEF DiskRow
  <2> QED
    BY <2>2, <2>4, <2>5, <2>6 DEF UpInv
<1>4. ASSUME NEW why \in {"ok", "alloc", "class", "attach"}, CreateFinish(why)
      PROVE  UpInv'
  <2>1. /\ minor = Len(drows) + 1 /\ minor \in Index /\ ds_count = Len(drows)
        /\ run = "up"
    BY <1>4, CreateFinishes, NextDevice
  <2>2. /\ Len(drows') = Len(drows) + 1
        /\ drows'[minor] = [name |-> cmd.disk, size |-> cmd.size]
        /\ \A i \in 1 .. Len(drows) : drows'[i] = drows[i]
    BY <1>1, <1>4, <2>1, RowAdded, CreateFinishes
  <2>3. CASE CreateOk(cmd.disk, cmd.size)
    <3>1. minor' = minor + 1 /\ ds_count' = ds_count + 1
      BY <2>3 DEF CreateOk
    <3>2. /\ ds_count' = minor' - 1 /\ ds_count' = Len(drows')
          /\ 1 .. ds_count' = (1 .. ds_count) \cup {minor}
          /\ \A p \in 1 .. ds_count : p # minor
      BY <1>2, <2>1, <2>2, <3>1
    <3>3. slot'[minor] = [name |-> cmd.disk, size |-> cmd.size, mapped |-> TRUE]
      BY <1>1, <2>1, <2>3 DEF CreateOk, TypeOK
    <3>4. \A p \in Index : p # minor => slot'[p] = slot[p]
      BY <1>1, <2>1, <2>3 DEF CreateOk, TypeOK
    <3>5. \A p \in Index : slot'[p].mapped <=> p \in 1 .. ds_count'
      BY <1>1, <2>1, <3>2, <3>3, <3>4 DEF UpInv
    <3>6. ASSUME NEW p \in 1 .. ds_count
          PROVE  slot'[p].name = drows'[p].name /\ slot'[p].size = drows'[p].size
      <4>1. p \in Index
        BY <1>1, <2>1, BelowMinor DEF UpInv
      <4> QED
        BY <1>1, <2>1, <2>2, <3>2, <3>4, <4>1 DEF UpInv
    <3>7. slot'[minor].name = drows'[minor].name /\ slot'[minor].size = drows'[minor].size
      BY <2>2, <3>3
    <3> QED
      BY <3>2, <3>5, <3>6, <3>7 DEF UpInv
  <2>4. CASE CreateFails(cmd.size)
    BY <2>4 DEF CreateFails, UpInv
  <2> QED
    BY <1>4, <2>3, <2>4, CreateFinishes
<1>5. CASE Reload
  BY <1>5 DEF Reload, daemonVars, UpInv
<1>6. CASE /\ ~Restart /\ ~Reload
           /\ \A why \in {"ok", "alloc", "class", "attach"} : ~CreateFinish(why)
  BY <1>1, <1>6, DevicesStay, DaemonStays DEF UpInv
<1> QED
  BY <1>3, <1>4, <1>5, <1>6

\* No receive thread outlives the daemon.
LEMMA DownStep == ASSUME DeviceInv, [Next]_vars PROVE DownInv'
<1>1. DownInv
  BY DEF DeviceInv
<1>2. ASSUME Stopped PROVE DownInv'
  BY <1>2 DEF Stopped, DownInv
<1>3. CASE Restart \/ Reload
  BY <1>1, <1>3 DEF Restart, Reload, DownInv
<1>4. ASSUME NEW why \in {"ok", "alloc", "class", "attach"}, CreateFinish(why)
      PROVE  DownInv'
  BY <1>2, <1>4, CreateFinishes DEF CreateOk, CreateFails, DownInv
<1>5. CASE /\ ~Restart /\ ~Reload
           /\ \A why \in {"ok", "alloc", "class", "attach"} : ~CreateFinish(why)
  <2>1. CASE run = "up"
    BY <1>2, <1>5, <2>1, DaemonStays DEF DownInv
  <2>2. CASE run # "up"
    BY <1>1, <1>5, <2>2 DEF Next, CreateBegin, CreateSearch, CreateRefused, SetGrain,
       MakePartner, LoadStart, Terminate, LoadStep, IoctlCopy, IoctlLock, IoctlAct,
       IoctlUnlock, Oops, CopyHalf, CopyNowhere, At, Stop, vars, DownInv, daemonVars
  <2> QED
    BY <2>1, <2>2
<1> QED
  BY <1>3, <1>4, <1>5

\* What keeps a server from starting again is what RestartRecovers says.
LEMMA RestartStep == ASSUME DeviceInv, [Next]_vars PROVE RestartRecovers'
<1>1. TypeOK /\ MinorInv /\ UpInv /\ RestartRecovers /\ UpInv'
  BY UpStep DEF DeviceInv
<1>2. run' = "up" => ds_count' = Len(drows')
  BY <1>1 DEF UpInv
<1>3. CASE Restart
  <2>1. UNCHANGED <<drows, prows, nodes, minor, failed, reloaded>>
    BY <1>3 DEF Restart, rowVars, kernelVars, histVars
  <2>2. run' \in {"hung", "gone"} =>
          run' = IF Least(Unpaired \cup Unmapped) \in Unpaired THEN "hung" ELSE "gone"
    BY <1>3 DEF Restart
  <2>3. run' \in {"hung", "gone"} => Unpaired \cup Unmapped # {}
    BY <1>3 DEF Restart
  <2>4. ASSUME run' = "hung" PROVE \E i \in DOMAIN drows : ~InUse(i - 1)
    <3>1. PICK i \in 1 .. Len(drows) : i - 1 \notin RecoveryPids
      BY <2>2, <2>4 DEF Unpaired
    <3>2. ~InUse(i - 1)
      BY <3>1 DEF InUse, RecoveryPids
    <3>3. DOMAIN drows = 1 .. Len(drows)
      BY <1>1 DEF TypeOK
    <3> QED
      BY <3>1, <3>2, <3>3
  <2>5. ASSUME run' = "gone" PROVE failed \/ reloaded
    <3>1. Unpaired \cup Unmapped \subseteq Nat
      BY DEF Unpaired, Unmapped
    <3>2. Least(Unpaired \cup Unmapped) \in Unpaired \cup Unmapped
      BY <2>3, <2>5, <3>1, LeastIn
    <3>3. PICK i \in 1 .. Len(drows) : i \notin nodes
      BY <2>2, <2>5, <3>2 DEF Unmapped
    <3> QED
      BY <1>1, <3>3 DEF MinorInv
  <2> QED
    BY <1>2, <2>1, <2>4, <2>5 DEF RestartRecovers, InUse
<1>4. CASE Reload
  BY <1>1, <1>2, <1>4 DEF Reload, RestartRecovers, daemonVars, rowVars
<1>5. ASSUME NEW why \in {"ok", "alloc", "class", "attach"}, CreateFinish(why)
      PROVE  RestartRecovers'
  BY <1>2, <1>5, CreateFinishes DEF CreateOk, CreateFails, RestartRecovers
<1>6. CASE /\ ~Restart /\ ~Reload
           /\ \A why \in {"ok", "alloc", "class", "attach"} : ~CreateFinish(why)
  <2>1. run' = run \/ run' = "down"
    BY <1>6, DaemonStays
  <2>2. run = "hung" => prows' = prows
    BY <1>6 DEF Next, CreateBegin, CreateSearch, CreateRefused, SetGrain,
       MakePartner, LoadStart, Terminate, LoadStep, IoctlCopy, IoctlLock, IoctlAct,
       IoctlUnlock, Oops, CopyHalf, CopyNowhere, At, Stop, vars, rowVars
  <2>3. UNCHANGED <<drows, failed, reloaded>>
    BY <1>6, DevicesStay
  <2> QED
    BY <1>1, <1>2, <2>1, <2>2, <2>3 DEF RestartRecovers, InUse
<1> QED
  BY <1>3, <1>4, <1>5, <1>6

-----------------------------------------------------------------------------
(* The halves of a bitmap.                                                 *)

\* Only --create, --setgrain, a flip and an unload change a bitmap.
LEMMA BitmapsStay ==
  ASSUME [Next]_vars, \A why \in {"ok", "alloc", "class", "attach"} : ~CreateFinish(why),
         ~Reload, \A s \in Sizes : ~SetGrain(s), \A p \in Pids : ~IoctlAct(p)
  PROVE  UNCHANGED <<bm, vsz, grown>>
<1>1. ASSUME NEW p \in Pids, LoadStep(p) PROVE UNCHANGED <<bm, vsz, grown>>
  BY <1>1 DEF LoadStep, IoctlCopy, IoctlLock, IoctlUnlock, Oops,
     CopyHalf, CopyNowhere, kernelVars, histVars
<1>2. ASSUME NEW p \in Pids, MakePartner(p) \/ LoadStart(p) \/ Terminate(p)
      PROVE  UNCHANGED <<bm, vsz, grown>>
  BY <1>2 DEF MakePartner, LoadStart, Terminate, kernelVars, histVars
<1>3. ASSUME NEW d \in Disks, NEW s \in Sizes, CreateBegin(d, s)
      PROVE  UNCHANGED <<bm, vsz, grown>>
  BY <1>3 DEF CreateBegin, kernelVars
<1>4. CASE CreateSearch \/ CreateRefused \/ Stop \/ Restart \/ UNCHANGED vars
  BY <1>4 DEF CreateSearch, CreateRefused, Stop, Restart, vars, kernelVars, histVars
<1> QED
  BY <1>1, <1>2, <1>3, <1>4 DEF Next

\* --setgrain changes the size of one bitmap.
LEMMA SetGrainEffect ==
  ASSUME TypeOK, NEW s \in Sizes, SetGrain(s)
  PROVE  /\ UNCHANGED <<minor, area, th, run, ds_count, index>>
         /\ \A m \in Index : /\ bm'[m].user = bm[m].user /\ bm'[m].off = bm[m].off
                             /\ bm'[m].made = bm[m].made
         /\ \A m \in Minors : m # minor => vsz'[m] = vsz[m]
         /\ \A m \in Minors :
              \/ bm'[m].size = bm[m].size /\ (m \in grown' <=> m \in grown)
              \/ bm'[m].size = s /\ (m \notin grown' => ~(s > area[m]))
<1>1. UNCHANGED <<minor, area, th, run, ds_count, index>>
  BY DEF SetGrain, daemonVars
<1>2. bm \in [Index -> Bitmaps] /\ glob \in Index /\ Minors \subseteq Index
  BY Slots1 DEF TypeOK
<1>3. CASE bm' = bm /\ vsz' = vsz /\ grown' = grown
  BY <1>1, <1>3
<1>4. CASE /\ vsz' = [vsz EXCEPT ![minor] = s] /\ bm' = [bm EXCEPT ![glob].size = s]
           /\ grown' = IF s > area[glob] THEN grown \cup {glob} ELSE grown \ {glob}
  <2>1. \A m \in Index : /\ bm'[m].user = bm[m].user /\ bm'[m].off = bm[m].off
                         /\ bm'[m].made = bm[m].made
                         /\ m # glob => bm'[m].size = bm[m].size
                         /\ m = glob => bm'[m].size = s
    BY <1>2, <1>4 DEF Bitmaps
  <2>2. \A m \in Minors : m # minor => vsz'[m] = vsz[m]
    BY <1>4 DEF TypeOK
  <2> QED
    BY <1>1, <1>2, <1>4, <2>1, <2>2
<1> QED
  BY <1>3, <1>4 DEF SetGrain

\* The half in use stays at the start or in the middle of its area.
LEMMA HalfStep == ASSUME DeviceInv, [Next]_vars PROVE HalfInv'
<1>1. TypeOK /\ HalfInv /\ MinorInv
  BY DEF DeviceInv
<1>2. \A m \in 1 .. minor - 1 : m \in Minors /\ m \in Index /\ m # minor
  BY <1>1, BelowMinor
<1>3. minor \in Nat /\ minor \in Minors /\ minor \in Index
  BY <1>1, CountNumbers, Slots1 DEF TypeOK
<1>4. CASE Reload
  <2>1. 1 .. minor' - 1 = {}
    BY <1>4 DEF Reload
  <2> QED
    BY <2>1 DEF HalfInv
<1>5. ASSUME NEW why \in {"ok", "alloc", "class", "attach"}, CreateFinish(why)
      PROVE  HalfInv'
  <2>1. cmd.size \in Nat /\ grown' = grown
    BY <1>5, CreateFinishes
  <2>2. CASE CreateOk(cmd.disk, cmd.size)
    <3>1. minor' = minor + 1 /\ 1 .. minor' - 1 = (1 .. minor - 1) \cup {minor}
      BY <1>1, <1>3, <2>2, CountNumbers DEF CreateOk
    <3>2. /\ vsz'[minor] = cmd.size /\ area'[minor] = cmd.size /\ bm'[minor].off = 0
          /\ bm'[minor].user = "KERNEL" /\ bm'[minor].size = cmd.size
      BY <1>1, <1>3, <2>2 DEF CreateOk, TypeOK
    <3>3. \A m \in 1 .. minor - 1 :
            bm'[m] = bm[m] /\ vsz'[m] = vsz[m] /\ area'[m] = area[m]
      BY <1>1, <1>2, <2>2 DEF CreateOk, TypeOK
    <3>4. cmd.size <= cmd.size
      BY <2>1
    <3> QED
      BY <1>1, <2>1, <3>1, <3>2, <3>3, <3>4 DEF HalfInv
  <2>3. CASE CreateFails(cmd.size)
    <3>1. \A m \in 1 .. minor - 1 :
            bm'[m] = bm[m] /\ vsz'[m] = vsz[m] /\ area'[m] = area[m]
      BY <1>1, <1>2, <2>3 DEF CreateFails, TypeOK
    <3> QED
      BY <1>1, <2>1, <2>3, <3>1 DEF HalfInv, CreateFails
  <2> QED
    BY <1>5, <2>2, <2>3, CreateFinishes
<1>6. ASSUME NEW s \in Sizes, SetGrain(s) PROVE HalfInv'
  <2>1. s \in Nat /\ \A m \in Minors : area[m] \in Nat
    BY <1>1, KernelDeviceAssumption DEF TypeOK
  <2>2. \A m \in Minors : ~(s > area[m]) => s <= area[m]
    BY <2>1
  <2> QED
    BY <1>1, <1>2, <1>6, <2>2, SetGrainEffect DEF HalfInv
<1>7. ASSUME NEW p \in Pids, IoctlAct(p) PROVE HalfInv'
  <2>1. /\ UNCHANGED <<minor, area, vsz, grown>> /\ kindex \in Index /\ bm[kindex].made
        /\ bm' = bm \/ bm' = Flip(kindex)
    BY <1>1, <1>7 DEF IoctlAct, histVars, TypeOK
  <2>2. ASSUME NEW m \in 1 .. minor - 1, bm' = Flip(kindex)
        PROVE  /\ bm'[m].off = IF bm'[m].user = "USER" THEN vsz[m] ELSE 0
               /\ bm'[m].size = bm[m].size
    <3>1. CASE m # kindex
      BY <1>1, <1>2, <2>1, <2>2, <3>1, Flips DEF HalfInv
    <3>2. CASE m = kindex
      <4>1. vsz[m] \in Nat
        BY <1>1, <1>2 DEF TypeOK
      <4>2. bm[m].user = "USER" => bm'[m].off = 0 /\ bm'[m].user = "KERNEL"
        BY <1>1, <2>1, <2>2, <3>2, Flips
      <4>3. bm[m].user # "USER" => bm'[m].off = bm[m].off + vsz[m] /\ bm'[m].user = "USER"
        BY <1>1, <2>1, <2>2, <3>2, Flips
      <4>4. bm[m].user # "USER" => bm'[m].off = vsz[m]
        <5>1. bm[m].user # "USER" => bm[m].off = 0
          BY <1>1 DEF HalfInv
        <5> QED
          BY <4>1, <4>3, <5>1
      <4>5. bm'[m].size = bm[m].size
        BY <1>1, <2>1, <2>2, <3>2, Flips
      <4> QED
        BY <4>2, <4>3, <4>4, <4>5
    <3> QED
      BY <3>1, <3>2
  <2> QED
    BY <1>1, <2>1, <2>2 DEF HalfInv
<1>8. CASE /\ ~Reload /\ (\A s \in Sizes : ~SetGrain(s)) /\ (\A p \in Pids : ~IoctlAct(p))
           /\ \A why \in {"ok", "alloc", "class", "attach"} : ~CreateFinish(why)
  BY <1>1, <1>8, BitmapsStay, DevicesStay DEF HalfInv
<1> QED
  BY <1>4, <1>5, <1>6, <1>7, <1>8

-----------------------------------------------------------------------------
(* Loads: which calls they make.                                           *)

\* What a step of a load does to the threads.
LEMMA LoadMoves ==
  ASSUME TypeOK, NEW p \in Pids, LoadStep(p)
  PROVE  /\ run = "up" /\ UNCHANGED <<mixed, index, cmd, ds_count>>
         /\ th[p].pc \in {"call", "copied", "locked", "acted", "copying"}
         /\ \/ run' = "down" /\ Stopped
            \/ run' = "up" /\ \A q \in Pids : q # p => th'[q] = th[q]
<1>1. CASE CopyNowhere(p)
  BY <1>1 DEF CopyNowhere, At, histVars, callVars
<1>2. CASE ~CopyNowhere(p)
  <2>1. /\ run = "up" /\ UNCHANGED <<mixed, index, cmd, ds_count, run>>
        /\ th[p].pc \in {"call", "copied", "locked", "acted", "copying"}
    BY <1>2 DEF LoadStep, IoctlCopy, IoctlLock, IoctlAct, IoctlUnlock, Oops,
       CopyHalf, At, histVars, callVars, daemonVars
  <2>2. PICK r : th' = [th EXCEPT ![p] = r]
    BY <1>2 DEF LoadStep, IoctlCopy, IoctlLock, IoctlAct, IoctlUnlock, Oops, CopyHalf
  <2>3. \A q \in Pids : q # p => th'[q] = th[q]
    BY <2>2 DEF TypeOK
  <2> QED
    BY <2>1, <2>3
<1> QED
  BY <1>1, <1>2

\* The thread that takes the step, by its kind.
LEMMA LoadMover ==
  ASSUME TypeOK, NEW p \in Pids, LoadStep(p), ~CopyNowhere(p)
  PROVE  \/ /\ th[p].pc = "call" /\ th'[p].pc = "copied" /\ kindex' = index
            /\ th'[p].call = th[p].call /\ th'[p].user = th[p].user
            /\ th'[p].took = th[p].took /\ th'[p].flips = th[p].flips /\ bm' = bm
         \/ /\ th[p].pc = "copied" /\ th'[p].pc = "locked" /\ kindex' = kindex
            /\ th'[p].call = th[p].call /\ th'[p].user = th[p].user
            /\ th'[p].took = th[p].took /\ th'[p].flips = th[p].flips /\ bm' = bm
         \/ /\ th[p].pc = "locked" /\ th'[p].pc = "acted" /\ kindex' = kindex
            /\ th'[p].call = th[p].call /\ th'[p].user = bm[kindex].user
            /\ th'[p].took = th[p].took /\ th'[p].flips = th[p].flips
            /\ bm[kindex].made
            /\ bm' = IF th[p].call = "FLIP" THEN Flip(kindex) ELSE bm
         \/ /\ th[p].pc = "acted" /\ kindex' = kindex /\ bm' = bm
            /\ th'[p].pc = IF th[p].call = "FLIP" THEN "done" ELSE "copying"
            /\ th'[p].call = th[p].call /\ th'[p].user = th[p].user
            /\ th'[p].took = th[p].took /\ th'[p].flips = th[p].flips
         \/ /\ th'[p].pc = "dead" /\ kindex' = kindex /\ bm' = bm
            /\ th'[p].call = th[p].call /\ th'[p].flips = th[p].flips
         \/ /\ th[p].pc = "copying" /\ slot[Slot(p)].mapped
            /\ kindex' = kindex /\ bm' = bm
            /\ th'[p].pc = "call" /\ th'[p].call = "FLIP" /\ th'[p].user = th[p].user
            /\ th'[p].took = Half(th[p].user) /\ th'[p].flips = TRUE
         \/ /\ th[p].pc = "copying" /\ kindex' = kindex /\ bm' = bm
            /\ th'[p].pc = "done" /\ th'[p].call = th[p].call /\ th'[p].flips = FALSE
<1>1. th \in [Pids -> Loads] /\ th[p] \in Loads
  BY DEF TypeOK
<1>2. CASE IoctlCopy(p)
  BY <1>1, <1>2 DEF IoctlCopy, At, kernelVars, Loads
<1>3. CASE IoctlLock(p)
  BY <1>1, <1>3 DEF IoctlLock, At, kernelVars, Loads
<1>4. CASE IoctlAct(p)
  BY <1>1, <1>4 DEF IoctlAct, At, callVars, Loads
<1>5. CASE IoctlUnlock(p)
  <2>1. /\ th[p].pc = "acted" /\ kindex' = kindex /\ bm' = bm
        /\ th' = [th EXCEPT ![p].pc = IF th[p].call = "FLIP" THEN "done"
                                                            ELSE "copying"]
    BY <1>5 DEF IoctlUnlock, At, kernelVars
  <2> QED
    BY <1>1, <2>1 DEF Loads
<1>6. CASE Oops(p)
  BY <1>1, <1>6 DEF Oops, callVars, kernelVars, Loads
<1>7. CASE CopyHalf(p)
  <2>1. /\ th[p].pc = "copying" /\ slot[Slot(p)].mapped /\ kindex' = kindex /\ bm' = bm
        /\ \/ th' = [th EXCEPT ![p] = [@ EXCEPT !.pc = "call", !.call = "FLIP",
                    !.took = Half(th[p].user), !.flips = TRUE]]
           \/ \E h \in {0, 1} : th' = [th EXCEPT ![p] =
             [@ EXCEPT !.pc = "done", !.took = h, !.flips = FALSE]]
    BY <1>7 DEF CopyHalf, At, kernelVars, callVars
  <2>2. CASE th' = [th EXCEPT ![p] = [@ EXCEPT !.pc = "call", !.call = "FLIP",
                    !.took = Half(th[p].user), !.flips = TRUE]]
    <3>1. th'[p] = [th[p] EXCEPT !.pc = "call", !.call = "FLIP",
                    !.took = Half(th[p].user), !.flips = TRUE]
      BY <1>1, <2>2
    <3> QED
      BY <1>1, <2>1, <3>1 DEF Loads
  <2>3. ASSUME NEW h \in {0, 1}, th' = [th EXCEPT ![p] =
             [@ EXCEPT !.pc = "done", !.took = h, !.flips = FALSE]]
        PROVE  th'[p].pc = "done" /\ th'[p].call = th[p].call /\ th'[p].flips = FALSE
    <3>1. th'[p] = [th[p] EXCEPT !.pc = "done", !.took = h, !.flips = FALSE]
      BY <1>1, <2>3
    <3> QED
      BY <1>1, <3>1 DEF Loads
  <2> QED
    BY <2>1, <2>2, <2>3
<1> QED
  BY <1>2, <1>3, <1>4, <1>5, <1>6, <1>7 DEF LoadStep

\* Only a load that copied a half of its own device makes the second call.
LEMMA CallStep == ASSUME DeviceInv, [Next]_vars PROVE CallInv'
<1>1. TypeOK /\ UpInv /\ DownInv /\ CallInv
  BY DEF DeviceInv
<1>2. ds_count \in Nat
  BY <1>1, CountNumbers
<1>3. ASSUME \A p \in Pids : th'[p] = NoThread PROVE CallInv'
  BY <1>3 DEF CallInv, NoThread
<1>4. ASSUME Stopped PROVE CallInv'
  BY <1>3, <1>4 DEF Stopped
<1>5. ASSUME run = "up",
             ds_count' = ds_count \/ ds_count' = ds_count + 1,
             \A p \in Pids : \/ th'[p] = th[p] \/ th'[p] = NoThread
                             \/ th'[p] = [NoThread EXCEPT !.pc = "call"]
      PROVE  CallInv'
  <2>1. ASSUME NEW p \in Pids, th'[p] = th[p]
        PROVE  /\ th'[p].call = "FLIP" <=> th'[p].flips
               /\ th'[p].pc = "copying" => th'[p].call = "GET_USER"
               /\ run' = "up" /\ th'[p].flips => Slot(p) <= ds_count'
    <3>1. run = "up" /\ th[p].flips => Slot(p) <= ds_count'
      <4>1. Slot(p) \in Nat
        BY Numbers DEF Slot
      <4>2. Slot(p) <= ds_count => Slot(p) <= ds_count'
        BY <1>2, <1>5, <4>1
      <4> QED
        BY <1>1, <4>2 DEF CallInv
    <3> QED
      BY <1>1, <1>5, <2>1, <3>1 DEF CallInv
  <2> QED
    BY <1>5, <2>1 DEF CallInv, NoThread
<1>6. ASSUME NEW p \in Pids, LoadStep(p) PROVE CallInv'
  <2>1. CASE CopyNowhere(p)
    BY <1>4, <2>1 DEF CopyNowhere
  <2>2. CASE ~CopyNowhere(p)
    <3>1. ASSUME NEW q \in Pids, q # p
          PROVE  /\ th'[q].call = "FLIP" <=> th'[q].flips
                 /\ th'[q].pc = "copying" => th'[q].call = "GET_USER"
                 /\ run' = "up" /\ th'[q].flips => Slot(q) <= ds_count'
      <4>1. CASE Stopped
        BY <4>1 DEF Stopped, NoThread
      <4>2. CASE ~Stopped
        BY <1>1, <1>6, <3>1, <4>2, LoadMoves DEF CallInv
      <4> QED
        BY <4>1, <4>2
    <3>2. slot[Slot(p)].mapped /\ run = "up" => Slot(p) <= ds_count
      <4>1. Slot(p) \in Index
        BY Slots1
      <4>2. slot[Slot(p)].mapped /\ run = "up" => Slot(p) \in 1 .. ds_count
        BY <1>1, <4>1 DEF UpInv
      <4> QED
        BY <1>2, <4>2
    <3>3. run = "up" /\ ds_count' = ds_count
      BY <1>1, <1>6, LoadMoves
    <3>4. /\ th'[p].call = "FLIP" <=> th'[p].flips
          /\ th'[p].pc = "copying" => th'[p].call = "GET_USER"
          /\ th'[p].flips => Slot(p) <= ds_count
      <4>1. th[p].call \in {"GET_USER", "FLIP"} /\ th[p].flips \in BOOLEAN
        BY <1>1 DEF TypeOK, Loads
      <4>2. /\ th[p].call = "FLIP" <=> th[p].flips
            /\ th[p].pc = "copying" => th[p].call = "GET_USER"
            /\ th[p].flips => Slot(p) <= ds_count
        BY <1>1, <3>3 DEF CallInv
      <4> QED
        BY <1>1, <1>6, <2>2, <3>2, <3>3, <4>1, <4>2, LoadMover
    <3> QED
      BY <3>1, <3>3, <3>4 DEF CallInv
  <2> QED
    BY <2>1, <2>2
<1>7. ASSUME NEW why \in {"ok", "alloc", "class", "attach"}, CreateFinish(why)
      PROVE  CallInv'
  <2>1. CASE CreateOk(cmd.disk, cmd.size)
    BY <1>5, <1>7, <2>1, CreateFinishes DEF CreateOk
  <2>2. CASE CreateFails(cmd.size)
    BY <1>4, <2>2 DEF CreateFails
  <2> QED
    BY <1>7, <2>1, <2>2, CreateFinishes
<1>8. ASSUME NEW s \in Sizes, SetGrain(s) PROVE CallInv'
  <2>1. run = "up" /\ th' = th /\ ds_count' = ds_count
    BY <1>8 DEF SetGrain, daemonVars
  <2> QED
    BY <1>5, <2>1
<1>9. ASSUME NEW p \in Pids, MakePartner(p) \/ LoadStart(p) \/ Terminate(p)
      PROVE  CallInv'
  <2>1. run = "up" /\ ds_count' = ds_count
    BY <1>9 DEF MakePartner, LoadStart, Terminate, At, daemonVars
  <2>2. \/ th' = th \/ th' = [th EXCEPT ![p] = NoThread]
        \/ th' = [th EXCEPT ![p] = [NoThread EXCEPT !.pc = "call"]]
    BY <1>9 DEF MakePartner, LoadStart, Terminate
  <2>3. \A q \in Pids : \/ th'[q] = th[q] \/ th'[q] = NoThread
                        \/ th'[q] = [NoThread EXCEPT !.pc = "call"]
    BY <1>1, <2>2 DEF TypeOK
  <2> QED
    BY <1>5, <2>1, <2>3
<1>10. CASE Stop
  BY <1>4, <1>10 DEF Stop
<1>11. CASE Restart \/ Reload
  BY <1>1, <1>3, <1>11 DEF Restart, Reload, DownInv
<1>12. CASE \/ \E d \in Disks, s \in Sizes : CreateBegin(d, s)
            \/ CreateSearch \/ CreateRefused \/ UNCHANGED vars
  <2>1. th' = th /\ run' = run /\ ds_count' = ds_count
    BY <1>12 DEF CreateBegin, CreateSearch, CreateRefused, vars, daemonVars
  <2> QED
    BY <1>1, <2>1 DEF CallInv
<1> QED
  BY <1>6, <1>7, <1>8, <1>9, <1>10, <1>11, <1>12 DEF Next

-----------------------------------------------------------------------------
(* Loads: where the half they copied is.                                   *)

\* A thread that is not inside a load keeps what it knows, as long as the half
\* of its device that the kernel writes stays.
LEMMA RestKeeps ==
  ASSUME NEW p \in Pids, ~Busy(p), LoadState(p), th'[p] = th[p],
         th[p].flips => bm'[Slot(p)].user = bm[Slot(p)].user
  PROVE  LoadState(p)' /\ ~Busy(p)'
<1>1. th[p].pc \in {"idle", "done", "dead"} /\ th'[p].pc = th[p].pc
  BY DEF Busy
<1>2. th[p].pc = "done" /\ th[p].flips => th[p].took # Half(bm[Slot(p)].user)
  BY DEF LoadState
<1> QED
  BY <1>1, <1>2 DEF LoadState, Busy, Half

\* A thread that is not there knows nothing.
LEMMA NoThreadState ==
  ASSUME NEW p \in Pids, th'[p] = NoThread PROVE LoadState(p)' /\ ~Busy(p)'
BY DEF NoThread, LoadState, Busy

\* The thread that takes a step of a load knows where its half is afterwards.
LEMMA MoverKeeps ==
  ASSUME TypeOK, CallInv, NEW p \in Pids, LoadStep(p), ~CopyNowhere(p), LoadState(p)
  PROVE  LoadState(p)'
<1>1. /\ UNCHANGED <<index, cmd>>
      /\ th[p].pc \in {"call", "copied", "locked", "acted", "copying"}
  BY LoadMoves
<1>2. index = Slot(p) /\ cmd.pc \notin {"search", "restore"} /\ Slot(p) \in Index
  BY <1>1, Slots1 DEF LoadState, Busy
<1>3. /\ th[p].call \in {"GET_USER", "FLIP"} /\ th[p].user \in {"KERNEL", "USER"}
      /\ th[p].flips \in BOOLEAN /\ (th[p].call = "FLIP" <=> th[p].flips)
      /\ th[p].pc = "copying" => th[p].call = "GET_USER"
      /\ bm[Slot(p)].user \in {"KERNEL", "USER"}
  BY <1>2 DEF TypeOK, Loads, CallInv, Bitmaps
<1>4. Busy(p)' => index' = Slot(p) /\ cmd'.pc \notin {"search", "restore"}
  BY <1>1, <1>2
<1>5. th'[p].pc \in {"copied", "locked", "acted"} => kindex' = Slot(p)
  BY <1>2, LoadMover DEF LoadState
<1>6. th'[p].pc = "copying" \/ (th'[p].pc = "acted" /\ th'[p].call = "GET_USER") =>
        th'[p].user = bm'[Slot(p)].user
  BY <1>3, LoadMover DEF LoadState
<1>7. th'[p].pc \in {"call", "copied", "locked"} /\ th'[p].call = "FLIP" =>
        th'[p].took = Half(bm'[Slot(p)].user)
  BY <1>3, LoadMover DEF LoadState
<1>8. th'[p].pc \in {"acted", "done"} /\ th'[p].flips =>
        th'[p].took # Half(bm'[Slot(p)].user)
  <2>1. CASE th[p].pc = "locked" /\ th[p].call = "FLIP" /\ bm' = Flip(kindex)
             /\ kindex = Slot(p) /\ bm[kindex].made /\ th'[p].took = th[p].took
    <3>1. bm'[Slot(p)].user = IF bm[Slot(p)].user = "USER" THEN "KERNEL" ELSE "USER"
      BY <1>2, <2>1, Flips
    <3>2. th[p].took = Half(bm[Slot(p)].user)
      BY <2>1 DEF LoadState
    <3> QED
      BY <1>3, <2>1, <3>1, <3>2 DEF Half
  <2>2. CASE th[p].pc = "acted" /\ bm' = bm /\ th'[p].took = th[p].took
             /\ th'[p].flips = th[p].flips
    BY <2>2 DEF LoadState
  <2> QED
    BY <1>3, <2>1, <2>2, LoadMover DEF LoadState
<1> QED
  BY <1>4, <1>5, <1>6, <1>7, <1>8 DEF LoadState

\* Loads that do not overlap keep to their own device.
LEMMA LoadInvStep == ASSUME DeviceInv, [Next]_vars PROVE LoadInv'
<1> SUFFICES ASSUME ~mixed'
             PROVE  /\ \A p \in Pids : LoadState(p)'
                    /\ \A p, q \in Pids : Busy(p)' /\ Busy(q)' => p = q
  BY DEF LoadInv
<1> DEFINE Goal == /\ \A p \in Pids : LoadState(p)'
                   /\ \A p, q \in Pids : Busy(p)' /\ Busy(q)' => p = q
<1>1. TypeOK /\ UpInv /\ DownInv /\ CallInv /\ LoadInv
  BY DEF DeviceInv
<1>2. ASSUME \A p \in Pids : th'[p] = NoThread PROVE Goal
  BY <1>2, NoThreadState
<1>3. ASSUME Stopped PROVE Goal
  BY <1>2, <1>3 DEF Stopped
<1>4. ASSUME ~mixed, \A p \in Pids : ~Busy(p),
             \A p \in Pids : \/ th'[p] = NoThread
                             \/ /\ th'[p] = th[p]
                                /\ th[p].flips => bm'[Slot(p)].user = bm[Slot(p)].user
      PROVE  Goal
  <2>1. \A p \in Pids : LoadState(p)' /\ ~Busy(p)'
    BY <1>1, <1>4, RestKeeps, NoThreadState DEF LoadInv
  <2> QED
    BY <2>1
<1>5. ASSUME ~mixed, UNCHANGED <<th, index, kindex, cmd, bm>> PROVE Goal
  BY <1>1, <1>5 DEF LoadInv, LoadState, Busy
<1>6. ASSUME NEW p \in Pids, LoadStep(p) PROVE Goal
  <2>1. CASE CopyNowhere(p)
    BY <1>3, <2>1 DEF CopyNowhere
  <2>2. CASE ~CopyNowhere(p) /\ ~Stopped
    <3>1. /\ ~mixed /\ Busy(p) /\ \A q \in Pids : q # p => th'[q] = th[q]
      BY <1>1, <1>6, <2>2, LoadMoves DEF Busy
    <3>2. \A q \in Pids : LoadState(q) /\ (q # p => ~Busy(q))
      BY <1>1, <3>1 DEF LoadInv
    <3>3. LoadState(p)'
      BY <1>1, <1>6, <2>2, <3>2, MoverKeeps
    <3>4. ASSUME NEW q \in Pids, q # p PROVE bm'[Slot(q)] = bm[Slot(q)]
      <4>1. bm' = bm \/ (bm' = Flip(kindex) /\ bm[kindex].made /\ th[p].pc = "locked")
        BY <1>1, <1>6, <2>2, LoadMover
      <4>2. CASE bm' = Flip(kindex) /\ bm[kindex].made /\ th[p].pc = "locked"
        <5>1. kindex = Slot(p) /\ kindex \in Index /\ Slot(q) \in Index
          BY <1>1, <3>2, <4>2, Slots1 DEF LoadState, TypeOK
        <5>2. Slot(q) # kindex
          BY <3>4, <5>1, Slots1
        <5> QED
          BY <1>1, <4>2, <5>1, <5>2, Flips
      <4> QED
        BY <4>1, <4>2
    <3>5. \A q \in Pids : q # p => LoadState(q)' /\ ~Busy(q)'
      BY <3>1, <3>2, <3>4, RestKeeps
    <3> QED
      BY <3>3, <3>5
  <2> QED
    BY <1>3, <2>1, <2>2
<1>7. ASSUME NEW why \in {"ok", "alloc", "class", "attach"}, CreateFinish(why)
      PROVE  Goal
  <2>1. CASE CreateOk(cmd.disk, cmd.size)
    <3>1. /\ run = "up" /\ cmd.pc = "restore" /\ mixed' = mixed
          /\ minor = ds_count + 1 /\ minor \in Index /\ ds_count \in Nat
      BY <1>1, <1>7, CreateFinishes, NextDevice, CountNumbers DEF Slot
    <3>2. \A p \in Pids : ~Busy(p)
      BY <1>1, <3>1 DEF LoadInv, LoadState
    <3>3. ASSUME NEW p \in Pids, th[p].flips PROVE bm'[Slot(p)] = bm[Slot(p)]
      <4>1. Slot(p) <= ds_count /\ Slot(p) \in Index /\ Slot(p) \in Nat
        BY <1>1, <3>1, <3>3, Slots1, Numbers DEF CallInv
      <4>2. Slot(p) # minor
        BY <3>1, <4>1
      <4> QED
        BY <1>1, <2>1, <4>1, <4>2 DEF CreateOk, TypeOK
    <3> QED
      BY <1>4, <2>1, <3>1, <3>2, <3>3 DEF CreateOk
  <2>2. CASE CreateFails(cmd.size)
    BY <1>3, <2>2 DEF CreateFails
  <2> QED
    BY <1>7, <2>1, <2>2, CreateFinishes
<1>8. ASSUME NEW s \in Sizes, SetGrain(s) PROVE Goal
  <2>1. ~mixed /\ \A p \in Pids : ~Busy(p)
    BY <1>8 DEF SetGrain
  <2> QED
    BY <1>1, <1>4, <1>8, <2>1, SetGrainEffect, Slots1
<1>9. ASSUME NEW d \in Disks, NEW s \in Sizes, CreateBegin(d, s) PROVE Goal
  <2>1. ~mixed /\ (\A p \in Pids : ~Busy(p)) /\ th' = th /\ bm' = bm
    BY <1>9 DEF CreateBegin, kernelVars
  <2> QED
    BY <1>4, <2>1
<1>10. CASE CreateSearch \/ CreateRefused
  <2>1. ~mixed /\ th' = th /\ bm' = bm /\ cmd.pc \in {"search", "restore"}
    BY <1>10 DEF CreateSearch, CreateRefused, kernelVars, histVars
  <2>2. \A p \in Pids : ~Busy(p)
    BY <1>1, <2>1 DEF LoadInv, LoadState
  <2> QED
    BY <1>4, <2>1, <2>2
<1>11. ASSUME NEW p \in Pids, MakePartner(p) PROVE Goal
  <2>1. ~mixed /\ UNCHANGED <<th, index, kindex, cmd, bm>>
    BY <1>11 DEF MakePartner, kernelVars, callVars, histVars
  <2> QED
    BY <1>5, <2>1
<1>12. ASSUME NEW p \in Pids, LoadStart(p) PROVE Goal
  <2>1. /\ ~mixed /\ (\A q \in Pids : ~Busy(q)) /\ cmd' = cmd /\ bm' = bm
        /\ cmd.pc \notin {"search", "restore"} /\ index' = Slot(p)
        /\ th' = [th EXCEPT ![p] = [NoThread EXCEPT !.pc = "call"]]
    BY <1>12 DEF LoadStart, kernelVars
  <2>2. th'[p] = [NoThread EXCEPT !.pc = "call"] /\ \A q \in Pids : q # p => th'[q] = th[q]
    BY <1>1, <2>1 DEF TypeOK
  <2>3. /\ th'[p].pc = "call" /\ th'[p].call = "GET_USER" /\ ~th'[p].flips
    BY <2>2 DEF NoThread
  <2>4. LoadState(p)'
    BY <2>1, <2>3 DEF LoadState
  <2>5. \A q \in Pids : q # p => LoadState(q)' /\ ~Busy(q)'
    BY <1>1, <2>1, <2>2, RestKeeps DEF LoadInv
  <2> QED
    BY <2>4, <2>5
<1>13. ASSUME NEW p \in Pids, Terminate(p) PROVE Goal
  <2>1. /\ ~mixed /\ UNCHANGED <<index, kindex, cmd, bm>> /\ th[p].pc = "done"
        /\ th' = [th EXCEPT ![p] = NoThread]
    BY <1>13 DEF Terminate, At, kernelVars, callVars, histVars
  <2>2. th'[p] = NoThread /\ \A q \in Pids : q # p => th'[q] = th[q]
    BY <1>1, <2>1 DEF TypeOK
  <2>3. LoadState(p)' /\ ~Busy(p)'
    BY <2>2, NoThreadState
  <2>4. \A q \in Pids : q # p => LoadState(q)' /\ (Busy(q)' <=> Busy(q))
    BY <1>1, <2>1, <2>2 DEF LoadInv, LoadState, Busy
  <2> QED
    BY <1>1, <2>1, <2>3, <2>4 DEF LoadInv
<1>14. CASE Stop
  BY <1>3, <1>14 DEF Stop
<1>15. CASE Restart \/ Reload
  BY <1>1, <1>2, <1>15 DEF Restart, Reload, DownInv
<1>16. CASE UNCHANGED vars
  BY <1>5, <1>16 DEF vars, kernelVars, callVars, histVars
<1> QED
  BY <1>6, <1>7, <1>8, <1>9, <1>10, <1>11, <1>12, <1>13, <1>14, <1>15, <1>16 DEF Next

\* The inductive invariant holds when the module and the daemon start.
LEMMA DeviceInit == Init => DeviceInv
<1> SUFFICES ASSUME Init PROVE DeviceInv
  OBVIOUS
<1>1. TypeOK
  BY TypeInit
<1>2. /\ drows = <<>> /\ Len(drows) = 0 /\ minor = 1 /\ nodes = {} /\ ds_count = 0
      /\ run = "up" /\ 1 .. minor - 1 = {} /\ 1 .. ds_count = {} /\ minor - 1 = 0
      /\ count.creates = 0 /\ cmd = NoCmd
  BY DEF Init, KernelInit
<1>3. CountInv
  BY <1>2, Numbers DEF CountInv, Pending, NoCmd
<1>4. MinorInv /\ HalfInv /\ RestartRecovers
  BY <1>2 DEF MinorInv, HalfInv, RestartRecovers
<1>5. \A p \in Index : slot[p] = NoSlot
  BY DEF Init
<1>6. UpInv
  BY <1>2, <1>5 DEF UpInv, NoSlot
<1>7. \A p \in Pids : th[p] = NoThread
  BY DEF Init
<1>8. DownInv /\ CallInv
  BY <1>7 DEF DownInv, CallInv, NoThread
<1>9. LoadInv
  BY <1>7 DEF LoadInv, LoadState, Busy, NoThread
<1> QED
  BY <1>1, <1>3, <1>4, <1>6, <1>8, <1>9 DEF DeviceInv

\* Every step of the module, the daemon and its threads keeps it.
LEMMA DeviceStep == DeviceInv /\ [Next]_vars => DeviceInv'
BY TypeStep, CountStep, MinorStep, UpStep, DownStep, RestartStep, CallStep, LoadInvStep,
   HalfStep DEF DeviceInv

\* Throughout --create, --setgrain, loads, ends and restarts, the module, the
\* daemon and the rows stay related as DeviceInv says.
THEOREM DeviceInvariant == Spec => []DeviceInv
BY DeviceInit, DeviceStep, PTL DEF Spec

\* The disk slots a running daemon serves from and the devices of the module
\* agree in number, name and size, though both sides only count (DEV_CREATE,
\* disk_source_create, db_init), for any number of disks, devices and restarts.
THEOREM SlotsMatch == Spec => []SlotMatchesDevice
<1>1. ASSUME DeviceInv PROVE SlotMatchesDevice
  <2>1. TypeOK /\ MinorInv /\ UpInv
    BY <1>1 DEF DeviceInv
  <2> SUFFICES ASSUME run = "up", NEW p \in 1 .. ds_count
               PROVE  /\ slot[p].mapped /\ p \in nodes /\ slot[p].name = dev[p].name
                      /\ slot[p].size = area[p]
    BY DEF SlotMatchesDevice
  <2>2. p \in 1 .. minor - 1 /\ p \in Index
    BY <2>1, BelowMinor DEF UpInv
  <2> QED
    BY <2>1, <2>2 DEF MinorInv, UpInv
<1> QED
  BY <1>1, DeviceInvariant, PTL

\* A load that no other user of the ioctl objects overlapped ends with the
\* kernel off the half it copied, whatever loads, --create and --setgrain ran
\* before or after it (server_bitmap_load_from_memory).
THEOREM LoadsOwn == Spec => []LoadOwn
<1>1. ASSUME DeviceInv PROVE LoadOwn
  BY <1>1 DEF DeviceInv, LoadInv, LoadState, LoadOwn
<1> QED
  BY <1>1, DeviceInvariant, PTL

\* A server that does not come up again after its end has a disk without a
\* partner in use, a failed --create or an unloaded module behind it
\* (db_init, retrieve_from_disk); else it serves every disk it had.
THEOREM RestartIsSafe == Spec => []RestartRecovers
<1>1. DeviceInv => RestartRecovers
  BY DEF DeviceInv
<1> QED
  BY <1>1, DeviceInvariant, PTL

\* The kernel marks inside the area that was allocated for a device, unless
\* --setgrain made the bitmap larger than its area (EBDR_FLIP_BITMAP_AREA,
\* ebdr_set_grain_size).
THEOREM HalvesStayInside == Spec => []HalvesInside
<1>1. ASSUME DeviceInv PROVE HalvesInside
  <2>1. TypeOK /\ HalfInv
    BY <1>1 DEF DeviceInv
  <2> SUFFICES ASSUME NEW m \in 1 .. minor - 1, m \notin grown
               PROVE  bm[m].off + bm[m].size <= 2 * area[m]
    BY DEF HalvesInside
  <2>2. m \in Minors /\ m \in Index
    BY <2>1, BelowMinor
  <2>3. /\ vsz[m] = area[m] /\ bm[m].size <= area[m]
        /\ bm[m].off = IF bm[m].user = "USER" THEN vsz[m] ELSE 0
    BY <2>1 DEF HalfInv
  <2>4. area[m] \in Nat /\ bm[m].size \in Nat
    BY <2>1, <2>2 DEF TypeOK, Bitmaps
  <2>5. bm[m].off = area[m] \/ bm[m].off = 0
    BY <2>3
  <2> QED
    BY <2>3, <2>4, <2>5
<1> QED
  BY <1>1, DeviceInvariant, PTL
=============================================================================
