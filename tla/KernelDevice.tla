---------------------------- MODULE KernelDevice ----------------------------
(***************************************************************************)
(* The devices of the kernel module and the source disks of the server     *)
(* daemon: how a device is made, attached to its disk and given a shared   *)
(* double bitmap, how the daemon maps it, how the receive threads of       *)
(* several partners load their bitmaps through one ioctl object, and what  *)
(* the daemon finds again after a restart.                                 *)
(*                                                                         *)
(* kernel/atdr_linux/atdr_main.c, atdr_device.c, atdr_memctl.c,            *)
(* atdr_bitmap.c; user/atdr_linux/atdr_daemon.c (--create, --setgrain),    *)
(* atdr_disk_source.c, atdr_bitmap_server.c, atdr_db.c (server rows).      *)
(*                                                                         *)
(* The kernel's minor m belongs to the daemon's disk slot m - 1: neither   *)
(* side tells the other, both only count.  What the marks say is the       *)
(* business of DirtyTracking; here a half is only active or taken.         *)
(***************************************************************************)
EXTENDS Integers, Sequences, FiniteSets

CONSTANTS
  Disks,       \* source disks
  MaxDevices,  \* bound: partners, and devices made (64 minors, 2048 slots)
  Sizes,       \* sizes of a bitmap half
  MaxLoads,    \* bound: metadata requests in a behaviour
  MaxCreates,  \* bound: --create commands
  MaxSetGrains,\* bound: --setgrain commands
  MaxStops     \* bound: ends of the daemon and unloads of the module

ASSUME KernelDeviceAssumption ==
  /\ MaxDevices \in Nat \ {0} /\ Sizes \subseteq Nat \ {0} /\ Sizes # {}
  /\ IsFiniteSet(Disks) /\ IsFiniteSet(Sizes)
  /\ MaxLoads \in Nat /\ MaxCreates \in Nat /\ MaxSetGrains \in Nat
  /\ MaxStops \in Nat

Pids   == 0 .. MaxDevices - 1
Minors == 1 .. MaxCreates + 1
Index  == 0 .. MaxDevices + MaxCreates + 1  \* values of ioctl_obj.index
None   == "none"

VARIABLES
  \* The kernel module.
  minor,    \* the next minor
  dev,      \* device[m]: disk_name, whether attached, and its blkdev
  bm,       \* device[m].bitmap: made, bmap_user, offset and size of the area
  glob,     \* the minor whose bitmap the global "bitmap" is, 0 before any
  area,     \* vmalloc_area[m]: size of one half, 0 for NULL
  vsz,      \* vmalloc_area_sz[m]
  nodes,    \* minors with a /dev/ebdr_memctrl node
  held,     \* minors whose bm_lock is held
  kindex,   \* ioctl_obj.index of the module
  \* The server daemon.
  run,      \* up, down, or db_init hung in its own lock or gave up
  ds_count, \* disk slots in use
  slot,     \* ebdr_disk_src_obj: name, bitmap_size, mapped
  index,    \* ioctl_obj.index of the daemon
  once,     \* the server listens
  recov,    \* partners with recovery_mode set
  cmd,      \* the control thread
  th,       \* the receive thread of each partner
  \* The database.
  drows,    \* disk rows not RELEASED
  prows,    \* partner rows: id and whether not RELEASED
  \* History.
  count,    \* loads, creates, setgrains and stops so far
  mixed,    \* two users of the ioctl objects have overlapped
  failed,   \* some create failed
  reloaded, \* the module was unloaded
  grown,    \* minors whose bitmap --setgrain made larger than its area
  puts      \* times blkdev[m] was put

kernelVars == <<minor, dev, bm, glob, area, vsz, nodes>>
callVars   == <<held, kindex, index>>
daemonVars == <<run, ds_count, slot, once, recov>>
rowVars    == <<drows, prows>>
histVars   == <<mixed, failed, reloaded, grown, puts>>
vars == <<kernelVars, callVars, daemonVars, cmd, th, rowVars, count, histVars>>

NoDevice == [name |-> None, attached |-> FALSE, opened |-> FALSE]
NoBitmap == [made |-> FALSE, user |-> "KERNEL", off |-> 0, size |-> 0]
NoSlot   == [name |-> None, size |-> 0, mapped |-> FALSE]
NoCmd    == [pc |-> "idle", disk |-> None, size |-> 0, saved |-> 0,
             exists |-> FALSE]
NoThread == [pc |-> "idle", call |-> "GET_USER", user |-> "KERNEL",
             took |-> 0, flips |-> FALSE]

KernelInit ==
  /\ minor = 1 /\ glob = 0 /\ nodes = {} /\ held = {} /\ kindex = 0
  /\ dev = [m \in Minors |-> NoDevice]
  /\ bm = [m \in Index |-> NoBitmap]
  /\ area = [m \in Minors |-> 0]
  /\ vsz = [m \in Minors |-> 0]

Init ==
  /\ KernelInit
  /\ run = "up" /\ ds_count = 0 /\ index = 0 /\ once = FALSE /\ recov = {}
  /\ slot = [p \in Index |-> NoSlot]
  /\ cmd = NoCmd
  /\ th = [p \in Pids |-> NoThread]
  /\ drows = <<>> /\ prows = <<>>
  /\ count = [loads |-> 0, creates |-> 0, grains |-> 0, stops |-> 0]
  /\ mixed = FALSE /\ failed = FALSE /\ reloaded = FALSE
  /\ grown = {} /\ puts = [m \in Minors |-> 0]

Slot(p) == p + 1           \* slot p is kept at the minor it is mapped from
Half(u) == IF u = "KERNEL" THEN 0 ELSE 1
Busy(p) == th[p].pc \notin {"idle", "done", "dead"}
Tick(f, max) == count[f] < max /\ count' = [count EXCEPT ![f] = @ + 1]

\* The receive threads end with the daemon.  One inside a locked section of
\* the module first leaves it; the daemon's end waits for that.
Stopped == th' = [p \in Pids |-> NoThread]
Quiet == \A p \in Pids : th[p].pc \notin {"locked", "acted"}

-----------------------------------------------------------------------------
(* --create: the module's side.                                            *)

\* ebdr_blkdev_destroy.  blkdev[m] is put, and stays set.
BlkdevDestroy(ms) ==
  /\ dev' = [m \in Minors |->
               IF m \in ms THEN [dev[m] EXCEPT !.attached = FALSE] ELSE dev[m]]
  /\ puts' = [m \in Minors |->
               IF m \in ms /\ dev[m].opened THEN puts[m] + 1 ELSE puts[m]]

\* ebdr_alloc_memory_mmap.
AllocMemoryMmap(size) == area' = [area EXCEPT ![minor] = size]

\* ebdr_register_kernel_memctl_device.
RegisterMemctl == nodes' = nodes \cup {minor}

\* ebdr_device_create and ebdr_init_bmap: the bitmap starts in the first half.
InitBmap(size) ==
  /\ bm' = [bm EXCEPT ![minor] = [made |-> TRUE, user |-> "KERNEL", off |-> 0,
                                 size |-> size]]
  /\ glob' = minor

\* ebdr_blkdev_create and ebdr_device_attach_blkdev; disk_name comes last.
AttachBlkdev(d) ==
  dev' = [dev EXCEPT ![minor] =
            [name |-> d, attached |-> TRUE, opened |-> TRUE]]

\* ebdr_minor_cleanup: every EARLIER device is destroyed, then the area and
\* the control device of this one.
MinorCleanup ==
  /\ BlkdevDestroy(1 .. minor - 1)
  /\ area' = [area EXCEPT ![minor] = 0]
  /\ UNCHANGED nodes

\* EBDRCTL_DEV_CREATE.  It may fail to get the area ("alloc"), the control
\* device ("class"), or the disk ("attach").
DeviceCreate(d, size, why) ==
  /\ vsz' = [vsz EXCEPT ![minor] = size]
  /\ \/ /\ why = "alloc"
        /\ UNCHANGED <<dev, bm, glob, area, nodes, minor, puts>>
     \/ /\ why = "class"
        /\ AllocMemoryMmap(size)
        /\ UNCHANGED <<dev, bm, glob, nodes, minor, puts>>
     \/ /\ why = "attach"
        /\ InitBmap(size) /\ MinorCleanup
        /\ UNCHANGED minor
     \/ /\ why = "ok"
        /\ AllocMemoryMmap(size) /\ RegisterMemctl /\ InitBmap(size)
        /\ AttachBlkdev(d)
        /\ minor' = minor + 1
        /\ UNCHANGED puts

\* EBDRCTL_BLKDEV_SEARCH: a name stays with a device that was destroyed.
BlkdevSearch(d) == \E m \in Minors : dev[m].name = d

-----------------------------------------------------------------------------
(* --create and --setgrain: the daemon's side, in the control thread.      *)

\* is_disk_created: the ioctl object is saved, ...
CreateBegin(d, size) ==
  /\ run = "up" /\ cmd.pc = "idle" /\ Tick("creates", MaxCreates)
  /\ cmd' = [pc |-> "search", disk |-> d, size |-> size, saved |-> index,
             exists |-> FALSE]
  /\ mixed' = (mixed \/ \E p \in Pids : Busy(p))
  /\ UNCHANGED <<kernelVars, callVars, daemonVars, th, rowVars, failed,
                 reloaded, grown, puts>>

\* ... the module searches, ...
CreateSearch ==
  /\ run = "up" /\ cmd.pc = "search"
  /\ kindex' = index
  /\ cmd' = [cmd EXCEPT !.pc = "restore", !.exists = BlkdevSearch(cmd.disk)]
  /\ UNCHANGED <<kernelVars, held, index, daemonVars, th, rowVars, count,
                 histVars>>

\* ... and the object is put back as it was.
RestoreIoctl == index' = cmd.saved

CreateRefused ==
  /\ run = "up" /\ cmd.pc = "restore" /\ cmd.exists
  /\ RestoreIoctl
  /\ cmd' = NoCmd
  /\ UNCHANGED <<kernelVars, held, kindex, daemonVars, th, rowVars, count,
                 histVars>>

\* Fault: the new disk gets no row.
DiskSourceNoRow(d, size) ==
  /\ slot' = [slot EXCEPT ![Slot(ds_count)] =
                [name |-> d, size |-> size,
                 mapped |-> Slot(ds_count) \in nodes']]
  /\ UNCHANGED drows

\* disk_source_create: the row is written before disk_source_mmap is tried.
DiskSourceCreate(d, size) ==
  /\ drows' = Append(drows, [name |-> d, size |-> size])
  /\ slot' = [slot EXCEPT ![Slot(ds_count)] =
                [name |-> d, size |-> size,
                 mapped |-> Slot(ds_count) \in nodes']]

\* The rest of --create.  The module's error numbers are positive, which the
\* daemon takes for success; it ends when the control device cannot be opened.
CreateFinish(why) ==
  /\ run = "up" /\ cmd.pc = "restore" /\ ~cmd.exists
  /\ why # "ok" => Quiet
  /\ RestoreIoctl /\ kindex' = cmd.saved
  /\ DeviceCreate(cmd.disk, cmd.size, why)
  /\ DiskSourceCreate(cmd.disk, cmd.size)
  /\ failed' = (failed \/ why # "ok")
  /\ cmd' = NoCmd
  /\ IF Slot(ds_count) \in nodes'
     THEN /\ ds_count' = ds_count + 1 /\ once' = TRUE
          /\ UNCHANGED <<run, th>>
     ELSE /\ run' = "down" /\ Stopped
          /\ UNCHANGED <<ds_count, once>>
  /\ UNCHANGED <<held, recov, prows, count, mixed, reloaded, grown>>

\* --setgrain: the lock of the device that "index" names, the bitmap that was
\* made last, and the area size of the device that is not made yet.
SetGrain(size) ==
  /\ run = "up" /\ cmd.pc = "idle" /\ Tick("grains", MaxSetGrains)
  /\ kindex' = index
  /\ mixed' = (mixed \/ \E p \in Pids : Busy(p))
  /\ IF ~bm[index].made
     THEN /\ cmd' = [cmd EXCEPT !.pc = "dead"]   \* the thread dies in an oops
          /\ UNCHANGED <<bm, vsz, grown>>
     ELSE /\ index \notin held
          /\ vsz' = [vsz EXCEPT ![minor] = size]
          /\ bm' = [bm EXCEPT ![glob].size = size]
          /\ grown' = IF size > area[glob] THEN grown \cup {glob}
                                           ELSE grown \ {glob}
          /\ UNCHANGED cmd
  /\ UNCHANGED <<minor, dev, glob, area, nodes, held, index, daemonVars, th,
                 rowVars, failed, reloaded, puts>>

-----------------------------------------------------------------------------
(* Partners and their loads, in the receive threads.                       *)

InUse(p) == \E i \in DOMAIN prows : prows[i].pid = p /\ prows[i].inUse

SetRow(p, v) == prows' = [i \in DOMAIN prows |->
                  IF prows[i].pid = p THEN [prows[i] EXCEPT !.inUse = v]
                                      ELSE prows[i]]

\* make_partner inserts the row; the server does not ask for a disk.
MakePartner(p) ==
  /\ run = "up" /\ once
  /\ \A i \in DOMAIN prows : prows[i].pid # p
  /\ prows' = Append(prows, [pid |-> p, inUse |-> TRUE])
  /\ UNCHANGED <<kernelVars, callVars, daemonVars, cmd, th, drows, count,
                 histVars>>

\* get_bitmap up to the first ioctl: a released partner comes back.
LoadStart(p) ==
  /\ run = "up" /\ once /\ ~Busy(p) /\ th[p].pc # "dead"
  /\ \E i \in DOMAIN prows : prows[i].pid = p
  /\ Tick("loads", MaxLoads)
  /\ SetRow(p, TRUE)
  /\ index' = Slot(p)
  /\ th' = [th EXCEPT ![p] = [NoThread EXCEPT !.pc = "call"]]
  /\ mixed' = (\/ mixed \/ cmd.pc \in {"search", "restore"}
               \/ \E q \in Pids : Busy(q))
  /\ UNCHANGED <<kernelVars, held, kindex, daemonVars, cmd, drows, failed,
                 reloaded, grown, puts>>

At(p, pc) == run = "up" /\ th[p].pc = pc

\* An ioctl copies the daemon's object into the module's, ...
IoctlCopy(p) ==
  /\ At(p, "call")
  /\ kindex' = index
  /\ th' = [th EXCEPT ![p].pc = "copied"]
  /\ UNCHANGED <<kernelVars, held, index, daemonVars, cmd, rowVars, count,
                 histVars>>

\* ... and reads ioctl_obj.index anew for the lock, the action and the unlock.
IoctlLock(p) ==
  /\ At(p, "copied") /\ bm[kindex].made /\ kindex \notin held
  /\ held' = held \cup {kindex}
  /\ th' = [th EXCEPT ![p].pc = "locked"]
  /\ UNCHANGED <<kernelVars, kindex, index, daemonVars, cmd, rowVars, count,
                 histVars>>

\* EBDR_FLIP_BITMAP_AREA.
Flip(m) ==
  IF bm[m].user = "USER"
  THEN [bm EXCEPT ![m].off = 0, ![m].user = "KERNEL"]
  ELSE [bm EXCEPT ![m].off = @ + vsz[m], ![m].user = "USER"]

IoctlAct(p) ==
  /\ At(p, "locked") /\ bm[kindex].made
  /\ bm' = IF th[p].call = "FLIP" THEN Flip(kindex) ELSE bm
  /\ th' = [th EXCEPT ![p].pc = "acted", ![p].user = bm[kindex].user]
  /\ UNCHANGED <<minor, dev, glob, area, vsz, nodes, callVars, daemonVars, cmd,
                 rowVars, count, histVars>>

IoctlUnlock(p) ==
  /\ At(p, "acted") /\ bm[kindex].made
  /\ held' = held \ {kindex}
  /\ th' = [th EXCEPT ![p].pc = IF th[p].call = "FLIP" THEN "done"
                                                      ELSE "copying"]
  /\ UNCHANGED <<kernelVars, kindex, index, daemonVars, cmd, rowVars, count,
                 histVars>>

\* A device without a bitmap: the thread dies in an oops, what it holds stays.
Oops(p) ==
  /\ run = "up" /\ th[p].pc \in {"copied", "locked", "acted"}
  /\ ~bm[kindex].made
  /\ th' = [th EXCEPT ![p].pc = "dead"]
  /\ UNCHANGED <<kernelVars, callVars, daemonVars, cmd, rowVars, count,
                 histVars>>

\* Fault: the half that is copied is the one the kernel is not writing.
CopyHalfOther(p) ==
  /\ At(p, "copying") /\ slot[Slot(p)].mapped
  /\ \/ /\ p \notin recov
        /\ th' = [th EXCEPT ![p] = [@ EXCEPT !.pc = "call", !.call = "FLIP",
                    !.took = 1 - Half(th[p].user), !.flips = TRUE]]
     \/ /\ p \in recov
        /\ \E h \in {0, 1} : th' = [th EXCEPT ![p] =
             [@ EXCEPT !.pc = "done", !.took = h, !.flips = FALSE]]
  /\ UNCHANGED <<kernelVars, callVars, daemonVars, cmd, rowVars, count,
                 histVars>>

\* server_bitmap_load_from_memory between its two calls.  In recovery the half
\* is the one whose first word is not zero, and there is no second call.
CopyHalf(p) ==
  /\ At(p, "copying") /\ slot[Slot(p)].mapped
  /\ \/ /\ p \notin recov
        /\ th' = [th EXCEPT ![p] = [@ EXCEPT !.pc = "call", !.call = "FLIP",
                    !.took = Half(th[p].user), !.flips = TRUE]]
     \/ /\ p \in recov
        /\ \E h \in {0, 1} : th' = [th EXCEPT ![p] =
             [@ EXCEPT !.pc = "done", !.took = h, !.flips = FALSE]]
  /\ UNCHANGED <<kernelVars, callVars, daemonVars, cmd, rowVars, count,
                 histVars>>

\* The thread of a partner that has no disk reads through a null pointer.
CopyNowhere(p) ==
  /\ At(p, "copying") /\ ~slot[Slot(p)].mapped /\ Quiet
  /\ run' = "down" /\ Stopped
  /\ UNCHANGED <<kernelVars, callVars, ds_count, slot, once, recov, cmd,
                 rowVars, count, histVars>>

\* terminate: of the rows, only the partner's is updated.
Terminate(p) ==
  /\ At(p, "done") /\ InUse(p)
  /\ SetRow(p, FALSE)
  /\ recov' = recov \ {p}
  /\ th' = [th EXCEPT ![p] = NoThread]
  /\ UNCHANGED <<kernelVars, callVars, run, ds_count, slot, once, cmd, drows,
                 count, histVars>>

-----------------------------------------------------------------------------
(* Ends and restarts.                                                      *)

\* The daemon ends, by a signal or by one of its many stop_work calls.
Stop ==
  /\ run = "up" /\ Quiet /\ Tick("stops", MaxStops)
  /\ run' = "down" /\ Stopped
  /\ UNCHANGED <<kernelVars, callVars, ds_count, slot, once, recov, cmd,
                 rowVars, histVars>>

\* retrieve_from_partner, and the partners db_init puts into recovery.
RecoveryPids == {prows[i].pid : i \in {j \in DOMAIN prows : prows[j].inUse}}

\* Fault: the rows come back newest first.
DiskRowReversed(p) == IF p \in 1 .. Len(drows)
                      THEN [name |-> drows[Len(drows) + 1 - p].name,
                            size |-> drows[Len(drows) + 1 - p].size,
                            mapped |-> p \in nodes]
                      ELSE NoSlot

\* retrieve_from_disk: rows by their number.
DiskRow(p) == IF p \in 1 .. Len(drows)
              THEN [name |-> drows[p].name, size |-> drows[p].size,
                    mapped |-> p \in nodes]
              ELSE NoSlot

\* Row i is mapped as slot i.  If partner i is not in recovery the daemon
\* inserts the row again, with the lock db_init holds.
Unpaired == {i \in 1 .. Len(drows) : i - 1 \notin RecoveryPids}
Unmapped == {i \in 1 .. Len(drows) : i \notin nodes}
Least(S) == CHOOSE i \in S : \A j \in S : i <= j

\* main and db_init: as far as the first disk row that stops it.
Restart ==
  /\ run \in {"down", "gone"} /\ Tick("stops", MaxStops)
  /\ index' = 0 /\ cmd' = NoCmd
  /\ recov' = RecoveryPids
  /\ slot' = [p \in Index |-> DiskRow(p)]
  /\ LET bad == Unpaired \cup Unmapped IN
     IF bad = {}
     THEN /\ run' = "up" /\ ds_count' = Len(drows) /\ once' = (drows # <<>>)
     ELSE /\ run' = IF Least(bad) \in Unpaired THEN "hung" ELSE "gone"
          /\ ds_count' = 0 /\ once' = FALSE
  /\ UNCHANGED <<kernelVars, held, kindex, th, rowVars, histVars>>

\* ebdr_cleanup and a new ebdr_init: the module is unloaded, or the machine
\* starts again, while the daemon is not running.
Reload ==
  /\ run \in {"down", "gone"} /\ Tick("stops", MaxStops)
  /\ minor' = 1 /\ glob' = 0 /\ nodes' = {} /\ held' = {} /\ kindex' = 0
  /\ dev' = [m \in Minors |-> NoDevice]
  /\ bm' = [m \in Index |-> NoBitmap]
  /\ area' = [m \in Minors |-> 0]
  /\ vsz' = [m \in Minors |-> 0]
  /\ puts' = [m \in Minors |->
                IF m < minor /\ dev[m].opened THEN puts[m] + 1 ELSE puts[m]]
  /\ reloaded' = TRUE
  /\ UNCHANGED <<index, daemonVars, cmd, th, rowVars, mixed, failed, grown>>

LoadStep(p) == \/ IoctlCopy(p) \/ IoctlLock(p) \/ IoctlAct(p)
               \/ IoctlUnlock(p) \/ Oops(p) \/ CopyHalf(p) \/ CopyNowhere(p)

Next ==
  \/ \E d \in Disks, s \in Sizes : CreateBegin(d, s)
  \/ CreateSearch
  \/ CreateRefused
  \/ \E why \in {"ok", "alloc", "class", "attach"} : CreateFinish(why)
  \/ \E s \in Sizes : SetGrain(s)
  \/ \E p \in Pids : MakePartner(p) \/ LoadStart(p) \/ Terminate(p)
  \/ \E p \in Pids : LoadStep(p)
  \/ Stop
  \/ Restart
  \/ Reload

\* A thread that has started to load goes on: its calls do not wait, except
\* for bm_lock.
Fairness == \A p \in Pids : WF_vars(LoadStep(p))

Spec == Init /\ [][Next]_vars /\ Fairness

-----------------------------------------------------------------------------
(* Properties.                                                             *)

Devices == [name : Disks \cup {None}, attached : BOOLEAN, opened : BOOLEAN]
Bitmaps == [made : BOOLEAN, user : {"KERNEL", "USER"}, off : Nat, size : Nat]
Slots   == [name : Disks \cup {None}, size : Nat, mapped : BOOLEAN]
DRows   == [name : Disks \cup {None}, size : Nat]
PRows   == [pid : Pids, inUse : BOOLEAN]
Cmds    == [pc : {"idle", "search", "restore", "dead"},
            disk : Disks \cup {None}, size : Nat, saved : Index,
            exists : BOOLEAN]
Loads   == [pc : {"idle", "call", "copied", "locked", "acted", "copying",
                  "done", "dead"},
            call : {"GET_USER", "FLIP"}, user : {"KERNEL", "USER"},
            took : {0, 1}, flips : BOOLEAN]

Counts  == [loads : Nat, creates : Nat, grains : Nat, stops : Nat]

\* Types of the state of the module, the daemon and the rows.
TypeOK ==
  /\ minor \in Minors /\ glob \in Index /\ nodes \subseteq Minors
  /\ dev \in [Minors -> Devices] /\ bm \in [Index -> Bitmaps]
  /\ \A m \in Index : bm[m].made => m \in Minors
  /\ area \in [Minors -> Nat] /\ vsz \in [Minors -> Nat]
  /\ held \subseteq Index /\ kindex \in Index /\ index \in Index
  /\ run \in {"up", "down", "hung", "gone"} /\ ds_count \in 0 .. MaxCreates
  /\ slot \in [Index -> Slots] /\ recov \subseteq Pids
  /\ cmd \in Cmds /\ th \in [Pids -> Loads]
  /\ drows \in Seq(DRows) /\ prows \in Seq(PRows)
  /\ count \in Counts
  /\ mixed \in BOOLEAN /\ failed \in BOOLEAN /\ reloaded \in BOOLEAN

\* Neither side tells the other which device a disk slot belongs to, yet they
\* agree: a mapped slot has the name and the size of the device with its
\* number (DEV_CREATE counts minors, disk_source_create counts slots).
SlotMatchesDevice ==
  run = "up" => \A p \in 1 .. ds_count :
    slot[p].mapped /\ p \in nodes /\ slot[p].name = dev[p].name
                   /\ slot[p].size = area[p]

\* A load that no other user of the ioctl objects overlapped has flipped its
\* own device away from the half it copied, which terminate is to clear, and
\* the kernel stays off that half (server_bitmap_load_from_memory).
LoadOwn ==
  \A p \in Pids :
    run = "up" /\ th[p].pc = "done" /\ th[p].flips /\ ~mixed
      => Half(bm[Slot(p)].user) # th[p].took

\* The half the kernel marks lies inside the area that was allocated for both,
\* unless --setgrain gave the bitmap a larger size than its area.
HalvesInside ==
  \A m \in 1 .. minor - 1 :
    m \notin grown => bm[m].off + bm[m].size <= 2 * area[m]

\* A bm_lock is held only by a thread inside a call: an ioctl that overlaps
\* with another may lock one device and unlock another.
LocksFree ==
  ~mixed /\ (\A p \in Pids : th[p].pc \notin {"locked", "acted"}) => held = {}

\* The backing disk of a device is put once, when the module goes, unless a
\* failed --create destroyed the devices before it.
ReleasedOnce == (\E m \in Minors : puts[m] > 1) => failed

\* What keeps a server from starting again.  db_init hangs only if some disk
\* has no partner in use, which terminate is enough for; it gives up only if a
\* --create failed or the module was loaded anew, since then a row has no
\* device.  Otherwise the server serves every disk it had.
RestartRecovers ==
  /\ run = "hung" => \E i \in DOMAIN drows : ~InUse(i - 1)
  /\ run = "gone" => failed \/ reloaded
  /\ run = "up" => ds_count = Len(drows)

\* A load comes to its end, unless calls overlapped, its partner has no
\* device, or the daemon ended.
LoadEnds ==
  \A p \in Pids :
    Busy(p) ~> (~Busy(p) \/ mixed \/ run # "up")

-----------------------------------------------------------------------------
(* The inductive invariant behind SlotMatchesDevice, RestartRecovers,       *)
(* LoadOwn and HalvesInside.                                               *)

\* Every --create makes at most one row, and one that is under way none yet.
Pending  == IF cmd.pc \in {"search", "restore"} THEN 1 ELSE 0
CountInv == /\ Len(drows) + Pending <= count.creates
            /\ count.creates <= MaxCreates

\* Minors, nodes and rows are counted alike; a failed --create leaves a row
\* without a device, and an unload rows without any.
MinorInv ==
  /\ nodes = 1 .. minor - 1 /\ minor - 1 <= Len(drows)
  /\ minor - 1 = Len(drows) \/ failed \/ reloaded
  /\ \A m \in 1 .. minor - 1 :
       drows[m].name = dev[m].name /\ drows[m].size = area[m]

\* A running daemon has a mapped slot for every device, and for nothing else.
UpInv ==
  run = "up" =>
    /\ ds_count = minor - 1 /\ ds_count = Len(drows)
    /\ \A p \in Index : slot[p].mapped <=> p \in 1 .. ds_count
    /\ \A p \in 1 .. ds_count :
         slot[p].name = drows[p].name /\ slot[p].size = drows[p].size

DownInv == run # "up" => \A p \in Pids : th[p] = NoThread

\* Where the half that a load copied is, by the control point of the thread.
LoadState(p) ==
  /\ Busy(p) => index = Slot(p) /\ cmd.pc \notin {"search", "restore"}
  /\ th[p].pc \in {"copied", "locked", "acted"} => kindex = Slot(p)
  /\ th[p].pc = "copying" \/ (th[p].pc = "acted" /\ th[p].call = "GET_USER") =>
       th[p].user = bm[Slot(p)].user
  /\ th[p].pc \in {"call", "copied", "locked"} /\ th[p].call = "FLIP" =>
       th[p].took = Half(bm[Slot(p)].user)
  /\ th[p].pc \in {"acted", "done"} /\ th[p].flips =>
       th[p].took # Half(bm[Slot(p)].user)

\* Only the second call of a load flips, and only a load that copied a half of
\* its own device makes it.
CallInv == \A p \in Pids :
             /\ th[p].call = "FLIP" <=> th[p].flips
             /\ th[p].pc = "copying" => th[p].call = "GET_USER"
             /\ run = "up" /\ th[p].flips => Slot(p) <= ds_count

\* Without an overlap one load runs at a time.
LoadInv == ~mixed => /\ \A p \in Pids : LoadState(p)
                     /\ \A p, q \in Pids : Busy(p) /\ Busy(q) => p = q

\* The half in use begins at the start or in the middle of the area.
HalfInv ==
  \A m \in 1 .. minor - 1 :
    /\ vsz[m] = area[m]
    /\ bm[m].off = IF bm[m].user = "USER" THEN vsz[m] ELSE 0
    /\ m \notin grown => bm[m].size <= area[m]

DeviceInv == /\ TypeOK /\ CountInv /\ MinorInv /\ UpInv /\ DownInv
             /\ RestartRecovers /\ CallInv /\ LoadInv /\ HalfInv
=============================================================================
