----------------------------- MODULE WinFilter -----------------------------
(***************************************************************************)
(* The Windows volume filter and the part of the Windows server daemon      *)
(* that talks to it.  The filter marks every write to a tracked volume in   *)
(* one half of a bitmap area it shares with the daemon; the daemon creates  *)
(* the area, loads a half when the client asks for the bitmap, has the      *)
(* filter flip to the other half, and clears the half when the client       *)
(* terminates the round.                                                    *)
(*                                                                         *)
(*   kernel/atdr_windows/atdrvolflt/atdrvolflt.c                            *)
(*   user/atdr_windows/windows_client/atdr_daemon.c  (ioctl, 'c' command)   *)
(*   user/atdr_windows/windows_client/atdr_bitmap_server.c                  *)
(*   user/atdr_windows/windows_client/atdr_disk_source.c, replic_server.c   *)
(*                                                                         *)
(* Bitmap sizes are counted in bits.  The control thread and the receive    *)
(* thread of partner 0 share one ioctl_obj; the filter's writers and        *)
(* the daemon share the area without a common lock.                         *)
(***************************************************************************)
EXTENDS Integers, Sequences, FiniteSets

CONSTANTS
  Volumes,       \* the volumes of the machine
  DiskBits,      \* grains of a volume: 0 .. DiskBits-1 can be written
  Sizes,         \* bitmap sizes --create may ask for
  Clamp,         \* the largest half the filter allocates (4 * 4096 bytes)
  MaxWrites,     \* bound: writes
  MaxCreates,    \* bound: --create commands
  MaxLoads,      \* bound: BITMAP_METADATA requests
  MaxFaults      \* bound: mappings that fail, lost connections, crashes of the
                 \* daemon, volumes that come back, ATDRCTL_DEV_DESTROY requests

ASSUME WFAssumption ==
  /\ IsFiniteSet(Volumes) /\ Volumes # {}
  /\ Sizes \subseteq Nat \ {0} /\ DiskBits \in Nat \ {0} /\ Clamp \in Nat \ {0}
  /\ {MaxWrites, MaxCreates, MaxLoads, MaxFaults} \subseteq Nat

VARIABLES
  vols,      \* VOL_INFO and ATDR_BITMAP of each volume
  areas,     \* the bitmap areas allocated so far: owner, bits of a half, set bits
  wr,        \* the write being marked on each volume
  daemon,    \* "up" | "dead"
  ioctl,     \* ioctl_obj: src_disk and u_bitmap_size
  slots,     \* atdr_disk_src_obj: name, bitmap_size, mapped area (0: none)
  ct,        \* control thread: where in --create, the open volume, the area mapped
  ld,        \* load of partner 0: where, bmap_user, the copy (bitmap_area)
  recovery,  \* recovery_mode[0], which the load reads for every partner
  resume,    \* atdr_conn_server[0].obj_state is CONN_OBJ_RESUME
  count,     \* counters against the bounds
  hist       \* history: what happened, for the properties

vars == <<vols, areas, wr, daemon, ioctl, slots, ct, ld, recovery, resume,
          count, hist>>
kernelVars == <<vols, areas, wr>>
daemonVars == <<daemon, ioctl, slots, ct, ld, recovery, resume>>

-----------------------------------------------------------------------------
(* State *)

Users == {"kernel", "user"}
NoVolume == "none"
NoIoctl == [disk |-> NoVolume, size |-> 0]
LdIdle == [pc |-> "idle", user |-> "kernel", copy |-> {}]
CtIdle == [pc |-> "idle", vol |-> NoVolume, area |-> 0]
WrIdle == [pc |-> "idle", first |-> 0, last |-> 0, area |-> 0, base |-> 0]

\* A bit of an area: <<area, index>>.
Bits(a, base, n) == {<<a, base + i>> : i \in 0..(n - 1)}
Extent(a) == Bits(a, 0, 2 * areas[a].half)

Bump(c) == count' = [count EXCEPT ![c] = @ + 1]
Recall(h) == hist' = [hist EXCEPT !.events = @ \cup h]

\* atdrFltAddDevice: the VolInfo of a volume that appears.  The bitmap is
\* not zeroed by the allocation: bmap_user is whatever the memory held.
Added == [tracking |-> FALSE, numBits |-> 0, size |-> 0, area |-> 0,
          kern |-> 0, backup |-> 0, user |-> "garbage", mdl |-> FALSE]

Init ==
  /\ vols = [v \in Volumes |-> Added]
  /\ areas = <<>>
  /\ wr = [v \in Volumes |-> WrIdle]
  /\ daemon = "up"
  /\ ioctl = NoIoctl
  /\ slots = <<>>
  /\ ct = CtIdle
  /\ ld = LdIdle
  /\ recovery = FALSE
  /\ resume = FALSE
  /\ count = [write |-> 0, create |-> 0, load |-> 0, fault |-> 0]
  /\ hist = [events |-> {}, late |-> {}, lost |-> {}, missed |-> {},
             readded |-> {}, astray |-> FALSE, bad |-> {}]

-----------------------------------------------------------------------------
(* The filter: writes *)

\* Fault: positions are counted from one.
FindPosFromOne(v, g) == IF g < vols[v].numBits THEN g + 1 ELSE vols[v].numBits

\* atdr_find_pos: the loop gives num_bits, one past the last bit, for an
\* address no bit covers.
FindPos(v, g) == IF g < vols[v].numBits THEN g ELSE vols[v].numBits

\* atdrFltWrite on a tracked volume, up to the pointer: the positions (the
\* end is exclusive, so a write that ends with its grain reaches the next
\* position), then atdr_set_bits takes Lock_bm and reads bitmap_area, which
\* the flip changes under the other lock, Lock.
WriteBegin(v) ==
  /\ wr[v].pc = "idle" /\ count.write < MaxWrites
  /\ Bump("write")
  /\ IF vols[v].tracking
       THEN /\ \E g \in 0..(DiskBits - 1), toEnd \in BOOLEAN :
                 wr' = [wr EXCEPT ![v] =
                          [pc |-> "marking", first |-> FindPos(v, g),
                           last |-> FindPos(v, IF toEnd THEN g + 1 ELSE g),
                           area |-> vols[v].area, base |-> vols[v].kern]]
            /\ UNCHANGED hist
       ELSE /\ hist' = IF \E i \in DOMAIN slots : slots[i].vol = v
                         THEN [hist EXCEPT !.missed = @ \cup {v}] ELSE hist
            /\ UNCHANGED wr
  /\ UNCHANGED <<vols, areas, daemonVars>>

\* test_and_set_bit for first..last through the pointer read before.  Bits
\* outside the area are other memory of the kernel.
Marked(v) == IF wr[v].area = 0 THEN {}
             ELSE Bits(wr[v].area, wr[v].base + wr[v].first,
                       wr[v].last - wr[v].first + 1)
Landed(v) == IF wr[v].area = 0 THEN {} ELSE Marked(v) \cap Extent(wr[v].area)

SetBits(v) ==
  LET a == wr[v].area
      bad == (IF a = 0 THEN {"unmapped"} ELSE {})
               \cup (IF Marked(v) # Landed(v) THEN {"past"} ELSE {})
               \cup (IF a # 0 /\ ~areas[a].live THEN {"freed"} ELSE {})
  IN
  /\ wr[v].pc = "marking"
  /\ areas' = IF a = 0 THEN areas ELSE [areas EXCEPT ![a].bits = @ \cup Landed(v)]
  /\ wr' = [wr EXCEPT ![v] = WrIdle]
  /\ hist' = [hist EXCEPT !.late = IF ld.pc = "sent" THEN @ ELSE @ \cup Landed(v),
                          !.bad = @ \cup bad]
  /\ UNCHANGED <<vols, daemonVars, count>>

\* atdrFltRemoveDevice and atdrFltAddDevice: the volume goes and comes back
\* with a new VolInfo; the old one and its area are never freed.
RemoveDevice(v) ==
  /\ count.fault < MaxFaults /\ wr[v].pc = "idle"
  /\ Bump("fault")
  /\ vols' = [vols EXCEPT ![v] = Added]
  /\ hist' = [hist EXCEPT !.readded = @ \cup {v}]
  /\ UNCHANGED <<areas, wr, daemonVars>>

-----------------------------------------------------------------------------
(* The filter: requests of the daemon *)

\* ATDRCTL_DEV_CREATE up to the mapping.  The number of bits is taken before
\* the size is clamped, and tracking starts before there is an area.
Settings(v) ==
  vols' = [vols EXCEPT ![v].numBits = ioctl.size,
                       ![v].size = IF ioctl.size > Clamp THEN Clamp ELSE ioctl.size,
                       ![v].tracking = TRUE]

\* MapBufferForUserModeUse: a zeroed area of two halves, the first of them
\* the filter's.
MapBuffer(v) ==
  /\ areas' = Append(areas, [vol |-> v, half |-> vols[v].size, bits |-> {},
                             live |-> TRUE])
  /\ vols' = [vols EXCEPT ![v].area = Len(areas) + 1, ![v].kern = 0,
                          ![v].backup = vols[v].size, ![v].user = "kernel",
                          ![v].mdl = TRUE]

\* MapBufferForUserModeUse without an Mdl (early) or with an exception in
\* the mapping: the area is freed, bitmap_area_start still points to it and
\* tracking stays on.
MapBufferFails(v, early) ==
  /\ areas' = Append(areas, [vol |-> v, half |-> vols[v].size, bits |-> {},
                             live |-> FALSE])
  /\ vols' = [vols EXCEPT ![v].area = Len(areas) + 1,
                          ![v].kern = IF early THEN @ ELSE 0,
                          ![v].backup = IF early THEN @ ELSE vols[v].size,
                          ![v].user = IF early THEN @ ELSE "kernel",
                          ![v].mdl = FALSE]

\* ATDR_FLIP_BITMAP_AREA: the filter goes to the other half.
FlipArea(v) ==
  vols' = IF vols[v].user = "garbage" THEN vols
          ELSE IF vols[v].user = "user"
            THEN [vols EXCEPT ![v].kern = 0, ![v].user = "kernel", ![v].mdl = FALSE]
            ELSE [vols EXCEPT ![v].kern = vols[v].backup, ![v].user = "user",
                              ![v].mdl = FALSE]

\* ATDRCTL_DEV_DESTROY, which no command of the daemon sends: the area is
\* freed, tracking stays on, and after a flip there is no Mdl to unmap.
DeviceDestroy(v) ==
  /\ count.fault < MaxFaults /\ vols[v].tracking /\ vols[v].area # 0
  /\ Bump("fault")
  /\ areas' = [areas EXCEPT ![vols[v].area].live = FALSE]
  /\ hist' = [hist EXCEPT !.events = @ \cup {"destroyed"},
                          !.bad = IF vols[v].mdl THEN @ ELSE @ \cup {"mdl"}]
  /\ UNCHANGED <<vols, wr, daemonVars>>

-----------------------------------------------------------------------------
(* The daemon: --create *)

Loading == ld.pc \in {"getuser", "copy", "flip", "recopy"}

\* parse_daemon_request 'c': the arguments are scanned into ioctl_obj, which
\* a running load is using.  is_disk_created always answers no.
CreateParse(v, s) ==
  /\ daemon = "up" /\ ct.pc = "idle" /\ count.create < MaxCreates
  /\ Bump("create")
  /\ ioctl' = [disk |-> v, size |-> s]
  /\ ct' = [CtIdle EXCEPT !.pc = "parsed"]
  /\ Recall((IF Loading THEN {"overlap"} ELSE {})
              \cup (IF s > Clamp THEN {"oversized"} ELSE {})
              \cup (IF \E a \in DOMAIN areas : areas[a].vol = v /\ areas[a].half # s
                      THEN {"resized"} ELSE {}))
  /\ UNCHANGED <<kernelVars, daemon, slots, ld, recovery, resume>>

\* prepare_and_send_ioctl_cmd: the volume ioctl_obj names now is opened (a
\* retry keeps it open) and sent ATDRCTL_DEV_CREATE.
CreateIoctl ==
  /\ ct.pc \in {"parsed", "retry"}
  /\ LET v == IF ct.pc = "parsed" THEN ioctl.disk ELSE ct.vol
     IN /\ Settings(v)
        /\ ct' = [ct EXCEPT !.pc = IF vols[v].tracking THEN "remap" ELSE "map",
                            !.vol = v]
  /\ UNCHANGED <<areas, wr, daemon, ioctl, slots, ld, recovery, resume, count, hist>>

\* Fault: the area given to the daemon is the one before.
CreateMapPrevious ==
  /\ ct.pc = "map"
  /\ MapBuffer(ct.vol)
  /\ ct' = [ct EXCEPT !.pc = "made", !.area = Len(areas)]
  /\ UNCHANGED <<wr, daemon, ioctl, slots, ld, recovery, resume, count, hist>>

\* The volume was not tracked: it is given an area, which the daemon maps.
CreateMap ==
  /\ ct.pc = "map"
  /\ MapBuffer(ct.vol)
  /\ ct' = [ct EXCEPT !.pc = "made", !.area = Len(areas) + 1]
  /\ UNCHANGED <<wr, daemon, ioctl, slots, ld, recovery, resume, count, hist>>

\* A failed mapping makes the request fail, and the daemon tries again: the
\* volume is tracked by then, so the second try maps what was freed.
CreateMapFails ==
  /\ ct.pc = "map" /\ count.fault < MaxFaults
  /\ Bump("fault")
  /\ \E early \in BOOLEAN : MapBufferFails(ct.vol, early)
  /\ ct' = [ct EXCEPT !.pc = "retry"]
  /\ Recall({"mapfail"})
  /\ UNCHANGED <<wr, daemon, ioctl, slots, ld, recovery, resume>>

\* The volume is tracked already: its area is mapped again, as it is.
CreateRemap ==
  /\ ct.pc = "remap"
  /\ vols' = [vols EXCEPT ![ct.vol].mdl = TRUE]
  /\ ct' = [ct EXCEPT !.pc = "made", !.area = vols[ct.vol].area]
  /\ UNCHANGED <<areas, wr, daemon, ioctl, slots, ld, recovery, resume, count, hist>>

\* An exception in that mapping sets the status that is then overwritten by
\* success: the daemon is given the address NULL.
CreateRemapFails ==
  /\ ct.pc = "remap" /\ count.fault < MaxFaults
  /\ Bump("fault")
  /\ ct' = [ct EXCEPT !.pc = "made", !.area = 0]
  /\ UNCHANGED <<vols, areas, wr, daemon, ioctl, slots, ld, recovery, resume, hist>>

\* disk_source_create: name and size come from ioctl_obj as it is now.
DiskSourceCreate ==
  /\ ct.pc = "made"
  /\ slots' = Append(slots, [vol |-> ioctl.disk, size |-> ioctl.size, area |-> ct.area])
  /\ ct' = CtIdle
  /\ UNCHANGED <<kernelVars, daemon, ioctl, ld, recovery, resume, count, hist>>

-----------------------------------------------------------------------------
(* The daemon: loading the bitmap of partner 0 *)

\* exit and stop_work: the memory of the process is gone, what is mapped too.
Exit ==
  /\ daemon' = "dead"
  /\ slots' = <<>> /\ ioctl' = NoIoctl /\ ct' = CtIdle /\ ld' = LdIdle
  /\ resume' = FALSE

\* get_bitmap and server_bitmap_load_from_memory up to the first ioctl; a
\* partner without a disk has an empty name, which opens nothing.
LoadStart ==
  /\ daemon = "up" /\ ~Loading /\ count.load < MaxLoads
  /\ Bump("load")
  /\ IF slots = <<>>
       THEN Exit /\ UNCHANGED hist
       ELSE /\ ioctl' = [ioctl EXCEPT !.disk = slots[1].vol]
            /\ ld' = [ld EXCEPT !.pc = "getuser"]
            /\ Recall(IF ct.pc # "idle" THEN {"overlap"} ELSE {})
            /\ UNCHANGED <<daemon, slots, ct, resume>>
  /\ UNCHANGED <<kernelVars, recovery>>

\* ATDRCTL_GET_USER for the volume ioctl_obj names: whose half is it.
GetUser ==
  /\ ld.pc = "getuser"
  /\ \E u \in Users :
       /\ vols[ioctl.disk].user \in {u, "garbage"}
       /\ ld' = [ld EXCEPT !.pc = "copy", !.user = u]
  /\ UNCHANGED <<kernelVars, daemon, ioctl, slots, ct, recovery, resume, count, hist>>

\* atdr_copy_mmaped_bitmap from one half as the daemon reckons the halves:
\* its backup begins at the size asked for.  Past the area is other memory.
Half(user) == Bits(slots[1].area, IF user = "kernel" THEN 0 ELSE slots[1].size,
                   slots[1].size)
Junk(user) == SUBSET (Half(user) \ Extent(slots[1].area))
CopyOf(user, junk) == (Half(user) \cap areas[slots[1].area].bits) \cup junk

\* Fault: the half the filter is not using is copied.
CopyHalfOther ==
  /\ ld.pc = "copy" /\ slots[1].area # 0
  /\ ld' = [ld EXCEPT !.pc = IF recovery \/ resume THEN "recopy" ELSE "flip",
                      !.user = IF ld.user = "kernel" THEN "user" ELSE "kernel",
                      !.copy = CopyOf(IF ld.user = "kernel" THEN "user" ELSE "kernel", {})]
  /\ hist' = [hist EXCEPT !.late = {}]
  /\ UNCHANGED <<kernelVars, daemon, ioctl, slots, ct, recovery, resume, count>>

\* The half the filter is marking is copied; bmap_user notes which to clear.
\* A mapping that failed makes the copy fault.
CopyHalf ==
  /\ ld.pc = "copy"
  /\ IF slots[1].area = 0
       THEN Exit /\ UNCHANGED hist
       ELSE /\ \E junk \in Junk(ld.user) :
                 ld' = [pc |-> IF recovery \/ resume THEN "recopy" ELSE "flip",
                        user |-> IF ld.user = "kernel" THEN "user" ELSE "kernel",
                        copy |-> CopyOf(ld.user, junk)]
            /\ hist' = [hist EXCEPT !.late = {}]
            /\ UNCHANGED <<daemon, ioctl, slots, ct, resume>>
  /\ UNCHANGED <<kernelVars, recovery, count>>

\* ATDR_FLIP_BITMAP_AREA for the volume ioctl_obj names by now.
Flip ==
  /\ ld.pc = "flip"
  /\ FlipArea(ioctl.disk)
  /\ ld' = [ld EXCEPT !.pc = "sent"]
  /\ hist' = [hist EXCEPT !.astray = @ \/ ioctl.disk # slots[1].vol,
                          !.late = @ \cup UNION {Landed(v) : v \in Volumes}]
  /\ UNCHANGED <<areas, wr, daemon, ioctl, slots, ct, recovery, resume, count>>

\* Recovering or resuming there is no flip: the first half is copied when
\* its first word is not zero, the second otherwise.
Recopy ==
  /\ ld.pc = "recopy"
  /\ LET u == IF <<slots[1].area, 0>> \in areas[slots[1].area].bits
                THEN "kernel" ELSE "user"
     IN \E junk \in Junk(u) : ld' = [ld EXCEPT !.pc = "sent", !.copy = CopyOf(u, junk)]
  /\ resume' = FALSE
  /\ Recall({"unflipped"})
  /\ UNCHANGED <<kernelVars, daemon, ioctl, slots, ct, recovery, count>>

\* replic_thread_init gives a new connection to the paused partner.
Reconnect ==
  /\ daemon = "up" /\ ld.pc = "sent" /\ ~resume /\ count.fault < MaxFaults
  /\ Bump("fault")
  /\ resume' = TRUE
  /\ UNCHANGED <<kernelVars, daemon, ioctl, slots, ct, ld, recovery, hist>>

\* terminate and bitmap_server_destroy: the half that was loaded is cleared.
Terminate ==
  /\ daemon = "up" /\ ld.pc = "sent"
  /\ LET a == slots[1].area
         b == Half(IF ld.user = "user" THEN "kernel" ELSE "user")
     IN /\ areas' = [areas EXCEPT ![a].bits = @ \ b]
        /\ hist' = [hist EXCEPT !.lost = @ \cup (((areas[a].bits \cap b) \ ld.copy)
                                                   \ hist.late)]
  /\ ld' = LdIdle
  /\ recovery' = FALSE
  /\ UNCHANGED <<vols, wr, daemon, ioctl, slots, ct, resume, count>>

\* A crash while the driver works for the process waits for the driver.
Crash ==
  /\ daemon = "up" /\ count.fault < MaxFaults /\ ct.pc \notin {"map", "remap"}
  /\ Bump("fault")
  /\ Exit
  /\ UNCHANGED <<kernelVars, recovery, hist>>

\* db_init: mkdisk_from_db_on_server brings back no disk; a row of the
\* partner sets recovery_mode.
Restart ==
  /\ daemon = "dead"
  /\ daemon' = "up"
  /\ recovery' = (count.load > 0)
  /\ UNCHANGED <<kernelVars, ioctl, slots, ct, ld, resume, count, hist>>

-----------------------------------------------------------------------------
Write == \E v \in Volumes : WriteBegin(v) \/ SetBits(v)
Device == \E v \in Volumes : RemoveDevice(v) \/ DeviceDestroy(v)
Create ==
  /\ daemon = "up"
  /\ \/ \E v \in Volumes, s \in Sizes : CreateParse(v, s)
     \/ CreateIoctl \/ CreateMap \/ CreateMapFails
     \/ CreateRemap \/ CreateRemapFails \/ DiskSourceCreate
LoadStep ==
  /\ daemon = "up"
  /\ GetUser \/ CopyHalf \/ Flip \/ Recopy
Next ==
  Write \/ Device \/ Create \/ LoadStart \/ LoadStep \/ Reconnect \/ Terminate
    \/ Crash \/ Restart

\* The receive thread is scheduled; nothing in a load blocks.
Spec == Init /\ [][Next]_vars /\ WF_vars(LoadStep)

-----------------------------------------------------------------------------
(* Properties *)

BitSets  == SUBSET (Nat \X Nat)
VolInfos == [tracking : BOOLEAN, numBits : Nat, size : Nat, area : Nat,
             kern : Nat, backup : Nat, user : Users \cup {"garbage"},
             mdl : BOOLEAN]
Areas    == [vol : Volumes, half : Nat, bits : BitSets, live : BOOLEAN]
Writes   == [pc : {"idle", "marking"}, first : Nat, last : Nat, area : Nat,
             base : Nat]
Disks    == [vol : Volumes, size : Nat, area : Nat]
Creates  == [pc : {"idle", "parsed", "retry", "map", "remap", "made"},
             vol : Volumes \cup {NoVolume}, area : Nat]
Loads    == [pc : {"idle", "getuser", "copy", "flip", "recopy", "sent"},
             user : Users, copy : BitSets]
Events   == {"overlap", "oversized", "resized", "mapfail", "destroyed",
             "unflipped"}
Faults   == {"unmapped", "past", "freed", "mdl"}

\* The types of the filter's state and the daemon's.
TypeOK ==
  /\ vols \in [Volumes -> VolInfos] /\ areas \in Seq(Areas)
  /\ wr \in [Volumes -> Writes]
  /\ daemon \in {"up", "dead"}
  /\ ioctl \in [disk : Volumes \cup {NoVolume}, size : Nat]
  /\ slots \in Seq(Disks) /\ ct \in Creates /\ ld \in Loads
  /\ recovery \in BOOLEAN /\ resume \in BOOLEAN
  /\ count \in [write : Nat, create : Nat, load : Nat, fault : Nat]
  /\ hist \in [events : SUBSET Events, late : BitSets, lost : BitSets,
               missed : SUBSET Volumes, readded : SUBSET Volumes,
               astray : BOOLEAN, bad : SUBSET Faults]

\* The filter writes only into areas it allocated and has not freed: past the
\* end only where a half has no bit to spare for the position after the last
\* grain, and into freed memory only after a mapping failed or the device was
\* destroyed (atdr_find_pos, MapBufferForUserModeUse, ATDRCTL_DEV_DESTROY).
MarksInside ==
  /\ "past" \in hist.bad => \E a \in DOMAIN areas : areas[a].half <= DiskBits
  /\ "freed" \in hist.bad => hist.events \cap {"mapfail", "destroyed"} # {}

\* Ending a round erases no mark that the client was not sent, except one set
\* through a pointer read before the flip: unless a round was loaded without a
\* flip, the bitmap is larger than the filter gives or was created again with
\* another size, a --create ran into a load, a mapping failed, or a half has no
\* bit to spare for the position after the last grain.
LostOnlyIfRaced ==
  hist.lost # {} =>
    \/ hist.events \cap {"unflipped", "resized", "oversized", "overlap",
                         "mapfail"} # {}
    \/ \E a \in DOMAIN areas : areas[a].half <= DiskBits

\* A write to a volume that has a disk object is marked, unless the volume was
\* removed and added since: the new VolInfo is not tracked and nobody is told
\* (atdrFltWrite, atdrFltAddDevice).
MissedOnlyIfReadded ==
  hist.missed \subseteq hist.readded \/ "overlap" \in hist.events

\* A load flips the volume it loaded, unless a --create ran into it and gave
\* ioctl_obj another name (server_bitmap_load_from_memory).
FlipOwn == hist.astray => "overlap" \in hist.events

\* The area mapped for a disk object belongs to the volume of that name, and
\* has not been freed, whatever was created, created again or restarted:
\* unless a load changed ioctl_obj in between, a mapping failed or the device
\* was destroyed (prepare_and_send_ioctl_cmd, disk_source_create).
SlotOwnsArea ==
  \A i \in DOMAIN slots : slots[i].area # 0 =>
    /\ areas[slots[i].area].vol = slots[i].vol \/ "overlap" \in hist.events
    /\ areas[slots[i].area].live \/ hist.events \cap {"mapfail", "destroyed"} # {}

\* Marks leave an area only when a round ends: a restart of the daemon and a
\* second --create find every mark the filter made meanwhile.
ClearedOnlyAtEnd ==
  [][\A a \in DOMAIN areas :
       areas[a].bits \subseteq areas'[a].bits \/ (ld.pc = "sent" /\ ld'.pc = "idle")]_vars

\* A load that has begun ends, or the daemon does.
LoadEnds == Loading ~> (~Loading \/ daemon = "dead")

-----------------------------------------------------------------------------
(* The inductive invariant behind SlotOwnsArea, MarksInside and             *)
(* LostOnlyIfRaced.                                                         *)

Happened(E) == hist.events \cap E # {}

\* What the threads have before them exists.
PlaceInv ==
  /\ \A v \in Volumes : vols[v].area <= Len(areas) /\ wr[v].area <= Len(areas)
  /\ \A i \in DOMAIN slots : slots[i].area <= Len(areas)
  /\ ct.area <= Len(areas)
  /\ ct.pc # "idle" \/ Loading => ioctl.disk \in Volumes
  /\ ct.pc \notin {"idle", "parsed"} => ct.vol \in Volumes
  /\ ld.pc # "idle" => slots # <<>>
  /\ ld.pc \in {"flip", "recopy", "sent"} => slots[1].area # 0

\* An area belongs to the volume it was made for, along the whole way from the
\* filter to the disk object.
OwnInv ==
  /\ \A v \in Volumes : vols[v].area # 0 => areas[vols[v].area].vol = v
  /\ ct.pc = "made" /\ ct.area # 0 => areas[ct.area].vol = ct.vol
  /\ ct.pc \notin {"idle", "parsed"} => ct.vol = ioctl.disk \/ Happened({"overlap"})
  /\ \A i \in DOMAIN slots : slots[i].area # 0 =>
       areas[slots[i].area].vol = slots[i].vol \/ Happened({"overlap"})

LiveInv == \A a \in DOMAIN areas :
             areas[a].live \/ Happened({"mapfail", "destroyed"})

\* The two halves, and where a write that is under way marks.
HalfInv ==
  /\ \A v \in Volumes :
       /\ vols[v].kern \in {0, vols[v].backup}
       /\ vols[v].area # 0 => vols[v].backup <= areas[vols[v].area].half
       /\ ~vols[v].tracking => vols[v].size = 0 /\ vols[v].backup = 0
  /\ ct.pc = "map" => vols[ct.vol].backup = 0
  /\ \A v \in Volumes :
       /\ wr[v].last <= DiskBits
       /\ wr[v].area # 0 => wr[v].base <= areas[wr[v].area].half

\* Nothing has happened that LostOnlyIfRaced makes an exception for.
Clean ==
  /\ ~Happened({"unflipped", "resized", "oversized", "overlap", "mapfail"})
  /\ \A a \in DOMAIN areas : areas[a].half > DiskBits

\* Then filter and daemon reckon the halves alike, ...
SizeInv ==
  /\ \A v \in Volumes : vols[v].area # 0 =>
       /\ vols[v].backup = areas[vols[v].area].half
       /\ vols[v].user \in Users
       /\ vols[v].kern = IF vols[v].user = "user" THEN vols[v].backup ELSE 0
  /\ ct.pc # "idle" =>
       /\ ioctl.size <= Clamp
       /\ \A a \in DOMAIN areas : areas[a].vol = ioctl.disk =>
                                  areas[a].half = ioctl.size
  /\ ct.pc = "map" => vols[ct.vol].size \in {0, ioctl.size}
  /\ \A i \in DOMAIN slots : slots[i].area # 0 =>
       slots[i].size = areas[slots[i].area].half

\* ... and the half that was loaded has no mark but those sent and the late
\* ones, nor will a write under way set one.
Loaded == Half(IF ld.user = "user" THEN "kernel" ELSE "user")
OfSlot == vols[slots[1].vol].area = slots[1].area
RoundInv ==
  /\ Loading => ioctl.disk = slots[1].vol
  /\ ld.pc = "copy" /\ slots[1].area # 0 /\ OfSlot =>
       ld.user = vols[slots[1].vol].user
  /\ ld.pc \in {"flip", "sent"} =>
       areas[slots[1].area].bits \cap Loaded \subseteq ld.copy \cup hist.late
  /\ ld.pc = "flip" /\ OfSlot => ld.user # vols[slots[1].vol].user
  /\ ld.pc = "sent" =>
       /\ OfSlot => ld.user = vols[slots[1].vol].user
       /\ \A v \in Volumes : Landed(v) \cap Loaded \subseteq hist.late

CleanInv == Clean => SizeInv /\ RoundInv /\ hist.lost = {}

FilterInv == /\ TypeOK /\ PlaceInv /\ OwnInv /\ LiveInv /\ HalfInv
             /\ MarksInside /\ CleanInv
=============================================================================
