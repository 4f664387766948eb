--------------------------- MODULE DirtyTracking ---------------------------
(***************************************************************************)
(* Dirty-grain tracking of one replicated device, end to end: the kernel   *)
(* marks a grain before it submits a write, the server daemon takes the    *)
(* marks over by copying one half of a shared double bitmap and flipping   *)
(* the kernel to the other half, the client copies the marked grains to    *)
(* its target disk and the server clears the half it took over.            *)
(*                                                                         *)
(* kernel/atdr_linux/atdr_bitmap.c, atdr_req.c, atdr_main.c (kernel),      *)
(* user/atdr_linux/atdr_bitmap_server.c, replic_server.c (server),         *)
(* user/atdr_linux/atdr_daemon.c, atdr_resync.c, atdr_recovery.c (client). *)
(*                                                                         *)
(* A grain is the unit one bitmap bit stands for; its content is a version *)
(* number.  The chunks of a grain are the business of ResyncLoop.          *)
(***************************************************************************)
EXTENDS Integers, FiniteSets

CONSTANTS
  NumBits,      \* bits of the bitmap, one per grain
  WordBits,     \* bits the server copies with one assignment (a ulong_t)
  Writers,      \* contexts that may have a write in flight on the device
  MaxWrites,    \* bound: writes submitted in a behaviour
  MaxFailures,  \* bound: connections lost during a resync in a behaviour
  Source        \* what --snap names: the "live" disk or an LVM "snapshot"

ASSUME NumBitsAssumption  == NumBits \in Nat \ {0}
ASSUME WordBitsAssumption == WordBits \in Nat \ {0}
ASSUME BoundsAssumption   == MaxWrites \in Nat /\ MaxFailures \in Nat
ASSUME SourceAssumption   == Source \in {"live", "snapshot"}

Grains == 0 .. NumBits - 1
Users  == {"KERNEL", "USER"}

\* "race": some write has raced with a load; "no flip": some load took the
\* branch that does not flip; "in order": since the last resync there was one
\* --metadata and the image was opened before it.
Events == {"race", "no flip", "in order"}

VARIABLES
  src,      \* grain -> version on the source disk
  img,      \* grain -> version in the snapshot last opened with --snap
  tgt,      \* grain -> version on the target disk
  half,     \* the two halves of the vmalloc area: 0 -> marks, 1 -> marks
  area,     \* the half device->bitmap->bitmap_area points at
  kuser,    \* device->bitmap->bmap_user
  bio,      \* writer -> grains of its submitted write that are not yet on disk
  nwrites,  \* writes submitted so far
  spc,      \* server thread: recv, copy (until the flip), keep or send
  user,     \* half the load in progress copies, as a bmap_user value
  cpos,     \* bits already copied by the load in progress
  ubits,    \* ubitmap->bitmap_area
  uuser,    \* ubitmap->bmap_user
  partner,  \* all_partner_servers[pid].obj_state
  conn,     \* ebdr_conn_server[pid].obj_state
  disk_fd,  \* ebdr_disk_src_obj[pid].disk_fd: open or closed
  cpc,      \* client: idle, wait, ready, scan, down or term
  cbits,    \* the client's bitmap_area
  bit_pos,  \* restart_resync's bit_pos
  last,     \* replic_client_obj[pid].last_resynced_bit
  fails,    \* connections lost so far
  since,    \* history: grains written, or in flight, since the snapshot
  raced,    \* history: grains whose last write raced with a load (see Mark)
  events    \* history: subset of Events

kernelVars  == <<half, area, kuser>>
serverVars  == <<spc, user, cpos, ubits, uuser, partner, conn, disk_fd>>
clientVars  == <<cpc, cbits, bit_pos, last>>
historyVars == <<since, raced, events>>
vars == <<src, img, tgt, bio, nwrites, fails, kernelVars, serverVars,
          clientVars, historyVars>>

InFlight == UNION {bio[w] : w \in Writers}
Loading  == spc \in {"copy", "keep"}

\* The half the kernel writes while bmap_user has this value.
HalfOf(u) == IF u = "KERNEL" THEN 0 ELSE 1
Other(u)  == IF u = "KERNEL" THEN "USER" ELSE "KERNEL"

\* The device as ebdr_init_bmap leaves it, partnership and relation made, the
\* target a full copy of the source.
Init ==
  /\ src = [g \in Grains |-> 0]
  /\ img = [g \in Grains |-> 0]
  /\ tgt = [g \in Grains |-> 0]
  /\ half = [h \in {0, 1} |-> {}]
  /\ area = 0
  /\ kuser = "KERNEL"
  /\ bio = [w \in Writers |-> {}]
  /\ nwrites = 0
  /\ spc = "recv" /\ user = "KERNEL" /\ cpos = 0
  /\ ubits = {} /\ uuser = "KERNEL"
  /\ partner = "IN_USE" /\ conn = "IN_USE" /\ disk_fd = "closed"
  /\ cpc = "idle" /\ cbits = {} /\ bit_pos = 0 /\ last = 0
  /\ fails = 0
  /\ since = {} /\ raced = {} /\ events = {}

-----------------------------------------------------------------------------
(* Kernel: one write request, in two steps.                                *)

\* ebdr_make_request, first half: under bm_lock set the bits first..last of
\* the half in use.  The last bit comes from the sector AFTER the write, so a
\* write that ends on a grain boundary marks one grain it does not touch.
\* History: a write that starts while a load is in progress races with it; a
\* write to the grain outside a load puts it back under tracking.
Mark(w, first, last_touched, last_marked) ==
  /\ bio[w] = {}
  /\ nwrites < MaxWrites
  /\ half' = [half EXCEPT ![area] = @ \cup (first .. last_marked)]
  /\ bio' = [bio EXCEPT ![w] = first .. last_touched]
  /\ nwrites' = nwrites + 1
  /\ since' = since \cup (first .. last_touched)
  /\ raced' = IF Loading THEN raced \cup (first .. last_touched)
                         ELSE raced \ (first .. last_touched)
  /\ events' = IF Loading THEN events \cup {"race"} ELSE events
  /\ UNCHANGED <<src, img, tgt, area, kuser, serverVars, clientVars, fails>>

\* The request submitted to the backing device reaches one of its grains.
Land(w, g) ==
  /\ g \in bio[w]
  /\ src' = [src EXCEPT ![g] = @ + 1]
  /\ bio' = [bio EXCEPT ![w] = @ \ {g}]
  /\ UNCHANGED <<img, tgt, kernelVars, nwrites, serverVars, clientVars, fails,
                 historyVars>>

-----------------------------------------------------------------------------
(* Server: --snap, the metadata request, the end of a resync.              *)

\* snapshot_disk_init: open the image the resync will read, at any time.
\* Unless it is the live disk the operator has just taken it with lvcreate.
SnapDisk ==
  /\ disk_fd' = "open"
  /\ img' = src
  /\ since' = InFlight
  /\ events' = events \ {"in order"}
  /\ UNCHANGED <<src, tgt, kernelVars, bio, nwrites, spc, user, cpos, ubits,
                 uuser, partner, conn, clientVars, fails, raced>>

\* The half a load copies.  Normally the one the kernel is writing (GET_USER);
\* after a connection was resumed, half 0 if its first word is not zero.
LoadFrom ==
  IF conn # "RESUME" THEN kuser
  ELSE IF half[0] \cap (0 .. WordBits - 1) # {} THEN "KERNEL" ELSE "USER"

\* Grains a load that starts now may miss data of: a write is in flight, or
\* the image the resync will read was taken before the write.
Exposed == InFlight \cup
           (IF Source = "snapshot" /\ disk_fd = "open" THEN since ELSE {})

\* get_bitmap and server_bitmap_load_from_memory up to the copy loop.  RESUME
\* selects the branch that keeps the kernel on its half, and ends with it.
StartLoad ==
  /\ cpc = "wait" /\ spc = "recv"
  /\ partner' = "IN_USE"
  /\ user' = LoadFrom
  /\ uuser' = Other(LoadFrom)
  /\ ubits' = {}
  /\ cpos' = 0
  /\ spc' = IF conn = "RESUME" THEN "keep" ELSE "copy"
  /\ conn' = IF conn = "RESUME" THEN "IN_USE" ELSE conn
  /\ raced' = raced \cup Exposed
  /\ events' = events \cup (IF Exposed # {} THEN {"race"} ELSE {})
                       \cup (IF conn = "RESUME" THEN {"no flip"} ELSE {})
  /\ UNCHANGED <<src, img, tgt, kernelVars, bio, nwrites, disk_fd, clientVars,
                 fails, since>>

\* Fault: the copy loop advances one bit too far and skips it.
CopyWordSkips ==
  /\ Loading /\ cpos < NumBits
  /\ ubits' = ubits \cup
                (half[HalfOf(user)] \cap (cpos .. cpos + WordBits - 1))
  /\ cpos' = cpos + WordBits + 1
  /\ UNCHANGED <<src, img, tgt, kernelVars, bio, nwrites, spc, user, uuser,
                 partner, conn, disk_fd, clientVars, fails, historyVars>>

\* ebdr_copy_mmaped_bitmap: one word of the half, without bm_lock.
CopyWord ==
  /\ Loading /\ cpos < NumBits
  /\ ubits' = ubits \cup
                (half[HalfOf(user)] \cap (cpos .. cpos + WordBits - 1))
  /\ cpos' = cpos + WordBits
  /\ UNCHANGED <<src, img, tgt, kernelVars, bio, nwrites, spc, user, uuser,
                 partner, conn, disk_fd, clientVars, fails, historyVars>>

\* EBDR_FLIP_BITMAP_AREA under bm_lock, in the branch that flips.
Flip ==
  /\ spc = "copy" /\ cpos >= NumBits
  /\ spc' = "send"
  /\ kuser' = Other(kuser)
  /\ area' = IF kuser = "USER" THEN 0 ELSE 1
  /\ UNCHANGED <<src, img, tgt, half, bio, nwrites, user, cpos, ubits, uuser,
                 partner, conn, disk_fd, clientVars, fails, historyVars>>

\* The end of the copy in the branch of a resumed connection: no flip.
KeepArea ==
  /\ spc = "keep" /\ cpos >= NumBits
  /\ spc' = "send"
  /\ UNCHANGED <<src, img, tgt, kernelVars, bio, nwrites, user, cpos, ubits,
                 uuser, partner, conn, disk_fd, clientVars, fails,
                 historyVars>>

\* The bitmap goes to the client, which waits for it in recv_data.  The load's
\* locals end with it, and the server never reads its own copy again.
SendBitmap ==
  /\ spc = "send"
  /\ spc' = "recv"
  /\ cpc' = "ready"
  /\ cbits' = ubits
  /\ ubits' = {} /\ cpos' = 0 /\ user' = "KERNEL"
  /\ UNCHANGED <<src, img, tgt, kernelVars, bio, nwrites, uuser, partner, conn,
                 disk_fd, bit_pos, last, fails, historyVars>>

\* Fault: the half is chosen with the bmap_user test inverted.
TerminateWrongHalf ==
  /\ cpc = "term"
  /\ cpc' = "idle"
  /\ half' = [half EXCEPT ![HalfOf(uuser)] = {}]
  /\ disk_fd' = "closed"
  /\ partner' = "RELEASED"
  /\ UNCHANGED <<src, img, tgt, area, kuser, bio, nwrites, spc, user, cpos,
                 ubits, uuser, conn, cbits, bit_pos, last, fails, historyVars>>

\* terminate: close the image, clear the half this round took over, release.
Terminate ==
  /\ cpc = "term"
  /\ cpc' = "idle"
  /\ IF partner # "RELEASED"
       THEN /\ half' = [half EXCEPT ![HalfOf(Other(uuser))] = {}]
            /\ disk_fd' = "closed"
            /\ partner' = "RELEASED"
       ELSE UNCHANGED <<half, disk_fd, partner>>
  /\ UNCHANGED <<src, img, tgt, area, kuser, bio, nwrites, spc, user, cpos,
                 ubits, uuser, conn, cbits, bit_pos, last, fails, historyVars>>

-----------------------------------------------------------------------------
(* Client: --metadata, --resync, the resync thread, the recovery thread.   *)

\* request_server_for_metadata: a fresh bitmap, then wait for the server.  It
\* may be repeated before the resync is started.
RequestMetadata ==
  /\ cpc \in {"idle", "ready"}
  /\ cpc' = "wait"
  /\ cbits' = {}
  /\ events' = IF cpc = "idle" /\ disk_fd = "open"
                 THEN events \cup {"in order"} ELSE events \ {"in order"}
  /\ UNCHANGED <<src, img, tgt, kernelVars, bio, nwrites, serverVars, bit_pos,
                 last, fails, since, raced>>

\* resync_init(pid, 0).
StartResync ==
  /\ cpc = "ready" /\ disk_fd = "open"
  /\ cpc' = "scan"
  /\ bit_pos' = 0
  /\ UNCHANGED <<src, img, tgt, kernelVars, bio, nwrites, serverVars, cbits,
                 last, fails, historyVars>>

Image(g) == IF Source = "live" THEN src[g] ELSE img[g]

\* Fault: the loop runs to bit_pos <= bitmap_size * 8.
ScanBitPastEnd ==
  /\ cpc = "scan" /\ bit_pos <= NumBits
  /\ tgt' = IF bit_pos \in cbits THEN [tgt EXCEPT ![bit_pos] = Image(bit_pos)]
                                 ELSE tgt
  /\ last' = bit_pos
  /\ bit_pos' = bit_pos + 1
  /\ UNCHANGED <<src, img, kernelVars, bio, nwrites, serverVars, cpc, cbits,
                 fails, historyVars>>

\* Fault: the data asked for is that of the last grain copied.
ScanBitLast ==
  /\ cpc = "scan" /\ bit_pos < NumBits
  /\ tgt' = IF bit_pos \in cbits THEN [tgt EXCEPT ![bit_pos] = Image(last)]
                                 ELSE tgt
  /\ last' = bit_pos
  /\ bit_pos' = bit_pos + 1
  /\ UNCHANGED <<src, img, kernelVars, bio, nwrites, serverVars, cpc, cbits,
                 fails, historyVars>>

\* One iteration of restart_resync's loop: get_data reads the grain from the
\* image, the client writes it to the target.
ScanBit ==
  /\ cpc = "scan" /\ bit_pos < NumBits
  /\ tgt' = IF bit_pos \in cbits THEN [tgt EXCEPT ![bit_pos] = Image(bit_pos)]
                                 ELSE tgt
  /\ last' = bit_pos
  /\ bit_pos' = bit_pos + 1
  /\ UNCHANGED <<src, img, kernelVars, bio, nwrites, serverVars, cpc, cbits,
                 fails, historyVars>>

\* replication_terminate: forget the position and tell the server.
ScanDone ==
  /\ cpc = "scan" /\ bit_pos >= NumBits
  /\ cpc' = "term"
  /\ last' = 0
  /\ cbits' = {} /\ bit_pos' = 0
  /\ UNCHANGED <<src, img, tgt, kernelVars, bio, nwrites, serverVars, fails,
                 historyVars>>

\* Both ends see an exchange of the resync fail: get_data and restart_resync
\* pause their connection object and the resync thread returns.
LoseConnection ==
  /\ cpc = "scan" /\ bit_pos < NumBits
  /\ fails < MaxFailures
  /\ fails' = fails + 1
  /\ cpc' = "down"
  /\ conn' = "PAUSE"
  /\ UNCHANGED <<src, img, tgt, kernelVars, bio, nwrites, spc, user, cpos,
                 ubits, uuser, partner, disk_fd, cbits, bit_pos, last,
                 historyVars>>

\* Fault: the resync restarts behind the grain that was being copied.
ReconnectSkips ==
  /\ cpc = "down"
  /\ cpc' = "scan"
  /\ bit_pos' = bit_pos + 1
  /\ conn' = "RESUME"
  /\ UNCHANGED <<src, img, tgt, kernelVars, bio, nwrites, spc, user, cpos,
                 ubits, uuser, partner, disk_fd, cbits, last, fails,
                 historyVars>>

\* Fault: the connection is restored and resync_init is not called.
ReconnectOnly ==
  /\ cpc = "down"
  /\ conn' = "RESUME"
  /\ UNCHANGED <<src, img, tgt, kernelVars, bio, nwrites, spc, user, cpos,
                 ubits, uuser, partner, disk_fd, clientVars, fails,
                 historyVars>>

\* restart_conn_client connects again and restarts at last_resynced_bit; the
\* server's accept loop gives the paused slot to the new connection.
Reconnect ==
  /\ cpc = "down"
  /\ cpc' = "scan"
  /\ bit_pos' = last
  /\ conn' = "RESUME"
  /\ UNCHANGED <<src, img, tgt, kernelVars, bio, nwrites, spc, user, cpos,
                 ubits, uuser, partner, disk_fd, cbits, last, fails,
                 historyVars>>

-----------------------------------------------------------------------------
Write ==
  \E w \in Writers :
    \/ \E f \in Grains : \E t \in f .. NumBits - 1 :
         \E m \in {t, t + 1} \cap Grains : Mark(w, f, t, m)
    \/ \E g \in Grains : Land(w, g)

Server == \/ SnapDisk \/ StartLoad \/ CopyWord \/ Flip \/ KeepArea
          \/ SendBitmap \/ Terminate

Client == \/ RequestMetadata \/ StartResync \/ ScanBit \/ ScanDone
          \/ LoseConnection \/ Reconnect

Next == Write \/ Server \/ Client

\* The server and resync threads keep running, and the recovery threads look
\* for a paused connection every ten seconds.
Fairness ==
  /\ WF_vars(StartLoad) /\ WF_vars(CopyWord) /\ WF_vars(Flip)
  /\ WF_vars(KeepArea) /\ WF_vars(SendBitmap) /\ WF_vars(Terminate)
  /\ WF_vars(ScanBit) /\ WF_vars(ScanDone) /\ WF_vars(Reconnect)

Spec == Init /\ [][Next]_vars /\ Fairness

-----------------------------------------------------------------------------
(* Properties.                                                             *)

TypeOK ==
  /\ src \in [Grains -> Nat] /\ img \in [Grains -> Nat]
  /\ tgt \in [Grains -> Nat]
  /\ half \in [{0, 1} -> SUBSET Grains] /\ area \in {0, 1} /\ kuser \in Users
  /\ bio \in [Writers -> SUBSET Grains] /\ nwrites \in 0 .. MaxWrites
  /\ spc \in {"recv", "copy", "keep", "send"} /\ user \in Users /\ cpos \in Nat
  /\ ubits \subseteq Grains /\ uuser \in Users
  /\ partner \in {"IN_USE", "RELEASED"}
  /\ conn \in {"IN_USE", "PAUSE", "RESUME"}
  /\ disk_fd \in {"open", "closed"}
  /\ cpc \in {"idle", "wait", "ready", "scan", "down", "term"}
  /\ cbits \subseteq Grains /\ bit_pos \in 0 .. NumBits /\ last \in Grains
  /\ fails \in 0 .. MaxFailures
  /\ since \subseteq Grains /\ raced \subseteq Grains
  /\ events \subseteq Events

Tracked == half[0] \cup half[1]

\* The promise of the dirty bitmap: a grain whose target copy is out of date
\* has its bit in one of the halves, so that some later round copies it.
NoLostUpdate == \A g \in Grains : tgt[g] = src[g] \/ g \in Tracked

\* Every load so far has flipped the halves.
Flipping == "no flip" \notin events

\* What the copy-then-flip protocol guarantees: as long as every load flips, a
\* grain is lost only if its last write overlapped a load of the bitmap (or
\* fell between the snapshot and the load).
LostOnlyIfRaced ==
  Flipping =>
    \A g \in Grains : tgt[g] = src[g] \/ g \in Tracked \/ g \in raced

\* The same promise once a connection was resumed during an earlier round.
LostOnlyIfRacedAfterResume ==
  \A g \in Grains : tgt[g] = src[g] \/ g \in Tracked \/ g \in raced

\* The server never clears a mark in the half the kernel is writing, however
\* its steps interleave with writes: terminate clears the other half.
ActiveHalfKept ==
  [][Flipping => half[area] \subseteq half'[area]]_vars

\* A round run in the documented order (--snap, one --metadata, --resync) in
\* which no write raced leaves the target equal to the snapshot, although
\* writes went on during the resync.
PointInTime ==
  /\ cpc = "term" /\ Source = "snapshot"
  /\ "in order" \in events /\ events \cap {"race", "no flip"} = {}
  => tgt = img

\* Bitmap, load and resync together are the mirror of module Mirror, which owes
\* what is marked in one of the halves: a grain is marked before it changes and
\* as long as it differs, only marked grains are copied, and the target never
\* gets a version older than the one it has.
Promise == INSTANCE Mirror
             WITH owed <- Tracked, excused <- IF Flipping THEN raced ELSE Grains
IsMirror == Promise!Spec

\* A resync that was started ends with the server released, even if its
\* connection is lost (and restored) on the way.
ResyncCompletes == cpc = "scan" ~> cpc = "idle"

-----------------------------------------------------------------------------
(* The inductive invariant behind LostOnlyIfRaced and ActiveHalfKept.      *)

\* Between the flip of a round and the clearing of the half it took over.
RoundOpen == spc = "send" \/ cpc \in {"ready", "scan", "down", "term"}

\* Control: where the two programs can be together, what the load remembers,
\* and that after the flip the server's bmap_user names the kernel's new half.
ControlInv ==
  /\ area = HalfOf(kuser)
  /\ spc # "recv" => cpc = "wait"
  /\ spc = "copy" => user = kuser /\ uuser = Other(kuser)
  /\ spc = "keep" => ~Flipping
  /\ Flipping /\ RoundOpen => uuser = kuser
  /\ cpc \in {"scan", "down"} => disk_fd = "open" /\ last <= bit_pos
  /\ cpc \notin {"scan", "down"} => last = 0

\* A write in flight was seen by the snapshot's bookkeeping, raced with a load,
\* or has its mark in the half in use.
InFlightInv ==
  /\ InFlight \subseteq since
  /\ Loading => InFlight \subseteq raced
  /\ Flipping => InFlight \subseteq raced \cup half[area]

\* The snapshot differs from the disk only where a write came after it; in an
\* open round these writes raced or are marked in the half in use.
ImageInv ==
  /\ \A g \in Grains \ since : img[g] = src[g]
  /\ Source = "snapshot" /\ disk_fd = "open" =>
       /\ Loading => since \subseteq raced
       /\ Flipping /\ RoundOpen =>
            \A g \in Grains \ (raced \cup half[area]) : img[g] = src[g]

\* Words already copied by a load, and what is left to copy in an open round:
\* an out-of-date grain that is not marked in the half in use is still ahead
\* of the resync.
ProgressInv ==
  /\ spc = "copy" /\ Flipping =>
       \A g \in Grains \ (raced \cup half[1 - area]) :
         g < cpos => g \in ubits \/ tgt[g] = src[g]
  /\ Flipping /\ RoundOpen =>
       \A g \in Grains \ (raced \cup half[area]) :
         \/ tgt[g] = src[g]
         \/ spc = "send" /\ g \in ubits
         \/ cpc = "ready" /\ g \in cbits
         \/ cpc \in {"scan", "down"} /\ g \in cbits /\ bit_pos <= g

IInv == /\ TypeOK
        /\ ControlInv
        /\ InFlightInv
        /\ ImageInv
        /\ ProgressInv
        /\ LostOnlyIfRaced

-----------------------------------------------------------------------------
(* What PointInTime and IsMirror need on top of IInv.                      *)

\* The target never has a version the disk has not reached, nor, when a
\* snapshot is read, one the snapshot has not.
VersionInv ==
  \A g \in Grains : /\ tgt[g] <= src[g] /\ img[g] <= src[g]
                    /\ Source = "snapshot" => tgt[g] <= img[g]

\* What a load took stays marked until the end of the round: first in the half
\* in use, after the flip in the other one, which terminate will clear.
TakenInv ==
  /\ spc # "recv" \/ RoundOpen => partner = "IN_USE"
  /\ Flipping => /\ spc = "copy" => ubits \subseteq half[area]
                 /\ spc = "send" => ubits \subseteq half[1 - area]
                 /\ cpc \in {"ready", "scan", "down"} => cbits \subseteq half[1 - area]

InOrder   == "in order" \in events
Unraced   == "race" \notin events
AtOldHalf == cpc = "idle" \/ (cpc = "wait" /\ spc # "send" /\ InOrder)

\* A round in the documented order begins with the other half empty, and the
\* image stays open until it ends.
OrderInv ==
  /\ Unraced => raced = {}
  /\ Flipping /\ AtOldHalf => half[1 - area] = {}
  /\ InOrder /\ cpc # "idle" => disk_fd = "open"

\* In such a round what differs from the snapshot is still ahead.
SnapshotInv ==
  Source = "snapshot" /\ InOrder /\ Unraced /\ Flipping /\ RoundOpen =>
    \A g \in Grains :
      \/ tgt[g] = img[g]
      \/ spc = "send" /\ g \in ubits
      \/ cpc = "ready" /\ g \in cbits
      \/ cpc \in {"scan", "down"} /\ g \in cbits /\ bit_pos <= g

RoundInv == VersionInv /\ TakenInv /\ OrderInv /\ SnapshotInv
=============================================================================
