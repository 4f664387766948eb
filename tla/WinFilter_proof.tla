-------------------------- MODULE WinFilter_proof --------------------------
(***************************************************************************)
(* Proofs about the Windows volume filter and its daemon: the inductive    *)
(* invariant FilterInv of WinFilter, for any volumes, sizes and bounds, and *)
(* the properties that follow from it.                                     *)
(*                                                                         *)
(* One lemma per action says what the action does to each field; each      *)
(* conjunct of FilterInv then has a step lemma with one step per action    *)
(* that can disturb it.  SizeInv and RoundInv hold only while nothing      *)
(* LostOnlyIfRaced excepts has happened (Clean); CleanBack says that a     *)
(* clean state has only clean states before it.                            *)
(*                                                                         *)
(* The second half is about the Windows server (WinServer): its inductive  *)
(* invariant ServerSideInv and what follows.  Every step of a thread that  *)
(* handles a header is first shown to be one of Handles (it keeps rows,    *)
(* sockets and headers, and closes or answers one connection at most), so  *)
(* that the invariant is argued once for all of them.                      *)
(***************************************************************************)
EXTENDS WinFilter, WinServer, SequenceTheorems, WellFoundedInduction, TLAPS

-----------------------------------------------------------------------------
(* Facts about the operators of the model: bits, counters, writes.         *)

\* Bits are pairs of numbers.
LEMMA BitsTypes ==
  ASSUME NEW a \in Nat, NEW base \in Nat, NEW n \in Int
  PROVE  /\ Bits(a, base, n) \in BitSets
         /\ \A x : x \in Bits(a, base, n) <=>
                     \E i \in Nat : i < n /\ x = <<a, base + i>>
<1>1. \A i : i \in 0 .. (n - 1) <=> i \in Nat /\ i < n
  OBVIOUS
<1>2. \A x : x \in Bits(a, base, n) <=> \E i \in Nat : i < n /\ x = <<a, base + i>>
  BY <1>1 DEF Bits
<1>3. \A i \in Nat : <<a, base + i>> \in Nat \X Nat
  OBVIOUS
<1> QED
  BY <1>2, <1>3 DEF BitSets

\* What a step finds: the types, one by one.
LEMMA Parts ==
  ASSUME TypeOK
  PROVE  /\ \A v \in Volumes : vols[v] \in VolInfos /\ wr[v] \in Writes
         /\ DOMAIN areas = 1 .. Len(areas) /\ Len(areas) \in Nat
         /\ \A a \in DOMAIN areas : areas[a] \in Areas
         /\ DOMAIN slots = 1 .. Len(slots) /\ Len(slots) \in Nat
         /\ \A i \in DOMAIN slots : slots[i] \in Disks
BY DEF TypeOK

\* A counter that goes up stays a number.
LEMMA Counted ==
  ASSUME TypeOK, NEW c \in {"write", "create", "load", "fault"}, Bump(c)
  PROVE  count' \in [write : Nat, create : Nat, load : Nat, fault : Nat]
<1>1. count \in [write : Nat, create : Nat, load : Nat, fault : Nat]
  BY DEF TypeOK
<1>2. count' = [count EXCEPT ![c] = count[c] + 1]
  BY DEF Bump
<1> QED
  BY <1>1, <1>2

Hists == [events : SUBSET Events, late : BitSets, lost : BitSets,
          missed : SUBSET Volumes, readded : SUBSET Volumes,
          astray : BOOLEAN, bad : SUBSET Faults]

\* Recording an event changes nothing else of the history.
LEMMA Recalled ==
  ASSUME TypeOK, NEW E \in SUBSET Events, Recall(E)
  PROVE  /\ hist' \in Hists /\ hist'.events = hist.events \cup E
         /\ hist'.late = hist.late /\ hist'.lost = hist.lost /\ hist'.bad = hist.bad
<1>1. hist \in Hists
  BY DEF TypeOK, Hists
<1>2. hist' = [hist EXCEPT !.events = @ \cup E]
  BY DEF Recall
<1> QED
  BY <1>1, <1>2 DEF Hists

\* A process that is gone has the types of a new one.
LEMMA Gone ==
  ASSUME Exit
  PROVE  /\ daemon' \in {"up", "dead"} /\ slots' \in Seq(Disks)
         /\ ioctl' \in [disk : Volumes \cup {NoVolume}, size : Nat]
         /\ ct' \in Creates /\ ld' \in Loads /\ resume' \in BOOLEAN
         /\ ct'.pc = "idle" /\ ct'.area = 0 /\ ld'.pc = "idle" /\ slots' = <<>>
         /\ Len(slots') = 0 /\ DOMAIN slots' = {}
<1>1. CtIdle \in Creates /\ LdIdle \in Loads /\ NoIoctl \in
        [disk : Volumes \cup {NoVolume}, size : Nat]
  <2>1. {} \in BitSets
    BY DEF BitSets
  <2> QED
    BY <2>1 DEF CtIdle, Creates, LdIdle, Loads, NoIoctl, Users
<1>2. CtIdle.pc = "idle" /\ CtIdle.area = 0 /\ LdIdle.pc = "idle"
  BY DEF CtIdle, LdIdle
<1>3. <<>> \in Seq(Disks) /\ Len(<<>>) = 0 /\ DOMAIN <<>> = {}
  BY EmptySeq
<1> QED
  BY <1>1, <1>2, <1>3 DEF Exit

\* The positions of a write.
LEMMA Positions ==
  ASSUME TypeOK, NEW v \in Volumes, NEW g \in Nat
  PROVE  FindPos(v, g) \in Nat /\ FindPos(v, g) <= g
<1>1. vols[v].numBits \in Nat
  BY Parts DEF VolInfos
<1> QED
  BY <1>1 DEF FindPos

\* A write that begins: either nothing is tracked, or the pointer is read.
Begun(v, w) ==
  /\ wr' = [wr EXCEPT ![v] = w] /\ hist' = hist
  /\ w.pc = "marking" /\ w.first \in Nat /\ w.last \in Nat /\ w.last <= DiskBits
  /\ w.area = vols[v].area /\ w.base = vols[v].kern

\* atdrFltWrite: the write reads the pointer, or nothing is tracked.
LEMMA Begins ==
  ASSUME TypeOK, NEW v \in Volumes, WriteBegin(v)
  PROVE  /\ UNCHANGED <<vols, areas, daemonVars>>
         /\ count' \in [write : Nat, create : Nat, load : Nat, fault : Nat]
         /\ \/ \E w \in Writes : Begun(v, w)
            \/ /\ wr' = wr /\ hist' \in Hists /\ hist'.events = hist.events
               /\ hist'.late = hist.late /\ hist'.lost = hist.lost
               /\ hist'.bad = hist.bad
<1>1. UNCHANGED <<vols, areas, daemonVars>>
  BY DEF WriteBegin
<1>2. count' \in [write : Nat, create : Nat, load : Nat, fault : Nat]
  BY Counted DEF WriteBegin
<1>3. CASE vols[v].tracking
  <2>1. PICK g \in 0 .. (DiskBits - 1), toEnd \in BOOLEAN :
          /\ wr' = [wr EXCEPT ![v] =
                      [pc |-> "marking", first |-> FindPos(v, g),
                       last |-> FindPos(v, IF toEnd THEN g + 1 ELSE g),
                       area |-> vols[v].area, base |-> vols[v].kern]]
          /\ hist' = hist
    BY <1>3 DEF WriteBegin
  <2> DEFINE e == IF toEnd THEN g + 1 ELSE g
             w == [pc |-> "marking", first |-> FindPos(v, g), last |-> FindPos(v, e),
                   area |-> vols[v].area, base |-> vols[v].kern]
  <2>2. DiskBits \in Nat /\ g \in Nat /\ e \in Nat /\ e <= DiskBits
    BY WFAssumption
  <2>3. FindPos(v, g) \in Nat /\ FindPos(v, e) \in Nat /\ FindPos(v, e) <= e
    BY <2>2, Positions
  <2>4. FindPos(v, e) <= DiskBits
    BY <2>2, <2>3
  <2>5. vols[v].area \in Nat /\ vols[v].kern \in Nat
    BY Parts DEF VolInfos
  <2>6. w \in Writes /\ Begun(v, w)
    BY <2>1, <2>3, <2>4, <2>5 DEF Writes, Begun
  <2> QED
    BY <1>1, <1>2, <2>6
<1>4. CASE ~vols[v].tracking
  <2>1. hist \in Hists
    BY DEF TypeOK, Hists
  <2>2. wr' = wr /\ (hist' = hist \/ hist' = [hist EXCEPT !.missed = @ \cup {v}])
    BY <1>4 DEF WriteBegin
  <2>3. /\ hist' \in Hists /\ hist'.events = hist.events
        /\ hist'.late = hist.late /\ hist'.lost = hist.lost /\ hist'.bad = hist.bad
    BY <2>1, <2>2 DEF Hists
  <2> QED
    BY <1>1, <1>2, <2>2, <2>3
<1> QED
  BY <1>3, <1>4

\* The bits of a write that is under way.
LEMMA MarkTypes ==
  ASSUME TypeOK, NEW v \in Volumes
  PROVE  Marked(v) \in BitSets /\ Landed(v) \in BitSets /\ Landed(v) \subseteq Marked(v)
<1>1. /\ wr[v].area \in Nat /\ wr[v].base \in Nat /\ wr[v].first \in Nat
      /\ wr[v].last \in Nat
  BY Parts DEF Writes
<1>2. wr[v].base + wr[v].first \in Nat /\ wr[v].last - wr[v].first + 1 \in Int
  BY <1>1
<1>3. Bits(wr[v].area, wr[v].base + wr[v].first, wr[v].last - wr[v].first + 1) \in BitSets
  BY <1>1, <1>2, BitsTypes
<1>4. Marked(v) \in BitSets
  BY <1>3 DEF Marked, BitSets
<1> QED
  BY <1>4 DEF Landed, BitSets

\* What a mark does.
LEMMA Sets ==
  ASSUME TypeOK, PlaceInv, NEW v \in Volumes, SetBits(v)
  PROVE  /\ UNCHANGED <<vols, daemonVars, count>> /\ wr[v].pc = "marking"
         /\ wr' = [wr EXCEPT ![v] = WrIdle] /\ WrIdle \in Writes
         /\ hist' \in Hists /\ hist'.events = hist.events /\ hist'.lost = hist.lost
         /\ hist'.late = IF ld.pc = "sent" THEN hist.late ELSE hist.late \cup Landed(v)
         /\ "past" \in hist'.bad => "past" \in hist.bad \/ Marked(v) # Landed(v)
         /\ "freed" \in hist'.bad => \/ "freed" \in hist.bad
                                     \/ wr[v].area # 0 /\ ~areas[wr[v].area].live
         /\ \/ wr[v].area = 0 /\ areas' = areas
            \/ /\ wr[v].area # 0 /\ wr[v].area \in DOMAIN areas
               /\ areas' = [areas EXCEPT ![wr[v].area].bits = @ \cup Landed(v)]
<1> DEFINE a == wr[v].area
           bad == (IF a = 0 THEN {"unmapped"} ELSE {})
                    \cup (IF Marked(v) # Landed(v) THEN {"past"} ELSE {})
                    \cup (IF a # 0 /\ ~areas[a].live THEN {"freed"} ELSE {})
<1>1. /\ wr[v].pc = "marking" /\ wr' = [wr EXCEPT ![v] = WrIdle]
      /\ areas' = IF a = 0 THEN areas ELSE [areas EXCEPT ![a].bits = @ \cup Landed(v)]
      /\ hist' = [hist EXCEPT !.late = IF ld.pc = "sent" THEN @ ELSE @ \cup Landed(v),
                              !.bad = @ \cup bad]
      /\ UNCHANGED <<vols, daemonVars, count>>
  BY DEF SetBits
<1>2. hist \in Hists /\ Landed(v) \in BitSets
  BY MarkTypes DEF TypeOK, Hists
<1>3. bad \in SUBSET Faults
  BY DEF Faults
<1>4. /\ "past" \in bad => Marked(v) # Landed(v)
      /\ "freed" \in bad => wr[v].area # 0 /\ ~areas[wr[v].area].live
  OBVIOUS
<1> HIDE DEF bad
<1> DEFINE late == IF ld.pc = "sent" THEN hist.late ELSE hist.late \cup Landed(v)
<1>5. late \in BitSets
  BY <1>2 DEF Hists, BitSets
<1>6. hist' = [hist EXCEPT !.late = late, !.bad = @ \cup bad]
  BY <1>1
<1> HIDE DEF late
<1>7. /\ hist' \in Hists /\ hist'.events = hist.events /\ hist'.lost = hist.lost
      /\ hist'.late = late /\ hist'.bad = hist.bad \cup bad
  BY <1>2, <1>3, <1>5, <1>6 DEF Hists
<1>8. WrIdle \in Writes
  BY DEF WrIdle, Writes
<1>9. a # 0 => a \in DOMAIN areas
  <2>1. a \in Nat /\ a <= Len(areas) /\ Len(areas) \in Nat /\ DOMAIN areas = 1 .. Len(areas)
    BY Parts DEF PlaceInv, Writes
  <2> QED
    BY <2>1
<1> QED
  BY <1>1, <1>4, <1>7, <1>8, <1>9 DEF late

-----------------------------------------------------------------------------
(* The requests of the daemon.                                             *)

\* The number of an area that somebody has.
LEMMA AreaNumber ==
  ASSUME TypeOK, NEW a \in Nat, a <= Len(areas), a # 0
  PROVE  a \in DOMAIN areas /\ areas[a] \in Areas
BY Parts

\* A volume that was just added is not tracked and has no area.
LEMMA AddedType == Added \in VolInfos /\ Added.area = 0 /\ Added.backup = 0
                   /\ Added.kern = 0 /\ Added.size = 0 /\ ~Added.tracking
BY DEF Added, VolInfos, Users

\* The volume a request of --create goes to.
LEMMA CreateVolume ==
  ASSUME TypeOK, PlaceInv, ct.pc # "idle"
  PROVE  /\ ioctl.disk \in Volumes /\ ioctl.size \in Nat
         /\ ct.pc # "parsed" => ct.vol \in Volumes /\ vols[ct.vol] \in VolInfos
BY Parts DEF TypeOK, PlaceInv

\* ATDRCTL_DEV_CREATE.
LEMMA Requests ==
  ASSUME TypeOK, PlaceInv, CreateIoctl
  PROVE  /\ UNCHANGED <<areas, wr, daemon, ioctl, slots, ld, recovery, resume, count, hist>>
         /\ ct.pc \in {"parsed", "retry"}
         /\ \E v \in Volumes :
              /\ v = IF ct.pc = "parsed" THEN ioctl.disk ELSE ct.vol
              /\ ct' \in Creates /\ ct'.vol = v /\ ct'.area = ct.area
              /\ ct'.pc = IF vols[v].tracking THEN "remap" ELSE "map"
              /\ vols' \in [Volumes -> VolInfos]
              /\ \A u \in Volumes : u # v => vols'[u] = vols[u]
              /\ vols'[v].tracking
              /\ vols'[v].size = IF ioctl.size > Clamp THEN Clamp ELSE ioctl.size
              /\ vols'[v].area = vols[v].area /\ vols'[v].kern = vols[v].kern
              /\ vols'[v].backup = vols[v].backup /\ vols'[v].user = vols[v].user
<1> DEFINE v == IF ct.pc = "parsed" THEN ioctl.disk ELSE ct.vol
           z == IF ioctl.size > Clamp THEN Clamp ELSE ioctl.size
<1>1. ct.pc \in {"parsed", "retry"}
  BY DEF CreateIoctl
<1>2. v \in Volumes /\ ioctl.size \in Nat
  BY <1>1, CreateVolume
<1>3. UNCHANGED <<areas, wr, daemon, ioctl, slots, ld, recovery, resume, count, hist>>
  BY DEF CreateIoctl
<1>4. ct' = [ct EXCEPT !.pc = IF vols[v].tracking THEN "remap" ELSE "map", !.vol = v]
  BY DEF CreateIoctl
<1>5. vols' = [vols EXCEPT ![v].numBits = ioctl.size, ![v].size = z, ![v].tracking = TRUE]
  BY DEF CreateIoctl, Settings
<1> HIDE DEF v
<1>6. z \in Nat
  BY <1>2, WFAssumption
<1> HIDE DEF z
<1>7. /\ ct' \in Creates /\ ct'.vol = v /\ ct'.area = ct.area
      /\ ct'.pc = IF vols[v].tracking THEN "remap" ELSE "map"
  <2>1. ct \in Creates
    BY DEF TypeOK
  <2> QED
    BY <1>2, <1>4, <2>1 DEF Creates
<1>8. vols \in [Volumes -> VolInfos] /\ vols[v] \in VolInfos
  BY <1>2 DEF TypeOK
<1> DEFINE r == [vols[v] EXCEPT !.numBits = ioctl.size, !.size = z, !.tracking = TRUE]
<1>9. /\ r \in VolInfos /\ r.tracking /\ r.size = z /\ r.area = vols[v].area
      /\ r.kern = vols[v].kern /\ r.backup = vols[v].backup /\ r.user = vols[v].user
  BY <1>2, <1>6, <1>8 DEF VolInfos
<1>10. vols' = [vols EXCEPT ![v] = r]
  BY <1>2, <1>5, <1>8
<1> HIDE DEF r
<1>11. /\ vols' \in [Volumes -> VolInfos] /\ vols'[v] = r
       /\ \A u \in Volumes : u # v => vols'[u] = vols[u]
  BY <1>2, <1>8, <1>9, <1>10
<1> QED
  BY <1>1, <1>2, <1>3, <1>7, <1>9, <1>11 DEF v, z

\* A new area, mapped or not, as both outcomes of MapBufferForUserModeUse leave
\* it: of the volume's size, with the pointers set or, early on, as they were.
Mapped(v, live) ==
  /\ areas' \in Seq(Areas) /\ Len(areas') = Len(areas) + 1
  /\ \A a \in DOMAIN areas : areas'[a] = areas[a]
  /\ areas'[Len(areas) + 1].vol = v /\ areas'[Len(areas) + 1].half = vols[v].size
  /\ areas'[Len(areas) + 1].live = live /\ areas'[Len(areas) + 1].bits = {}
  /\ vols' \in [Volumes -> VolInfos] /\ \A u \in Volumes : u # v => vols'[u] = vols[u]
  /\ vols'[v].area = Len(areas) + 1
  /\ \/ /\ vols'[v].kern = 0 /\ vols'[v].backup = vols[v].size
        /\ vols'[v].user = "kernel"
     \/ ~live /\ vols'[v].kern = vols[v].kern /\ vols'[v].backup = vols[v].backup
  /\ vols'[v].size = vols[v].size /\ vols'[v].tracking = vols[v].tracking

\* A new area is the last one and leaves the others as they are.
LEMMA NewArea ==
  ASSUME TypeOK, NEW v \in Volumes, NEW live \in BOOLEAN,
         areas' = Append(areas, [vol |-> v, half |-> vols[v].size, bits |-> {},
                                 live |-> live])
  PROVE  /\ areas' \in Seq(Areas) /\ Len(areas') = Len(areas) + 1
         /\ \A a \in DOMAIN areas : areas'[a] = areas[a]
         /\ areas'[Len(areas) + 1].vol = v /\ areas'[Len(areas) + 1].half = vols[v].size
         /\ areas'[Len(areas) + 1].live = live /\ areas'[Len(areas) + 1].bits = {}
<1> DEFINE r == [vol |-> v, half |-> vols[v].size, bits |-> {}, live |-> live]
<1>1. r \in Areas /\ areas \in Seq(Areas)
  BY Parts DEF Areas, BitSets, VolInfos, TypeOK
<1>2. /\ r.vol = v /\ r.half = vols[v].size /\ r.live = live /\ r.bits = {}
  OBVIOUS
<1>3. areas' = Append(areas, r)
  OBVIOUS
<1> HIDE DEF r
<1>4. /\ areas' \in Seq(Areas) /\ Len(areas') = Len(areas) + 1
      /\ areas'[Len(areas) + 1] = r /\ DOMAIN areas = 1 .. Len(areas)
      /\ \A a \in 1 .. Len(areas) : areas'[a] = areas[a]
  BY <1>1, <1>3
<1> QED
  BY <1>2, <1>4

\* Both outcomes of MapBufferForUserModeUse.
LEMMA Maps ==
  ASSUME TypeOK, NEW v \in Volumes,
         NEW live \in BOOLEAN, \/ live /\ MapBuffer(v)
                               \/ ~live /\ \E early \in BOOLEAN : MapBufferFails(v, early)
  PROVE  Mapped(v, live)
<1>1. vols \in [Volumes -> VolInfos] /\ vols[v] \in VolInfos /\ Len(areas) + 1 \in Nat
  BY Parts DEF TypeOK
<1>2. areas' = Append(areas, [vol |-> v, half |-> vols[v].size, bits |-> {},
                              live |-> live])
  BY DEF MapBuffer, MapBufferFails
<1>3. ASSUME NEW k \in Nat, NEW b \in Nat, NEW u \in Users \cup {"garbage"},
             NEW m \in BOOLEAN,
             vols' = [vols EXCEPT ![v].area = Len(areas) + 1, ![v].kern = k,
                                  ![v].backup = b, ![v].user = u, ![v].mdl = m]
      PROVE  /\ vols' \in [Volumes -> VolInfos]
             /\ \A x \in Volumes : x # v => vols'[x] = vols[x]
             /\ vols'[v].area = Len(areas) + 1
             /\ vols'[v].kern = k /\ vols'[v].backup = b /\ vols'[v].user = u
             /\ vols'[v].size = vols[v].size /\ vols'[v].tracking = vols[v].tracking
  <2> DEFINE r == [vols[v] EXCEPT !.area = Len(areas) + 1, !.kern = k, !.backup = b,
                                  !.user = u, !.mdl = m]
  <2>1. /\ r \in VolInfos /\ r.area = Len(areas) + 1 /\ r.kern = k /\ r.backup = b
        /\ r.user = u /\ r.size = vols[v].size /\ r.tracking = vols[v].tracking
    BY <1>1 DEF VolInfos
  <2>2. vols' = [vols EXCEPT ![v] = r]
    BY <1>1, <1>3
  <2> HIDE DEF r
  <2> QED
    BY <1>1, <2>1, <2>2
<1>4. CASE live /\ MapBuffer(v)
  <2> DEFINE k == 0
             b == vols[v].size
             u == "kernel"
             m == TRUE
  <2>1. vols' = [vols EXCEPT ![v].area = Len(areas) + 1, ![v].kern = k,
                             ![v].backup = b, ![v].user = u, ![v].mdl = m]
    BY <1>4 DEF MapBuffer
  <2>2. k \in Nat /\ b \in Nat /\ u \in Users \cup {"garbage"} /\ m \in BOOLEAN
    BY <1>1 DEF VolInfos, Users
  <2>3. k = 0 /\ b = vols[v].size /\ u = "kernel"
    OBVIOUS
  <2> HIDE DEF k, b, u, m
  <2>4. /\ vols' \in [Volumes -> VolInfos]
        /\ \A x \in Volumes : x # v => vols'[x] = vols[x]
        /\ vols'[v].area = Len(areas) + 1
        /\ vols'[v].kern = k /\ vols'[v].backup = b /\ vols'[v].user = u
        /\ vols'[v].size = vols[v].size /\ vols'[v].tracking = vols[v].tracking
    BY <1>3, <2>1, <2>2
  <2> QED
    BY <1>2, <1>4, <2>3, <2>4, NewArea DEF Mapped
<1>5. ASSUME NEW early \in BOOLEAN, ~live, MapBufferFails(v, early)
      PROVE  Mapped(v, live)
  <2> DEFINE k == IF early THEN vols[v].kern ELSE 0
             b == IF early THEN vols[v].backup ELSE vols[v].size
             u == IF early THEN vols[v].user ELSE "kernel"
  <2>1. vols' = [vols EXCEPT ![v].area = Len(areas) + 1, ![v].kern = k,
                          ![v].backup = b, ![v].user = u, ![v].mdl = FALSE]
    BY <1>1, <1>5 DEF MapBufferFails
  <2>2. k \in Nat /\ b \in Nat /\ u \in Users \cup {"garbage"}
    BY <1>1 DEF VolInfos, Users
  <2>3. \/ k = 0 /\ b = vols[v].size /\ u = "kernel"
        \/ k = vols[v].kern /\ b = vols[v].backup
    OBVIOUS
  <2> HIDE DEF k, b, u
  <2>4. /\ vols' \in [Volumes -> VolInfos]
        /\ \A x \in Volumes : x # v => vols'[x] = vols[x]
        /\ vols'[v].area = Len(areas) + 1
        /\ vols'[v].kern = k /\ vols'[v].backup = b /\ vols'[v].user = u
        /\ vols'[v].size = vols[v].size /\ vols'[v].tracking = vols[v].tracking
    BY <1>3, <2>1, <2>2
  <2> QED
    BY <1>2, <1>5, <2>3, <2>4, NewArea DEF Mapped
<1> QED
  BY <1>4, <1>5

\* The flip, and the change that a new mapping makes.
LEMMA Flips ==
  ASSUME TypeOK, NEW v \in Volumes, FlipArea(v)
  PROVE  /\ vols' \in [Volumes -> VolInfos]
         /\ \A u \in Volumes : u # v => vols'[u] = vols[u]
         /\ vols'[v].area = vols[v].area /\ vols'[v].size = vols[v].size
         /\ vols'[v].backup = vols[v].backup /\ vols'[v].tracking = vols[v].tracking
         /\ \/ vols[v].user = "garbage" /\ vols' = vols
            \/ vols[v].user = "user" /\ vols'[v].user = "kernel" /\ vols'[v].kern = 0
            \/ /\ vols[v].user = "kernel" /\ vols'[v].user = "user"
               /\ vols'[v].kern = vols[v].backup
<1>1. vols \in [Volumes -> VolInfos] /\ vols[v] \in VolInfos
  BY DEF TypeOK
<1>2. vols[v].user \in {"kernel", "user", "garbage"} /\ vols[v].backup \in Nat
  BY <1>1 DEF VolInfos, Users
<1>3. CASE vols[v].user = "garbage"
  BY <1>1, <1>3 DEF FlipArea
<1>4. ASSUME NEW k \in Nat, NEW u \in Users,
             vols' = [vols EXCEPT ![v].kern = k, ![v].user = u, ![v].mdl = FALSE]
      PROVE  /\ vols' \in [Volumes -> VolInfos]
             /\ \A x \in Volumes : x # v => vols'[x] = vols[x]
             /\ vols'[v].area = vols[v].area /\ vols'[v].size = vols[v].size
             /\ vols'[v].backup = vols[v].backup /\ vols'[v].tracking = vols[v].tracking
             /\ vols'[v].kern = k /\ vols'[v].user = u
  <2> DEFINE r == [vols[v] EXCEPT !.kern = k, !.user = u, !.mdl = FALSE]
  <2>1. /\ r \in VolInfos /\ r.area = vols[v].area /\ r.kern = k /\ r.user = u
        /\ r.backup = vols[v].backup
        /\ r.size = vols[v].size /\ r.tracking = vols[v].tracking
    BY <1>1 DEF VolInfos
  <2>2. vols' = [vols EXCEPT ![v] = r]
    BY <1>1, <1>4
  <2> HIDE DEF r
  <2> QED
    BY <1>1, <2>1, <2>2
<1>5. CASE vols[v].user = "user"
  <2>1. vols' = [vols EXCEPT ![v].kern = 0, ![v].user = "kernel", ![v].mdl = FALSE]
    BY <1>5 DEF FlipArea
  <2>2. "kernel" \in Users
    BY DEF Users
  <2> QED
    BY <1>4, <1>5, <2>1, <2>2
<1>6. CASE vols[v].user = "kernel"
  <2>1. vols' = [vols EXCEPT ![v].kern = vols[v].backup, ![v].user = "user",
                             ![v].mdl = FALSE]
    BY <1>6 DEF FlipArea
  <2>2. "user" \in Users
    BY DEF Users
  <2> QED
    BY <1>2, <1>4, <1>6, <2>1, <2>2
<1> QED
  BY <1>2, <1>3, <1>5, <1>6

-----------------------------------------------------------------------------
(* Loads and the end of a round.                                           *)

\* The disk object of partner 0.
LEMMA FirstSlot ==
  ASSUME TypeOK, slots # <<>>
  PROVE  /\ 1 \in DOMAIN slots /\ slots[1] \in Disks
         /\ slots[1].vol \in Volumes /\ slots[1].size \in Nat /\ slots[1].area \in Nat
         /\ \A u \in Users : Half(u) \in BitSets
<1>1. slots \in Seq(Disks)
  BY DEF TypeOK
<1>2. Len(slots) # 0 /\ Len(slots) \in Nat /\ DOMAIN slots = 1 .. Len(slots)
  BY <1>1, EmptySeq
<1>3. 1 \in DOMAIN slots
  BY <1>2
<1>4. slots[1] \in Disks
  BY <1>3, Parts
<1>5. slots[1].vol \in Volumes /\ slots[1].size \in Nat /\ slots[1].area \in Nat
  BY <1>4 DEF Disks
<1>6. ASSUME NEW u \in Users PROVE Half(u) \in BitSets
  <2>1. (IF u = "kernel" THEN 0 ELSE slots[1].size) \in Nat /\ slots[1].size \in Int
    BY <1>5
  <2> QED
    BY <1>5, <2>1, BitsTypes DEF Half
<1> QED
  BY <1>3, <1>4, <1>5, <1>6

\* What a load copies.
LEMMA Copies ==
  ASSUME TypeOK, slots # <<>>, NEW u \in Users, NEW junk \in Junk(u)
  PROVE  /\ CopyOf(u, junk) \in BitSets
         /\ Half(u) \cap areas[slots[1].area].bits \subseteq CopyOf(u, junk)
<1>1. Half(u) \in BitSets
  BY FirstSlot
<1>2. junk \subseteq Half(u)
  BY DEF Junk
<1> QED
  BY <1>1, <1>2 DEF CopyOf, BitSets

\* A load begins with the name of the first disk object, or the daemon ends.
LEMMA Starts ==
  ASSUME TypeOK, LoadStart
  PROVE  /\ UNCHANGED <<kernelVars, recovery>>
         /\ count' \in [write : Nat, create : Nat, load : Nat, fault : Nat]
         /\ \/ Exit /\ hist' = hist
            \/ /\ slots # <<>> /\ ioctl' = [ioctl EXCEPT !.disk = slots[1].vol]
               /\ ioctl' \in [disk : Volumes \cup {NoVolume}, size : Nat]
               /\ ioctl'.disk = slots[1].vol /\ ioctl'.size = ioctl.size
               /\ ld' \in Loads /\ ld'.pc = "getuser"
               /\ UNCHANGED <<daemon, slots, ct, resume>>
               /\ Recall(IF ct.pc # "idle" THEN {"overlap"} ELSE {})
<1>1. UNCHANGED <<kernelVars, recovery>>
  BY DEF LoadStart
<1>2. count' \in [write : Nat, create : Nat, load : Nat, fault : Nat]
  BY Counted DEF LoadStart
<1>3. CASE slots = <<>>
  BY <1>1, <1>2, <1>3 DEF LoadStart
<1>4. CASE slots # <<>>
  <2>1. /\ ioctl' = [ioctl EXCEPT !.disk = slots[1].vol]
        /\ ld' = [ld EXCEPT !.pc = "getuser"]
        /\ Recall(IF ct.pc # "idle" THEN {"overlap"} ELSE {})
        /\ UNCHANGED <<daemon, slots, ct, resume>>
    BY <1>4 DEF LoadStart
  <2>2. ld \in Loads /\ ioctl \in [disk : Volumes \cup {NoVolume}, size : Nat]
    BY DEF TypeOK
  <2>3. ld' \in Loads /\ ld'.pc = "getuser"
    BY <2>1, <2>2 DEF Loads
  <2>4. /\ ioctl' \in [disk : Volumes \cup {NoVolume}, size : Nat]
        /\ ioctl'.disk = slots[1].vol /\ ioctl'.size = ioctl.size
    BY <1>4, <2>1, <2>2, FirstSlot
  <2> QED
    BY <1>1, <1>2, <1>4, <2>1, <2>3, <2>4
<1> QED
  BY <1>3, <1>4

\* ATDRCTL_GET_USER answers with the half in use.
LEMMA Asks ==
  ASSUME TypeOK, GetUser
  PROVE  /\ UNCHANGED <<kernelVars, daemon, ioctl, slots, ct, recovery, resume, count, hist>>
         /\ ld.pc = "getuser" /\ ld' \in Loads /\ ld'.pc = "copy"
         /\ vols[ioctl.disk].user \in {ld'.user, "garbage"}
<1>1. /\ UNCHANGED <<kernelVars, daemon, ioctl, slots, ct, recovery, resume, count, hist>>
      /\ ld.pc = "getuser"
  BY DEF GetUser
<1>2. PICK u \in Users : /\ vols[ioctl.disk].user \in {u, "garbage"}
                         /\ ld' = [ld EXCEPT !.pc = "copy", !.user = u]
  BY DEF GetUser
<1>3. ld \in Loads
  BY DEF TypeOK
<1>4. ld' \in Loads /\ ld'.pc = "copy" /\ ld'.user = u
  BY <1>2, <1>3 DEF Loads
<1> QED
  BY <1>1, <1>2, <1>4

\* A load copies the half it was told, and will clear that one.
LEMMA CopiesHalf ==
  ASSUME TypeOK, PlaceInv, CopyHalf
  PROVE  /\ UNCHANGED <<kernelVars, recovery, count>> /\ ld.pc = "copy"
         /\ \/ Exit /\ hist' = hist
            \/ /\ slots # <<>> /\ slots[1].area # 0
               /\ UNCHANGED <<daemon, ioctl, slots, ct, resume>>
               /\ hist' \in Hists /\ hist'.events = hist.events
               /\ hist'.late = {} /\ hist'.lost = hist.lost /\ hist'.bad = hist.bad
               /\ ld' \in Loads /\ ld'.pc \in {"flip", "recopy"}
               /\ ld'.user = IF ld.user = "kernel" THEN "user" ELSE "kernel"
               /\ Half(ld.user) \cap areas[slots[1].area].bits \subseteq ld'.copy
<1>1. UNCHANGED <<kernelVars, recovery, count>> /\ ld.pc = "copy"
  BY DEF CopyHalf
<1>2. slots # <<>>
  BY <1>1 DEF PlaceInv
<1>3. CASE slots[1].area = 0
  BY <1>1, <1>3 DEF CopyHalf
<1>4. CASE slots[1].area # 0
  <2>1. PICK junk \in Junk(ld.user) :
          ld' = [pc |-> IF recovery \/ resume THEN "recopy" ELSE "flip",
                 user |-> IF ld.user = "kernel" THEN "user" ELSE "kernel",
                 copy |-> CopyOf(ld.user, junk)]
    BY <1>4 DEF CopyHalf
  <2>2. /\ hist' = [hist EXCEPT !.late = {}]
        /\ UNCHANGED <<daemon, ioctl, slots, ct, resume>>
    BY <1>4 DEF CopyHalf
  <2>3. ld.user \in Users
    BY DEF TypeOK, Loads
  <2>4. /\ CopyOf(ld.user, junk) \in BitSets
        /\ Half(ld.user) \cap areas[slots[1].area].bits \subseteq CopyOf(ld.user, junk)
    BY <1>2, <2>3, Copies
  <2>5. /\ ld' \in Loads /\ ld'.pc \in {"flip", "recopy"}
        /\ ld'.user = IF ld.user = "kernel" THEN "user" ELSE "kernel"
        /\ ld'.copy = CopyOf(ld.user, junk)
    BY <2>1, <2>4 DEF Loads, Users
  <2>6. /\ hist' \in Hists /\ hist'.events = hist.events
        /\ hist'.late = {} /\ hist'.lost = hist.lost /\ hist'.bad = hist.bad
    <3>1. hist \in Hists /\ {} \in BitSets
      BY DEF TypeOK, Hists, BitSets
    <3> QED
      BY <2>2, <3>1 DEF Hists
  <2> QED
    BY <1>1, <1>2, <1>4, <2>2, <2>4, <2>5, <2>6
<1> QED
  BY <1>3, <1>4

\* The flip of a load; what writes under way will still set is late.
LEMMA FlipsHalf ==
  ASSUME TypeOK, PlaceInv, Flip
  PROVE  /\ UNCHANGED <<areas, wr, daemon, ioctl, slots, ct, recovery, resume, count>>
         /\ ld.pc = "flip" /\ ioctl.disk \in Volumes /\ FlipArea(ioctl.disk)
         /\ ld' \in Loads /\ ld'.pc = "sent" /\ ld'.user = ld.user /\ ld'.copy = ld.copy
         /\ hist' \in Hists /\ hist'.events = hist.events /\ hist'.lost = hist.lost
         /\ hist'.late = hist.late \cup UNION {Landed(v) : v \in Volumes}
         /\ hist'.bad = hist.bad
<1>1. /\ UNCHANGED <<areas, wr, daemon, ioctl, slots, ct, recovery, resume, count>>
      /\ ld.pc = "flip" /\ FlipArea(ioctl.disk) /\ ld' = [ld EXCEPT !.pc = "sent"]
      /\ hist' = [hist EXCEPT !.astray = @ \/ ioctl.disk # slots[1].vol,
                              !.late = @ \cup UNION {Landed(v) : v \in Volumes}]
  BY DEF Flip
<1>2. ioctl.disk \in Volumes
  BY <1>1 DEF PlaceInv, Loading
<1>3. ld \in Loads /\ hist \in Hists
  BY DEF TypeOK, Hists
<1>4. ld' \in Loads /\ ld'.pc = "sent" /\ ld'.user = ld.user /\ ld'.copy = ld.copy
  BY <1>1, <1>3 DEF Loads
<1> DEFINE late == hist.late \cup UNION {Landed(v) : v \in Volumes}
           astray == hist.astray \/ ioctl.disk # slots[1].vol
<1>5. late \in BitSets
  <2>1. \A v \in Volumes : Landed(v) \in BitSets
    BY MarkTypes
  <2> QED
    BY <1>3, <2>1 DEF BitSets, Hists
<1>6. astray \in BOOLEAN
  BY <1>3 DEF Hists
<1>7. hist' = [hist EXCEPT !.astray = astray, !.late = late]
  BY <1>1
<1> HIDE DEF late, astray
<1>8. /\ hist' \in Hists /\ hist'.events = hist.events /\ hist'.lost = hist.lost
      /\ hist'.late = late /\ hist'.bad = hist.bad
  BY <1>3, <1>5, <1>6, <1>7 DEF Hists
<1> QED
  BY <1>1, <1>2, <1>4, <1>8 DEF late

\* A load without a flip is on record.
LEMMA Recopies ==
  ASSUME TypeOK, PlaceInv, Recopy
  PROVE  /\ UNCHANGED <<kernelVars, daemon, ioctl, slots, ct, recovery, count>>
         /\ ld.pc = "recopy" /\ resume' = FALSE
         /\ ld' \in Loads /\ ld'.pc = "sent"
         /\ Recall({"unflipped"})
<1>1. /\ UNCHANGED <<kernelVars, daemon, ioctl, slots, ct, recovery, count>>
      /\ ld.pc = "recopy" /\ resume' = FALSE /\ Recall({"unflipped"})
  BY DEF Recopy
<1>2. \E u \in Users : \E junk \in Junk(u) :
        ld' = [ld EXCEPT !.pc = "sent", !.copy = CopyOf(u, junk)]
  <2> DEFINE u == IF <<slots[1].area, 0>> \in areas[slots[1].area].bits
                    THEN "kernel" ELSE "user"
  <2>1. u \in Users
    BY DEF Users
  <2>2. \E junk \in Junk(u) : ld' = [ld EXCEPT !.pc = "sent", !.copy = CopyOf(u, junk)]
    BY DEF Recopy
  <2> HIDE DEF u
  <2> QED
    BY <2>1, <2>2
<1>3. PICK u \in Users : \E junk \in Junk(u) :
        ld' = [ld EXCEPT !.pc = "sent", !.copy = CopyOf(u, junk)]
  BY <1>2
<1>6. PICK junk \in Junk(u) : ld' = [ld EXCEPT !.pc = "sent", !.copy = CopyOf(u, junk)]
  BY <1>3
<1>4. CopyOf(u, junk) \in BitSets /\ ld \in Loads
  <2>1. slots # <<>>
    BY <1>1 DEF PlaceInv
  <2> QED
    BY <2>1, Copies DEF TypeOK
<1>5. ld' \in Loads /\ ld'.pc = "sent"
  BY <1>4, <1>6 DEF Loads
<1> QED
  BY <1>1, <1>5

\* The end of a round clears the half that was loaded and nothing else.
LEMMA Terminates ==
  ASSUME TypeOK, PlaceInv, Terminate
  PROVE  /\ UNCHANGED <<vols, wr, daemon, ioctl, slots, ct, resume, count>>
         /\ ld.pc = "sent" /\ slots # <<>> /\ slots[1].area \in DOMAIN areas
         /\ areas' = [areas EXCEPT ![slots[1].area].bits = @ \ Loaded]
         /\ recovery' = FALSE /\ ld' = LdIdle
         /\ hist' \in Hists /\ hist'.events = hist.events /\ hist'.late = hist.late
         /\ hist'.bad = hist.bad
         /\ hist'.lost = hist.lost \cup (((areas[slots[1].area].bits \cap Loaded) \ ld.copy)
                                           \ hist.late)
<1> DEFINE a == slots[1].area
           gone == ((areas[a].bits \cap Loaded) \ ld.copy) \ hist.late
<1>1. /\ UNCHANGED <<vols, wr, daemon, ioctl, slots, ct, resume, count>>
      /\ ld.pc = "sent" /\ recovery' = FALSE /\ ld' = LdIdle
      /\ areas' = [areas EXCEPT ![a].bits = @ \ Loaded]
      /\ hist' = [hist EXCEPT !.lost = @ \cup gone]
  BY DEF Terminate, Loaded
<1>2. slots # <<>> /\ a # 0
  BY <1>1 DEF PlaceInv
<1>3. a \in DOMAIN areas /\ areas[a] \in Areas
  BY <1>2, FirstSlot, AreaNumber DEF PlaceInv
<1>4. gone \in BitSets /\ hist \in Hists
  BY <1>3 DEF Areas, BitSets, TypeOK, Hists
<1> HIDE DEF gone
<1>5. /\ hist' \in Hists /\ hist'.events = hist.events /\ hist'.late = hist.late
      /\ hist'.bad = hist.bad /\ hist'.lost = hist.lost \cup gone
  <2>1. hist.lost \cup gone \in BitSets
    BY <1>4 DEF BitSets, Hists
  <2> QED
    BY <1>1, <1>4, <2>1 DEF Hists
<1> QED
  BY <1>1, <1>2, <1>3, <1>5 DEF gone

-----------------------------------------------------------------------------
(* --create, and volumes that come and go.                                 *)

Counts == [write : Nat, create : Nat, load : Nat, fault : Nat]
Ioctls == [disk : Volumes \cup {NoVolume}, size : Nat]

\* The arguments of --create, and what they put on record.
LEMMA Parses ==
  ASSUME TypeOK, NEW v \in Volumes, NEW s \in Sizes, CreateParse(v, s)
  PROVE  /\ UNCHANGED <<kernelVars, daemon, slots, ld, recovery, resume>>
         /\ ct.pc = "idle" /\ count' \in Counts /\ s \in Nat
         /\ ioctl' \in Ioctls /\ ioctl'.disk = v /\ ioctl'.size = s
         /\ ct' \in Creates /\ ct'.pc = "parsed" /\ ct'.area = 0
         /\ hist' \in Hists /\ hist.events \subseteq hist'.events
         /\ hist'.late = hist.late /\ hist'.lost = hist.lost /\ hist'.bad = hist.bad
         /\ Loading => "overlap" \in hist'.events
         /\ s > Clamp => "oversized" \in hist'.events
         /\ (\E a \in DOMAIN areas : areas[a].vol = v /\ areas[a].half # s) =>
              "resized" \in hist'.events
<1> DEFINE E == (IF Loading THEN {"overlap"} ELSE {})
                  \cup (IF s > Clamp THEN {"oversized"} ELSE {})
                  \cup (IF \E a \in DOMAIN areas : areas[a].vol = v /\ areas[a].half # s
                          THEN {"resized"} ELSE {})
<1>1. /\ UNCHANGED <<kernelVars, daemon, slots, ld, recovery, resume>>
      /\ ct.pc = "idle" /\ Bump("create") /\ ioctl' = [disk |-> v, size |-> s]
      /\ ct' = [CtIdle EXCEPT !.pc = "parsed"] /\ Recall(E)
  BY DEF CreateParse
<1>2. E \in SUBSET Events
  BY DEF Events
<1>3. /\ hist' \in Hists /\ hist'.events = hist.events \cup E
      /\ hist'.late = hist.late /\ hist'.lost = hist.lost /\ hist'.bad = hist.bad
  <2> HIDE DEF E
  <2> QED
    BY <1>1, <1>2, Recalled
<1>4. /\ Loading => "overlap" \in E
      /\ s > Clamp => "oversized" \in E
      /\ (\E a \in DOMAIN areas : areas[a].vol = v /\ areas[a].half # s) => "resized" \in E
  OBVIOUS
<1> HIDE DEF E
<1>5. s \in Nat /\ ioctl' \in Ioctls /\ ioctl'.disk = v /\ ioctl'.size = s
  BY <1>1, WFAssumption DEF Ioctls
<1>6. ct' \in Creates /\ ct'.pc = "parsed" /\ ct'.area = 0
  BY <1>1 DEF CtIdle, Creates
<1>7. count' \in Counts
  BY <1>1, Counted DEF Counts
<1> QED
  BY <1>1, <1>3, <1>4, <1>5, <1>6, <1>7

\* The mapping of a new area, which succeeds or is on record as failed.
LEMMA CreateMaps ==
  ASSUME TypeOK, PlaceInv, CreateMap \/ CreateMapFails
  PROVE  /\ UNCHANGED <<wr, daemon, ioctl, slots, ld, recovery, resume>>
         /\ count' \in Counts /\ ct.pc = "map" /\ ct.vol \in Volumes
         /\ ct' \in Creates /\ ct'.vol = ct.vol
         /\ \/ /\ Mapped(ct.vol, TRUE) /\ hist' = hist
               /\ ct'.pc = "made" /\ ct'.area = Len(areas) + 1
            \/ /\ Mapped(ct.vol, FALSE) /\ Recall({"mapfail"})
               /\ ct'.pc = "retry" /\ ct'.area = ct.area
<1>1. /\ UNCHANGED <<wr, daemon, ioctl, slots, ld, recovery, resume>> /\ ct.pc = "map"
  BY DEF CreateMap, CreateMapFails
<1>2. ct \in Creates /\ Len(areas) + 1 \in Nat /\ ct.vol \in Volumes
  BY <1>1, Parts DEF TypeOK, PlaceInv
<1>3. CASE CreateMap
  <2>1. /\ MapBuffer(ct.vol) /\ ct' = [ct EXCEPT !.pc = "made", !.area = Len(areas) + 1]
        /\ UNCHANGED <<count, hist>>
    BY <1>3 DEF CreateMap
  <2>2. /\ ct' \in Creates /\ ct'.vol = ct.vol /\ ct'.pc = "made"
        /\ ct'.area = Len(areas) + 1
    BY <1>2, <2>1 DEF Creates
  <2>3. Mapped(ct.vol, TRUE)
    BY <1>2, <2>1, Maps
  <2> QED
    BY <1>1, <1>2, <2>1, <2>2, <2>3 DEF TypeOK, Counts
<1>4. CASE CreateMapFails
  <2>1. /\ \E early \in BOOLEAN : MapBufferFails(ct.vol, early)
        /\ ct' = [ct EXCEPT !.pc = "retry"] /\ Bump("fault") /\ Recall({"mapfail"})
    BY <1>4 DEF CreateMapFails
  <2>2. ct' \in Creates /\ ct'.vol = ct.vol /\ ct'.pc = "retry" /\ ct'.area = ct.area
    BY <1>2, <2>1 DEF Creates
  <2>3. Mapped(ct.vol, FALSE)
    BY <1>2, <2>1, Maps
  <2>4. count' \in Counts
    BY <2>1, Counted DEF Counts
  <2> QED
    BY <1>1, <1>2, <2>1, <2>2, <2>3, <2>4
<1> QED
  BY <1>3, <1>4

\* A second mapping leaves the filter as it is.
LEMMA CreateRemaps ==
  ASSUME TypeOK, PlaceInv, CreateRemap \/ CreateRemapFails
  PROVE  /\ UNCHANGED <<areas, wr, daemon, ioctl, slots, ld, recovery, resume, hist>>
         /\ count' \in Counts /\ ct.pc = "remap" /\ ct.vol \in Volumes
         /\ ct' \in Creates /\ ct'.vol = ct.vol /\ ct'.pc = "made"
         /\ ct'.area \in {0, vols[ct.vol].area}
         /\ vols' \in [Volumes -> VolInfos]
         /\ \A v \in Volumes :
              /\ vols'[v].tracking = vols[v].tracking /\ vols'[v].size = vols[v].size
              /\ vols'[v].area = vols[v].area /\ vols'[v].kern = vols[v].kern
              /\ vols'[v].backup = vols[v].backup /\ vols'[v].user = vols[v].user
<1>1. /\ UNCHANGED <<areas, wr, daemon, ioctl, slots, ld, recovery, resume, hist>>
      /\ ct.pc = "remap"
  BY DEF CreateRemap, CreateRemapFails
<1>2. /\ ct \in Creates /\ ct.vol \in Volumes /\ vols \in [Volumes -> VolInfos]
      /\ vols[ct.vol].area \in Nat
  BY <1>1, Parts DEF TypeOK, PlaceInv, VolInfos
<1>3. CASE CreateRemap
  <2>1. /\ vols' = [vols EXCEPT ![ct.vol].mdl = TRUE] /\ UNCHANGED count
        /\ ct' = [ct EXCEPT !.pc = "made", !.area = vols[ct.vol].area]
    BY <1>3 DEF CreateRemap
  <2>2. /\ ct' \in Creates /\ ct'.vol = ct.vol /\ ct'.pc = "made"
        /\ ct'.area = vols[ct.vol].area
    BY <1>2, <2>1 DEF Creates
  <2>3. /\ vols' \in [Volumes -> VolInfos]
        /\ \A v \in Volumes :
              /\ vols'[v].tracking = vols[v].tracking /\ vols'[v].size = vols[v].size
              /\ vols'[v].area = vols[v].area /\ vols'[v].kern = vols[v].kern
              /\ vols'[v].backup = vols[v].backup /\ vols'[v].user = vols[v].user
    <3> DEFINE r == [vols[ct.vol] EXCEPT !.mdl = TRUE]
    <3>1. /\ r \in VolInfos /\ r.tracking = vols[ct.vol].tracking
          /\ r.size = vols[ct.vol].size /\ r.area = vols[ct.vol].area
          /\ r.kern = vols[ct.vol].kern /\ r.backup = vols[ct.vol].backup
          /\ r.user = vols[ct.vol].user
      BY <1>2 DEF VolInfos
    <3>2. vols' = [vols EXCEPT ![ct.vol] = r]
      BY <1>2, <2>1
    <3> HIDE DEF r
    <3>3. /\ vols' \in [Volumes -> VolInfos] /\ vols'[ct.vol] = r
          /\ \A v \in Volumes : v # ct.vol => vols'[v] = vols[v]
      BY <1>2, <3>1, <3>2
    <3> QED
      BY <3>1, <3>3
  <2> QED
    BY <1>1, <1>2, <2>1, <2>2, <2>3 DEF TypeOK, Counts
<1>4. CASE CreateRemapFails
  <2>1. /\ vols' = vols /\ Bump("fault") /\ ct' = [ct EXCEPT !.pc = "made", !.area = 0]
    BY <1>4 DEF CreateRemapFails
  <2>2. ct' \in Creates /\ ct'.vol = ct.vol /\ ct'.pc = "made" /\ ct'.area = 0
    BY <1>2, <2>1 DEF Creates
  <2>3. count' \in Counts
    BY <2>1, Counted DEF Counts
  <2> QED
    BY <1>1, <1>2, <2>1, <2>2, <2>3
<1> QED
  BY <1>3, <1>4

\* A disk object is added behind the others.
LEMMA DiskSources ==
  ASSUME TypeOK, PlaceInv, DiskSourceCreate
  PROVE  /\ UNCHANGED <<kernelVars, daemon, ioctl, ld, recovery, resume, count, hist>>
         /\ ct.pc = "made" /\ ct' \in Creates /\ ct'.pc = "idle" /\ ct'.area = 0
         /\ slots' \in Seq(Disks) /\ Len(slots') = Len(slots) + 1
         /\ \A i \in DOMAIN slots : slots'[i] = slots[i]
         /\ slots'[Len(slots) + 1].vol = ioctl.disk
         /\ slots'[Len(slots) + 1].size = ioctl.size
         /\ slots'[Len(slots) + 1].area = ct.area
<1> DEFINE r == [vol |-> ioctl.disk, size |-> ioctl.size, area |-> ct.area]
<1>1. /\ UNCHANGED <<kernelVars, daemon, ioctl, ld, recovery, resume, count, hist>>
      /\ ct.pc = "made" /\ slots' = Append(slots, r) /\ ct' = CtIdle
  BY DEF DiskSourceCreate
<1>2. r \in Disks
  BY <1>1, CreateVolume DEF Disks, TypeOK, Creates
<1>3. r.vol = ioctl.disk /\ r.size = ioctl.size /\ r.area = ct.area
  OBVIOUS
<1> HIDE DEF r
<1>4. slots \in Seq(Disks)
  BY DEF TypeOK
<1>5. /\ slots' \in Seq(Disks) /\ Len(slots') = Len(slots) + 1
      /\ slots'[Len(slots) + 1] = r /\ DOMAIN slots = 1 .. Len(slots)
      /\ \A i \in 1 .. Len(slots) : slots'[i] = slots[i]
  BY <1>1, <1>2, <1>4
<1>6. ct' \in Creates /\ ct'.pc = "idle" /\ ct'.area = 0
  BY <1>1 DEF CtIdle, Creates
<1> QED
  BY <1>1, <1>3, <1>5, <1>6

\* A volume that goes and comes back.
LEMMA Removes ==
  ASSUME TypeOK, NEW v \in Volumes, RemoveDevice(v)
  PROVE  /\ UNCHANGED <<areas, wr, daemonVars>> /\ count' \in Counts
         /\ hist' \in Hists /\ hist'.events = hist.events
         /\ hist'.late = hist.late /\ hist'.lost = hist.lost /\ hist'.bad = hist.bad
         /\ vols' \in [Volumes -> VolInfos] /\ vols'[v] = Added
         /\ \A u \in Volumes : u # v => vols'[u] = vols[u]
<1>1. /\ UNCHANGED <<areas, wr, daemonVars>> /\ vols' = [vols EXCEPT ![v] = Added]
      /\ hist' = [hist EXCEPT !.readded = @ \cup {v}] /\ Bump("fault")
  BY DEF RemoveDevice
<1>2. hist \in Hists /\ vols \in [Volumes -> VolInfos] /\ Added \in VolInfos
  BY AddedType DEF TypeOK, Hists
<1>3. /\ hist' \in Hists /\ hist'.events = hist.events
      /\ hist'.late = hist.late /\ hist'.lost = hist.lost /\ hist'.bad = hist.bad
  BY <1>1, <1>2 DEF Hists
<1>4. count' \in Counts
  BY <1>1, Counted DEF Counts
<1>5. /\ vols' \in [Volumes -> VolInfos] /\ vols'[v] = Added
      /\ \A u \in Volumes : u # v => vols'[u] = vols[u]
  BY <1>1, <1>2
<1> QED
  BY <1>1, <1>3, <1>4, <1>5

\* ATDRCTL_DEV_DESTROY frees the area of the volume.
LEMMA Destroys ==
  ASSUME TypeOK, PlaceInv, NEW v \in Volumes, DeviceDestroy(v)
  PROVE  /\ UNCHANGED <<vols, wr, daemonVars>> /\ count' \in Counts
         /\ vols[v].area \in DOMAIN areas
         /\ areas' = [areas EXCEPT ![vols[v].area].live = FALSE]
         /\ hist' \in Hists /\ hist'.events = hist.events \cup {"destroyed"}
         /\ hist'.late = hist.late /\ hist'.lost = hist.lost
         /\ "past" \in hist'.bad => "past" \in hist.bad
         /\ "freed" \in hist'.bad => "freed" \in hist.bad
<1> DEFINE bad == IF vols[v].mdl THEN hist.bad ELSE hist.bad \cup {"mdl"}
<1>1. /\ UNCHANGED <<vols, wr, daemonVars>> /\ Bump("fault") /\ vols[v].area # 0
      /\ areas' = [areas EXCEPT ![vols[v].area].live = FALSE]
      /\ hist' = [hist EXCEPT !.events = @ \cup {"destroyed"}, !.bad = bad]
  BY DEF DeviceDestroy
<1>2. hist \in Hists
  BY DEF TypeOK, Hists
<1>3. bad \in SUBSET Faults
  BY <1>2 DEF Hists, Faults
<1>4. /\ "past" \in bad => "past" \in hist.bad
      /\ "freed" \in bad => "freed" \in hist.bad
  OBVIOUS
<1> HIDE DEF bad
<1>5. /\ hist' \in Hists /\ hist'.events = hist.events \cup {"destroyed"}
      /\ hist'.late = hist.late /\ hist'.lost = hist.lost /\ hist'.bad = bad
  BY <1>1, <1>2, <1>3 DEF Hists, Events
<1>6. vols[v].area \in DOMAIN areas
  BY <1>1, Parts, AreaNumber DEF PlaceInv, VolInfos
<1>7. count' \in Counts
  BY <1>1, Counted DEF Counts
<1> QED
  BY <1>1, <1>4, <1>5, <1>6, <1>7

-----------------------------------------------------------------------------
(* A step by its action; areas only grow.                                  *)

\* A step by its action.
LEMMA Actions ==
  ASSUME [Next]_vars
  PROVE  \/ \E v \in Volumes : WriteBegin(v) \/ SetBits(v)
         \/ \E v \in Volumes : RemoveDevice(v) \/ DeviceDestroy(v)
         \/ \E v \in Volumes, s \in Sizes : CreateParse(v, s)
         \/ CreateIoctl \/ (CreateMap \/ CreateMapFails)
         \/ (CreateRemap \/ CreateRemapFails) \/ DiskSourceCreate
         \/ LoadStart \/ GetUser \/ CopyHalf \/ Flip \/ Recopy
         \/ Reconnect \/ Terminate \/ Crash \/ Restart \/ UNCHANGED vars
BY DEF Next, Write, Device, Create, LoadStep

\* Replacing one area leaves the others.
LEMMA AreaPut ==
  ASSUME TypeOK, NEW a \in DOMAIN areas, NEW r \in Areas, areas' = [areas EXCEPT ![a] = r]
  PROVE  /\ areas' \in Seq(Areas) /\ Len(areas') = Len(areas)
         /\ DOMAIN areas' = DOMAIN areas
         /\ \A x \in DOMAIN areas : areas'[x] = IF x = a THEN r ELSE areas[x]
<1>1. areas \in Seq(Areas) /\ DOMAIN areas = 1 .. Len(areas)
  BY Parts DEF TypeOK
<1>2. /\ areas' \in Seq(Areas) /\ Len(areas') = Len(areas)
      /\ \A x \in 1 .. Len(areas) : areas'[x] = IF x = a THEN r ELSE areas[x]
  BY <1>1, ExceptSeq
<1>3. DOMAIN areas' = DOMAIN areas
  OBVIOUS
<1> QED
  BY <1>1, <1>2, <1>3

\* Changing the bits of one area changes nothing else.
LEMMA AreaBits ==
  ASSUME TypeOK, NEW a \in DOMAIN areas, NEW B \in BitSets,
         areas' = [areas EXCEPT ![a].bits = B]
  PROVE  /\ areas' \in Seq(Areas) /\ Len(areas') = Len(areas)
         /\ DOMAIN areas' = DOMAIN areas /\ areas'[a].bits = B
         /\ \A x \in DOMAIN areas :
              /\ areas'[x].vol = areas[x].vol /\ areas'[x].half = areas[x].half
              /\ areas'[x].live = areas[x].live
              /\ x # a => areas'[x].bits = areas[x].bits
<1>1. areas \in Seq(Areas) /\ areas[a] \in Areas
  BY Parts DEF TypeOK
<1> DEFINE r == [areas[a] EXCEPT !.bits = B]
<1>2. /\ r \in Areas /\ r.vol = areas[a].vol /\ r.half = areas[a].half
      /\ r.live = areas[a].live /\ r.bits = B
  BY <1>1 DEF Areas
<1>3. areas' = [areas EXCEPT ![a] = r]
  BY <1>1
<1> HIDE DEF r
<1>4. /\ areas' \in Seq(Areas) /\ Len(areas') = Len(areas)
      /\ DOMAIN areas' = DOMAIN areas
      /\ \A x \in DOMAIN areas : areas'[x] = IF x = a THEN r ELSE areas[x]
  BY <1>2, <1>3, AreaPut
<1> QED
  BY <1>2, <1>4

\* Freeing an area keeps its bits and its size.
LEMMA AreaFreed ==
  ASSUME TypeOK, NEW a \in DOMAIN areas, areas' = [areas EXCEPT ![a].live = FALSE]
  PROVE  /\ areas' \in Seq(Areas) /\ Len(areas') = Len(areas)
         /\ DOMAIN areas' = DOMAIN areas
         /\ \A x \in DOMAIN areas :
              /\ areas'[x].vol = areas[x].vol /\ areas'[x].half = areas[x].half
              /\ areas'[x].bits = areas[x].bits
<1>1. areas \in Seq(Areas) /\ areas[a] \in Areas
  BY Parts DEF TypeOK
<1> DEFINE r == [areas[a] EXCEPT !.live = FALSE]
<1>2. /\ r \in Areas /\ r.vol = areas[a].vol /\ r.half = areas[a].half
      /\ r.bits = areas[a].bits
  BY <1>1 DEF Areas
<1>3. areas' = [areas EXCEPT ![a] = r]
  BY <1>1
<1> HIDE DEF r
<1>4. /\ areas' \in Seq(Areas) /\ Len(areas') = Len(areas)
      /\ DOMAIN areas' = DOMAIN areas
      /\ \A x \in DOMAIN areas : areas'[x] = IF x = a THEN r ELSE areas[x]
  BY <1>2, <1>3, AreaPut
<1> QED
  BY <1>2, <1>4

\* Areas are made and never taken back, and what happened stays on record.
Grown ==
  /\ areas' \in Seq(Areas) /\ Len(areas) <= Len(areas') /\ Len(areas') \in Nat
  /\ \A a \in DOMAIN areas :
       /\ a \in DOMAIN areas' /\ areas'[a].vol = areas[a].vol
       /\ areas'[a].half = areas[a].half
  /\ hist' \in Hists /\ hist.events \subseteq hist'.events

\* Areas that stay as they are have grown, trivially.
LEMMA SameAreas ==
  ASSUME TypeOK, areas' = areas, hist' \in Hists, hist.events \subseteq hist'.events
  PROVE  Grown
BY Parts DEF Grown, TypeOK

\* A new area makes the areas grow by one.
LEMMA MappedGrows ==
  ASSUME TypeOK, NEW v, NEW live, Mapped(v, live), hist' \in Hists,
         hist.events \subseteq hist'.events
  PROVE  Grown /\ DOMAIN areas' = DOMAIN areas \cup {Len(areas) + 1}
<1>1. /\ areas' \in Seq(Areas) /\ Len(areas') = Len(areas) + 1
      /\ \A a \in DOMAIN areas : areas'[a] = areas[a]
  BY DEF Mapped
<1>2. Len(areas) \in Nat /\ DOMAIN areas = 1 .. Len(areas)
  BY Parts
<1>3. DOMAIN areas' = 1 .. Len(areas')
  BY <1>1
<1>4. DOMAIN areas' = DOMAIN areas \cup {Len(areas) + 1} /\ Len(areas) <= Len(areas')
      /\ Len(areas') \in Nat
  BY <1>1, <1>2, <1>3
<1> QED
  BY <1>1, <1>4 DEF Grown

\* What a write that marks does to the areas.
LEMMA SetsAreas ==
  ASSUME TypeOK, PlaceInv, NEW v \in Volumes, SetBits(v)
  PROVE  /\ Grown /\ DOMAIN areas' = DOMAIN areas
         /\ \A a \in DOMAIN areas :
              /\ areas'[a].live = areas[a].live
              /\ areas'[a].bits = IF a = wr[v].area THEN areas[a].bits \cup Landed(v)
                                                    ELSE areas[a].bits
<1>1. hist' \in Hists /\ hist'.events = hist.events
  BY Sets
<1>2. CASE wr[v].area = 0 /\ areas' = areas
  <2>1. 0 \notin DOMAIN areas
    BY Parts
  <2> QED
    BY <1>1, <1>2, <2>1, SameAreas
<1>3. CASE /\ wr[v].area # 0 /\ wr[v].area \in DOMAIN areas
           /\ areas' = [areas EXCEPT ![wr[v].area].bits = @ \cup Landed(v)]
  <2> DEFINE B == areas[wr[v].area].bits \cup Landed(v)
  <2>1. B \in BitSets
    BY <1>3, Parts, MarkTypes DEF Areas, BitSets
  <2>2. areas' = [areas EXCEPT ![wr[v].area].bits = B]
    BY <1>3, Parts
  <2> HIDE DEF B
  <2>3. /\ areas' \in Seq(Areas) /\ Len(areas') = Len(areas)
        /\ DOMAIN areas' = DOMAIN areas /\ areas'[wr[v].area].bits = B
        /\ \A x \in DOMAIN areas :
              /\ areas'[x].vol = areas[x].vol /\ areas'[x].half = areas[x].half
              /\ areas'[x].live = areas[x].live
              /\ x # wr[v].area => areas'[x].bits = areas[x].bits
    BY <1>3, <2>1, <2>2, AreaBits
  <2>4. Len(areas') \in Nat /\ Len(areas) <= Len(areas')
    BY <2>3, Parts
  <2> QED
    BY <1>1, <2>3, <2>4 DEF Grown, B
<1> QED
  BY <1>2, <1>3, Sets

\* What ATDRCTL_DEV_DESTROY does to the areas.
LEMMA DestroysAreas ==
  ASSUME TypeOK, PlaceInv, NEW v \in Volumes, DeviceDestroy(v)
  PROVE  /\ Grown /\ DOMAIN areas' = DOMAIN areas
         /\ \A a \in DOMAIN areas : areas'[a].bits = areas[a].bits
<1>1. /\ areas' \in Seq(Areas) /\ Len(areas') = Len(areas)
      /\ DOMAIN areas' = DOMAIN areas
      /\ \A x \in DOMAIN areas :
           /\ areas'[x].vol = areas[x].vol /\ areas'[x].half = areas[x].half
           /\ areas'[x].bits = areas[x].bits
  BY Destroys, AreaFreed
<1>2. Len(areas') \in Nat /\ Len(areas) <= Len(areas')
  BY <1>1, Parts
<1> QED
  BY <1>1, <1>2, Destroys DEF Grown

\* What the end of a round does to the areas.
LEMMA TerminatesAreas ==
  ASSUME TypeOK, PlaceInv, Terminate
  PROVE  /\ Grown /\ DOMAIN areas' = DOMAIN areas
         /\ \A a \in DOMAIN areas : areas'[a].live = areas[a].live
<1> DEFINE a == slots[1].area
           B == areas[a].bits \ Loaded
<1>1. /\ a \in DOMAIN areas /\ areas' = [areas EXCEPT ![a].bits = B]
      /\ hist' \in Hists /\ hist'.events = hist.events
  BY Terminates, Parts
<1>2. B \in BitSets
  BY <1>1, Parts DEF Areas, BitSets
<1> HIDE DEF a, B
<1>3. /\ areas' \in Seq(Areas) /\ Len(areas') = Len(areas)
      /\ DOMAIN areas' = DOMAIN areas
      /\ \A x \in DOMAIN areas :
           /\ areas'[x].vol = areas[x].vol /\ areas'[x].half = areas[x].half
           /\ areas'[x].live = areas[x].live
  BY <1>1, <1>2, AreaBits
<1>4. Len(areas') \in Nat /\ Len(areas) <= Len(areas')
  BY <1>3, Parts
<1> QED
  BY <1>1, <1>3, <1>4 DEF Grown

\* Every step only adds areas and events.
LEMMA AreasGrow == ASSUME TypeOK, PlaceInv, [Next]_vars PROVE Grown
<1>0. hist \in Hists
  BY DEF TypeOK, Hists
<1>1. ASSUME NEW v \in Volumes, WriteBegin(v) \/ SetBits(v) PROVE Grown
  <2>1. CASE WriteBegin(v)
    <3>1. areas' = areas /\ hist' \in Hists /\ hist'.events = hist.events
      BY <1>0, <2>1, Begins DEF Begun
    <3> QED
      BY <3>1, SameAreas
  <2> QED
    BY <1>1, <2>1, SetsAreas
<1>2. ASSUME NEW v \in Volumes, RemoveDevice(v) \/ DeviceDestroy(v) PROVE Grown
  BY <1>2, Removes, SameAreas, DestroysAreas
<1>3. ASSUME NEW v \in Volumes, NEW s \in Sizes, CreateParse(v, s) PROVE Grown
  BY <1>3, Parses, SameAreas DEF kernelVars
<1>4. CASE CreateIoctl
  BY <1>0, <1>4, Requests, SameAreas
<1>5. CASE CreateMap \/ CreateMapFails
  <2>1. Recall({"mapfail"}) => hist' \in Hists /\ hist.events \subseteq hist'.events
    <3>1. {"mapfail"} \in SUBSET Events
      BY DEF Events
    <3> QED
      BY <3>1, Recalled
  <2> QED
    BY <1>0, <1>5, <2>1, CreateMaps, MappedGrows
<1>6. CASE CreateRemap \/ CreateRemapFails
  BY <1>0, <1>6, CreateRemaps, SameAreas
<1>7. CASE DiskSourceCreate \/ GetUser \/ UNCHANGED vars
  BY <1>0, <1>7, DiskSources, Asks, SameAreas DEF kernelVars, vars
<1>8. CASE LoadStart
  <2>1. areas' = areas
    BY <1>8, Starts DEF kernelVars
  <2>2. hist' \in Hists /\ hist.events \subseteq hist'.events
    <3>1. (IF ct.pc # "idle" THEN {"overlap"} ELSE {}) \in SUBSET Events
      BY DEF Events
    <3> QED
      BY <1>0, <1>8, <3>1, Starts, Recalled
  <2> QED
    BY <2>1, <2>2, SameAreas
<1>9. CASE CopyHalf
  BY <1>0, <1>9, CopiesHalf, SameAreas DEF kernelVars
<1>10. CASE Flip
  BY <1>10, FlipsHalf, SameAreas
<1>11. CASE Recopy
  <2>1. {"unflipped"} \in SUBSET Events
    BY DEF Events
  <2> QED
    BY <1>11, <2>1, Recopies, Recalled, SameAreas DEF kernelVars
<1>12. CASE Reconnect \/ Crash \/ Restart
  <2>1. areas' = areas /\ hist' = hist
    BY <1>12 DEF Reconnect, Crash, Restart, kernelVars
  <2> QED
    BY <1>0, <2>1, SameAreas
<1>13. CASE Terminate
  BY <1>13, TerminatesAreas
<1> QED
  BY <1>1, <1>2, <1>3, <1>4, <1>5, <1>6, <1>7, <1>8, <1>9, <1>10, <1>11, <1>12, <1>13,
     Actions

-----------------------------------------------------------------------------
(* PlaceInv.                                                               *)

\* What a step leaves of the daemon: everything, or nothing.
LEMMA PlaceStep == ASSUME TypeOK, PlaceInv, [Next]_vars PROVE PlaceInv'
<1> DEFINE VolPlace == \A v \in Volumes : vols'[v].area <= Len(areas')
           WrPlace == \A v \in Volumes : wr'[v].area <= Len(areas')
           SlotPlace == \A i \in DOMAIN slots' : slots'[i].area <= Len(areas')
           Rest == /\ ct'.area <= Len(areas')
                   /\ ct'.pc # "idle" \/ Loading' => ioctl'.disk \in Volumes
                   /\ ct'.pc \notin {"idle", "parsed"} => ct'.vol \in Volumes
                   /\ ld'.pc # "idle" => slots' # <<>>
                   /\ ld'.pc \in {"flip", "recopy", "sent"} => slots'[1].area # 0
<1>1. VolPlace /\ WrPlace /\ SlotPlace /\ Rest => PlaceInv'
  BY DEF PlaceInv
<1>2. /\ Len(areas) \in Nat /\ Len(areas') \in Nat /\ Len(areas) <= Len(areas')
      /\ 0 <= Len(areas') /\ ct.area \in Nat
  BY AreasGrow, Parts DEF Grown, TypeOK, Creates
<1>3. \A v \in Volumes : vols[v].area \in Nat /\ wr[v].area \in Nat
  BY Parts DEF VolInfos, Writes
<1>4. \A i \in DOMAIN slots : slots[i].area \in Nat
  BY Parts DEF Disks
<1>5. \A v \in Volumes : vols[v].area <= Len(areas') /\ wr[v].area <= Len(areas')
  BY <1>2, <1>3 DEF PlaceInv
<1>6. \A i \in DOMAIN slots : slots[i].area <= Len(areas')
  BY <1>2, <1>4 DEF PlaceInv
<1>7. ct.area <= Len(areas')
  BY <1>2 DEF PlaceInv
<1>8. UNCHANGED vols => VolPlace
  BY <1>5
<1>9. UNCHANGED wr => WrPlace
  BY <1>5
<1>10. UNCHANGED slots => SlotPlace
  BY <1>6
<1>11. UNCHANGED <<ioctl, slots, ct, ld>> => Rest
  BY <1>7 DEF PlaceInv, Loading
<1>12. Exit => SlotPlace /\ Rest
  BY <1>2, Gone DEF Loading
<1>13. ASSUME NEW v \in Volumes, WriteBegin(v) \/ SetBits(v) PROVE PlaceInv'
  <2>1. WrPlace
    <3>1. CASE WriteBegin(v)
      <4>1. CASE wr' = wr
        BY <1>9, <4>1
      <4>2. ASSUME NEW w \in Writes, Begun(v, w) PROVE WrPlace
        BY <1>5, <4>2 DEF Begun, TypeOK
      <4> QED
        BY <3>1, <4>1, <4>2, Begins
    <3>2. CASE SetBits(v)
      <4>1. WrIdle.area = 0
        BY DEF WrIdle
      <4> QED
        BY <1>2, <1>5, <3>2, <4>1, Sets DEF TypeOK
    <3> QED
      BY <1>13, <3>1, <3>2
  <2>2. UNCHANGED <<vols, daemonVars>>
    BY <1>13, Begins, Sets
  <2> QED
    BY <1>1, <1>8, <1>10, <1>11, <2>1, <2>2 DEF daemonVars
<1>14. ASSUME NEW v \in Volumes, RemoveDevice(v) \/ DeviceDestroy(v) PROVE PlaceInv'
  <2>1. VolPlace
    <3>1. CASE RemoveDevice(v)
      BY <1>2, <1>5, <3>1, Removes, AddedType
    <3> QED
      BY <1>8, <1>14, <3>1, Destroys
  <2>2. UNCHANGED <<wr, daemonVars>>
    BY <1>14, Removes, Destroys
  <2> QED
    BY <1>1, <1>9, <1>10, <1>11, <2>1, <2>2 DEF daemonVars
<1>15. ASSUME NEW v \in Volumes, NEW s \in Sizes, CreateParse(v, s) PROVE PlaceInv'
  <2>1. /\ UNCHANGED <<kernelVars, slots, ld>> /\ ioctl'.disk = v
        /\ ct'.pc = "parsed" /\ ct'.area = 0
    BY <1>15, Parses
  <2>2. Rest
    BY <1>2, <2>1 DEF PlaceInv
  <2> QED
    BY <1>1, <1>8, <1>9, <1>10, <2>1, <2>2 DEF kernelVars
<1>16. CASE CreateIoctl
  <2>1. /\ UNCHANGED <<areas, wr, ioctl, slots, ld>> /\ ct.pc \in {"parsed", "retry"}
        /\ ct'.vol \in Volumes /\ ct'.area = ct.area
        /\ \A u \in Volumes : vols'[u].area = vols[u].area
    BY <1>16, Requests
  <2>2. Rest
    BY <1>7, <2>1 DEF PlaceInv
  <2>3. VolPlace
    BY <1>5, <2>1
  <2> QED
    BY <1>1, <1>9, <1>10, <2>1, <2>2, <2>3
<1>17. CASE CreateMap \/ CreateMapFails
  <2>1. /\ UNCHANGED <<wr, ioctl, slots, ld>> /\ ct.pc = "map" /\ ct.vol \in Volumes
        /\ ct'.vol = ct.vol /\ ct'.area \in {ct.area, Len(areas) + 1}
        /\ Len(areas') = Len(areas) + 1
        /\ \A u \in Volumes : vols'[u].area \in {vols[u].area, Len(areas) + 1}
    BY <1>17, CreateMaps DEF Mapped
  <2>2. Len(areas) + 1 <= Len(areas')
    BY <1>2, <2>1
  <2>3. Rest
    BY <1>7, <2>1, <2>2 DEF PlaceInv, Loading
  <2>4. VolPlace
    BY <1>5, <2>1, <2>2
  <2> QED
    BY <1>1, <1>9, <1>10, <2>1, <2>3, <2>4
<1>18. CASE CreateRemap \/ CreateRemapFails
  <2>1. /\ UNCHANGED <<wr, ioctl, slots, ld>> /\ ct.pc = "remap" /\ ct.vol \in Volumes
        /\ ct'.vol = ct.vol /\ ct'.area \in {0, vols[ct.vol].area}
        /\ \A u \in Volumes : vols'[u].area = vols[u].area
    BY <1>18, CreateRemaps
  <2>2. Rest
    BY <1>2, <1>5, <2>1 DEF PlaceInv, Loading
  <2>3. VolPlace
    BY <1>5, <2>1
  <2> QED
    BY <1>1, <1>9, <1>10, <2>1, <2>2, <2>3
<1>19. CASE DiskSourceCreate
  <2>1. /\ UNCHANGED <<kernelVars, ioctl, ld>> /\ ct'.pc = "idle" /\ ct'.area = 0
        /\ slots' \in Seq(Disks) /\ Len(slots') = Len(slots) + 1
        /\ \A i \in DOMAIN slots : slots'[i] = slots[i]
        /\ slots'[Len(slots) + 1].area = ct.area
    BY <1>19, DiskSources
  <2>2. /\ Len(slots) \in Nat /\ DOMAIN slots = 1 .. Len(slots)
        /\ DOMAIN slots' = 1 .. Len(slots')
    BY <2>1, Parts
  <2>3. \A i \in DOMAIN slots' : i \in DOMAIN slots \/ i = Len(slots) + 1
    BY <2>1, <2>2
  <2>4. SlotPlace
    BY <1>6, <1>7, <2>1, <2>3
  <2>5. slots' # <<>>
    <3>1. Len(slots') # 0
      BY <2>1, <2>2
    <3> QED
      BY <3>1, EmptySeq
  <2>6. slots # <<>> => slots'[1] = slots[1]
    BY <2>1, FirstSlot
  <2>7. Rest
    BY <1>2, <2>1, <2>5, <2>6 DEF PlaceInv, Loading
  <2> QED
    BY <1>1, <1>8, <1>9, <2>1, <2>4, <2>7 DEF kernelVars
<1>20. CASE LoadStart
  <2>1. CASE Exit
    BY <1>1, <1>8, <1>9, <1>12, <1>20, <2>1, Starts DEF kernelVars
  <2>2. CASE ~Exit
    <3>1. /\ UNCHANGED <<kernelVars, slots, ct>> /\ slots # <<>>
          /\ ioctl'.disk = slots[1].vol /\ ld'.pc = "getuser"
      BY <1>20, <2>2, Starts
    <3>2. slots[1].vol \in Volumes
      BY <3>1, FirstSlot
    <3>3. Rest
      BY <1>7, <3>1, <3>2 DEF PlaceInv
    <3> QED
      BY <1>1, <1>8, <1>9, <1>10, <3>1, <3>3 DEF kernelVars
  <2> QED
    BY <2>1, <2>2
<1>21. CASE GetUser
  <2>1. /\ UNCHANGED <<kernelVars, ioctl, slots, ct>> /\ ld.pc = "getuser" /\ ld'.pc = "copy"
    BY <1>21, Asks
  <2>2. Rest
    BY <1>7, <2>1 DEF PlaceInv, Loading
  <2> QED
    BY <1>1, <1>8, <1>9, <1>10, <2>1, <2>2 DEF kernelVars
<1>22. CASE CopyHalf
  <2>1. CASE Exit
    BY <1>1, <1>8, <1>9, <1>12, <1>22, <2>1, CopiesHalf DEF kernelVars
  <2>2. CASE ~Exit
    <3>1. /\ UNCHANGED <<kernelVars, ioctl, slots, ct>> /\ ld.pc = "copy"
          /\ ld'.pc \in {"flip", "recopy"} /\ slots # <<>> /\ slots[1].area # 0
      BY <1>22, <2>2, CopiesHalf
    <3>2. Rest
      BY <1>7, <3>1 DEF PlaceInv, Loading
    <3> QED
      BY <1>1, <1>8, <1>9, <1>10, <3>1, <3>2 DEF kernelVars
  <2> QED
    BY <2>1, <2>2
<1>23. CASE Flip
  <2>1. /\ UNCHANGED <<areas, wr, ioctl, slots, ct>> /\ ld.pc = "flip" /\ ld'.pc = "sent"
        /\ ioctl.disk \in Volumes /\ FlipArea(ioctl.disk)
    BY <1>23, FlipsHalf
  <2>2. \A u \in Volumes : vols'[u].area = vols[u].area
    BY <2>1, Flips
  <2>3. Rest
    BY <1>7, <2>1 DEF PlaceInv, Loading
  <2> QED
    BY <1>1, <1>5, <1>9, <1>10, <2>1, <2>2, <2>3
<1>24. CASE Recopy
  <2>1. /\ UNCHANGED <<kernelVars, ioctl, slots, ct>> /\ ld.pc = "recopy" /\ ld'.pc = "sent"
    BY <1>24, Recopies
  <2>2. Rest
    BY <1>7, <2>1 DEF PlaceInv, Loading
  <2> QED
    BY <1>1, <1>8, <1>9, <1>10, <2>1, <2>2 DEF kernelVars
<1>25. CASE Terminate
  <2>1. UNCHANGED <<vols, wr, ioctl, slots, ct>> /\ ld' = LdIdle
    BY <1>25, Terminates
  <2>2. ld'.pc = "idle"
    BY <2>1 DEF LdIdle
  <2>3. Rest
    BY <1>7, <2>1, <2>2 DEF PlaceInv, Loading
  <2> QED
    BY <1>1, <1>8, <1>9, <1>10, <2>1, <2>3
<1>26. CASE Crash
  BY <1>1, <1>8, <1>9, <1>12, <1>26 DEF Crash, kernelVars
<1>27. CASE Reconnect \/ Restart \/ UNCHANGED vars
  BY <1>1, <1>8, <1>9, <1>10, <1>11, <1>27 DEF Reconnect, Restart, vars, kernelVars
<1> QED
  BY <1>13, <1>14, <1>15, <1>16, <1>17, <1>18, <1>19, <1>20, <1>21, <1>22, <1>23, <1>24,
     <1>25, <1>26, <1>27, Actions

-----------------------------------------------------------------------------
(* TypeOK.                                                                 *)

\* A step keeps the types.
LEMMA TypeStep == ASSUME TypeOK, PlaceInv, [Next]_vars PROVE TypeOK'
<1> DEFINE V == vols' \in [Volumes -> VolInfos]
           W == wr' \in [Volumes -> Writes]
           D == daemon' \in {"up", "dead"}
           I == ioctl' \in Ioctls
           S == slots' \in Seq(Disks)
           C == ct' \in Creates
           L == ld' \in Loads
           R == recovery' \in BOOLEAN
           Q == resume' \in BOOLEAN
           N == count' \in Counts
<1>1. areas' \in Seq(Areas) /\ hist' \in Hists
  BY AreasGrow DEF Grown
<1>2. V /\ W /\ D /\ I /\ S /\ C /\ L /\ R /\ Q /\ N => TypeOK'
  BY <1>1 DEF TypeOK, Hists, Ioctls, Counts
<1>3. /\ UNCHANGED vols => V
      /\ UNCHANGED wr => W
      /\ UNCHANGED daemon => D
      /\ UNCHANGED ioctl => I
      /\ UNCHANGED slots => S
      /\ UNCHANGED ct => C
      /\ UNCHANGED ld => L
      /\ UNCHANGED recovery => R
      /\ UNCHANGED resume => Q
      /\ UNCHANGED count => N
  BY DEF TypeOK, Ioctls, Counts
<1>4. Exit => D /\ I /\ S /\ C /\ L /\ Q
  BY Gone DEF Ioctls
<1> HIDE DEF V, W, D, I, S, C, L, R, Q, N
<1>5. UNCHANGED kernelVars => V /\ W
  BY <1>3 DEF kernelVars
<1>6. UNCHANGED daemonVars => D /\ I /\ S /\ C /\ L /\ R /\ Q
  BY <1>3 DEF daemonVars
<1>7. ASSUME NEW v \in Volumes, WriteBegin(v) \/ SetBits(v) PROVE TypeOK'
  <2>1. W /\ N /\ UNCHANGED <<vols, daemonVars>>
    <3>1. CASE WriteBegin(v)
      <4>1. N /\ UNCHANGED <<vols, daemonVars>>
        BY <3>1, Begins DEF N, Counts
      <4>2. CASE wr' = wr
        BY <1>3, <4>1, <4>2
      <4>3. ASSUME NEW w \in Writes, wr' = [wr EXCEPT ![v] = w] PROVE W
        BY <4>3 DEF W, TypeOK
      <4> QED
        BY <3>1, <4>1, <4>2, <4>3, Begins DEF Begun
    <3>2. CASE SetBits(v)
      <4>1. /\ UNCHANGED <<vols, daemonVars, count>> /\ WrIdle \in Writes
            /\ wr' = [wr EXCEPT ![v] = WrIdle]
        BY <3>2, Sets
      <4>2. W
        BY <4>1 DEF W, TypeOK
      <4> QED
        BY <1>3, <4>1, <4>2
    <3> QED
      BY <1>7, <3>1, <3>2
  <2> QED
    BY <1>2, <1>3, <1>6, <2>1
<1>8. ASSUME NEW v \in Volumes, RemoveDevice(v) \/ DeviceDestroy(v) PROVE TypeOK'
  <2>1. CASE RemoveDevice(v)
    <3>1. V /\ N /\ UNCHANGED <<wr, daemonVars>>
      BY <2>1, Removes DEF V, N
    <3> QED
      BY <1>2, <1>3, <1>6, <3>1
  <2>2. CASE DeviceDestroy(v)
    <3>1. N /\ UNCHANGED <<vols, wr, daemonVars>>
      BY <2>2, Destroys DEF N
    <3> QED
      BY <1>2, <1>3, <1>6, <3>1
  <2> QED
    BY <1>8, <2>1, <2>2
<1>9. ASSUME NEW v \in Volumes, NEW s \in Sizes, CreateParse(v, s) PROVE TypeOK'
  <2>1. N /\ I /\ C /\ UNCHANGED <<kernelVars, daemon, slots, ld, recovery, resume>>
    BY <1>9, Parses DEF N, I, C
  <2> QED
    BY <1>2, <1>3, <1>5, <2>1
<1>10. CASE CreateIoctl
  <2>1. V /\ C /\ UNCHANGED <<wr, daemon, ioctl, slots, ld, recovery, resume, count>>
    BY <1>10, Requests DEF V, C
  <2> QED
    BY <1>2, <1>3, <2>1
<1>11. CASE CreateMap \/ CreateMapFails
  <2>1. N /\ V /\ C /\ UNCHANGED <<wr, daemon, ioctl, slots, ld, recovery, resume>>
    BY <1>11, CreateMaps DEF N, V, C, Mapped
  <2> QED
    BY <1>2, <1>3, <2>1
<1>12. CASE CreateRemap \/ CreateRemapFails
  <2>1. N /\ V /\ C /\ UNCHANGED <<wr, daemon, ioctl, slots, ld, recovery, resume>>
    BY <1>12, CreateRemaps DEF N, V, C
  <2> QED
    BY <1>2, <1>3, <2>1
<1>13. CASE DiskSourceCreate
  <2>1. S /\ C /\ UNCHANGED <<kernelVars, daemon, ioctl, ld, recovery, resume, count>>
    BY <1>13, DiskSources DEF S, C
  <2> QED
    BY <1>2, <1>3, <1>5, <2>1
<1>14. CASE LoadStart
  <2>1. N /\ UNCHANGED <<kernelVars, recovery>>
    BY <1>14, Starts DEF N, Counts
  <2>2. CASE ~Exit
    <3>1. I /\ L /\ UNCHANGED <<daemon, slots, ct, resume>>
      BY <1>14, <2>2, Starts DEF I, L, Ioctls
    <3> QED
      BY <1>2, <1>3, <1>5, <2>1, <3>1
  <2> QED
    BY <1>2, <1>3, <1>4, <1>5, <2>1, <2>2
<1>15. CASE GetUser
  <2>1. L /\ UNCHANGED <<kernelVars, daemon, ioctl, slots, ct, recovery, resume, count>>
    BY <1>15, Asks DEF L
  <2> QED
    BY <1>2, <1>3, <1>5, <2>1
<1>16. CASE CopyHalf
  <2>1. UNCHANGED <<kernelVars, recovery, count>>
    BY <1>16, CopiesHalf
  <2>2. CASE ~Exit
    <3>1. L /\ UNCHANGED <<daemon, ioctl, slots, ct, resume>>
      BY <1>16, <2>2, CopiesHalf DEF L
    <3> QED
      BY <1>2, <1>3, <1>5, <2>1, <3>1
  <2> QED
    BY <1>2, <1>3, <1>4, <1>5, <2>1, <2>2
<1>17. CASE Flip
  <2>1. /\ L /\ UNCHANGED <<wr, daemon, ioctl, slots, ct, recovery, resume, count>>
        /\ ioctl.disk \in Volumes /\ FlipArea(ioctl.disk)
    BY <1>17, FlipsHalf DEF L
  <2>2. V
    BY <2>1, Flips DEF V
  <2> QED
    BY <1>2, <1>3, <2>1, <2>2
<1>18. CASE Recopy
  <2>1. L /\ Q /\ UNCHANGED <<kernelVars, daemon, ioctl, slots, ct, recovery, count>>
    BY <1>18, Recopies DEF L, Q
  <2> QED
    BY <1>2, <1>3, <1>5, <2>1
<1>19. CASE Reconnect
  <2>1. N /\ Q /\ UNCHANGED <<kernelVars, daemon, ioctl, slots, ct, ld, recovery>>
    BY <1>19, Counted DEF Reconnect, N, Q, Counts
  <2> QED
    BY <1>2, <1>3, <1>5, <2>1
<1>20. CASE Terminate
  <2>1. /\ UNCHANGED <<vols, wr, daemon, ioctl, slots, ct, resume, count>>
        /\ recovery' = FALSE /\ ld' = LdIdle
    BY <1>20, Terminates
  <2>2. L
    BY <2>1 DEF L, LdIdle, Loads, BitSets, Users
  <2>3. R
    BY <2>1 DEF R
  <2> QED
    BY <1>2, <1>3, <2>1, <2>2, <2>3
<1>21. CASE Crash
  <2>1. N /\ Exit /\ UNCHANGED <<kernelVars, recovery>>
    BY <1>21, Counted DEF Crash, N, Counts
  <2> QED
    BY <1>2, <1>3, <1>4, <1>5, <2>1
<1>22. CASE Restart
  <2>1. D /\ R /\ UNCHANGED <<kernelVars, ioctl, slots, ct, ld, resume, count>>
    BY <1>22 DEF Restart, D, R
  <2> QED
    BY <1>2, <1>3, <1>5, <2>1
<1>23. CASE UNCHANGED vars
  BY <1>2, <1>3, <1>23 DEF vars
<1> QED
  BY <1>7, <1>8, <1>9, <1>10, <1>11, <1>12, <1>13, <1>14, <1>15, <1>16, <1>17, <1>18,
     <1>19, <1>20, <1>21, <1>22, <1>23, Actions

-----------------------------------------------------------------------------
(* LiveInv and OwnInv.                                                     *)

\* What happened stays on record.
LEMMA Remembered ==
  ASSUME TypeOK, PlaceInv, [Next]_vars, NEW E, Happened(E)
  PROVE  Happened(E)'
<1>1. hist.events \subseteq hist'.events
  BY AreasGrow DEF Grown
<1>2. PICK e \in hist.events : e \in E
  BY DEF Happened
<1>3. e \in hist'.events \cap E
  BY <1>1, <1>2
<1> QED
  BY <1>3 DEF Happened

\* A step frees an area only when a mapping fails or the device is destroyed.
LEMMA LiveStep == ASSUME TypeOK, PlaceInv, LiveInv, [Next]_vars PROVE LiveInv'
<1> DEFINE E == {"mapfail", "destroyed"}
           Same == \A a \in DOMAIN areas' : a \in DOMAIN areas /\ areas'[a].live = areas[a].live
<1>1. Happened(E) => Happened(E)'
  BY Remembered
<1>2. Happened(E)' => LiveInv'
  BY DEF LiveInv
<1>3. Same => LiveInv'
  BY <1>1 DEF LiveInv
<1>4. UNCHANGED areas => LiveInv'
  BY <1>3
<1>5. ASSUME NEW v \in Volumes, SetBits(v) PROVE LiveInv'
  BY <1>3, <1>5, SetsAreas
<1>6. ASSUME NEW v \in Volumes, DeviceDestroy(v) PROVE LiveInv'
  <2>1. hist'.events = hist.events \cup {"destroyed"}
    BY <1>6, Destroys
  <2> QED
    BY <1>2, <2>1 DEF Happened
<1>7. CASE CreateMap \/ CreateMapFails
  <2>1. CASE Mapped(ct.vol, TRUE) /\ hist' = hist
    <3>1. DOMAIN areas' = DOMAIN areas \cup {Len(areas) + 1}
      BY <2>1, MappedGrows DEF TypeOK, Hists
    <3>2. areas'[Len(areas) + 1].live /\ \A a \in DOMAIN areas : areas'[a] = areas[a]
      BY <2>1 DEF Mapped
    <3> QED
      BY <1>1, <3>1, <3>2 DEF LiveInv
  <2>2. CASE Recall({"mapfail"})
    <3>1. hist'.events = hist.events \cup {"mapfail"}
      BY <2>2, Recalled DEF Events
    <3> QED
      BY <1>2, <3>1 DEF Happened
  <2> QED
    BY <1>7, <2>1, <2>2, CreateMaps
<1>8. CASE Terminate
  BY <1>3, <1>8, TerminatesAreas
<1>9. ASSUME NEW v \in Volumes, WriteBegin(v) \/ RemoveDevice(v) PROVE UNCHANGED areas
  BY <1>9, Begins, Removes
<1>10. ASSUME NEW v \in Volumes, NEW s \in Sizes, CreateParse(v, s) PROVE UNCHANGED areas
  BY <1>10 DEF CreateParse, kernelVars
<1>11. CreateIoctl \/ (CreateRemap \/ CreateRemapFails) \/ DiskSourceCreate =>
         UNCHANGED areas
  BY DEF CreateIoctl, CreateRemap, CreateRemapFails, DiskSourceCreate, kernelVars
<1>12. LoadStart \/ GetUser \/ CopyHalf \/ Flip \/ Recopy => UNCHANGED areas
  BY DEF LoadStart, GetUser, CopyHalf, Flip, Recopy, kernelVars
<1>13. Reconnect \/ Crash \/ Restart \/ UNCHANGED vars => UNCHANGED areas
  BY DEF Reconnect, Crash, Restart, vars, kernelVars
<1> QED
  BY <1>4, <1>5, <1>6, <1>7, <1>8, <1>9, <1>10, <1>11, <1>12, <1>13, Actions

\* A step hands on only areas of the volume they were made for.
LEMMA OwnStep == ASSUME TypeOK, PlaceInv, OwnInv, [Next]_vars PROVE OwnInv'
<1> DEFINE Over == "overlap" \in hist'.events
           VolOwn == \A v \in Volumes : vols'[v].area # 0 => areas'[vols'[v].area].vol = v
           CtOwn == ct'.pc = "made" /\ ct'.area # 0 => areas'[ct'.area].vol = ct'.vol
           CtDisk == ct'.pc \notin {"idle", "parsed"} => ct'.vol = ioctl'.disk \/ Over
           SlotOwn == \A i \in DOMAIN slots' : slots'[i].area # 0 =>
                        areas'[slots'[i].area].vol = slots'[i].vol \/ Over
<1>1. VolOwn /\ CtOwn /\ CtDisk /\ SlotOwn => OwnInv'
  <2>1. Over => Happened({"overlap"})'
    BY DEF Happened
  <2> QED
    BY <2>1 DEF OwnInv
<1>2. Happened({"overlap"}) => Over
  BY Remembered DEF Happened
<1>3. \A a \in Nat : a # 0 /\ a <= Len(areas) => areas'[a].vol = areas[a].vol
  BY AreasGrow, AreaNumber DEF Grown
<1>4. \A v \in Volumes : /\ vols[v].area \in Nat /\ vols[v].area <= Len(areas)
                         /\ vols[v].area # 0 => areas'[vols[v].area].vol = v
  <2> SUFFICES ASSUME NEW v \in Volumes
               PROVE  /\ vols[v].area \in Nat /\ vols[v].area <= Len(areas)
                      /\ vols[v].area # 0 => areas'[vols[v].area].vol = v
    OBVIOUS
  <2>1. vols[v].area \in Nat
    BY Parts DEF VolInfos
  <2> QED
    BY <1>3, <2>1 DEF PlaceInv, OwnInv
<1>5. \A i \in DOMAIN slots :
        slots[i].area # 0 => areas'[slots[i].area].vol = slots[i].vol \/ Over
  <2> SUFFICES ASSUME NEW i \in DOMAIN slots, slots[i].area # 0
               PROVE  areas'[slots[i].area].vol = slots[i].vol \/ Over
    OBVIOUS
  <2>1. slots[i].area \in Nat
    BY Parts DEF Disks
  <2> QED
    BY <1>2, <1>3, <2>1 DEF PlaceInv, OwnInv
<1>6. ct.area # 0 => ct.area \in Nat /\ areas'[ct.area].vol = areas[ct.area].vol
  BY <1>3 DEF PlaceInv, TypeOK, Creates
<1>7. (\A u \in Volumes : vols'[u].area \in {0, vols[u].area}) => VolOwn
  BY <1>4
<1>8. UNCHANGED ct => CtOwn
  BY <1>6 DEF OwnInv
<1>9. UNCHANGED <<ct, ioctl>> => CtDisk
  BY <1>2 DEF OwnInv
<1>10. UNCHANGED slots => SlotOwn
  BY <1>5
<1>11. Exit => CtOwn /\ CtDisk /\ SlotOwn
  BY Gone
<1>12. UNCHANGED vols => VolOwn
  BY <1>7
<1> HIDE DEF VolOwn, CtOwn, CtDisk, SlotOwn, Over
<1>13. ASSUME NEW v \in Volumes, WriteBegin(v) \/ SetBits(v) \/ DeviceDestroy(v)
       PROVE OwnInv'
  <2>1. UNCHANGED <<vols, ioctl, slots, ct>>
    BY <1>13, Begins, Sets, Destroys DEF daemonVars
  <2> QED
    BY <1>1, <1>8, <1>9, <1>10, <1>12, <2>1
<1>14. ASSUME NEW v \in Volumes, RemoveDevice(v) PROVE OwnInv'
  <2>1. /\ UNCHANGED <<ioctl, slots, ct>> /\ vols'[v] = Added
        /\ \A u \in Volumes : u # v => vols'[u] = vols[u]
    BY <1>14, Removes DEF daemonVars
  <2>2. \A u \in Volumes : vols'[u].area \in {0, vols[u].area}
    BY <2>1, AddedType
  <2> QED
    BY <1>1, <1>7, <1>8, <1>9, <1>10, <2>1, <2>2
<1>15. ASSUME NEW v \in Volumes, NEW s \in Sizes, CreateParse(v, s) PROVE OwnInv'
  <2>1. UNCHANGED <<vols, slots>> /\ ct'.pc = "parsed"
    BY <1>15, Parses DEF kernelVars
  <2>2. CtOwn /\ CtDisk
    BY <2>1 DEF CtOwn, CtDisk
  <2> QED
    BY <1>1, <1>10, <1>12, <2>1, <2>2
<1>16. CASE CreateIoctl
  <2>1. /\ UNCHANGED <<ioctl, slots>> /\ ct.pc \in {"parsed", "retry"}
        /\ ct'.vol = (IF ct.pc = "parsed" THEN ioctl.disk ELSE ct.vol)
        /\ ct'.pc \in {"map", "remap"}
        /\ \A u \in Volumes : vols'[u].area = vols[u].area
    BY <1>16, Requests
  <2>2. CtOwn
    BY <2>1 DEF CtOwn
  <2>3. CtDisk
    BY <1>2, <2>1 DEF CtDisk, OwnInv
  <2> QED
    BY <1>1, <1>7, <1>10, <2>1, <2>2, <2>3
<1>17. CASE CreateMap \/ CreateMapFails
  <2>1. /\ UNCHANGED <<ioctl, slots>> /\ ct.pc = "map" /\ ct'.vol = ct.vol
        /\ ct'.pc = "made" => ct'.area = Len(areas) + 1
        /\ areas'[Len(areas) + 1].vol = ct.vol
        /\ \A u \in Volumes : u # ct.vol => vols'[u] = vols[u]
        /\ vols'[ct.vol].area = Len(areas) + 1
    BY <1>17, CreateMaps DEF Mapped
  <2>2. CtOwn
    BY <2>1 DEF CtOwn
  <2>3. CtDisk
    BY <1>2, <2>1 DEF CtDisk, OwnInv
  <2>4. VolOwn
    BY <1>4, <2>1 DEF VolOwn
  <2> QED
    BY <1>1, <1>10, <2>1, <2>2, <2>3, <2>4
<1>18. CASE CreateRemap \/ CreateRemapFails
  <2>1. /\ UNCHANGED <<ioctl, slots>> /\ ct.pc = "remap" /\ ct'.vol = ct.vol
        /\ ct.vol \in Volumes /\ ct'.area \in {0, vols[ct.vol].area}
        /\ \A u \in Volumes : vols'[u].area = vols[u].area
    BY <1>18, CreateRemaps
  <2>2. CtOwn
    BY <1>4, <2>1 DEF CtOwn
  <2>3. CtDisk
    BY <1>2, <2>1 DEF CtDisk, OwnInv
  <2> QED
    BY <1>1, <1>7, <1>10, <2>1, <2>2, <2>3
<1>19. CASE DiskSourceCreate
  <2>1. /\ UNCHANGED <<vols, ioctl>> /\ ct.pc = "made" /\ ct'.pc = "idle"
        /\ slots' \in Seq(Disks) /\ Len(slots') = Len(slots) + 1
        /\ \A i \in DOMAIN slots : slots'[i] = slots[i]
        /\ slots'[Len(slots) + 1].area = ct.area
        /\ slots'[Len(slots) + 1].vol = ioctl.disk
    BY <1>19, DiskSources DEF kernelVars
  <2>2. /\ Len(slots) \in Nat /\ DOMAIN slots = 1 .. Len(slots)
        /\ DOMAIN slots' = 1 .. Len(slots')
    BY <2>1, Parts
  <2>3. \A i \in DOMAIN slots' : i \in DOMAIN slots \/ i = Len(slots) + 1
    BY <2>1, <2>2
  <2>4. ct.area # 0 => areas'[ct.area].vol = ioctl.disk \/ Over
    BY <1>2, <1>6, <2>1 DEF OwnInv
  <2>5. SlotOwn
    BY <1>5, <2>1, <2>3, <2>4 DEF SlotOwn
  <2>6. CtOwn /\ CtDisk
    BY <2>1 DEF CtOwn, CtDisk
  <2> QED
    BY <1>1, <1>12, <2>1, <2>5, <2>6
<1>20. CASE LoadStart
  <2>1. UNCHANGED vols
    BY <1>20, Starts DEF kernelVars
  <2>2. CASE ~Exit
    <3>1. /\ UNCHANGED <<slots, ct>>
          /\ Recall(IF ct.pc # "idle" THEN {"overlap"} ELSE {})
      BY <1>20, <2>2, Starts
    <3>2. ct.pc # "idle" => Over
      <4>1. CASE ct.pc # "idle"
        BY <3>1, <4>1, Recalled DEF Events, Over
      <4> QED
        BY <4>1
    <3>3. CtDisk
      BY <3>1, <3>2 DEF CtDisk
    <3> QED
      BY <1>1, <1>8, <1>10, <1>12, <2>1, <3>1, <3>3
  <2> QED
    BY <1>1, <1>11, <1>12, <2>1, <2>2
<1>21. CASE CopyHalf
  <2>1. UNCHANGED vols
    BY <1>21, CopiesHalf DEF kernelVars
  <2>2. CASE ~Exit
    <3>1. UNCHANGED <<ioctl, slots, ct>>
      BY <1>21, <2>2, CopiesHalf
    <3> QED
      BY <1>1, <1>8, <1>9, <1>10, <1>12, <2>1, <3>1
  <2> QED
    BY <1>1, <1>11, <1>12, <2>1, <2>2
<1>22. CASE Flip
  <2>1. UNCHANGED <<ioctl, slots, ct>> /\ ioctl.disk \in Volumes /\ FlipArea(ioctl.disk)
    BY <1>22, FlipsHalf
  <2>2. \A u \in Volumes : vols'[u].area = vols[u].area
    BY <2>1, Flips
  <2> QED
    BY <1>1, <1>7, <1>8, <1>9, <1>10, <2>1, <2>2
<1>23. CASE GetUser \/ Recopy \/ Reconnect \/ Terminate \/ Restart \/ UNCHANGED vars
  <2>1. UNCHANGED <<vols, ioctl, slots, ct>>
    BY <1>23 DEF GetUser, Recopy, Reconnect, Terminate, Restart, vars, kernelVars
  <2> QED
    BY <1>1, <1>8, <1>9, <1>10, <1>12, <2>1
<1>24. CASE Crash
  <2>1. UNCHANGED vols /\ Exit
    BY <1>24 DEF Crash, kernelVars
  <2> QED
    BY <1>1, <1>11, <1>12, <2>1
<1> QED
  BY <1>13, <1>14, <1>15, <1>16, <1>17, <1>18, <1>19, <1>20, <1>21, <1>22, <1>23, <1>24,
     Actions

-----------------------------------------------------------------------------
(* HalfInv.                                                                *)

\* What HalfInv says of one volume and of the write to it.
VolHalves(v) ==
  /\ vols[v].kern \in {0, vols[v].backup}
  /\ vols[v].area # 0 => vols[v].backup <= areas[vols[v].area].half
  /\ ~vols[v].tracking => vols[v].size = 0 /\ vols[v].backup = 0
WrHalves(v) ==
  /\ wr[v].last <= DiskBits
  /\ wr[v].area # 0 => wr[v].base <= areas[wr[v].area].half
MapHalves == ct.pc = "map" => vols[ct.vol].backup = 0

\* A step keeps the filter's half, and the one a write has read, inside the area.
LEMMA HalfStep == ASSUME TypeOK, PlaceInv, HalfInv, [Next]_vars PROVE HalfInv'
<1>1. (\A v \in Volumes : VolHalves(v)' /\ WrHalves(v)') /\ MapHalves' => HalfInv'
  BY DEF HalfInv, VolHalves, WrHalves, MapHalves
<1>2. (\A v \in Volumes : VolHalves(v) /\ WrHalves(v)) /\ MapHalves
  BY DEF HalfInv, VolHalves, WrHalves, MapHalves
<1>3. DiskBits \in Nat /\ 0 <= DiskBits
  BY WFAssumption
<1>4. \A a \in Nat : a # 0 /\ a <= Len(areas) =>
        areas'[a].half = areas[a].half /\ areas[a].half \in Nat
  BY AreasGrow, AreaNumber DEF Grown, Areas
<1>5. ASSUME NEW v \in Volumes
      PROVE  /\ vols[v].area \in Nat /\ vols[v].kern \in Nat /\ vols[v].backup \in Nat
             /\ vols[v].size \in Nat /\ wr[v].area \in Nat
             /\ vols[v].area <= Len(areas) /\ wr[v].area <= Len(areas)
  BY <1>5, Parts DEF VolInfos, Writes, PlaceInv
<1>6. ASSUME NEW v \in Volumes, vols'[v].area = vols[v].area,
             vols'[v].backup = vols[v].backup, vols'[v].kern \in {0, vols[v].backup},
             vols'[v].tracking \/ (/\ vols'[v].tracking = vols[v].tracking
                                   /\ vols'[v].size = vols[v].size)
      PROVE  VolHalves(v)'
  <2>1. VolHalves(v)
    BY <1>2
  <2>2. vols[v].area # 0 => areas'[vols[v].area].half = areas[vols[v].area].half
    BY <1>4, <1>5
  <2> QED
    BY <1>6, <2>1, <2>2 DEF VolHalves
<1>7. UNCHANGED vols => \A v \in Volumes : VolHalves(v)'
  <2> SUFFICES ASSUME UNCHANGED vols, NEW v \in Volumes PROVE VolHalves(v)'
    OBVIOUS
  <2>1. vols[v].kern \in {0, vols[v].backup}
    BY <1>2 DEF VolHalves
  <2> QED
    BY <1>6, <2>1
<1>8. ASSUME NEW v \in Volumes, wr'[v] = wr[v] PROVE WrHalves(v)'
  <2>1. WrHalves(v)
    BY <1>2
  <2>2. wr[v].area # 0 => areas'[wr[v].area].half = areas[wr[v].area].half
    BY <1>4, <1>5
  <2> QED
    BY <1>8, <2>1, <2>2 DEF WrHalves
<1>9. UNCHANGED wr => \A v \in Volumes : WrHalves(v)'
  BY <1>8
<1>10. UNCHANGED <<vols, ct>> => MapHalves'
  BY <1>2 DEF MapHalves
<1>11. ct'.pc # "map" => MapHalves'
  BY DEF MapHalves
<1>12. Exit => MapHalves'
  BY <1>11, Gone
<1>13. ASSUME NEW v \in Volumes, WriteBegin(v) PROVE HalfInv'
  <2>1. UNCHANGED <<vols, areas, ct>>
    BY <1>13, Begins DEF daemonVars
  <2>2. ASSUME NEW w \in Writes, Begun(v, w), NEW u \in Volumes PROVE WrHalves(u)'
    <3>1. CASE u = v
      <4>1. wr'[v] = w
        BY <2>2 DEF Begun, TypeOK
      <4>2. /\ w.last <= DiskBits /\ w.area = vols[v].area
            /\ w.base \in {0, vols[v].backup}
        BY <1>2, <2>2 DEF Begun, VolHalves
      <4>3. w.area # 0 => /\ vols[v].backup <= areas[w.area].half
                          /\ 0 <= areas[w.area].half
        BY <1>2, <1>4, <1>5, <4>2 DEF VolHalves
      <4> QED
        BY <2>1, <3>1, <4>1, <4>2, <4>3 DEF WrHalves
    <3>2. CASE u # v
      <4>1. wr'[u] = wr[u]
        BY <2>2, <3>2 DEF Begun, TypeOK
      <4> QED
        BY <1>8, <4>1
    <3> QED
      BY <3>1, <3>2
  <2>3. \A u \in Volumes : WrHalves(u)'
    BY <1>9, <1>13, <2>2, Begins
  <2> QED
    BY <1>1, <1>7, <1>10, <2>1, <2>3
<1>14. ASSUME NEW v \in Volumes, SetBits(v) PROVE HalfInv'
  <2>1. UNCHANGED <<vols, ct>> /\ wr' = [wr EXCEPT ![v] = WrIdle]
    BY <1>14, Sets DEF daemonVars
  <2>2. ASSUME NEW u \in Volumes PROVE WrHalves(u)'
    <3>1. CASE u = v
      <4>1. wr'[v] = WrIdle
        BY <2>1 DEF TypeOK
      <4>2. WrIdle.last = 0 /\ WrIdle.area = 0
        BY DEF WrIdle
      <4> QED
        BY <1>3, <3>1, <4>1, <4>2 DEF WrHalves
    <3>2. CASE u # v
      <4>1. wr'[u] = wr[u]
        BY <2>1, <3>2 DEF TypeOK
      <4> QED
        BY <1>8, <4>1
    <3> QED
      BY <3>1, <3>2
  <2> QED
    BY <1>1, <1>7, <1>10, <2>1, <2>2
<1>15. ASSUME NEW v \in Volumes, RemoveDevice(v) PROVE HalfInv'
  <2>1. /\ UNCHANGED <<wr, ct>> /\ vols'[v] = Added
        /\ \A u \in Volumes : u # v => vols'[u] = vols[u]
    BY <1>15, Removes DEF daemonVars
  <2>2. VolHalves(v)'
    BY <2>1, AddedType DEF VolHalves
  <2>3. ASSUME NEW u \in Volumes, u # v PROVE VolHalves(u)'
    <3>1. vols'[u] = vols[u] /\ vols[u].kern \in {0, vols[u].backup}
      BY <1>2, <2>1, <2>3 DEF VolHalves
    <3> QED
      BY <1>6, <3>1
  <2>4. MapHalves'
    <3>1. CASE ct.pc = "map"
      <4>1. ct.vol \in Volumes /\ vols[ct.vol].backup = 0
        BY <1>2, <3>1 DEF PlaceInv, MapHalves
      <4> QED
        BY <2>1, <4>1, AddedType DEF MapHalves
    <3> QED
      BY <1>11, <2>1, <3>1
  <2> QED
    BY <1>1, <1>9, <2>1, <2>2, <2>3, <2>4
<1>16. ASSUME NEW v \in Volumes, DeviceDestroy(v) PROVE HalfInv'
  <2>1. UNCHANGED <<vols, wr, ct>>
    BY <1>16, Destroys DEF daemonVars
  <2> QED
    BY <1>1, <1>7, <1>9, <1>10, <2>1
<1>17. ASSUME NEW v \in Volumes, NEW s \in Sizes, CreateParse(v, s) PROVE HalfInv'
  <2>1. UNCHANGED <<vols, wr>> /\ ct'.pc = "parsed"
    BY <1>17, Parses DEF kernelVars
  <2> QED
    BY <1>1, <1>7, <1>9, <1>11, <2>1
<1>18. CASE CreateIoctl
  <2>1. UNCHANGED wr
    BY <1>18, Requests
  <2>2. PICK v \in Volumes :
          /\ ct'.vol = v /\ ct'.pc = (IF vols[v].tracking THEN "remap" ELSE "map")
          /\ \A u \in Volumes : u # v => vols'[u] = vols[u]
          /\ vols'[v].tracking
          /\ vols'[v].area = vols[v].area /\ vols'[v].kern = vols[v].kern
          /\ vols'[v].backup = vols[v].backup
    BY <1>18, Requests
  <2>3. ASSUME NEW u \in Volumes PROVE VolHalves(u)'
    <3>1. vols[u].kern \in {0, vols[u].backup}
      BY <1>2 DEF VolHalves
    <3>2. /\ vols'[u].area = vols[u].area /\ vols'[u].kern = vols[u].kern
          /\ vols'[u].backup = vols[u].backup
          /\ vols'[u].tracking \/ vols'[u] = vols[u]
      BY <2>2
    <3> QED
      BY <1>6, <3>1, <3>2
  <2>4. MapHalves'
    BY <1>2, <2>2 DEF MapHalves, VolHalves
  <2> QED
    BY <1>1, <1>9, <2>1, <2>3, <2>4
<1>19. CASE CreateMap \/ CreateMapFails
  <2>1. /\ UNCHANGED wr /\ ct.pc = "map" /\ ct.vol \in Volumes /\ ct'.pc # "map"
        /\ vols'[ct.vol].area = Len(areas) + 1
        /\ areas'[Len(areas) + 1].half = vols[ct.vol].size
        /\ \A u \in Volumes : u # ct.vol => vols'[u] = vols[u]
        /\ \/ vols'[ct.vol].kern = 0 /\ vols'[ct.vol].backup = vols[ct.vol].size
           \/ /\ vols'[ct.vol].kern = vols[ct.vol].kern
              /\ vols'[ct.vol].backup = vols[ct.vol].backup
        /\ vols'[ct.vol].size = vols[ct.vol].size
        /\ vols'[ct.vol].tracking = vols[ct.vol].tracking
    BY <1>19, CreateMaps DEF Mapped
  <2>0. PICK v \in Volumes : v = ct.vol
    BY <2>1
  <2>2. vols[v].backup = 0 /\ VolHalves(v) /\ vols[v].size \in Nat
    BY <1>2, <1>5, <2>1, <2>0 DEF MapHalves
  <2>3. VolHalves(v)'
    <3>1. /\ vols'[v].backup \in {0, vols[v].size}
          /\ vols'[v].kern = 0
      BY <2>1, <2>2, <2>0 DEF VolHalves
    <3>2. vols'[v].backup <= areas'[vols'[v].area].half
      BY <2>1, <2>2, <2>0, <3>1
    <3>3. ~vols'[v].tracking => vols'[v].size = 0 /\ vols'[v].backup = 0
      BY <2>1, <2>2, <2>0, <3>1 DEF VolHalves
    <3> QED
      BY <3>1, <3>2, <3>3 DEF VolHalves
  <2>4. ASSUME NEW u \in Volumes, u # v PROVE VolHalves(u)'
    <3>1. vols'[u] = vols[u] /\ vols[u].kern \in {0, vols[u].backup}
      BY <1>2, <2>1, <2>4, <2>0 DEF VolHalves
    <3> QED
      BY <1>6, <3>1
  <2> QED
    BY <1>1, <1>9, <1>11, <2>1, <2>3, <2>4
<1>20. CASE CreateRemap \/ CreateRemapFails
  <2>1. /\ UNCHANGED wr /\ ct'.pc = "made"
        /\ \A v \in Volumes :
             /\ vols'[v].tracking = vols[v].tracking /\ vols'[v].size = vols[v].size
             /\ vols'[v].area = vols[v].area /\ vols'[v].kern = vols[v].kern
             /\ vols'[v].backup = vols[v].backup
    BY <1>20, CreateRemaps
  <2>2. ASSUME NEW u \in Volumes PROVE VolHalves(u)'
    <3>1. vols[u].kern \in {0, vols[u].backup}
      BY <1>2 DEF VolHalves
    <3> QED
      BY <1>6, <2>1, <3>1
  <2> QED
    BY <1>1, <1>9, <1>11, <2>1, <2>2
<1>21. CASE Flip
  <2>1. /\ UNCHANGED <<wr, ct>> /\ ioctl.disk \in Volumes /\ FlipArea(ioctl.disk)
    BY <1>21, FlipsHalf
  <2>2. /\ \A u \in Volumes : u # ioctl.disk => vols'[u] = vols[u]
        /\ vols'[ioctl.disk].area = vols[ioctl.disk].area
        /\ vols'[ioctl.disk].size = vols[ioctl.disk].size
        /\ vols'[ioctl.disk].backup = vols[ioctl.disk].backup
        /\ vols'[ioctl.disk].tracking = vols[ioctl.disk].tracking
        /\ vols'[ioctl.disk].kern \in {0, vols[ioctl.disk].backup, vols[ioctl.disk].kern}
    BY <2>1, Flips
  <2>3. ASSUME NEW u \in Volumes PROVE VolHalves(u)'
    <3>1. vols[u].kern \in {0, vols[u].backup}
      BY <1>2 DEF VolHalves
    <3>2. /\ vols'[u].area = vols[u].area /\ vols'[u].backup = vols[u].backup
          /\ vols'[u].kern \in {0, vols[u].backup}
          /\ vols'[u].tracking = vols[u].tracking /\ vols'[u].size = vols[u].size
      BY <2>2, <3>1
    <3> QED
      BY <1>6, <3>2
  <2>4. MapHalves'
    BY <1>2, <2>1, <2>2 DEF MapHalves, PlaceInv
  <2> QED
    BY <1>1, <1>9, <2>1, <2>3, <2>4
<1>22. CASE DiskSourceCreate
  <2>1. UNCHANGED <<vols, wr>> /\ ct'.pc = "idle"
    BY <1>22, DiskSources DEF kernelVars
  <2> QED
    BY <1>1, <1>7, <1>9, <1>11, <2>1
<1>23. CASE LoadStart \/ CopyHalf \/ Crash
  <2>1. UNCHANGED <<vols, wr>> /\ (Exit \/ UNCHANGED ct)
    BY <1>23, Starts, CopiesHalf DEF kernelVars, Crash
  <2> QED
    BY <1>1, <1>7, <1>9, <1>10, <1>12, <2>1
<1>24. CASE GetUser \/ Recopy \/ Reconnect \/ Terminate \/ Restart \/ UNCHANGED vars
  <2>1. UNCHANGED <<vols, wr, ct>>
    BY <1>24 DEF GetUser, Recopy, Reconnect, Terminate, Restart, vars, kernelVars
  <2> QED
    BY <1>1, <1>7, <1>9, <1>10, <2>1
<1> QED
  BY <1>13, <1>14, <1>15, <1>16, <1>17, <1>18, <1>19, <1>20, <1>21, <1>22, <1>23, <1>24,
     Actions

-----------------------------------------------------------------------------
(* MarksInside.                                                            *)

\* In an area with a bit to spare after the last grain, every mark lands.
LEMMA MarkedInside ==
  ASSUME TypeOK, PlaceInv, HalfInv, NEW v \in Volumes,
         wr[v].area # 0 => areas[wr[v].area].half > DiskBits
  PROVE  Landed(v) = Marked(v)
<1>1. CASE wr[v].area = 0
  BY <1>1 DEF Landed, Marked
<1>2. CASE wr[v].area # 0
  <2> DEFINE a == wr[v].area
             h == areas[a].half
  <2>1. /\ wr[v].first \in Nat /\ wr[v].last \in Nat /\ a \in Nat /\ wr[v].base \in Nat
    BY Parts DEF Writes
  <2>2. h \in Nat
    BY <1>2, <2>1, AreaNumber DEF PlaceInv, Areas
  <2>3. wr[v].last <= DiskBits /\ wr[v].base <= h /\ h > DiskBits /\ DiskBits \in Nat
    BY <1>2, WFAssumption DEF HalfInv
  <2> HIDE DEF a, h
  <2>4. ASSUME NEW x \in Bits(a, wr[v].base + wr[v].first, wr[v].last - wr[v].first + 1)
        PROVE  x \in Bits(a, 0, 2 * h)
    <3>1. PICK i \in Nat : /\ i < wr[v].last - wr[v].first + 1
                           /\ x = <<a, (wr[v].base + wr[v].first) + i>>
      <4> DEFINE b == wr[v].base + wr[v].first
                 n == wr[v].last - wr[v].first + 1
      <4>1. b \in Nat /\ n \in Int /\ x \in Bits(a, b, n)
        BY <2>1, <2>4
      <4> HIDE DEF b, n
      <4>2. a \in Nat
        BY <2>1
      <4>3. \A y : y \in Bits(a, b, n) <=> \E i \in Nat : i < n /\ y = <<a, b + i>>
        BY <4>1, <4>2, BitsTypes
      <4>4. \E i \in Nat : i < n /\ x = <<a, b + i>>
        BY <4>1, <4>3
      <4> QED
        BY <4>4 DEF b, n
    <3> DEFINE j == (wr[v].base + wr[v].first) + i
    <3>2. j \in Nat /\ j < 2 * h /\ 0 + j = j
      BY <2>1, <2>2, <2>3, <3>1
    <3>3. x = <<a, 0 + j>>
      BY <3>1, <3>2
    <3>4. 2 * h \in Int /\ 0 \in Nat
      BY <2>2
    <3> HIDE DEF j
    <3> QED
      BY <2>1, <3>2, <3>3, <3>4, BitsTypes
  <2>5. /\ Marked(v) = Bits(a, wr[v].base + wr[v].first, wr[v].last - wr[v].first + 1)
        /\ Landed(v) = Marked(v) \cap Bits(a, 0, 2 * h)
    BY <1>2 DEF Marked, Landed, Extent, a, h
  <2> QED
    BY <2>4, <2>5
<1> QED
  BY <1>1, <1>2

\* A write that is under way marks the same bits after another's step.
LEMMA LandedSame ==
  ASSUME TypeOK, PlaceInv, [Next]_vars, NEW v \in Volumes, wr'[v] = wr[v]
  PROVE  Landed(v)' = Landed(v)
<1>1. wr[v].area \in Nat /\ wr[v].area <= Len(areas)
  BY Parts DEF Writes, PlaceInv
<1>2. wr[v].area # 0 => areas'[wr[v].area].half = areas[wr[v].area].half
  BY <1>1, AreasGrow, AreaNumber DEF Grown
<1> QED
  BY <1>2 DEF Landed, Marked, Extent

\* Marks past the end and in freed memory have their reasons.
LEMMA MarksStep ==
  ASSUME TypeOK, PlaceInv, HalfInv, LiveInv, MarksInside, [Next]_vars
  PROVE  MarksInside'
<1> DEFINE Narrow == \E a \in DOMAIN areas : areas[a].half <= DiskBits
           Freed == Happened({"mapfail", "destroyed"})
<1>1. Narrow => Narrow'
  BY AreasGrow DEF Grown
<1>2. Freed => Freed'
  BY Remembered
<1>3. ("past" \in hist'.bad => Narrow) /\ ("freed" \in hist'.bad => Freed) => MarksInside'
  BY <1>1, <1>2 DEF MarksInside, Happened
<1>4. ("past" \in hist.bad => Narrow) /\ ("freed" \in hist.bad => Freed)
  BY DEF MarksInside, Happened
<1> HIDE DEF Narrow, Freed
<1>5. hist'.bad = hist.bad => MarksInside'
  BY <1>3, <1>4
<1>6. ASSUME NEW v \in Volumes, SetBits(v) PROVE MarksInside'
  <2>1. /\ "past" \in hist'.bad => "past" \in hist.bad \/ Marked(v) # Landed(v)
        /\ "freed" \in hist'.bad => \/ "freed" \in hist.bad
                                    \/ wr[v].area # 0 /\ ~areas[wr[v].area].live
    BY <1>6, Sets
  <2>2. wr[v].area # 0 => wr[v].area \in DOMAIN areas /\ areas[wr[v].area].half \in Nat
    BY Parts, AreaNumber DEF Writes, PlaceInv, Areas
  <2>3. Marked(v) # Landed(v) => Narrow
    <3>1. ASSUME Marked(v) # Landed(v) PROVE Narrow
      <4>1. wr[v].area # 0 /\ ~(areas[wr[v].area].half > DiskBits)
        BY <3>1, MarkedInside
      <4>2. areas[wr[v].area].half <= DiskBits
        BY <2>2, <4>1, WFAssumption
      <4> QED
        BY <2>2, <4>1, <4>2 DEF Narrow
    <3> QED
      BY <3>1
  <2>4. wr[v].area # 0 /\ ~areas[wr[v].area].live => Freed
    BY <2>2 DEF LiveInv, Freed
  <2> QED
    BY <1>3, <1>4, <2>1, <2>3, <2>4
<1>7. ASSUME NEW v \in Volumes, DeviceDestroy(v) PROVE MarksInside'
  <2>1. /\ "past" \in hist'.bad => "past" \in hist.bad
        /\ "freed" \in hist'.bad => "freed" \in hist.bad
    BY <1>7, Destroys
  <2> QED
    BY <1>3, <1>4, <2>1
<1>8. ASSUME NEW v \in Volumes, WriteBegin(v) \/ RemoveDevice(v) PROVE hist'.bad = hist.bad
  BY <1>8, Begins, Removes DEF Begun
<1>9. ASSUME NEW v \in Volumes, NEW s \in Sizes, CreateParse(v, s)
      PROVE  hist'.bad = hist.bad
  BY <1>9, Parses
<1>10. CreateIoctl \/ (CreateRemap \/ CreateRemapFails) \/ DiskSourceCreate =>
         hist'.bad = hist.bad
  BY DEF CreateIoctl, CreateRemap, CreateRemapFails, DiskSourceCreate
<1>11. ASSUME NEW E \in SUBSET Events, Recall(E) PROVE hist'.bad = hist.bad
  BY <1>11, Recalled
<1>12. {"mapfail"} \in SUBSET Events /\ {"unflipped"} \in SUBSET Events
       /\ (IF ct.pc # "idle" THEN {"overlap"} ELSE {}) \in SUBSET Events
  BY DEF Events
<1>13. (CreateMap \/ CreateMapFails) \/ Recopy => hist'.bad = hist.bad
  BY <1>11, <1>12, CreateMaps, Recopies
<1>14. LoadStart => hist'.bad = hist.bad
  BY <1>11, <1>12, Starts
<1>15. CopyHalf \/ Flip \/ Terminate => hist'.bad = hist.bad
  BY CopiesHalf, FlipsHalf, Terminates
<1>16. GetUser \/ Reconnect \/ Crash \/ Restart \/ UNCHANGED vars => hist'.bad = hist.bad
  BY DEF GetUser, Reconnect, Crash, Restart, vars
<1> QED
  BY <1>5, <1>6, <1>7, <1>8, <1>9, <1>10, <1>13, <1>14, <1>15, <1>16, Actions

\* What has happened cannot be undone.
LEMMA CleanBack ==
  ASSUME TypeOK, PlaceInv, [Next]_vars, Clean'
  PROVE  Clean /\ hist'.events \cap {"unflipped", "resized", "oversized", "overlap",
                                     "mapfail"} = {}
<1> DEFINE E == {"unflipped", "resized", "oversized", "overlap", "mapfail"}
<1>1. hist'.events \cap E = {}
  BY DEF Clean, Happened
<1>2. ~Happened(E)
  BY <1>1, Remembered DEF Happened
<1>3. \A a \in DOMAIN areas : areas[a].half > DiskBits
  BY AreasGrow DEF Grown, Clean
<1> QED
  BY <1>1, <1>2, <1>3 DEF Clean

-----------------------------------------------------------------------------
(* SizeInv.                                                                *)

\* SizeInv by its parts.
VolSize(v) ==
  vols[v].area # 0 =>
    /\ vols[v].backup = areas[vols[v].area].half
    /\ vols[v].user \in Users
    /\ vols[v].kern = IF vols[v].user = "user" THEN vols[v].backup ELSE 0
CtSize ==
  ct.pc # "idle" =>
    /\ ioctl.size <= Clamp
    /\ \A a \in DOMAIN areas : areas[a].vol = ioctl.disk => areas[a].half = ioctl.size
MapSize == ct.pc = "map" => vols[ct.vol].size \in {0, ioctl.size}
SlotSize == \A i \in DOMAIN slots : slots[i].area # 0 =>
              slots[i].size = areas[slots[i].area].half

\* A clean step keeps filter and daemon agreed on the size of a half.
LEMMA SizeStep ==
  ASSUME TypeOK, PlaceInv, OwnInv, SizeInv, [Next]_vars, Clean'
  PROVE  SizeInv'
<1> DEFINE E == {"unflipped", "resized", "oversized", "overlap", "mapfail"}
<1>1. (\A v \in Volumes : VolSize(v)') /\ CtSize' /\ MapSize' /\ SlotSize' => SizeInv'
  BY DEF SizeInv, VolSize, CtSize, MapSize, SlotSize
<1>2. (\A v \in Volumes : VolSize(v)) /\ CtSize /\ MapSize /\ SlotSize
  BY DEF SizeInv, VolSize, CtSize, MapSize, SlotSize
<1>3. Clean /\ hist'.events \cap E = {}
  BY CleanBack
<1>4. \A e \in E : e \notin hist.events /\ e \notin hist'.events
  BY <1>3 DEF Clean, Happened
<1>5. \A a \in DOMAIN areas : areas'[a].vol = areas[a].vol /\ areas'[a].half = areas[a].half
  BY AreasGrow DEF Grown
<1>6. \A v \in Volumes : vols[v].area # 0 => vols[v].area \in DOMAIN areas
  BY Parts, AreaNumber DEF PlaceInv, VolInfos
<1>7. \A i \in DOMAIN slots : slots[i].area # 0 => slots[i].area \in DOMAIN areas
  BY Parts, AreaNumber DEF PlaceInv, Disks
<1>8. ASSUME NEW v \in Volumes, vols'[v].area = vols[v].area,
             vols'[v].backup = vols[v].backup, vols'[v].user = vols[v].user,
             vols'[v].kern = vols[v].kern
      PROVE  VolSize(v)'
  BY <1>2, <1>5, <1>6, <1>8 DEF VolSize
<1>9. UNCHANGED vols => \A v \in Volumes : VolSize(v)'
  BY <1>8
<1>10. UNCHANGED <<ct, ioctl>> /\ DOMAIN areas' = DOMAIN areas => CtSize'
  BY <1>2, <1>5 DEF CtSize
<1>11. ct'.pc = "idle" => CtSize' /\ MapSize'
  BY DEF CtSize, MapSize
<1>12. UNCHANGED <<vols, ct, ioctl>> => MapSize'
  BY <1>2 DEF MapSize
<1>13. UNCHANGED slots => SlotSize'
  BY <1>2, <1>5, <1>7 DEF SlotSize
<1>14. Exit => CtSize' /\ MapSize' /\ SlotSize'
  BY <1>11, Gone DEF SlotSize
<1>15. ASSUME NEW v \in Volumes, WriteBegin(v) \/ SetBits(v) \/ DeviceDestroy(v)
       PROVE  SizeInv'
  <2>1. UNCHANGED <<vols, slots, ct, ioctl>>
    BY <1>15, Begins, Sets, Destroys DEF daemonVars
  <2>2. DOMAIN areas' = DOMAIN areas
    BY <1>15, Begins, SetsAreas, DestroysAreas
  <2> QED
    BY <1>1, <1>9, <1>10, <1>12, <1>13, <2>1, <2>2
<1>16. ASSUME NEW v \in Volumes, RemoveDevice(v) PROVE SizeInv'
  <2>1. /\ UNCHANGED <<areas, ioctl, slots, ct>> /\ vols'[v] = Added
        /\ \A u \in Volumes : u # v => vols'[u] = vols[u]
    BY <1>16, Removes DEF daemonVars
  <2>2. VolSize(v)'
    BY <2>1, AddedType DEF VolSize
  <2>3. \A u \in Volumes : u # v => VolSize(u)'
    BY <1>8, <2>1
  <2>4. MapSize'
    BY <1>2, <2>1, AddedType DEF MapSize, PlaceInv
  <2> QED
    BY <1>1, <1>10, <1>13, <2>1, <2>2, <2>3, <2>4
<1>17. ASSUME NEW v \in Volumes, NEW s \in Sizes, CreateParse(v, s) PROVE SizeInv'
  <2>1. /\ UNCHANGED <<vols, areas, slots>> /\ ct'.pc = "parsed"
        /\ ioctl'.disk = v /\ ioctl'.size = s /\ s \in Nat
        /\ s > Clamp => "oversized" \in hist'.events
        /\ (\E a \in DOMAIN areas : areas[a].vol = v /\ areas[a].half # s) =>
             "resized" \in hist'.events
    BY <1>17, Parses DEF kernelVars
  <2>2. s <= Clamp
    BY <1>4, <2>1, WFAssumption
  <2>3. \A a \in DOMAIN areas : areas[a].vol = v => areas[a].half = s
    BY <1>4, <2>1
  <2>4. CtSize' /\ MapSize'
    BY <2>1, <2>2, <2>3 DEF CtSize, MapSize
  <2> QED
    BY <1>1, <1>9, <1>13, <2>1, <2>4
<1>18. CASE CreateIoctl
  <2>1. UNCHANGED <<areas, ioctl, slots>> /\ ct.pc \in {"parsed", "retry"}
    BY <1>18, Requests
  <2>2. PICK v \in Volumes :
          /\ ct'.vol = v
          /\ \A u \in Volumes : u # v => vols'[u] = vols[u]
          /\ vols'[v].size = (IF ioctl.size > Clamp THEN Clamp ELSE ioctl.size)
          /\ vols'[v].area = vols[v].area /\ vols'[v].kern = vols[v].kern
          /\ vols'[v].backup = vols[v].backup /\ vols'[v].user = vols[v].user
    BY <1>18, Requests
  <2>3. \A u \in Volumes : VolSize(u)'
    BY <1>8, <2>2
  <2>4. ioctl.size <= Clamp /\ ioctl.size \in Nat /\ Clamp \in Nat
    BY <1>2, <2>1, WFAssumption DEF CtSize, TypeOK
  <2>5. vols'[v].size = ioctl.size
    BY <2>2, <2>4
  <2>6. CtSize' /\ MapSize'
    BY <1>2, <2>1, <2>2, <2>5 DEF CtSize, MapSize
  <2> QED
    BY <1>1, <1>13, <2>1, <2>3, <2>6
<1>19. CASE CreateMap \/ CreateMapFails
  <2>1. /\ UNCHANGED <<ioctl, slots>> /\ ct.pc = "map" /\ ct.vol \in Volumes
        /\ ct'.vol = ct.vol
    BY <1>19, CreateMaps
  <2>2. ct'.pc = "made" /\ Mapped(ct.vol, TRUE) /\ hist' = hist
    <3>1. ~Recall({"mapfail"})
      <4>1. ASSUME Recall({"mapfail"}) PROVE FALSE
        BY <1>4, <4>1, Recalled DEF Events
      <4> QED
        BY <4>1
    <3> QED
      BY <1>19, <3>1, CreateMaps
  <2>3. PICK v \in Volumes : v = ct.vol
    BY <2>1
  <2>4. /\ areas'[Len(areas) + 1].vol = v /\ areas'[Len(areas) + 1].half = vols[v].size
        /\ \A u \in Volumes : u # v => vols'[u] = vols[u]
        /\ vols'[v].area = Len(areas) + 1 /\ vols'[v].kern = 0
        /\ vols'[v].backup = vols[v].size /\ vols'[v].user = "kernel"
    BY <2>2, <2>3 DEF Mapped
  <2>5. DOMAIN areas' = DOMAIN areas \cup {Len(areas) + 1}
    BY <2>2, MappedGrows DEF TypeOK, Hists
  <2>6. vols[v].size = ioctl.size
    <3>1. areas'[Len(areas) + 1].half > DiskBits
      BY <2>5 DEF Clean
    <3>2. vols[v].size # 0
      BY <2>4, <3>1, WFAssumption
    <3> QED
      BY <1>2, <2>1, <2>3, <3>2 DEF MapSize
  <2>7. \A u \in Volumes : VolSize(u)'
    <3>1. VolSize(v)'
      BY <2>4 DEF VolSize, Users
    <3>2. \A u \in Volumes : u # v => VolSize(u)'
      BY <1>8, <2>4
    <3> QED
      BY <3>1, <3>2
  <2>8. CtSize'
    BY <1>2, <1>5, <2>1, <2>4, <2>5, <2>6 DEF CtSize
  <2>9. MapSize'
    BY <2>2 DEF MapSize
  <2> QED
    BY <1>1, <1>13, <2>1, <2>7, <2>8, <2>9
<1>20. CASE CreateRemap \/ CreateRemapFails
  <2>1. /\ UNCHANGED <<areas, ioctl, slots>> /\ ct.pc = "remap" /\ ct'.pc = "made"
        /\ \A v \in Volumes :
             /\ vols'[v].area = vols[v].area /\ vols'[v].kern = vols[v].kern
             /\ vols'[v].backup = vols[v].backup /\ vols'[v].user = vols[v].user
    BY <1>20, CreateRemaps
  <2>2. \A v \in Volumes : VolSize(v)'
    BY <1>8, <2>1
  <2>3. CtSize' /\ MapSize'
    BY <1>2, <2>1 DEF CtSize, MapSize
  <2> QED
    BY <1>1, <1>13, <2>1, <2>2, <2>3
<1>21. CASE DiskSourceCreate
  <2>1. /\ UNCHANGED <<vols, areas, ioctl>> /\ ct.pc = "made" /\ ct'.pc = "idle"
        /\ slots' \in Seq(Disks) /\ Len(slots') = Len(slots) + 1
        /\ \A i \in DOMAIN slots : slots'[i] = slots[i]
        /\ slots'[Len(slots) + 1].area = ct.area
        /\ slots'[Len(slots) + 1].size = ioctl.size
    BY <1>21, DiskSources DEF kernelVars
  <2>2. /\ Len(slots) \in Nat /\ DOMAIN slots = 1 .. Len(slots)
        /\ DOMAIN slots' = 1 .. Len(slots')
    BY <2>1, Parts
  <2>3. \A i \in DOMAIN slots' : i \in DOMAIN slots \/ i = Len(slots) + 1
    BY <2>1, <2>2
  <2>4. ct.area # 0 => areas[ct.area].half = ioctl.size
    <3>1. ASSUME ct.area # 0 PROVE areas[ct.area].half = ioctl.size
      <4>1. ct.area \in DOMAIN areas
        BY <3>1, AreaNumber DEF TypeOK, Creates, PlaceInv
      <4>2. areas[ct.area].vol = ioctl.disk
        BY <1>4, <2>1, <3>1 DEF OwnInv, Happened
      <4> QED
        BY <1>2, <2>1, <4>1, <4>2 DEF CtSize
    <3> QED
      BY <3>1
  <2>5. SlotSize'
    BY <1>2, <2>1, <2>3, <2>4 DEF SlotSize
  <2> QED
    BY <1>1, <1>9, <1>11, <2>1, <2>5
<1>22. CASE LoadStart
  <2>1. UNCHANGED <<vols, areas>>
    BY <1>22, Starts DEF kernelVars
  <2>2. CASE ~Exit
    <3>1. /\ UNCHANGED <<slots, ct>>
          /\ Recall(IF ct.pc # "idle" THEN {"overlap"} ELSE {})
      BY <1>22, <2>2, Starts
    <3>2. ct.pc = "idle"
      <4>1. ASSUME ct.pc # "idle" PROVE FALSE
        <5>1. Recall({"overlap"})
          BY <3>1, <4>1
        <5> QED
          BY <1>4, <5>1, Recalled DEF Events
      <4> QED
        BY <4>1
    <3> QED
      BY <1>1, <1>9, <1>11, <1>13, <2>1, <3>1, <3>2
  <2> QED
    BY <1>1, <1>9, <1>14, <2>1, <2>2
<1>23. CASE CopyHalf \/ Crash
  <2>1. UNCHANGED <<vols, areas>> /\ (Exit \/ UNCHANGED <<ioctl, slots, ct>>)
    BY <1>23, CopiesHalf DEF kernelVars, Crash
  <2> QED
    BY <1>1, <1>9, <1>10, <1>12, <1>13, <1>14, <2>1
<1>24. CASE Flip
  <2>1. /\ UNCHANGED <<areas, ioctl, slots, ct>> /\ ioctl.disk \in Volumes
        /\ FlipArea(ioctl.disk)
    BY <1>24, FlipsHalf
  <2>2. PICK v \in Volumes : v = ioctl.disk
    BY <2>1
  <2>3. /\ \A u \in Volumes : u # v => vols'[u] = vols[u]
        /\ vols'[v].area = vols[v].area /\ vols'[v].size = vols[v].size
        /\ vols'[v].backup = vols[v].backup
        /\ \/ vols[v].user = "garbage" /\ vols' = vols
           \/ vols'[v].user = "kernel" /\ vols'[v].kern = 0
           \/ vols'[v].user = "user" /\ vols'[v].kern = vols[v].backup
    BY <2>1, <2>2, Flips
  <2>4. VolSize(v)'
    <3>1. CASE vols' = vols
      BY <1>9, <3>1
    <3>2. CASE vols' # vols
      BY <1>2, <1>5, <1>6, <2>3, <3>2 DEF VolSize, Users
    <3> QED
      BY <3>1, <3>2
  <2>5. \A u \in Volumes : u # v => VolSize(u)'
    BY <1>8, <2>3
  <2>6. MapSize'
    BY <1>2, <2>1, <2>3 DEF MapSize, PlaceInv
  <2> QED
    BY <1>1, <1>10, <1>13, <2>1, <2>4, <2>5, <2>6
<1>25. CASE GetUser \/ Recopy \/ Reconnect \/ Restart \/ UNCHANGED vars
  <2>1. UNCHANGED <<vols, areas, ioctl, slots, ct>>
    BY <1>25 DEF GetUser, Recopy, Reconnect, Restart, vars, kernelVars
  <2> QED
    BY <1>1, <1>9, <1>10, <1>12, <1>13, <2>1
<1>26. CASE Terminate
  <2>1. UNCHANGED <<vols, ioctl, slots, ct>> /\ DOMAIN areas' = DOMAIN areas
    BY <1>26, Terminates, TerminatesAreas
  <2> QED
    BY <1>1, <1>9, <1>10, <1>12, <1>13, <2>1
<1> QED
  BY <1>15, <1>16, <1>17, <1>18, <1>19, <1>20, <1>21, <1>22, <1>23, <1>24, <1>25, <1>26,
     Actions

-----------------------------------------------------------------------------
(* The half that was loaded.                                               *)

\* RoundInv by its parts.
DiskRound == Loading => ioctl.disk = slots[1].vol
UserRound ==
  /\ ld.pc = "copy" /\ slots[1].area # 0 /\ OfSlot => ld.user = vols[slots[1].vol].user
  /\ ld.pc = "flip" /\ OfSlot => ld.user # vols[slots[1].vol].user
  /\ ld.pc = "sent" /\ OfSlot => ld.user = vols[slots[1].vol].user
CopyRound == ld.pc \in {"flip", "sent"} =>
               areas[slots[1].area].bits \cap Loaded \subseteq ld.copy \cup hist.late
LateRound == ld.pc = "sent" =>
               \A v \in Volumes : Landed(v) \cap Loaded \subseteq hist.late

\* The half that was loaded: its bits.
LEMMA LoadedBits ==
  ASSUME TypeOK, slots # <<>>
  PROVE  \A x \in Loaded : \E k \in Nat :
           /\ x = <<slots[1].area, k>>
           /\ ld.user = "user" => k < slots[1].size
           /\ ld.user # "user" => k >= slots[1].size
<1> SUFFICES ASSUME NEW x \in Loaded
             PROVE  \E k \in Nat : /\ x = <<slots[1].area, k>>
                                   /\ ld.user = "user" => k < slots[1].size
                                   /\ ld.user # "user" => k >= slots[1].size
  OBVIOUS
<1> DEFINE a == slots[1].area
           n == slots[1].size
           b == IF ld.user = "user" THEN 0 ELSE n
<1>1. a \in Nat /\ n \in Nat
  BY FirstSlot
<1>2. b \in Nat /\ n \in Int
  BY <1>1
<1>3. x \in Bits(a, b, n)
  <2>1. Loaded = Bits(a, b, n)
    BY DEF Loaded, Half
  <2> QED
    BY <2>1
<1> HIDE DEF a, n, b
<1>4. \A y : y \in Bits(a, b, n) <=> \E i \in Nat : i < n /\ y = <<a, b + i>>
  BY <1>1, <1>2, BitsTypes
<1>5. PICK i \in Nat : i < n /\ x = <<a, b + i>>
  BY <1>3, <1>4
<1>6. b + i \in Nat /\ (ld.user = "user" => b + i < n) /\ (ld.user # "user" => b + i >= n)
  BY <1>1, <1>5 DEF b
<1> QED
  BY <1>5, <1>6 DEF a, n

\* After the flip a new write marks the other half.
LEMMA Away ==
  ASSUME TypeOK, PlaceInv, OwnInv, SizeInv, UserRound, Clean, ld.pc = "sent",
         NEW v \in Volumes, vols[v].area # 0,
         NEW f \in Nat, NEW l \in Nat, l <= DiskBits
  PROVE  Bits(vols[v].area, vols[v].kern + f, l - f + 1) \cap Loaded = {}
<1> SUFFICES ASSUME NEW x \in Bits(vols[v].area, vols[v].kern + f, l - f + 1), x \in Loaded
             PROVE FALSE
  OBVIOUS
<1> DEFINE a == vols[v].area
           b == vols[v].kern + f
           n == l - f + 1
<1>1. a \in Nat /\ vols[v].kern \in Nat
  BY Parts DEF VolInfos
<1>2. b \in Nat /\ n \in Int /\ x \in Bits(a, b, n)
  BY <1>1
<1> HIDE DEF b, n
<1>3. \A y : y \in Bits(a, b, n) <=> \E i \in Nat : i < n /\ y = <<a, b + i>>
  BY ZenonT(60), <1>1, <1>2, BitsTypes
<1>4. PICK i \in Nat : i < n /\ x = <<a, b + i>>
  BY <1>2, <1>3
<1>5. slots # <<>> /\ slots[1].area # 0
  BY DEF PlaceInv
<1>6. PICK k \in Nat : /\ x = <<slots[1].area, k>>
                       /\ ld.user = "user" => k < slots[1].size
                       /\ ld.user # "user" => k >= slots[1].size
  BY <1>5, LoadedBits
<1>7. a = slots[1].area /\ k = b + i
  BY <1>4, <1>6
<1>8. 1 \in DOMAIN slots /\ slots[1].vol \in Volumes /\ slots[1].size \in Nat
  BY <1>5, FirstSlot
<1>9. slots[1].vol = v
  <2>1. areas[a].vol = v
    BY DEF OwnInv
  <2>2. ~Happened({"overlap"})
    BY DEF Clean, Happened
  <2>3. areas[slots[1].area].vol = slots[1].vol
    BY <1>5, <1>8, <2>2 DEF OwnInv
  <2> QED
    BY <1>7, <2>1, <2>3
<1>10. ld.user = vols[v].user
  BY <1>7, <1>9 DEF UserRound, OfSlot
<1>11. slots[1].size = areas[a].half
  BY <1>5, <1>7, <1>8 DEF SizeInv
<1>12. a \in DOMAIN areas /\ areas[a].half > DiskBits
  BY <1>1, AreaNumber DEF PlaceInv, Clean
<1>13. vols[v].kern = IF ld.user = "user" THEN slots[1].size ELSE 0
  BY <1>10, <1>11 DEF SizeInv
<1>14. b = vols[v].kern + f /\ n = l - f + 1 /\ DiskBits \in Nat
  BY WFAssumption DEF b, n
<1>15. CASE ld.user = "user"
  <2>1. k >= slots[1].size
    BY <1>7, <1>8, <1>13, <1>14, <1>15
  <2> QED
    BY <1>6, <1>8, <1>15, <2>1
<1>16. CASE ld.user # "user"
  <2>1. k <= l
    BY <1>4, <1>7, <1>13, <1>14, <1>16
  <2> QED
    BY <1>6, <1>8, <1>11, <1>12, <1>14, <1>16, <2>1
<1> QED
  BY <1>15, <1>16

-----------------------------------------------------------------------------
(* RoundInv.                                                               *)

\* A clean step keeps what is known of the half that was loaded.
LEMMA RoundStep ==
  ASSUME TypeOK, PlaceInv, OwnInv, SizeInv, RoundInv, [Next]_vars, Clean'
  PROVE  RoundInv'
<1> DEFINE E == {"unflipped", "resized", "oversized", "overlap", "mapfail"}
<1>1. DiskRound' /\ UserRound' /\ CopyRound' /\ LateRound' => RoundInv'
  BY DEF RoundInv, DiskRound, UserRound, CopyRound, LateRound
<1>2. DiskRound /\ UserRound /\ CopyRound /\ LateRound
  BY DEF RoundInv, DiskRound, UserRound, CopyRound, LateRound
<1>3. Clean /\ hist'.events \cap E = {}
  BY CleanBack
<1>4. \A e \in E : e \notin hist.events /\ e \notin hist'.events
  BY <1>3 DEF Clean, Happened
<1>5. ld.pc # "idle" => /\ slots # <<>> /\ slots[1].vol \in Volumes
                        /\ slots[1].area \in Nat /\ slots[1].area <= Len(areas)
  BY FirstSlot DEF PlaceInv
<1>6. ld.pc \in {"flip", "sent"} => slots[1].area # 0 /\ slots[1].area \in DOMAIN areas
  BY <1>5, AreaNumber DEF PlaceInv
<1>7. UNCHANGED <<ioctl, slots, ld>> => DiskRound'
  BY <1>2 DEF DiskRound, Loading
<1>8. ASSUME UNCHANGED <<slots, ld>>,
             \A u \in Volumes :
               \/ vols'[u].area \in {0, Len(areas) + 1}
               \/ vols'[u].area = vols[u].area /\ vols'[u].user = vols[u].user
      PROVE  UserRound'
  <2>1. ASSUME ld.pc \in {"copy", "flip", "sent"}, slots[1].area # 0, OfSlot'
        PROVE  OfSlot /\ vols'[slots[1].vol].user = vols[slots[1].vol].user
    <3>1. slots[1].vol \in Volumes /\ vols'[slots[1].vol].area = slots[1].area
      BY <1>5, <1>8, <2>1 DEF OfSlot
    <3>2. slots[1].area # Len(areas) + 1
      BY <1>5, <2>1, Parts
    <3> QED
      BY <1>8, <2>1, <3>1, <3>2 DEF OfSlot
  <2> QED
    BY <1>2, <1>6, <1>8, <2>1 DEF UserRound
<1>9. UNCHANGED <<vols, slots, ld>> => UserRound'
  BY <1>8
<1>10. ASSUME UNCHANGED <<slots, ld>>, hist.late \subseteq hist'.late,
              \A a \in DOMAIN areas : areas'[a].bits = areas[a].bits
       PROVE  CopyRound'
  <2>1. Loaded' = Loaded
    BY <1>10 DEF Loaded, Half
  <2> QED
    BY <1>2, <1>6, <1>10, <2>1 DEF CopyRound
<1>11. ASSUME UNCHANGED <<slots, ld, wr>>, hist.late \subseteq hist'.late
       PROVE  LateRound'
  <2>1. Loaded' = Loaded
    BY <1>11 DEF Loaded, Half
  <2>2. \A v \in Volumes : Landed(v)' = Landed(v)
    BY <1>11, LandedSame
  <2> QED
    BY <1>2, <1>11, <2>1, <2>2 DEF LateRound
<1>12. ld'.pc = "idle" => RoundInv'
  BY <1>1 DEF DiskRound, UserRound, CopyRound, LateRound, Loading
<1>13. Exit => RoundInv'
  BY <1>12, Gone
<1>14. ASSUME NEW v \in Volumes, WriteBegin(v) PROVE RoundInv'
  <2>1. UNCHANGED <<vols, areas, ioctl, slots, ld>>
    BY <1>14, Begins DEF daemonVars
  <2>2. hist'.late = hist.late
    BY <1>14, Begins DEF Begun
  <2>3. LateRound'
    <3>1. CASE wr' = wr
      BY <1>11, <2>1, <2>2, <3>1
    <3>2. ASSUME NEW w \in Writes, Begun(v, w), ld.pc = "sent", NEW u \in Volumes
          PROVE  Landed(u)' \cap Loaded \subseteq hist'.late
      <4>1. CASE u = v
        <5>1. wr'[v] = w
          BY <3>2 DEF Begun, TypeOK
        <5>2. /\ w.area = vols[v].area /\ w.base = vols[v].kern
              /\ w.first \in Nat /\ w.last \in Nat /\ w.last <= DiskBits
          BY <3>2 DEF Begun
        <5>3. CASE w.area = 0
          <6>1. Landed(v)' = {}
            BY <5>1, <5>3 DEF Landed
          <6> QED
            BY <4>1, <6>1
        <5>4. CASE w.area # 0
          <6> DEFINE B == Bits(vols[v].area, vols[v].kern + w.first, w.last - w.first + 1)
          <6>1. B \cap Loaded = {}
            BY <1>2, <1>3, <3>2, <5>2, <5>4, Away
          <6>2. Landed(v)' \subseteq B
            BY <5>1, <5>2, <5>4 DEF Landed, Marked
          <6> HIDE DEF B
          <6> QED
            BY <4>1, <6>1, <6>2
        <5> QED
          BY <5>3, <5>4
      <4>2. CASE u # v
        <5>1. wr'[u] = wr[u]
          BY <3>2, <4>2 DEF Begun, TypeOK
        <5>2. Landed(u)' = Landed(u)
          BY <5>1, LandedSame
        <5> QED
          BY <1>2, <2>2, <3>2, <5>2 DEF LateRound
      <4> QED
        BY <4>1, <4>2
    <3>3. Loaded' = Loaded
      BY <2>1 DEF Loaded, Half
    <3>4. ASSUME NEW w \in Writes, Begun(v, w) PROVE LateRound'
      BY <2>1, <3>2, <3>3, <3>4 DEF LateRound
    <3> QED
      BY <1>14, <3>1, <3>4, Begins
  <2> QED
    BY <1>1, <1>7, <1>9, <1>10, <2>1, <2>2, <2>3
<1>15. ASSUME NEW v \in Volumes, SetBits(v) PROVE RoundInv'
  <2>1. /\ UNCHANGED <<vols, ioctl, slots, ld>> /\ wr' = [wr EXCEPT ![v] = WrIdle]
        /\ hist'.late = IF ld.pc = "sent" THEN hist.late ELSE hist.late \cup Landed(v)
    BY <1>15, Sets DEF daemonVars
  <2>2. \A a \in DOMAIN areas : areas'[a].bits \subseteq areas[a].bits \cup Landed(v)
    BY <1>15, SetsAreas
  <2>3. Loaded' = Loaded
    BY <2>1 DEF Loaded, Half
  <2>4. CopyRound'
    <3>1. CASE ld.pc = "flip"
      BY <1>2, <1>6, <2>1, <2>2, <2>3, <3>1 DEF CopyRound
    <3>2. CASE ld.pc = "sent"
      BY <1>2, <1>6, <2>1, <2>2, <2>3, <3>2 DEF CopyRound, LateRound
    <3> QED
      BY <2>1, <3>1, <3>2 DEF CopyRound
  <2>5. LateRound'
    <3>1. ASSUME NEW u \in Volumes PROVE Landed(u)' \subseteq Landed(u)
      <4>1. CASE u = v
        <5>1. wr'[v] = WrIdle /\ WrIdle.area = 0
          BY <2>1 DEF WrIdle, TypeOK
        <5> QED
          BY <4>1, <5>1 DEF Landed
      <4>2. CASE u # v
        <5>1. wr'[u] = wr[u]
          BY <2>1, <4>2 DEF TypeOK
        <5> QED
          BY <5>1, LandedSame
      <4> QED
        BY <4>1, <4>2
    <3> QED
      BY <1>2, <2>1, <2>3, <3>1 DEF LateRound
  <2> QED
    BY <1>1, <1>7, <1>9, <2>1, <2>4, <2>5
<1>16. ASSUME NEW v \in Volumes, RemoveDevice(v) PROVE RoundInv'
  <2>1. /\ UNCHANGED <<areas, wr, ioctl, slots, ld>> /\ vols'[v] = Added
        /\ \A u \in Volumes : u # v => vols'[u] = vols[u]
        /\ hist'.late = hist.late
    BY <1>16, Removes DEF daemonVars
  <2>2. UserRound'
    BY <1>8, <2>1, AddedType
  <2> QED
    BY <1>1, <1>7, <1>10, <1>11, <2>1, <2>2
<1>17. ASSUME NEW v \in Volumes, DeviceDestroy(v) PROVE RoundInv'
  <2>1. UNCHANGED <<vols, wr, ioctl, slots, ld>> /\ hist'.late = hist.late
    BY <1>17, Destroys DEF daemonVars
  <2>2. \A a \in DOMAIN areas : areas'[a].bits = areas[a].bits
    BY <1>17, DestroysAreas
  <2> QED
    BY <1>1, <1>7, <1>9, <1>10, <1>11, <2>1, <2>2
<1>18. ASSUME NEW v \in Volumes, NEW s \in Sizes, CreateParse(v, s) PROVE RoundInv'
  <2>1. /\ UNCHANGED <<vols, areas, wr, slots, ld>> /\ hist'.late = hist.late
        /\ Loading => "overlap" \in hist'.events
    BY <1>18, Parses DEF kernelVars
  <2>2. DiskRound'
    BY <1>4, <2>1 DEF DiskRound, Loading
  <2> QED
    BY <1>1, <1>9, <1>10, <1>11, <2>1, <2>2
<1>19. CASE CreateIoctl \/ (CreateRemap \/ CreateRemapFails)
  <2>1. UNCHANGED <<areas, wr, ioctl, slots, ld, hist>>
    BY <1>19, Requests, CreateRemaps
  <2>2. \A u \in Volumes : vols'[u].area = vols[u].area /\ vols'[u].user = vols[u].user
    BY <1>19, Requests, CreateRemaps
  <2> QED
    BY <1>1, <1>7, <1>8, <1>10, <1>11, <2>1, <2>2
<1>20. CASE CreateMap \/ CreateMapFails
  <2>1. /\ UNCHANGED <<wr, ioctl, slots, ld>> /\ ct.vol \in Volumes
        /\ vols'[ct.vol].area = Len(areas) + 1
        /\ \A u \in Volumes : u # ct.vol => vols'[u] = vols[u]
        /\ \A a \in DOMAIN areas : areas'[a] = areas[a]
    BY <1>20, CreateMaps DEF Mapped
  <2>2. hist'.late = hist.late
    BY <1>20, CreateMaps, Recalled DEF Events
  <2>3. UserRound'
    BY <1>8, <2>1
  <2> QED
    BY <1>1, <1>7, <1>10, <1>11, <2>1, <2>2, <2>3
<1>21. CASE DiskSourceCreate
  <2>1. /\ UNCHANGED <<vols, areas, wr, ioctl, ld, hist>>
        /\ \A i \in DOMAIN slots : slots'[i] = slots[i]
    BY <1>21, DiskSources DEF kernelVars
  <2>2. CASE ld.pc = "idle"
    BY <1>12, <2>1, <2>2
  <2>3. CASE ld.pc # "idle"
    <3>1. slots'[1] = slots[1]
      BY <1>5, <2>1, <2>3, FirstSlot
    <3>2. Loaded' = Loaded
      BY <2>1, <3>1 DEF Loaded, Half
    <3>3. \A v \in Volumes : Landed(v)' = Landed(v)
      BY <2>1, LandedSame
    <3>4. DiskRound' /\ UserRound'
      BY <1>2, <2>1, <3>1 DEF DiskRound, UserRound, OfSlot, Loading
    <3>5. CopyRound' /\ LateRound'
      BY <1>2, <2>1, <3>1, <3>2, <3>3 DEF CopyRound, LateRound
    <3> QED
      BY <1>1, <3>4, <3>5
  <2> QED
    BY <2>2, <2>3
<1>22. CASE LoadStart
  <2>1. CASE ~Exit
    <3>1. UNCHANGED slots /\ ioctl'.disk = slots[1].vol /\ ld'.pc = "getuser"
      BY <1>22, <2>1, Starts
    <3> QED
      BY <1>1, <3>1 DEF DiskRound, UserRound, CopyRound, LateRound
  <2> QED
    BY <1>13, <2>1
<1>23. CASE GetUser
  <2>1. /\ UNCHANGED <<vols, ioctl, slots>> /\ ld.pc = "getuser" /\ ld'.pc = "copy"
        /\ vols[ioctl.disk].user \in {ld'.user, "garbage"}
    BY <1>23, Asks DEF kernelVars
  <2>2. ioctl.disk = slots[1].vol /\ slots[1].vol \in Volumes
    BY <1>2, <1>5, <2>1 DEF DiskRound, Loading
  <2>3. slots[1].area # 0 /\ OfSlot => vols[slots[1].vol].user \in Users
    BY <2>2 DEF SizeInv, OfSlot
  <2>4. UserRound'
    BY <2>1, <2>2, <2>3 DEF UserRound, OfSlot, Users
  <2> QED
    BY <1>1, <2>1, <2>2, <2>4 DEF DiskRound, CopyRound, LateRound
<1>24. CASE CopyHalf
  <2>1. CASE ~Exit
    <3>1. /\ UNCHANGED <<vols, areas, ioctl, slots>> /\ ld.pc = "copy"
          /\ ld'.pc \in {"flip", "recopy"} /\ slots[1].area # 0
          /\ ld'.user = IF ld.user = "kernel" THEN "user" ELSE "kernel"
          /\ Half(ld.user) \cap areas[slots[1].area].bits \subseteq ld'.copy
      BY <1>24, <2>1, CopiesHalf DEF kernelVars
    <3>2. ld.user \in {"kernel", "user"}
      BY DEF TypeOK, Loads, Users
    <3>3. Loaded' = Half(ld.user)
      BY <3>1, <3>2 DEF Loaded, Half
    <3>4. CopyRound'
      BY <3>1, <3>3 DEF CopyRound
    <3>5. UserRound'
      BY <1>2, <3>1, <3>2 DEF UserRound, OfSlot
    <3>6. DiskRound' /\ LateRound'
      BY <1>2, <3>1 DEF DiskRound, LateRound, Loading
    <3> QED
      BY <1>1, <3>4, <3>5, <3>6
  <2> QED
    BY <1>13, <2>1
<1>25. CASE Flip
  <2>1. /\ UNCHANGED <<areas, wr, ioctl, slots>> /\ ld.pc = "flip" /\ ld'.pc = "sent"
        /\ ld'.user = ld.user /\ ld'.copy = ld.copy
        /\ ioctl.disk \in Volumes /\ FlipArea(ioctl.disk)
        /\ hist'.late = hist.late \cup UNION {Landed(v) : v \in Volumes}
    BY <1>25, FlipsHalf
  <2>2. Loaded' = Loaded
    BY <2>1 DEF Loaded, Half
  <2>3. CopyRound'
    BY <1>2, <2>1, <2>2 DEF CopyRound
  <2>4. LateRound'
    <3>1. \A v \in Volumes : Landed(v)' = Landed(v) /\ Landed(v) \subseteq hist'.late
      BY <2>1, LandedSame
    <3> QED
      BY <3>1 DEF LateRound
  <2>5. UserRound'
    <3>1. ioctl.disk = slots[1].vol
      BY <1>2, <2>1 DEF DiskRound, Loading
    <3>2. slots[1].area # 0 /\ slots[1].vol \in Volumes
      BY <1>5, <1>6, <2>1
    <3>3. OfSlot' => OfSlot
      BY <2>1, <3>1, Flips DEF OfSlot
    <3>4. OfSlot => /\ vols[slots[1].vol].user \in Users
                    /\ ld.user # vols[slots[1].vol].user
      BY <1>2, <2>1, <3>2 DEF OfSlot, SizeInv, UserRound
    <3>5. ld.user \in {"kernel", "user"}
      BY DEF TypeOK, Loads, Users
    <3>6. OfSlot => ld.user = vols'[slots[1].vol].user
      BY <2>1, <3>1, <3>4, <3>5, Flips DEF Users
    <3> QED
      BY <2>1, <3>3, <3>6 DEF UserRound
  <2>6. DiskRound'
    BY <2>1 DEF DiskRound, Loading
  <2> QED
    BY <1>1, <2>3, <2>4, <2>5, <2>6
<1>26. CASE Recopy
  <2>1. "unflipped" \in hist'.events
    BY <1>26, Recopies, Recalled DEF Events
  <2> QED
    BY <1>4, <2>1
<1>27. CASE Terminate
  <2>1. ld'.pc = "idle"
    BY <1>27, Terminates DEF LdIdle
  <2> QED
    BY <1>12, <2>1
<1>28. CASE Crash
  BY <1>13, <1>28 DEF Crash
<1>29. CASE Reconnect \/ Restart \/ UNCHANGED vars
  <2>1. UNCHANGED <<vols, areas, wr, ioctl, slots, ld, hist>>
    BY <1>29 DEF Reconnect, Restart, vars, kernelVars
  <2> QED
    BY <1>1, <1>7, <1>9, <1>10, <1>11, <2>1
<1> QED
  BY <1>14, <1>15, <1>16, <1>17, <1>18, <1>19, <1>20, <1>21, <1>22, <1>23, <1>24, <1>25,
     <1>26, <1>27, <1>28, <1>29, Actions

-----------------------------------------------------------------------------
(* The invariant and what follows from it.                                 *)

\* Nothing that ends a round is lost in a clean step.
LEMMA LostStep ==
  ASSUME TypeOK, PlaceInv, RoundInv, hist.lost = {}, [Next]_vars
  PROVE  hist'.lost = {}
<1>1. hist'.lost = hist.lost => hist'.lost = {}
  OBVIOUS
<1>2. CASE Terminate
  <2>1. /\ ld.pc = "sent"
        /\ hist'.lost = hist.lost \cup (((areas[slots[1].area].bits \cap Loaded) \ ld.copy)
                                          \ hist.late)
    BY <1>2, Terminates
  <2>2. areas[slots[1].area].bits \cap Loaded \subseteq ld.copy \cup hist.late
    BY <2>1 DEF RoundInv
  <2> QED
    BY <2>1, <2>2
<1>3. ASSUME NEW v \in Volumes, WriteBegin(v) \/ RemoveDevice(v) PROVE hist'.lost = hist.lost
  BY <1>3, Begins, Removes DEF Begun
<1>4. ASSUME NEW v \in Volumes, SetBits(v) \/ DeviceDestroy(v) PROVE hist'.lost = hist.lost
  BY <1>4, Sets, Destroys
<1>5. ASSUME NEW v \in Volumes, NEW s \in Sizes, CreateParse(v, s)
      PROVE  hist'.lost = hist.lost
  BY <1>5, Parses
<1>6. CreateIoctl \/ (CreateRemap \/ CreateRemapFails) \/ DiskSourceCreate =>
        hist'.lost = hist.lost
  BY DEF CreateIoctl, CreateRemap, CreateRemapFails, DiskSourceCreate
<1>7. ASSUME NEW E \in SUBSET Events, Recall(E) PROVE hist'.lost = hist.lost
  BY <1>7, Recalled
<1>8. /\ {"mapfail"} \in SUBSET Events /\ {"unflipped"} \in SUBSET Events
      /\ (IF ct.pc # "idle" THEN {"overlap"} ELSE {}) \in SUBSET Events
  BY DEF Events
<1>9. (CreateMap \/ CreateMapFails) \/ Recopy => hist'.lost = hist.lost
  BY <1>7, <1>8, CreateMaps, Recopies
<1>10. LoadStart => hist'.lost = hist.lost
  BY <1>7, <1>8, Starts
<1>11. CopyHalf \/ Flip => hist'.lost = hist.lost
  BY CopiesHalf, FlipsHalf
<1>12. GetUser \/ Reconnect \/ Crash \/ Restart \/ UNCHANGED vars => hist'.lost = hist.lost
  BY DEF GetUser, Reconnect, Crash, Restart, vars
<1> QED
  BY <1>1, <1>2, <1>3, <1>4, <1>5, <1>6, <1>9, <1>10, <1>11, <1>12, Actions

\* A machine that has just started.
LEMMA FilterInit == Init => FilterInv
<1> SUFFICES ASSUME Init PROVE FilterInv
  OBVIOUS
<1>1. /\ vols = [v \in Volumes |-> Added] /\ areas = <<>> /\ slots = <<>>
      /\ wr = [v \in Volumes |-> WrIdle] /\ daemon = "up" /\ ioctl = NoIoctl
      /\ ct = CtIdle /\ ld = LdIdle /\ recovery = FALSE /\ resume = FALSE
  BY DEF Init
<1>2. count \in Counts
  BY DEF Init, Counts
<1>3. /\ hist \in Hists /\ hist.events = {} /\ hist.lost = {} /\ hist.bad = {}
  BY DEF Init, Hists, BitSets
<1>4. WrIdle \in Writes /\ WrIdle.area = 0 /\ WrIdle.last = 0
  BY DEF WrIdle, Writes
<1>5. /\ ct.pc = "idle" /\ ct.area = 0 /\ ld.pc = "idle" /\ ct \in Creates /\ ld \in Loads
      /\ ioctl \in Ioctls
  BY <1>1 DEF CtIdle, LdIdle, NoIoctl, Creates, Loads, Ioctls, Users, BitSets
<1>6. /\ areas \in Seq(Areas) /\ Len(areas) = 0 /\ DOMAIN areas = {}
      /\ slots \in Seq(Disks) /\ DOMAIN slots = {}
  BY <1>1
<1>7. \A v \in Volumes : vols[v] = Added /\ wr[v] = WrIdle
  BY <1>1
<1>8. TypeOK
  <2>1. vols \in [Volumes -> VolInfos] /\ wr \in [Volumes -> Writes]
    BY <1>1, <1>4, AddedType
  <2> QED
    BY <1>1, <1>2, <1>3, <1>5, <1>6, <2>1 DEF TypeOK, Counts, Hists, Ioctls
<1>9. PlaceInv
  BY <1>4, <1>5, <1>6, <1>7, AddedType DEF PlaceInv, Loading
<1>10. OwnInv /\ LiveInv
  BY <1>5, <1>6, <1>7, AddedType DEF OwnInv, LiveInv
<1>11. HalfInv
  BY <1>4, <1>5, <1>7, AddedType, WFAssumption DEF HalfInv
<1>12. MarksInside
  BY <1>3 DEF MarksInside
<1>13. SizeInv
  BY <1>5, <1>6, <1>7, AddedType DEF SizeInv
<1>14. RoundInv
  BY <1>5 DEF RoundInv, Loading
<1> QED
  BY <1>3, <1>8, <1>9, <1>10, <1>11, <1>12, <1>13, <1>14 DEF FilterInv, CleanInv

\* Every step keeps the invariant.
LEMMA FilterStep == FilterInv /\ [Next]_vars => FilterInv'
<1> SUFFICES ASSUME FilterInv, [Next]_vars PROVE FilterInv'
  OBVIOUS
<1>1. /\ TypeOK /\ PlaceInv /\ OwnInv /\ LiveInv /\ HalfInv /\ MarksInside
      /\ Clean => SizeInv /\ RoundInv /\ hist.lost = {}
  BY DEF FilterInv, CleanInv
<1>2. TypeOK' /\ PlaceInv' /\ OwnInv' /\ LiveInv' /\ HalfInv' /\ MarksInside'
  BY <1>1, TypeStep, PlaceStep, OwnStep, LiveStep, HalfStep, MarksStep
<1>3. ASSUME Clean' PROVE SizeInv' /\ RoundInv' /\ hist'.lost = {}
  <2>1. Clean
    BY <1>1, <1>3, CleanBack
  <2>2. SizeInv /\ RoundInv /\ hist.lost = {}
    BY <1>1, <2>1
  <2> QED
    BY <1>1, <1>3, <2>2, SizeStep, RoundStep, LostStep
<1> QED
  BY <1>2, <1>3 DEF FilterInv, CleanInv

\* Throughout writes, --create commands, loads, rounds, failures and restarts the
\* filter, its areas and the daemon stay related as FilterInv says.
THEOREM FilterInvariant == Spec => []FilterInv
<1>1. Init => FilterInv
  BY FilterInit
<1>2. FilterInv /\ [Next]_vars => FilterInv'
  BY FilterStep
<1> QED
  BY <1>1, <1>2, PTL DEF Spec

\* The area mapped for a disk object is one the filter allocated for the volume of
\* that name and has not freed, for any number of volumes, --create commands and
\* restarts, with the exceptions SlotOwnsArea names (prepare_and_send_ioctl_cmd,
\* disk_source_create, MapBufferForUserModeUse).
THEOREM AreasAreOwned == Spec => []SlotOwnsArea
<1>1. FilterInv => SlotOwnsArea
  <2> SUFFICES ASSUME FilterInv, NEW i \in DOMAIN slots, slots[i].area # 0
               PROVE  /\ areas[slots[i].area].vol = slots[i].vol \/ "overlap" \in hist.events
                      /\ \/ areas[slots[i].area].live
                         \/ hist.events \cap {"mapfail", "destroyed"} # {}
    BY DEF SlotOwnsArea
  <2>1. TypeOK /\ PlaceInv /\ OwnInv /\ LiveInv
    BY DEF FilterInv
  <2>2. slots[i].area \in DOMAIN areas
    BY <2>1, Parts, AreaNumber DEF PlaceInv, Disks
  <2> QED
    BY <2>1, <2>2 DEF OwnInv, LiveInv, Happened
<1> QED
  BY <1>1, FilterInvariant, PTL

\* The filter sets no bit outside an area, and none in a freed one, except where
\* MarksInside says so: for every disk, bitmap size and clamp (atdr_find_pos,
\* atdr_set_bits).
THEOREM MarksStayInside == Spec => []MarksInside
<1>1. FilterInv => MarksInside
  BY DEF FilterInv
<1> QED
  BY <1>1, FilterInvariant, PTL

\* For any number of writes, volumes, loads and faults, ending a round erases no
\* mark the client was not sent and that was set after the flip, unless one of the
\* events LostOnlyIfRaced names is on record (bitmap_server_destroy,
\* ATDR_FLIP_BITMAP_AREA).
THEOREM RoundsLoseNothing == Spec => []LostOnlyIfRaced
<1>1. FilterInv => LostOnlyIfRaced
  <2> SUFFICES ASSUME FilterInv, hist.lost # {},
                      hist.events \cap {"unflipped", "resized", "oversized", "overlap",
                                        "mapfail"} = {}
               PROVE  \E a \in DOMAIN areas : areas[a].half <= DiskBits
    BY DEF LostOnlyIfRaced
  <2>1. TypeOK /\ ~Clean
    BY DEF FilterInv, CleanInv
  <2>2. PICK a \in DOMAIN areas : ~(areas[a].half > DiskBits)
    BY <2>1 DEF Clean, Happened
  <2>3. areas[a].half \in Nat /\ DiskBits \in Nat
    BY <2>1, Parts, WFAssumption DEF Areas
  <2> QED
    BY <2>2, <2>3
<1> QED
  BY <1>1, FilterInvariant, PTL

\* No step but the end of a round removes a mark from an area (atdr_set_bits,
\* MapBufferForUserModeUse, bitmap_server_destroy).
THEOREM MarksStay == Spec => ClearedOnlyAtEnd
<1>1. ASSUME FilterInv, [Next]_vars
      PROVE  \A a \in DOMAIN areas :
               areas[a].bits \subseteq areas'[a].bits \/ (ld.pc = "sent" /\ ld'.pc = "idle")
  <2> DEFINE Kept == \A a \in DOMAIN areas :
                       \/ areas[a].bits \subseteq areas'[a].bits
                       \/ ld.pc = "sent" /\ ld'.pc = "idle"
  <2> SUFFICES Kept
    OBVIOUS
  <2>1. TypeOK /\ PlaceInv
    BY <1>1 DEF FilterInv
  <2>2. UNCHANGED areas => Kept
    OBVIOUS
  <2>3. ASSUME NEW v \in Volumes, SetBits(v) PROVE Kept
    BY <2>1, <2>3, SetsAreas
  <2>4. ASSUME NEW v \in Volumes, DeviceDestroy(v) PROVE Kept
    BY <2>1, <2>4, DestroysAreas
  <2>5. CASE CreateMap \/ CreateMapFails
    <3>1. \A a \in DOMAIN areas : areas'[a] = areas[a]
      BY <2>1, <2>5, CreateMaps DEF Mapped
    <3> QED
      BY <3>1
  <2>6. CASE Terminate
    BY <2>1, <2>6, Terminates DEF LdIdle
  <2>7. ASSUME NEW v \in Volumes, WriteBegin(v) \/ RemoveDevice(v) PROVE UNCHANGED areas
    BY <2>1, <2>7, Begins, Removes
  <2>8. ASSUME NEW v \in Volumes, NEW s \in Sizes, CreateParse(v, s) PROVE UNCHANGED areas
    BY <2>8 DEF CreateParse, kernelVars
  <2>9. CreateIoctl \/ (CreateRemap \/ CreateRemapFails) \/ DiskSourceCreate =>
          UNCHANGED areas
    BY DEF CreateIoctl, CreateRemap, CreateRemapFails, DiskSourceCreate, kernelVars
  <2>10. LoadStart \/ GetUser \/ CopyHalf \/ Flip \/ Recopy => UNCHANGED areas
    BY DEF LoadStart, GetUser, CopyHalf, Flip, Recopy, kernelVars
  <2>11. Reconnect \/ Crash \/ Restart \/ UNCHANGED vars => UNCHANGED areas
    BY DEF Reconnect, Crash, Restart, vars, kernelVars
  <2> HIDE DEF Kept
  <2> QED
    BY <2>2, <2>3, <2>4, <2>5, <2>6, <2>7, <2>8, <2>9, <2>10, <2>11, <1>1, Actions
<1>2. FilterInv /\ [Next]_vars =>
        [\A a \in DOMAIN areas :
           areas[a].bits \subseteq areas'[a].bits \/ (ld.pc = "sent" /\ ld'.pc = "idle")]_vars
  BY <1>1
<1> QED
  BY <1>2, FilterInvariant, PTL DEF Spec, ClearedOnlyAtEnd

-----------------------------------------------------------------------------
(* The Windows server: connections, headers and streams.                   *)

\* The number of connection entries and of partners.
LEMMA Numbers ==
  /\ MaxPid \in Nat /\ MaxConns \in Nat /\ MaxRows \in Nat /\ Pids \subseteq Slots
  /\ 0 \in Pids /\ 0 \in Slots /\ Conns \subseteq Nat /\ 0 \notin Conns
  /\ 0 \in 0..MaxConns /\ Conns \subseteq 0..MaxConns
  /\ \A s \in 0..MaxConns : s = 0 \/ s \in Conns
  BY WSAssumption DEF Pids, Slots, Conns

\* The empty header, thread and connection.
LEMMA Blank ==
  /\ NoHdr \in Hdr /\ NoHdr.op = "none" /\ NoHdr.pid = 0
  /\ NoThread \in Thread /\ NoThread.pc = "none" /\ NoThread.sock = 0 /\ NoThread.hdr = NoHdr
  /\ NoConn \in Client /\ NoConn.inq = <<>> /\ NoConn.out = <<>> /\ NoConn.want = NoHdr
  /\ NoConn.st = "none"
<1>1. NoHdr \in Hdr /\ NoHdr.op = "none" /\ NoHdr.pid = 0
  BY Numbers DEF NoHdr, Hdr
<1>2. <<>> \in Seq(Hdr)
  OBVIOUS
<1> QED BY <1>1, <1>2, Numbers DEF NoThread, Thread, NoConn, Client

\* What a step finds: the types, one by one.
LEMMA ServerTyped ==
  ASSUME ServerTypeOK
  PROVE  /\ \A c \in Conns : /\ cl[c] \in Client /\ cl[c].pid \in Pids /\ cl[c].want \in Hdr
                             /\ cl[c].inq \in Seq(Hdr) /\ cl[c].out \in Seq(Hdr)
                             /\ cl[c].pid \in Slots
         /\ \A t \in Conns : /\ thr[t] \in Thread /\ thr[t].hdr \in Hdr
                             /\ thr[t].sock \in 0..MaxConns /\ thr[t].hdr.pid \in Pids
                             /\ thr[t].hdr.pid \in Slots
         /\ \A p \in Slots : conn[p].fd \in 0..MaxConns
  BY Numbers DEF ServerTypeOK, Client, Thread, Hdr

\* A thread goes to another place in the code.
Goes(t, pc) == thr' = [thr EXCEPT ![t].pc = pc]
\* Only the place of that one thread changes.
LEMMA ThreadGoes ==
  ASSUME ServerTypeOK, NEW t \in Conns, NEW pc, Goes(t, pc),
         pc \in Answering \cup {"none", "new", "recv", "pause", "sleep", "done"}
  PROVE  /\ thr' \in [Conns -> Thread] /\ thr'[t].pc = pc /\ thr'[t].sock = thr[t].sock
         /\ thr'[t].hdr = thr[t].hdr
         /\ \A d \in Conns : d # t => thr'[d] = thr[d]
  BY ZenonT(60) DEF ServerTypeOK, Thread, Goes

\* closesocket takes one connection at most from the clients.
LEMMA ClosedDoes ==
  ASSUME ServerTypeOK, NEW s
  PROVE  /\ Closed(s) \in [Conns -> Client]
         /\ \A c \in Conns :
              /\ Closed(s)[c].pid = cl[c].pid /\ Closed(s)[c].stage = cl[c].stage
              /\ \/ Closed(s)[c] = cl[c]
                 \/ /\ cl[c].st # "none" /\ Closed(s)[c].st = "shut"
                    /\ Closed(s)[c].want = NoHdr
                    /\ Closed(s)[c].inq = <<>> /\ Closed(s)[c].out = <<>>
<1>1. CASE s \in Conns /\ cl[s].st \in {"open", "fin"}
  <2> DEFINE r == [cl[s] EXCEPT !.st = "shut", !.want = NoHdr, !.inq = <<>>, !.out = <<>>]
  <2>1. cl[s] \in Client /\ <<>> \in Seq(Hdr)
    BY <1>1, ServerTyped
  <2>2. /\ r \in Client /\ r.pid = cl[s].pid /\ r.stage = cl[s].stage /\ r.st = "shut"
        /\ r.want = NoHdr /\ r.inq = <<>> /\ r.out = <<>>
    BY <2>1, Blank DEF Client
  <2>3. Closed(s) = [cl EXCEPT ![s] = r]
    BY <1>1 DEF Closed
  <2> HIDE DEF r
  <2>4. cl \in [Conns -> Client]
    BY DEF ServerTypeOK
  <2> QED BY <1>1, <2>2, <2>3, <2>4
<1>2. CASE ~(s \in Conns /\ cl[s].st \in {"open", "fin"})
  BY <1>2 DEF Closed, ServerTypeOK
<1> QED BY <1>1, <1>2

\* send: one answer more at one open connection.
LEMMA DeliversDoes ==
  ASSUME ServerTypeOK, NEW s, NEW h \in Hdr, NEW what \in Ops \cup {"none", "zeros"},
         Delivers(s, h, what)
  PROVE  /\ s \in Conns /\ cl[s].st = "open" /\ cl' \in [Conns -> Client]
         /\ \E a \in Hdr : (what = h.op => a = h) /\ cl'[s].out = Append(cl[s].out, a)
         /\ cl'[s].pid = cl[s].pid /\ cl'[s].st = cl[s].st /\ cl'[s].stage = cl[s].stage
         /\ cl'[s].want = cl[s].want /\ cl'[s].inq = cl[s].inq
         /\ \A c \in Conns : c # s => cl'[c] = cl[c]
<1> DEFINE a == [h EXCEPT !.op = what]
           o == Append(cl[s].out, a)
<1>1. /\ s \in Conns /\ cl[s].st = "open" /\ cl' = [cl EXCEPT ![s].out = o]
  BY DEF Delivers
<1>2. a \in Hdr /\ (what = h.op => a = h)
  BY DEF Hdr
<1>3. o \in Seq(Hdr)
  <2> HIDE DEF a
  <2> QED BY <1>1, <1>2, ServerTyped
<1> HIDE DEF o, a
<1>4. cl[s] \in Client /\ cl \in [Conns -> Client]
  BY <1>1 DEF ServerTypeOK
<1>5. cl' = [cl EXCEPT ![s] = [cl[s] EXCEPT !.out = o]]
  BY <1>1, <1>4
<1>6. /\ [cl[s] EXCEPT !.out = o] \in Client
      /\ [cl[s] EXCEPT !.out = o].out = o
      /\ [cl[s] EXCEPT !.out = o].pid = cl[s].pid /\ [cl[s] EXCEPT !.out = o].st = cl[s].st
      /\ [cl[s] EXCEPT !.out = o].stage = cl[s].stage
      /\ [cl[s] EXCEPT !.out = o].want = cl[s].want
      /\ [cl[s] EXCEPT !.out = o].inq = cl[s].inq
  BY <1>3, <1>4 DEF Client
<1>7. cl' \in [Conns -> Client] /\ cl'[s] = [cl[s] EXCEPT !.out = o]
      /\ \A c \in Conns : c # s => cl'[c] = cl[c]
  BY <1>1, <1>4, <1>5, <1>6
<1>8. /\ cl'[s].out = o /\ cl'[s].pid = cl[s].pid /\ cl'[s].st = cl[s].st
      /\ cl'[s].stage = cl[s].stage /\ cl'[s].want = cl[s].want /\ cl'[s].inq = cl[s].inq
  BY <1>6, <1>7
<1> QED BY <1>1, <1>2, <1>7, <1>8 DEF o

\* Rows are added and changed, never taken out.
LEMMA StateSet ==
  ASSUME ServerTypeOK, NEW p \in Pids, NEW s \in {"inuse", "released"}
  PROVE  /\ SetState(p, s) \in Seq(PartnerRow)
         /\ DOMAIN SetState(p, s) = DOMAIN db
         /\ \A i \in DOMAIN db : SetState(p, s)[i].pid = db[i].pid
<1> DEFINE new == SetState(p, s)
<1>1. db \in Seq(PartnerRow) /\ Len(db) \in Nat /\ DOMAIN db = 1 .. Len(db)
  BY DEF ServerTypeOK
<1>2. \A i \in DOMAIN db : db[i] \in PartnerRow
  BY <1>1
<1>3. DOMAIN new = DOMAIN db /\ new = [i \in DOMAIN db |-> new[i]]
  BY DEF SetState
<1>4. \A i \in DOMAIN db : new[i] \in PartnerRow /\ new[i].pid = db[i].pid
  BY <1>2 DEF SetState, PartnerRow
<1>5. new \in [1 .. Len(db) -> PartnerRow]
  <2> HIDE DEF new
  <2> QED BY <1>1, <1>3, <1>4
<1>6. new \in Seq(PartnerRow)
  <2> HIDE DEF new
  <2> QED BY <1>1, <1>5, SeqDef
<1> QED BY <1>3, <1>4, <1>6

\* A new partner keeps the rows there were, and has one.
LEMMA RowAdded ==
  ASSUME ServerTypeOK, NEW p \in Pids
  PROVE  /\ Inserted(p) \in Seq(PartnerRow)
         /\ \A i \in DOMAIN db : i \in DOMAIN Inserted(p) /\ Inserted(p)[i].pid = db[i].pid
         /\ \E i \in DOMAIN Inserted(p) : Inserted(p)[i].pid = p
         /\ \A i \in DOMAIN Inserted(p) : i \in DOMAIN db \/ Inserted(p)[i].pid = p
<1> DEFINE row == [pid |-> p, state |-> "inuse"]
<1>1. db \in Seq(PartnerRow) /\ row \in PartnerRow /\ row.pid = p
  BY DEF ServerTypeOK, PartnerRow
<1>2. Inserted(p) = Append(db, row)
  BY DEF Inserted
<1> HIDE DEF row
<1>3. /\ Append(db, row) \in Seq(PartnerRow) /\ DOMAIN Append(db, row) = 1 .. (Len(db) + 1)
      /\ Append(db, row)[Len(db) + 1] = row
      /\ \A i \in 1 .. Len(db) : Append(db, row)[i] = db[i]
      /\ DOMAIN db = 1 .. Len(db) /\ Len(db) \in Nat
  BY <1>1, AppendProperties
<1>4. \A i \in 1 .. (Len(db) + 1) : i = Len(db) + 1 \/ i \in 1 .. Len(db)
  BY <1>3
<1>5. (Len(db) + 1) \in DOMAIN Append(db, row)
  BY <1>3
<1>6. \A i \in DOMAIN db : i \in DOMAIN Append(db, row)
  BY <1>3
<1> QED BY <1>1, <1>2, <1>3, <1>4, <1>5, <1>6

-----------------------------------------------------------------------------
(* What each action does.                                                  *)

\* retrieve_from_partner leaves the sockets alone.
LEMMA RereadDoes ==
  ASSUME ServerTypeOK
  PROVE  /\ Reread = [p \in Slots |-> Reread[p]]
         /\ \A p \in Slots : /\ DOMAIN Reread[p] = {"id", "state", "sock"}
                             /\ Reread[p].sock = partner[p].sock
<1>1. \A p \in Slots : DOMAIN partner[p] = {"id", "state", "sock"}
  BY DEF ServerTypeOK
<1>2. Reread = [p \in Slots |-> Reread[p]]
  BY DEF Reread
<1>3. ASSUME NEW p \in Slots
      PROVE  DOMAIN Reread[p] = {"id", "state", "sock"} /\ Reread[p].sock = partner[p].sock
  <2>1. CASE p < Len(InUse)
    <3>1. Reread[p] = [id |-> InUse[p + 1].pid, state |-> InUse[p + 1].state,
                       sock |-> partner[p].sock]
      BY <2>1 DEF Reread
    <3> QED BY <3>1
  <2>2. CASE ~(p < Len(InUse))
    <3>1. Reread[p] = partner[p]
      BY <2>2 DEF Reread
    <3> QED BY <1>1, <3>1
  <2> QED BY <2>1, <2>2
<1> QED BY <1>2, <1>3

\* The accept loop gives the socket to one partner.
LEMMA GiveSocketDoes ==
  ASSUME ServerTypeOK, NEW p \in Slots, NEW c \in Conns, GiveSocket(p, c, Reread)
  PROVE  /\ partner' = [q \in Slots |-> partner'[q]]
         /\ \A q \in Slots : /\ DOMAIN partner'[q] = {"id", "state", "sock"}
                             /\ partner'[q].sock = IF q = p THEN c ELSE partner[q].sock
                             /\ conn'[q].fd = IF q = p THEN c ELSE conn[q].fd
         /\ conn' \in [Slots -> [fd : 0..MaxConns, state : {"inuse", "pause", "resume"}]]
         /\ created' = created /\ lost' \subseteq Slots /\ total' \in Nat
<1> DEFINE tab == Reread
           st == IF p \in lost /\ conn[p].state = "pause" THEN tab[p].state ELSE "recovery"
           cs == IF p \in lost /\ conn[p].state = "pause" THEN "resume" ELSE "inuse"
<1>1. /\ tab = [q \in Slots |-> tab[q]]
      /\ \A q \in Slots : /\ DOMAIN tab[q] = {"id", "state", "sock"}
                          /\ tab[q].sock = partner[q].sock
  BY RereadDoes
<1>2. /\ partner' = [tab EXCEPT ![p].sock = c, ![p].state = st]
      /\ conn' = [conn EXCEPT ![p] = [fd |-> c, state |-> cs]]
      /\ created' = created /\ lost' \subseteq lost /\ total' = total + 1
  BY <1>1 DEF GiveSocket
<1> HIDE DEF tab, st
<1>3. partner' = [tab EXCEPT ![p] = [[tab[p] EXCEPT !.sock = c] EXCEPT !.state = st]]
  BY <1>1, <1>2
<1>4. /\ partner'[p] = [[tab[p] EXCEPT !.sock = c] EXCEPT !.state = st]
      /\ \A q \in Slots : q # p => partner'[q] = tab[q]
      /\ partner' = [q \in Slots |-> partner'[q]]
  BY <1>1, <1>3
<1>5. DOMAIN partner'[p] = {"id", "state", "sock"} /\ partner'[p].sock = c
  BY <1>1, <1>4
<1>6. cs \in {"inuse", "pause", "resume"}
  OBVIOUS
<1> HIDE DEF cs
<1>7. conn \in [Slots -> [fd : 0..MaxConns, state : {"inuse", "pause", "resume"}]]
  BY DEF ServerTypeOK
<1>8. /\ conn' \in [Slots -> [fd : 0..MaxConns, state : {"inuse", "pause", "resume"}]]
      /\ \A q \in Slots : conn'[q].fd = IF q = p THEN c ELSE conn[q].fd
  BY <1>2, <1>6, <1>7, Numbers
<1>9. lost' \subseteq Slots /\ total' \in Nat
  BY <1>2 DEF ServerTypeOK
<1> QED BY <1>1, <1>2, <1>4, <1>5, <1>8, <1>9

\* A connection is accepted: one partner at most gets its socket, and a wrong
\* one is noted as given.
LEMMA AcceptDoes ==
  ASSUME ServerTypeOK, NEW c \in Conns, NEW p \in Pids, NEW stage, Accept(c, p, stage)
  PROVE  /\ ServerTypeOK'
         /\ cl[c].st = "none" /\ cl'[c].pid = p /\ cl'[c].st = "open" /\ cl'[c].stage = stage
         /\ cl'[c].inq = <<>> /\ cl'[c].out = <<>> /\ cl'[c].want = NoHdr
         /\ \A d \in Conns : d # c => cl'[d] = cl[d] /\ thr'[d] = thr[d]
         /\ thr'[c].pc = "new" /\ thr'[c].sock = 0 /\ thr'[c].hdr = NoHdr
         /\ newest' = c /\ entry' \in {c, entry} /\ db' = db /\ rep' = rep
         /\ \E s \in Slots : \A q \in Slots :
              \/ /\ q = s /\ conn'[q].fd = c /\ partner'[q].sock = c
                 /\ q = p \/ "given" \in ev'
              \/ conn'[q].fd = conn[q].fd /\ partner'[q].sock = partner[q].sock
         /\ ev \subseteq ev' /\ ("hurt" \in ev' => "hurt" \in ev)
         /\ "slot" \notin ev' => entry' = c /\ \A d \in Conns : thr[d].pc # "new"
         /\ "late" \notin ev' => ~Late(p)
<1> DEFINE tab == Reread
           s == Chosen(tab)
           gives == InUse # <<>> /\ s \in Slots /\ WantsSocket(s, tab)
           r == [NoConn EXCEPT !.pid = p, !.st = "open", !.stage = stage]
           n == [NoThread EXCEPT !.pc = "new"]
<1>1. /\ up /\ cl[c].st = "none" /\ stage \in {"new", "mapped"}
      /\ cl' = [cl EXCEPT ![c] = r] /\ newest' = c /\ entry' = Entry(s, c)
      /\ thr' = [thr EXCEPT ![c] = n]
      /\ UNCHANGED <<up, diskVars, recovery_mode, rep, io, db, asks, faults>>
  BY DEF Accept
<1>2. gives => GiveSocket(s, c, tab)
  BY DEF Accept
<1>3. ~gives => /\ partner' = tab /\ conn' = conn /\ lost' = lost
                /\ created' = created \/ created' = [created EXCEPT ![s] = TRUE]
                /\ total' \in {total, total + 1}
  BY DEF Accept
<1>4. ev' = ev \cup (IF s # 0 THEN {"slot"} ELSE {})
               \cup (IF \E d \in Conns : thr[d].pc = "new" THEN {"slot"} ELSE {})
               \cup (IF gives /\ s # p THEN {"given"} ELSE {})
               \cup (IF Late(p) THEN {"late"} ELSE {})
  BY DEF Accept
<1>5. /\ r \in Client /\ r.pid = p /\ r.st = "open" /\ r.stage = stage
      /\ r.inq = <<>> /\ r.out = <<>> /\ r.want = NoHdr
  BY <1>1, Blank DEF Client
<1>6. n \in Thread /\ n.pc = "new" /\ n.sock = 0 /\ n.hdr = NoHdr
  BY Blank DEF Thread
<1> HIDE DEF r, n
<1>7. cl \in [Conns -> Client] /\ thr \in [Conns -> Thread]
  BY DEF ServerTypeOK
<1>8. /\ cl' \in [Conns -> Client] /\ cl'[c] = r /\ thr' \in [Conns -> Thread] /\ thr'[c] = n
      /\ \A d \in Conns : d # c => cl'[d] = cl[d] /\ thr'[d] = thr[d]
  BY <1>1, <1>5, <1>6, <1>7
<1>9. /\ cl'[c].pid = p /\ cl'[c].st = "open" /\ cl'[c].stage = stage
      /\ cl'[c].inq = <<>> /\ cl'[c].out = <<>> /\ cl'[c].want = NoHdr
      /\ thr'[c].pc = "new" /\ thr'[c].sock = 0 /\ thr'[c].hdr = NoHdr
  BY <1>5, <1>6, <1>8
<1>10. ev \subseteq ev' /\ ("hurt" \in ev' => "hurt" \in ev) /\ ev' \subseteq ServerEvents
  <2>1. ev \subseteq ServerEvents
    BY DEF ServerTypeOK
  <2> HIDE DEF gives, s
  <2>2. ev \subseteq ev' /\ \A e \in ev' : e \in ev \/ e \in {"slot", "given", "late"}
    BY <1>4
  <2>3. {"slot", "given", "late"} \subseteq ServerEvents
    BY DEF ServerEvents
  <2> QED BY <2>1, <2>2, <2>3
<1>11. "slot" \notin ev' => entry' = c /\ \A d \in Conns : thr[d].pc # "new"
  <2> HIDE DEF gives
  <2> QED BY <1>1, <1>4 DEF Entry
<1>12. "late" \notin ev' => ~Late(p)
  <2> HIDE DEF gives, s
  <2> QED BY <1>4
<1>13. gives /\ s # p => "given" \in ev'
  <2> HIDE DEF gives, s
  <2> QED BY <1>4
<1>14. entry' \in {c, entry}
  BY <1>1 DEF Entry
<1>15. /\ partner' = [q \in Slots |-> partner'[q]]
       /\ \A q \in Slots : /\ DOMAIN partner'[q] = {"id", "state", "sock"}
                           /\ partner'[q].sock \in 0..MaxConns
       /\ conn' \in [Slots -> [fd : 0..MaxConns, state : {"inuse", "pause", "resume"}]]
       /\ created' \in [Slots -> BOOLEAN] /\ lost' \subseteq Slots /\ total' \in Nat
       /\ \E x \in Slots : \A q \in Slots :
              \/ /\ q = x /\ conn'[q].fd = c /\ partner'[q].sock = c
                 /\ q = p \/ "given" \in ev'
              \/ conn'[q].fd = conn[q].fd /\ partner'[q].sock = partner[q].sock
  <2>1. CASE gives
    <3>1. s \in Slots /\ GiveSocket(s, c, tab)
      BY <1>2, <2>1
    <3>2. s = p \/ "given" \in ev'
      BY <1>13, <2>1
    <3> HIDE DEF s, gives
    <3>3. /\ partner' = [q \in Slots |-> partner'[q]]
          /\ \A q \in Slots : /\ DOMAIN partner'[q] = {"id", "state", "sock"}
                              /\ partner'[q].sock = IF q = s THEN c ELSE partner[q].sock
                              /\ conn'[q].fd = IF q = s THEN c ELSE conn[q].fd
          /\ conn' \in [Slots -> [fd : 0..MaxConns, state : {"inuse", "pause", "resume"}]]
          /\ created' = created /\ lost' \subseteq Slots /\ total' \in Nat
      BY <3>1, GiveSocketDoes
    <3>4. \A q \in Slots : partner'[q].sock \in 0..MaxConns
      BY <3>3, Numbers DEF ServerTypeOK
    <3>5. created' \in [Slots -> BOOLEAN]
      BY <3>3 DEF ServerTypeOK
    <3>6. \A q \in Slots :
              \/ /\ q = s /\ conn'[q].fd = c /\ partner'[q].sock = c
                 /\ q = p \/ "given" \in ev'
              \/ conn'[q].fd = conn[q].fd /\ partner'[q].sock = partner[q].sock
      BY <3>2, <3>3
    <3> QED BY <3>1, <3>3, <3>4, <3>5, <3>6
  <2>2. CASE ~gives
    <3>1. /\ partner' = tab /\ conn' = conn /\ lost' = lost
          /\ created' = created \/ created' = [created EXCEPT ![s] = TRUE]
          /\ total' \in {total, total + 1}
      BY <1>3, <2>2
    <3> HIDE DEF gives, s
    <3>2. /\ partner' = [q \in Slots |-> partner'[q]]
          /\ \A q \in Slots : /\ DOMAIN partner'[q] = {"id", "state", "sock"}
                              /\ partner'[q].sock = partner[q].sock
      BY <3>1, RereadDoes
    <3>3. /\ \A q \in Slots : partner'[q].sock \in 0..MaxConns
          /\ conn' \in [Slots -> [fd : 0..MaxConns, state : {"inuse", "pause", "resume"}]]
          /\ lost' \subseteq Slots /\ total' \in Nat
      BY <3>1, <3>2 DEF ServerTypeOK
    <3>4. created' \in [Slots -> BOOLEAN]
      BY <3>1 DEF ServerTypeOK
    <3>5. \A q \in Slots : conn'[q].fd = conn[q].fd /\ partner'[q].sock = partner[q].sock
      BY <3>1, <3>2
    <3> QED BY <3>2, <3>3, <3>4, <3>5, Numbers
  <2> QED BY <2>1, <2>2
<1>16. entry' \in 0..MaxConns /\ newest' \in 0..MaxConns
  BY <1>1, <1>14, Numbers DEF ServerTypeOK
<1>17. ServerTypeOK'
  BY <1>1, <1>8, <1>10, <1>15, <1>16 DEF ServerTypeOK, diskVars
<1> QED BY <1>1, <1>8, <1>9, <1>10, <1>11, <1>12, <1>14, <1>15, <1>17

\* The steps of a thread that handles a request: it keeps its header, loses at
\* most the descriptor of a connection, adds no row, and at most one connection
\* of the clients is closed or gets one answer.
Shuts ==
  \A c \in Conns : /\ cl'[c].pid = cl[c].pid /\ cl'[c].stage = cl[c].stage
                   /\ \/ cl'[c] = cl[c]
                      \/ /\ cl[c].st # "none" /\ cl'[c].st = "shut" /\ cl'[c].want = NoHdr
                         /\ cl'[c].inq = <<>> /\ cl'[c].out = <<>>
Sends(t) ==
  LET h == thr[t].hdr
  IN /\ thr[t].pc \in Answering /\ thr'[t].pc = "recv" /\ h.op \notin Silent
     /\ h.pid \in rep \/ h.op = "data"
     /\ \E s \in Conns, a \in Hdr :
          /\ s = partner[h.pid].sock /\ cl[s].st = "open"
          /\ cl'[s].out = Append(cl[s].out, a) /\ (a = h \/ "readerror" \in ev')
          /\ cl'[s].pid = cl[s].pid /\ cl'[s].st = cl[s].st /\ cl'[s].stage = cl[s].stage
          /\ cl'[s].want = cl[s].want /\ cl'[s].inq = cl[s].inq
          /\ \A c \in Conns : c # s => cl'[c] = cl[c]
Moves(t) ==
  LET h == thr[t].hdr
  IN /\ thr[t].pc \notin {"none", "new"} /\ thr'[t].pc \notin {"none", "new"}
     /\ thr'[t].sock = thr[t].sock /\ thr'[t].hdr = h
     /\ \A d \in Conns : d # t => thr'[d] = thr[d]
     /\ thr'[t].pc = "exec" => /\ thr[t].pc = "recv" /\ h # NoHdr /\ thr[t].sock \in Conns
                               /\ cl[thr[t].sock].st = "fin"
     /\ thr'[t].pc \in Answering \ {"exec"} => thr[t].pc \in Answering
     /\ thr'[t].pc \in {"send", "send0", "unread", "sleep0", "sleep", "pause"} => h.op = "data"
     /\ thr'[t].pc \in {"sleep0", "send0"} => "readerror" \in ev'
Holds(t) ==
  LET h == thr[t].hdr
  IN /\ newest' = newest /\ entry' = entry /\ rep' = rep
     /\ \A q \in Slots : /\ conn'[q].fd \in {0, conn[q].fd}
                         /\ partner'[q].sock = partner[q].sock
     /\ \A q : HasRow(q)' <=> HasRow(q)
     /\ ev \subseteq ev'
     /\ "hurt" \in ev' =>
          \/ "hurt" \in ev
          \/ /\ h.op = "data"
             /\ \E x \in Conns : /\ x = conn[h.pid].fd /\ cl[x].st = "open"
                                 /\ cl[x].pid # h.pid
Handles(t) == Moves(t) /\ Holds(t) /\ (Shuts \/ Sends(t))

\* A step that leaves the clients alone closes at most one of them.
LEMMA NothingShut == cl' = cl => Shuts
  BY DEF Shuts

\* An update of the state column makes and deletes no partner.
LEMMA RowsSame ==
  ASSUME DOMAIN db' = DOMAIN db, \A i \in DOMAIN db : db'[i].pid = db[i].pid
  PROVE  \A q : HasRow(q)' <=> HasRow(q)
  BY DEF HasRow

\* What a failure notes when it closes the connection of another client.
LEMMA HurtsOther ==
  ASSUME NEW t \in Conns, NEW why, "hurt" \notin why, thr[t].hdr.op = "data",
         ev' = ev \cup Hurts(thr[t].hdr.pid) \cup why
  PROVE  /\ ev \subseteq ev'
         /\ "hurt" \in ev' =>
              \/ "hurt" \in ev
              \/ /\ thr[t].hdr.op = "data"
                 /\ \E x \in Conns : /\ x = conn[thr[t].hdr.pid].fd /\ cl[x].st = "open"
                                     /\ cl[x].pid # thr[t].hdr.pid
         /\ \A e \in ev' : e \in ev \/ e = "hurt" \/ e \in why
  BY DEF Hurts, Victim

\* The place of a connection in the table of connections is changed.
ConnBecomes(p, s) == conn' = [conn EXCEPT ![p].state = s]
\* The state of an entry changes, its descriptor does not.
LEMMA ConnSet ==
  ASSUME ServerTypeOK, NEW p \in Slots, NEW s \in {"inuse", "pause", "resume"},
         ConnBecomes(p, s)
  PROVE  /\ conn' \in [Slots -> [fd : 0..MaxConns, state : {"inuse", "pause", "resume"}]]
         /\ \A q \in Slots : conn'[q].fd = conn[q].fd
<1>1. conn \in [Slots -> [fd : 0..MaxConns, state : {"inuse", "pause", "resume"}]]
  BY DEF ServerTypeOK
<1> QED BY <1>1 DEF ConnBecomes

FdBecomes(p, f) == conn' = [conn EXCEPT ![p].fd = f]
\* One descriptor changes.
LEMMA FdSet ==
  ASSUME ServerTypeOK, NEW p \in Slots, NEW f \in 0..MaxConns, FdBecomes(p, f)
  PROVE  /\ conn' \in [Slots -> [fd : 0..MaxConns, state : {"inuse", "pause", "resume"}]]
         /\ \A q \in Slots : conn'[q].fd = IF q = p THEN f ELSE conn[q].fd
<1>1. conn \in [Slots -> [fd : 0..MaxConns, state : {"inuse", "pause", "resume"}]]
  BY DEF ServerTypeOK
<1> QED BY <1>1 DEF FdBecomes

\* The error paths close the connection of the partner in the header.
LEMMA PauseConnDoes ==
  ASSUME ServerTypeOK, NEW t \in Conns, NEW why, why \subseteq ServerEvents,
         "hurt" \notin why, thr[t].hdr.op = "data", PauseConn(thr[t].hdr.pid, why)
  PROVE  /\ conn' \in [Slots -> [fd : 0..MaxConns, state : {"inuse", "pause", "resume"}]]
         /\ \A q \in Slots : conn'[q].fd = conn[q].fd
         /\ lost' \subseteq Slots /\ cl' \in [Conns -> Client] /\ Shuts
         /\ ev \subseteq ev' /\ ev' \subseteq ServerEvents /\ why \subseteq ev'
         /\ "hurt" \in ev' =>
              \/ "hurt" \in ev
              \/ /\ thr[t].hdr.op = "data"
                 /\ \E x \in Conns : /\ x = conn[thr[t].hdr.pid].fd /\ cl[x].st = "open"
                                     /\ cl[x].pid # thr[t].hdr.pid
<1> DEFINE p == thr[t].hdr.pid
<1>1. p \in Slots
  BY ServerTyped
<1>2. /\ ConnBecomes(p, "pause") /\ lost' = lost \cup {p}
      /\ cl' = Closed(Victim(p)) /\ ev' = ev \cup Hurts(p) \cup why
  BY DEF PauseConn, Goes, ConnBecomes, FdBecomes
<1>3. cl' \in [Conns -> Client] /\ Shuts
  BY <1>2, ClosedDoes DEF Shuts
<1>4. /\ conn' \in [Slots -> [fd : 0..MaxConns, state : {"inuse", "pause", "resume"}]]
      /\ \A q \in Slots : conn'[q].fd = conn[q].fd
  BY <1>1, <1>2, ConnSet
<1>5. ev \subseteq ServerEvents /\ lost \subseteq Slots /\ "hurt" \in ServerEvents
  BY DEF ServerTypeOK, ServerEvents
<1>6. /\ ev \subseteq ev' /\ \A e \in ev' : e \in ev \/ e = "hurt" \/ e \in why
      /\ "hurt" \in ev' =>
           \/ "hurt" \in ev
           \/ /\ thr[t].hdr.op = "data"
              /\ \E x \in Conns : /\ x = conn[thr[t].hdr.pid].fd /\ cl[x].st = "open"
                                  /\ cl[x].pid # thr[t].hdr.pid
  BY <1>2, HurtsOther
<1>7. why \subseteq ev'
  BY <1>2
<1>8. ev' \subseteq ServerEvents
  BY <1>5, <1>6
<1> QED BY <1>1, <1>2, <1>3, <1>4, <1>5, <1>6, <1>7, <1>8

\* The end of the stream: the header is executed once more.
LEMMA RecvEofDoes ==
  ASSUME ServerTypeOK, HeaderInv, NEW t \in Conns, RecvEof(t)
  PROVE  ServerTypeOK' /\ Handles(t)
<1>1. /\ thr[t].pc = "recv" /\ thr[t].sock \in Conns /\ cl[thr[t].sock].st = "fin"
      /\ thr[t].hdr # NoHdr /\ Goes(t, "exec") /\ ev' = ev \cup {"eof"}
      /\ UNCHANGED <<up, diskVars, tableVars, newest, entry, rep, io, db, cl, asks, faults>>
  BY DEF RecvEof, Goes, ConnBecomes, FdBecomes
<1>2. /\ thr' \in [Conns -> Thread] /\ thr'[t].pc = "exec" /\ thr'[t].sock = thr[t].sock
      /\ thr'[t].hdr = thr[t].hdr /\ \A d \in Conns : d # t => thr'[d] = thr[d]
  BY <1>1, ThreadGoes DEF Answering
<1>3. ev' \subseteq ServerEvents
  BY <1>1 DEF ServerTypeOK, ServerEvents
<1>4. ServerTypeOK'
  BY <1>1, <1>2, <1>3 DEF ServerTypeOK, diskVars, tableVars
<1>5. Moves(t)
  BY <1>1, <1>2 DEF Moves
<1>6. \A q : HasRow(q)' <=> HasRow(q)
  BY <1>1, RowsSame
<1>7. Holds(t)
  BY <1>1, <1>6 DEF Holds, tableVars
<1> QED BY <1>1, <1>4, <1>5, <1>7, NothingShut DEF Handles

\* The other steps of a thread that handle a header (Handles).
LEMMA RecvErrorDoes ==
  ASSUME ServerTypeOK, HeaderInv, NEW t \in Conns, RecvError(t)
  PROVE  ServerTypeOK' /\ Handles(t)
<1> DEFINE h == thr[t].hdr
           pc == IF h.op = "data" THEN "pause" ELSE "done"
<1>1. /\ thr[t].pc = "recv" /\ Goes(t, pc)
      /\ UNCHANGED <<up, diskVars, partner, lost, total, recovery_mode, newest, entry, rep, io,
                     db, asks, faults>>
  BY DEF RecvError, Goes, ConnBecomes, FdBecomes
<1>2. pc \in {"pause", "done"}
  OBVIOUS
<1>3. /\ thr' \in [Conns -> Thread] /\ thr'[t].pc = pc /\ thr'[t].sock = thr[t].sock
      /\ thr'[t].hdr = h /\ \A d \in Conns : d # t => thr'[d] = thr[d]
  BY <1>1, <1>2, ThreadGoes
<1>4. Moves(t)
  BY <1>1, <1>3 DEF Moves, Answering
<1>5. \A q : HasRow(q)' <=> HasRow(q)
  BY <1>1, RowsSame
<1>6. CASE h.op = "data"
  <2>1. /\ created' = [created EXCEPT ![h.pid] = FALSE] /\ cl' = Closed(Victim(h.pid))
        /\ FdBecomes(h.pid, 0) /\ ev' = ev \cup Hurts(h.pid)
    BY <1>6 DEF RecvError, Goes, ConnBecomes, FdBecomes
  <2>2. h.pid \in Slots /\ 0 \in 0..MaxConns
    BY ServerTyped, Numbers
  <2>3. /\ conn' \in [Slots -> [fd : 0..MaxConns, state : {"inuse", "pause", "resume"}]]
        /\ \A q \in Slots : conn'[q].fd = IF q = h.pid THEN 0 ELSE conn[q].fd
    BY <2>1, <2>2, FdSet
  <2>4. cl' \in [Conns -> Client] /\ Shuts
    BY <2>1, ClosedDoes DEF Shuts
  <2>5. ev' = ev \cup Hurts(h.pid) \cup {} /\ "hurt" \notin {}
    BY <2>1
  <2>6. /\ ev \subseteq ev' /\ \A e \in ev' : e \in ev \/ e = "hurt"
        /\ "hurt" \in ev' =>
             \/ "hurt" \in ev
             \/ /\ h.op = "data"
                /\ \E x \in Conns : /\ x = conn[h.pid].fd /\ cl[x].st = "open"
                                    /\ cl[x].pid # h.pid
    <3> HIDE DEF h
    <3>1. thr[t].hdr = h
      BY DEF h
    <3>2. \A e : e \notin {}
      OBVIOUS
    <3> QED BY <1>6, <2>5, <3>1, <3>2, HurtsOther
  <2>7. ev' \subseteq ServerEvents
    BY <2>6 DEF ServerTypeOK, ServerEvents
  <2>8. ServerTypeOK'
    BY <1>1, <1>3, <2>1, <2>2, <2>3, <2>4, <2>7 DEF ServerTypeOK, diskVars
  <2>9. Holds(t)
    BY <1>1, <1>5, <2>3, <2>6 DEF Holds
  <2> QED BY <1>4, <2>4, <2>8, <2>9 DEF Handles
<1>7. CASE h.op # "data"
  <2>1. UNCHANGED <<created, cl, conn, ev>>
    BY <1>7 DEF RecvError, Goes, ConnBecomes, FdBecomes
  <2>2. ServerTypeOK'
    BY <1>1, <1>3, <2>1 DEF ServerTypeOK, diskVars
  <2>3. Holds(t)
    BY <1>1, <1>5, <2>1 DEF Holds
  <2> QED BY <1>4, <2>1, <2>2, <2>3, NothingShut DEF Handles
<1> QED BY <1>6, <1>7

LEMMA RecvPauseDoes ==
  ASSUME ServerTypeOK, HeaderInv, NEW t \in Conns, RecvPause(t)
  PROVE  ServerTypeOK' /\ Handles(t)
<1> DEFINE p == thr[t].hdr.pid
<1>1. /\ thr[t].pc = "pause" /\ Goes(t, "done")
      /\ ConnBecomes(p, "pause") /\ lost' = lost \cup {p}
      /\ created' = [created EXCEPT ![p] = FALSE]
      /\ UNCHANGED <<up, diskVars, partner, total, recovery_mode, newest, entry, rep, io, db, cl,
                     asks, faults, ev>>
  BY DEF RecvPause, Goes, ConnBecomes, FdBecomes
<1>2. /\ thr' \in [Conns -> Thread] /\ thr'[t].pc = "done" /\ thr'[t].sock = thr[t].sock
      /\ thr'[t].hdr = thr[t].hdr /\ \A d \in Conns : d # t => thr'[d] = thr[d]
  BY <1>1, ThreadGoes
<1>3. p \in Slots
  BY ServerTyped
<1>4. /\ conn' \in [Slots -> [fd : 0..MaxConns, state : {"inuse", "pause", "resume"}]]
      /\ \A q \in Slots : conn'[q].fd = conn[q].fd
  BY <1>1, <1>3, ConnSet
<1>5. ServerTypeOK'
  BY <1>1, <1>2, <1>3, <1>4 DEF ServerTypeOK, diskVars
<1>6. Moves(t)
  BY <1>1, <1>2 DEF Moves, Answering
<1>7. \A q : HasRow(q)' <=> HasRow(q)
  BY <1>1, RowsSame
<1>8. Holds(t)
  BY <1>1, <1>4, <1>7 DEF Holds
<1> QED BY <1>1, <1>5, <1>6, <1>8, NothingShut DEF Handles

LEMMA UnreadDoes ==
  ASSUME ServerTypeOK, HeaderInv, NEW t \in Conns, Unread(t)
  PROVE  ServerTypeOK' /\ Handles(t)
<1>1. /\ thr[t].pc = "unread" /\ Goes(t, "sleep0")
      /\ PauseConn(thr[t].hdr.pid, {"readerror"})
      /\ UNCHANGED <<up, diskVars, partner, created, total, recovery_mode, newest, entry, rep,
                     io, db, asks, faults>>
  BY DEF Unread, Goes, ConnBecomes, FdBecomes
<1>2. thr[t].hdr.op = "data"
  BY <1>1 DEF HeaderInv
<1>3. /\ thr' \in [Conns -> Thread] /\ thr'[t].pc = "sleep0" /\ thr'[t].sock = thr[t].sock
      /\ thr'[t].hdr = thr[t].hdr /\ \A d \in Conns : d # t => thr'[d] = thr[d]
  BY <1>1, ThreadGoes DEF Answering
<1>4. /\ conn' \in [Slots -> [fd : 0..MaxConns, state : {"inuse", "pause", "resume"}]]
      /\ \A q \in Slots : conn'[q].fd = conn[q].fd
      /\ lost' \subseteq Slots /\ cl' \in [Conns -> Client] /\ Shuts
      /\ ev \subseteq ev' /\ ev' \subseteq ServerEvents /\ "readerror" \in ev'
      /\ "hurt" \in ev' =>
           \/ "hurt" \in ev
           \/ /\ thr[t].hdr.op = "data"
              /\ \E x \in Conns : /\ x = conn[thr[t].hdr.pid].fd /\ cl[x].st = "open"
                                  /\ cl[x].pid # thr[t].hdr.pid
  <2>1. {"readerror"} \subseteq ServerEvents /\ "hurt" \notin {"readerror"}
    BY DEF ServerEvents
  <2> QED BY <1>1, <1>2, <2>1, PauseConnDoes
<1>5. ServerTypeOK'
  BY <1>1, <1>3, <1>4 DEF ServerTypeOK, diskVars
<1>6. Moves(t)
  BY <1>1, <1>2, <1>3, <1>4 DEF Moves, Answering
<1>7. \A q : HasRow(q)' <=> HasRow(q)
  BY <1>1, RowsSame
<1>8. Holds(t)
  BY <1>1, <1>4, <1>7 DEF Holds
<1> QED BY <1>4, <1>5, <1>6, <1>8 DEF Handles

LEMMA SendErrorDoes ==
  ASSUME ServerTypeOK, HeaderInv, NEW t \in Conns, SendError(t)
  PROVE  ServerTypeOK' /\ Handles(t)
<1>1. /\ thr[t].pc \in {"send", "send0"} /\ Goes(t, "sleep")
      /\ PauseConn(thr[t].hdr.pid, {}) /\ total' = 0
      /\ created' = [created EXCEPT ![thr[t].hdr.pid] = FALSE]
      /\ UNCHANGED <<up, diskVars, partner, recovery_mode, newest, entry, rep, io, db, asks,
                     faults>>
  BY DEF SendError, Goes, ConnBecomes, FdBecomes
<1>2. thr[t].hdr.op = "data" /\ thr[t].hdr.pid \in Slots
  BY <1>1, ServerTyped DEF HeaderInv
<1>3. /\ thr' \in [Conns -> Thread] /\ thr'[t].pc = "sleep" /\ thr'[t].sock = thr[t].sock
      /\ thr'[t].hdr = thr[t].hdr /\ \A d \in Conns : d # t => thr'[d] = thr[d]
  BY <1>1, ThreadGoes
<1>4. /\ conn' \in [Slots -> [fd : 0..MaxConns, state : {"inuse", "pause", "resume"}]]
      /\ \A q \in Slots : conn'[q].fd = conn[q].fd
      /\ lost' \subseteq Slots /\ cl' \in [Conns -> Client] /\ Shuts
      /\ ev \subseteq ev' /\ ev' \subseteq ServerEvents
      /\ "hurt" \in ev' =>
           \/ "hurt" \in ev
           \/ /\ thr[t].hdr.op = "data"
              /\ \E x \in Conns : /\ x = conn[thr[t].hdr.pid].fd /\ cl[x].st = "open"
                                  /\ cl[x].pid # thr[t].hdr.pid
  BY <1>1, <1>2, PauseConnDoes
<1>5. created' \in [Slots -> BOOLEAN]
  BY <1>1, <1>2 DEF ServerTypeOK
<1>6. ServerTypeOK'
  BY <1>1, <1>3, <1>4, <1>5 DEF ServerTypeOK, diskVars
<1>7. Moves(t)
  BY <1>1, <1>2, <1>3 DEF Moves, Answering
<1>8. \A q : HasRow(q)' <=> HasRow(q)
  BY <1>1, RowsSame
<1>9. Holds(t)
  BY <1>1, <1>4, <1>8 DEF Holds
<1> QED BY <1>4, <1>6, <1>7, <1>9 DEF Handles

LEMMA WakeDoes ==
  ASSUME ServerTypeOK, HeaderInv, NEW t \in Conns, Wake(t)
  PROVE  ServerTypeOK' /\ Handles(t)
<1> DEFINE p == thr[t].hdr.pid
           pc == IF thr[t].pc = "sleep" THEN "recv" ELSE "send0"
<1>1. /\ thr[t].pc \in {"sleep", "sleep0"} /\ Goes(t, pc)
      /\ FdBecomes(p, 0) /\ created' = [created EXCEPT ![p] = FALSE]
      /\ UNCHANGED <<up, diskVars, partner, lost, total, recovery_mode, newest, entry, rep, io,
                     db, cl, asks, faults, ev>>
  BY DEF Wake, ServerTypeOK, Goes, ConnBecomes, FdBecomes
<1>2. thr[t].hdr.op = "data" /\ p \in Slots /\ (thr[t].pc = "sleep0" => "readerror" \in ev)
  BY <1>1, ServerTyped DEF HeaderInv
<1>3. pc \in {"recv", "send0"} /\ {"recv", "send0"} \subseteq Answering \cup {"recv"}
  BY DEF Answering
<1>4. /\ thr' \in [Conns -> Thread] /\ thr'[t].pc = pc /\ thr'[t].sock = thr[t].sock
      /\ thr'[t].hdr = thr[t].hdr /\ \A d \in Conns : d # t => thr'[d] = thr[d]
  BY <1>1, <1>3, ThreadGoes
<1>5. /\ conn' \in [Slots -> [fd : 0..MaxConns, state : {"inuse", "pause", "resume"}]]
      /\ \A q \in Slots : conn'[q].fd = IF q = p THEN 0 ELSE conn[q].fd
  BY <1>1, <1>2, Numbers, FdSet
<1>6. created' \in [Slots -> BOOLEAN]
  BY <1>1, <1>2 DEF ServerTypeOK
<1>7. ServerTypeOK'
  BY <1>1, <1>4, <1>5, <1>6 DEF ServerTypeOK, diskVars
<1>8. Moves(t)
  BY <1>1, <1>2, <1>4 DEF Moves, Answering
<1>9. \A q : HasRow(q)' <=> HasRow(q)
  BY <1>1, RowsSame
<1>10. Holds(t)
  BY <1>1, <1>5, <1>9 DEF Holds
<1> QED BY <1>1, <1>7, <1>8, <1>10, NothingShut DEF Handles

\* One answer is sent to the socket of the partner.
LEMMA OneSent ==
  ASSUME ServerTypeOK, NEW t \in Conns, NEW what \in Ops \cup {"none", "zeros"},
         thr[t].pc \in Answering, thr'[t].pc = "recv", thr[t].hdr.op \notin Silent,
         thr[t].hdr.pid \in rep \/ thr[t].hdr.op = "data",
         what = thr[t].hdr.op \/ "readerror" \in ev',
         Delivers(partner[thr[t].hdr.pid].sock, thr[t].hdr, what)
  PROVE  Sends(t) /\ cl' \in [Conns -> Client]
<1> DEFINE h == thr[t].hdr
           s == partner[h.pid].sock
<1>1. h \in Hdr
  BY ServerTyped
<1>2. /\ s \in Conns /\ cl[s].st = "open" /\ cl' \in [Conns -> Client]
      /\ \E a \in Hdr : (what = h.op => a = h) /\ cl'[s].out = Append(cl[s].out, a)
      /\ cl'[s].pid = cl[s].pid /\ cl'[s].st = cl[s].st /\ cl'[s].stage = cl[s].stage
      /\ cl'[s].want = cl[s].want /\ cl'[s].inq = cl[s].inq
      /\ \A c \in Conns : c # s => cl'[c] = cl[c]
  <2>1. Delivers(s, h, what)
    OBVIOUS
  <2> HIDE DEF h, s
  <2> QED BY ZenonT(60), <1>1, <2>1, DeliversDoes
<1>3. PICK a \in Hdr : (what = h.op => a = h) /\ cl'[s].out = Append(cl[s].out, a)
  BY <1>2
<1>4. a = h \/ "readerror" \in ev'
  BY <1>3
<1> QED BY <1>2, <1>3, <1>4 DEF Sends

\* An answer goes to the socket of the partner, or nowhere.
LEMMA AnswersDoes ==
  ASSUME ServerTypeOK, NEW t \in Conns, NEW what \in {"syn", "meta"}, thr[t].pc = "exec",
         thr'[t].pc = "recv", thr[t].hdr.op = what, Answers(thr[t].hdr, what)
  PROVE  /\ up' \in BOOLEAN /\ cl' \in [Conns -> Client] /\ (Shuts \/ Sends(t))
         /\ ev \subseteq ev' /\ ev' \subseteq ServerEvents /\ ("hurt" \in ev' => "hurt" \in ev)
<1> DEFINE h == thr[t].hdr
<1>1. cl \in [Conns -> Client] /\ ev \subseteq ServerEvents /\ up \in BOOLEAN
  BY DEF ServerTypeOK
<1>2. CASE h.pid \notin rep
  <2>1. up' = FALSE /\ ev' = ev \cup {"norep"} /\ cl' = cl
    BY <1>2 DEF Answers
  <2> QED BY <1>1, <2>1, NothingShut DEF ServerEvents
<1>3. CASE h.pid \in rep
  <2>1. up' = up /\ ev' = ev
    BY <1>3 DEF Answers
  <2>2. Delivers(partner[h.pid].sock, h, what) \/ cl' = cl
    BY <1>3 DEF Answers
  <2>3. CASE Delivers(partner[h.pid].sock, h, what)
    <3>1. what \in Ops \cup {"none", "zeros"} /\ what \notin Silent /\ "exec" \in Answering
      BY DEF Ops, Silent, Answering
    <3>2. Sends(t) /\ cl' \in [Conns -> Client]
      BY <1>3, <2>3, <3>1, OneSent
    <3> QED BY <1>1, <2>1, <3>2
  <2>4. CASE cl' = cl
    BY <1>1, <2>1, <2>4, NothingShut
  <2> QED BY <2>2, <2>3, <2>4
<1> QED BY <1>2, <1>3

\* The handlers of Execute that handle a header.
LEMMA SynReceivedDoes ==
  ASSUME ServerTypeOK, HeaderInv, NEW t \in Conns, Execute(t), SynReceived(t, thr[t].hdr),
         Goes(t, "recv"), snap' = snap
  PROVE  ServerTypeOK' /\ Handles(t)
<1>1. /\ thr[t].pc = "exec" /\ thr[t].hdr.op = "syn" /\ Answers(thr[t].hdr, "syn")
      /\ UNCHANGED <<tableVars, db, rep, io, listens, disk, newest, entry, asks, faults>>
  BY DEF Execute, SynReceived
<1>2. /\ thr' \in [Conns -> Thread] /\ thr'[t].pc = "recv" /\ thr'[t].sock = thr[t].sock
      /\ thr'[t].hdr = thr[t].hdr /\ \A d \in Conns : d # t => thr'[d] = thr[d]
  BY ThreadGoes
<1>3. /\ up' \in BOOLEAN /\ cl' \in [Conns -> Client] /\ (Shuts \/ Sends(t))
      /\ ev \subseteq ev' /\ ev' \subseteq ServerEvents /\ ("hurt" \in ev' => "hurt" \in ev)
  BY <1>1, <1>2, AnswersDoes
<1>4. ServerTypeOK'
  BY <1>1, <1>2, <1>3 DEF ServerTypeOK, tableVars
<1>5. Moves(t)
  BY <1>1, <1>2 DEF Moves, Answering
<1>6. \A q : HasRow(q)' <=> HasRow(q)
  BY <1>1, RowsSame
<1>7. Holds(t)
  BY <1>1, <1>3, <1>6 DEF Holds, tableVars
<1> QED BY <1>3, <1>4, <1>5, <1>7 DEF Handles

\* The state of an entry of the table of partners is changed, or none.
LEMMA PartnerSet ==
  ASSUME ServerTypeOK, NEW p \in Slots, NEW s,
         partner' = partner \/ partner' = [partner EXCEPT ![p].state = s]
  PROVE  /\ partner' = [q \in Slots |-> partner'[q]]
         /\ \A q \in Slots : /\ DOMAIN partner'[q] = {"id", "state", "sock"}
                             /\ partner'[q].sock = partner[q].sock
                             /\ partner'[q].sock \in 0..MaxConns
<1>1. /\ partner = [q \in Slots |-> partner[q]]
      /\ \A q \in Slots : /\ DOMAIN partner[q] = {"id", "state", "sock"}
                          /\ partner[q].sock \in 0..MaxConns
  BY DEF ServerTypeOK
<1>2. CASE partner' = [partner EXCEPT ![p].state = s]
  <2>1. partner' = [partner EXCEPT ![p] = [partner[p] EXCEPT !.state = s]]
    BY <1>1, <1>2
  <2>2. /\ partner'[p] = [partner[p] EXCEPT !.state = s]
        /\ \A q \in Slots : q # p => partner'[q] = partner[q]
        /\ partner' = [q \in Slots |-> partner'[q]]
    BY <1>1, <2>1
  <2>3. DOMAIN partner'[p] = {"id", "state", "sock"} /\ partner'[p].sock = partner[p].sock
    BY <1>1, <2>2
  <2> QED BY <1>1, <2>2, <2>3
<1>3. CASE partner' = partner
  BY <1>1, <1>3
<1> QED BY <1>2, <1>3

LEMMA GetBitmapDoes ==
  ASSUME ServerTypeOK, HeaderInv, NEW t \in Conns, Execute(t), GetBitmap(t, thr[t].hdr),
         Goes(t, "recv"), snap' = snap
  PROVE  ServerTypeOK' /\ Handles(t)
<1> DEFINE h == thr[t].hdr
<1>1. /\ thr[t].pc = "exec" /\ h.op = "meta"
      /\ UNCHANGED <<created, lost, total, recovery_mode, rep, listens, disk, newest, entry,
                     asks, faults>>
  BY DEF Execute, GetBitmap
<1>2. /\ partner' = partner \/ partner' = [partner EXCEPT ![h.pid].state = "inuse"]
      /\ db' = db \/ db' = SetState(h.pid, "inuse")
  BY DEF GetBitmap
<1>3. h.pid \in Pids /\ h.pid \in Slots
  BY ServerTyped
<1>4. /\ thr' \in [Conns -> Thread] /\ thr'[t].pc = "recv" /\ thr'[t].sock = thr[t].sock
      /\ thr'[t].hdr = thr[t].hdr /\ \A d \in Conns : d # t => thr'[d] = thr[d]
  BY ThreadGoes
<1>5. /\ partner' = [q \in Slots |-> partner'[q]]
      /\ \A q \in Slots : /\ DOMAIN partner'[q] = {"id", "state", "sock"}
                          /\ partner'[q].sock = partner[q].sock
                          /\ partner'[q].sock \in 0..MaxConns
  BY <1>2, <1>3, PartnerSet
<1>6. db' \in Seq(PartnerRow) /\ \A q : HasRow(q)' <=> HasRow(q)
  <2>1. CASE db' = db
    BY <2>1, RowsSame DEF ServerTypeOK
  <2>2. CASE db' = SetState(h.pid, "inuse")
    <3>1. /\ SetState(h.pid, "inuse") \in Seq(PartnerRow)
          /\ DOMAIN SetState(h.pid, "inuse") = DOMAIN db
          /\ \A i \in DOMAIN db : SetState(h.pid, "inuse")[i].pid = db[i].pid
      BY <1>3, StateSet
    <3> QED BY <2>2, <3>1, RowsSame
  <2> QED BY <1>2, <2>1, <2>2
<1>7. /\ up' \in BOOLEAN /\ cl' \in [Conns -> Client] /\ (Shuts \/ Sends(t))
      /\ ev \subseteq ev' /\ ev' \subseteq ServerEvents /\ ("hurt" \in ev' => "hurt" \in ev)
  <2>1. cl \in [Conns -> Client] /\ ev \subseteq ServerEvents /\ up \in BOOLEAN
    BY DEF ServerTypeOK
  <2>2. \/ up' = FALSE /\ ev' = ev \cup {"nodisk"} /\ cl' = cl
        \/ UNCHANGED <<cl, up, ev>>
        \/ Answers(h, "meta")
    BY DEF GetBitmap
  <2>3. CASE up' = FALSE /\ ev' = ev \cup {"nodisk"} /\ cl' = cl
    BY <2>1, <2>3, NothingShut DEF ServerEvents
  <2>4. CASE UNCHANGED <<cl, up, ev>>
    BY <2>1, <2>4, NothingShut
  <2>5. CASE Answers(h, "meta")
    BY <1>1, <1>4, <2>5, AnswersDoes
  <2> QED BY <2>2, <2>3, <2>4, <2>5
<1>8. io' \in [Slots -> {"none", "mapped", "inuse", "released"}]
  <2>1. io \in [Slots -> {"none", "mapped", "inuse", "released"}]
    BY DEF ServerTypeOK
  <2>2. io' = io \/ \E x \in {"none", "mapped", "inuse", "released"} :
                      io' = [io EXCEPT ![h.pid] = x]
    <3>1. CASE disk[h.pid] = "none"
      BY <3>1 DEF GetBitmap
    <3>2. CASE disk[h.pid] # "none"
      <4> DEFINE x == IF cl' = cl /\ disk[h.pid] = "whole"
                        THEN IF io[h.pid] = "none" THEN "mapped" ELSE io[h.pid]
                        ELSE "inuse"
      <4>1. io' = [io EXCEPT ![h.pid] = x]
        BY <1>3, <2>1, <3>2 DEF GetBitmap
      <4>2. x \in {"none", "mapped", "inuse", "released"}
        BY <1>3, <2>1
      <4> HIDE DEF x
      <4> QED BY <4>1, <4>2
    <3> QED BY <3>1, <3>2
  <2> QED BY <1>3, <2>1, <2>2
<1>9. /\ conn' \in [Slots -> [fd : 0..MaxConns, state : {"inuse", "pause", "resume"}]]
      /\ \A q \in Slots : conn'[q].fd = conn[q].fd
  <2> DEFINE x == IF conn[h.pid].state = "resume" THEN "inuse" ELSE conn[h.pid].state
  <2>1. conn \in [Slots -> [fd : 0..MaxConns, state : {"inuse", "pause", "resume"}]]
    BY DEF ServerTypeOK
  <2>2. x \in {"inuse", "pause", "resume"}
    BY <1>3, <2>1
  <2>3. conn' = conn \/ ConnBecomes(h.pid, x)
    BY <1>3, <2>1 DEF GetBitmap, ConnBecomes
  <2> HIDE DEF x
  <2> QED BY <1>3, <2>1, <2>2, <2>3, ConnSet
<1>10. ServerTypeOK'
  BY <1>1, <1>4, <1>5, <1>6, <1>7, <1>8, <1>9 DEF ServerTypeOK
<1>11. Moves(t)
  BY <1>1, <1>4 DEF Moves, Answering
<1>12. Holds(t)
  BY <1>1, <1>5, <1>6, <1>7, <1>9 DEF Holds
<1> QED BY <1>7, <1>10, <1>11, <1>12 DEF Handles

LEMMA GetDataDoes ==
  ASSUME ServerTypeOK, HeaderInv, NEW t \in Conns, Execute(t), GetData(t, thr[t].hdr),
         snap' = snap
  PROVE  ServerTypeOK' /\ Handles(t)
<1> DEFINE h == thr[t].hdr
           pc == IF io[h.pid] = "released" THEN "recv"
                 ELSE IF h.pid \in snap THEN "send" ELSE "unread"
<1>1. /\ thr[t].pc = "exec" /\ h.op = "data" /\ Goes(t, pc)
      /\ UNCHANGED <<up, cl, tableVars, db, rep, io, ev, listens, disk, newest, entry, asks,
                     faults>>
  BY DEF Execute, GetData, Goes
<1>2. pc \in {"recv", "send", "unread"}
  OBVIOUS
<1> HIDE DEF pc
<1>3. /\ thr' \in [Conns -> Thread] /\ thr'[t].pc = pc /\ thr'[t].sock = thr[t].sock
      /\ thr'[t].hdr = thr[t].hdr /\ \A d \in Conns : d # t => thr'[d] = thr[d]
  <2>1. pc \in Answering \cup {"none", "new", "recv", "pause", "sleep", "done"}
    BY <1>2 DEF Answering
  <2> QED BY <1>1, <2>1, ThreadGoes
<1>4. ServerTypeOK'
  BY <1>1, <1>3 DEF ServerTypeOK, tableVars
<1>5. Moves(t)
  BY <1>1, <1>2, <1>3 DEF Moves, Answering
<1>6. \A q : HasRow(q)' <=> HasRow(q)
  BY <1>1, RowsSame
<1>7. Holds(t)
  BY <1>1, <1>6 DEF Holds, tableVars
<1> QED BY <1>1, <1>4, <1>5, <1>7, NothingShut DEF Handles

LEMMA TerminateDoes ==
  ASSUME ServerTypeOK, HeaderInv, NEW t \in Conns, Execute(t),
         TerminateRound(t, thr[t].hdr), Goes(t, "recv")
  PROVE  ServerTypeOK' /\ Handles(t)
<1> DEFINE h == thr[t].hdr
<1>1. /\ thr[t].pc = "exec" /\ h.op = "term"
      /\ UNCHANGED <<cl, conn, created, lost, total, rep, listens, disk, newest, entry, asks,
                     faults>>
  BY DEF Execute, TerminateRound
<1>2. h.pid \in Pids /\ h.pid \in Slots
  BY ServerTyped
<1>3. /\ partner' = partner \/ partner' = [partner EXCEPT ![h.pid].state = "released"]
      /\ db' = db \/ db' = SetState(h.pid, "released")
      /\ io' = io \/ io' = [io EXCEPT ![h.pid] = "released"]
      /\ recovery_mode' \subseteq recovery_mode /\ snap' \subseteq snap
      /\ up' \in {up, FALSE} /\ ev' \in {ev, ev \cup {"norep"}}
  BY DEF TerminateRound
<1>4. /\ thr' \in [Conns -> Thread] /\ thr'[t].pc = "recv" /\ thr'[t].sock = thr[t].sock
      /\ thr'[t].hdr = thr[t].hdr /\ \A d \in Conns : d # t => thr'[d] = thr[d]
  BY ThreadGoes
<1>5. /\ partner' = [q \in Slots |-> partner'[q]]
      /\ \A q \in Slots : /\ DOMAIN partner'[q] = {"id", "state", "sock"}
                          /\ partner'[q].sock = partner[q].sock
                          /\ partner'[q].sock \in 0..MaxConns
  BY <1>2, <1>3, PartnerSet
<1>6. db' \in Seq(PartnerRow) /\ \A q : HasRow(q)' <=> HasRow(q)
  <2>1. CASE db' = db
    BY <2>1, RowsSame DEF ServerTypeOK
  <2>2. CASE db' = SetState(h.pid, "released")
    <3>1. /\ SetState(h.pid, "released") \in Seq(PartnerRow)
          /\ DOMAIN SetState(h.pid, "released") = DOMAIN db
          /\ \A i \in DOMAIN db : SetState(h.pid, "released")[i].pid = db[i].pid
      BY <1>2, StateSet
    <3> QED BY <2>2, <3>1, RowsSame
  <2> QED BY <1>3, <2>1, <2>2
<1>7. io' \in [Slots -> {"none", "mapped", "inuse", "released"}]
  BY <1>2, <1>3 DEF ServerTypeOK
<1>8. /\ ev \subseteq ev' /\ ev' \subseteq ServerEvents /\ ("hurt" \in ev' => "hurt" \in ev)
      /\ up' \in BOOLEAN /\ recovery_mode' \subseteq Pids /\ snap' \subseteq Pids
  BY <1>3 DEF ServerTypeOK, ServerEvents
<1>9. ServerTypeOK'
  BY <1>1, <1>4, <1>5, <1>6, <1>7, <1>8 DEF ServerTypeOK
<1>10. Moves(t)
  BY <1>1, <1>4 DEF Moves, Answering
<1>11. Holds(t)
  BY <1>1, <1>5, <1>6, <1>8 DEF Holds
<1> QED BY <1>1, <1>9, <1>10, <1>11, NothingShut DEF Handles

\* The answer to a DATA request.
LEMMA SendChunkDoes ==
  ASSUME ServerTypeOK, HeaderInv, NEW t \in Conns, SendChunk(t)
  PROVE  ServerTypeOK' /\ Handles(t)
<1> DEFINE h == thr[t].hdr
<1>1. /\ thr[t].pc \in {"send", "send0"} /\ Goes(t, "recv")
      /\ UNCHANGED <<up, diskVars, tableVars, newest, entry, rep, io, db, asks>>
  BY DEF SendChunk, Goes
<1>2. /\ h.op = "data" /\ (thr[t].pc = "send0" => "readerror" \in ev)
      /\ "data" \notin Silent /\ {"data", "zeros"} \subseteq Ops \cup {"none", "zeros"}
      /\ {"send", "send0"} \subseteq Answering
  BY <1>1 DEF HeaderInv, Silent, Ops, Answering
<1>3. /\ thr' \in [Conns -> Thread] /\ thr'[t].pc = "recv" /\ thr'[t].sock = thr[t].sock
      /\ thr'[t].hdr = thr[t].hdr /\ \A d \in Conns : d # t => thr'[d] = thr[d]
  BY <1>1, ThreadGoes
<1>4. \E what \in {"data", "zeros"} : /\ Delivers(partner[h.pid].sock, h, what)
                                      /\ what = "zeros" => "readerror" \in ev'
  BY <1>1, <1>2 DEF SendChunk
<1>5. ev \subseteq ev' /\ ev' \subseteq ev \cup {"readerror"} /\ faults' \in {faults, faults + 1}
  BY DEF SendChunk, Fault
<1>6. Sends(t) /\ cl' \in [Conns -> Client]
  <2>1. PICK what \in {"data", "zeros"} : /\ Delivers(partner[h.pid].sock, h, what)
                                          /\ what = "zeros" => "readerror" \in ev'
    BY <1>4
  <2> QED BY <1>1, <1>2, <1>3, <2>1, OneSent
<1>7. ev' \subseteq ServerEvents /\ ("hurt" \in ev' => "hurt" \in ev) /\ faults' \in Nat
  BY <1>5 DEF ServerTypeOK, ServerEvents
<1>8. ServerTypeOK'
  BY <1>1, <1>3, <1>6, <1>7 DEF ServerTypeOK, diskVars, tableVars
<1>9. Moves(t)
  BY <1>1, <1>3 DEF Moves, Answering
<1>10. \A q : HasRow(q)' <=> HasRow(q)
  BY <1>1, RowsSame
<1>11. Holds(t)
  BY <1>1, <1>5, <1>7, <1>10 DEF Holds, tableVars
<1> QED BY <1>6, <1>8, <1>9, <1>11 DEF Handles

\* A thread starts with the one entry all share, and gives it to partner 0.
LEMMA ThreadStartDoes ==
  ASSUME ServerTypeOK, NEW c \in Conns, ThreadStart(c)
  PROVE  /\ ServerTypeOK' /\ cl' = cl /\ db' = db /\ rep' = rep /\ partner' = partner
         /\ newest' = newest /\ entry' = entry
         /\ thr[c].pc = "new" /\ thr'[c].pc = "recv" /\ thr'[c].sock = entry
         /\ thr'[c].hdr = thr[c].hdr /\ \A d \in Conns : d # c => thr'[d] = thr[d]
         /\ \A q \in Slots : conn'[q].fd = IF q = 0 THEN entry ELSE conn[q].fd
         /\ ev \subseteq ev' /\ ("hurt" \in ev' => "hurt" \in ev)
         /\ "given" \notin ev' /\ HasRow(0) => entry \in Conns /\ cl[entry].pid = 0
<1>1. /\ thr[c].pc = "new" /\ thr' = [thr EXCEPT ![c].pc = "recv", ![c].sock = entry]
      /\ FdBecomes(0, entry)
      /\ ev' = ev \cup (IF /\ partner[0].state # "none" \/ HasRow(0)
                           /\ entry \in Conns => cl[entry].pid # 0
                          THEN {"given"} ELSE {})
      /\ UNCHANGED <<up, diskVars, partner, created, lost, total, recovery_mode, newest, entry,
                     rep, io, db, cl, asks, faults>>
  BY DEF ThreadStart, FdBecomes
<1>2. thr \in [Conns -> Thread] /\ thr[c] \in Thread /\ entry \in 0..MaxConns
  BY DEF ServerTypeOK
<1>3. thr' = [thr EXCEPT ![c] = [[thr[c] EXCEPT !.pc = "recv"] EXCEPT !.sock = entry]]
  BY <1>1, <1>2
<1> DEFINE n == [[thr[c] EXCEPT !.pc = "recv"] EXCEPT !.sock = entry]
<1>4. n \in Thread /\ n.pc = "recv" /\ n.sock = entry /\ n.hdr = thr[c].hdr
  BY <1>2 DEF Thread
<1> HIDE DEF n
<1>5. thr' \in [Conns -> Thread] /\ thr'[c] = n /\ \A d \in Conns : d # c => thr'[d] = thr[d]
  BY <1>2, <1>3, <1>4 DEF n
<1>6. /\ conn' \in [Slots -> [fd : 0..MaxConns, state : {"inuse", "pause", "resume"}]]
      /\ \A q \in Slots : conn'[q].fd = IF q = 0 THEN entry ELSE conn[q].fd
  BY <1>1, <1>2, Numbers, FdSet
<1>7. ev \subseteq ev' /\ \A e \in ev' : e \in ev \/ e = "given"
  BY <1>1
<1>8. ev' \subseteq ServerEvents
  BY <1>7 DEF ServerTypeOK, ServerEvents
<1>9. "given" \notin ev' /\ HasRow(0) => entry \in Conns /\ cl[entry].pid = 0
  BY <1>1
<1>10. ServerTypeOK'
  BY <1>1, <1>5, <1>6, <1>8 DEF ServerTypeOK, diskVars
<1> QED BY <1>1, <1>4, <1>5, <1>6, <1>7, <1>9, <1>10

\* The actions of a client leave the server alone.
ClientOnly == UNCHANGED <<up, diskVars, tableVars, newest, entry, rep, io, thr, db, ev>>

\* The steps of a client keep the types of the server.
LEMMA ClientOnlyDoes ==
  ASSUME ServerTypeOK, ClientOnly, asks' \in Nat, faults' \in Nat, cl' \in [Conns -> Client]
  PROVE  ServerTypeOK'
  BY DEF ServerTypeOK, ClientOnly, diskVars, tableVars

\* A client asks for what its stage allows, and waits for the answer.
LEMMA ClientSendDoes ==
  ASSUME ServerTypeOK, NEW c \in Conns, NEW op \in Ops, ClientSend(c, op)
  PROVE  /\ ServerTypeOK' /\ ClientOnly /\ \A d \in Conns : d # c => cl'[d] = cl[d]
         /\ cl[c].st = "open" /\ cl[c].want = NoHdr
         /\ op = "meta" => cl[c].stage = "related"
         /\ op \in {"data", "term"} => cl[c].stage = "mapped"
         /\ cl'[c].pid = cl[c].pid /\ cl'[c].st = cl[c].st /\ cl'[c].out = cl[c].out
         /\ cl'[c].stage = cl[c].stage \/ cl'[c].stage = "made"
              \/ (cl'[c].stage = "related" /\ op = "term")
         /\ \E h \in Hdr : /\ h.op = op /\ h.pid = cl[c].pid
                           /\ cl'[c].inq = Append(cl[c].inq, h)
                           /\ cl'[c].want = IF op \in Silent THEN NoHdr ELSE h
<1> DEFINE h == [op |-> op, pid |-> cl[c].pid, n |-> asks]
           i == Append(cl[c].inq, h)
           w == IF op \in {"make", "term"} THEN NoHdr ELSE h
           g == CASE op = "make" -> "made" [] op = "term" -> "related" [] OTHER -> cl[c].stage
<1>1. /\ cl[c].st = "open" /\ cl[c].want = NoHdr /\ asks' = asks + 1
      /\ cl[c].stage = CASE op = "make" -> "new" [] op = "syn" -> "made"
                          [] op = "meta" -> "related" [] OTHER -> "mapped"
      /\ UNCHANGED <<up, diskVars, tableVars, newest, entry, rep, io, thr, db, faults, ev>>
  BY DEF ClientSend
<1>2. cl[c] \in Client /\ cl \in [Conns -> Client] /\ cl[c].pid \in Pids /\ asks \in Nat
      /\ cl[c].inq \in Seq(Hdr)
  BY ServerTyped DEF ServerTypeOK
<1>3. h \in Hdr /\ h.op = op /\ h.pid = cl[c].pid
  BY <1>2 DEF Hdr
<1>4. cl' = [cl EXCEPT ![c].inq = i, ![c].want = w, ![c].stage = g]
  BY <1>2 DEF ClientSend
<1>5. g \in {"new", "made", "related", "mapped"}
  BY <1>2 DEF Client
<1>6. g = cl[c].stage \/ g = "made" \/ (g = "related" /\ op = "term")
  OBVIOUS
<1>7. op = "meta" => cl[c].stage = "related"
  BY <1>1
<1>8. op \in {"data", "term"} => cl[c].stage = "mapped"
  BY <1>1
<1> HIDE DEF h
<1>9. i \in Seq(Hdr) /\ w \in Hdr /\ w = IF op \in Silent THEN NoHdr ELSE h
  BY <1>2, <1>3, Blank DEF Silent
<1> HIDE DEF i, w, g
<1> DEFINE r == [[[cl[c] EXCEPT !.inq = i] EXCEPT !.want = w] EXCEPT !.stage = g]
<1>10. cl' = [cl EXCEPT ![c] = r]
  BY <1>2, <1>4
<1>11. /\ r \in Client /\ r.pid = cl[c].pid /\ r.st = cl[c].st /\ r.out = cl[c].out
       /\ r.stage = g /\ r.inq = i /\ r.want = w
  BY <1>2, <1>5, <1>9 DEF Client
<1> HIDE DEF r
<1>12. cl' \in [Conns -> Client] /\ cl'[c] = r /\ \A d \in Conns : d # c => cl'[d] = cl[d]
  BY <1>2, <1>10, <1>11
<1>13. ClientOnly
  BY <1>1 DEF ClientOnly
<1>14. asks' \in Nat /\ faults' \in Nat
  BY <1>1, <1>2 DEF ServerTypeOK
<1>15. ServerTypeOK'
  BY <1>12, <1>13, <1>14, ClientOnlyDoes
<1>16. cl'[c].inq = Append(cl[c].inq, h)
  BY <1>11, <1>12 DEF i
<1> QED BY <1>1, <1>3, <1>6, <1>7, <1>8, <1>9, <1>11, <1>12, <1>13, <1>15, <1>16

\* A client takes the answer, and no longer waits.
LEMMA ClientTakeDoes ==
  ASSUME ServerTypeOK, NEW c \in Conns, ClientTake(c)
  PROVE  /\ ServerTypeOK' /\ ClientOnly /\ \A d \in Conns : d # c => cl'[d] = cl[d]
         /\ cl[c].out # <<>> /\ cl'[c].out = Tail(cl[c].out) /\ cl'[c].want = NoHdr
         /\ cl'[c].pid = cl[c].pid /\ cl'[c].st = cl[c].st /\ cl'[c].inq = cl[c].inq
<1> DEFINE o == Tail(cl[c].out)
           g == CASE cl[c].want.op = "syn" -> "related" [] OTHER -> "mapped"
<1>1. /\ cl[c].out # <<>>
      /\ UNCHANGED <<up, diskVars, tableVars, newest, entry, rep, io, thr, db, asks, faults, ev>>
  BY DEF ClientTake
<1>2. cl[c] \in Client /\ cl \in [Conns -> Client] /\ cl[c].out \in Seq(Hdr)
  BY ServerTyped DEF ServerTypeOK
<1>3. cl' = [cl EXCEPT ![c].out = o, ![c].want = NoHdr, ![c].stage = g]
  BY <1>2 DEF ClientTake
<1>4. g \in {"new", "made", "related", "mapped"} /\ o \in Seq(Hdr) /\ NoHdr \in Hdr
  BY <1>1, <1>2, Blank
<1> HIDE DEF o, g
<1> DEFINE r == [[[cl[c] EXCEPT !.out = o] EXCEPT !.want = NoHdr] EXCEPT !.stage = g]
<1>5. cl' = [cl EXCEPT ![c] = r]
  BY <1>2, <1>3
<1>6. /\ r \in Client /\ r.pid = cl[c].pid /\ r.st = cl[c].st /\ r.inq = cl[c].inq
      /\ r.out = o /\ r.want = NoHdr
  BY <1>2, <1>4 DEF Client
<1> HIDE DEF r
<1>7. cl' \in [Conns -> Client] /\ cl'[c] = r /\ \A d \in Conns : d # c => cl'[d] = cl[d]
  BY <1>2, <1>5, <1>6
<1>8. ClientOnly
  BY <1>1 DEF ClientOnly
<1>9. ServerTypeOK'
  BY <1>1, <1>7, <1>8, ClientOnlyDoes DEF ServerTypeOK
<1> QED BY <1>1, <1>6, <1>7, <1>8, <1>9 DEF o

\* A connection ends from the client side.
LEMMA ClientLeavesDoes ==
  ASSUME ServerTypeOK, NEW c \in Conns, ClientLeaves(c)
  PROVE  /\ ServerTypeOK' /\ ClientOnly /\ \A d \in Conns : d # c => cl'[d] = cl[d]
         /\ cl[c].st = "open" /\ cl'[c].st \in {"fin", "rst"}
         /\ cl'[c].want = NoHdr /\ cl'[c].out = <<>> /\ cl'[c].stage = cl[c].stage
         /\ cl'[c].pid = cl[c].pid /\ cl'[c].inq \in {<<>>, cl[c].inq}
<1>1. /\ cl[c].st = "open" /\ faults' = faults + 1
      /\ UNCHANGED <<up, diskVars, tableVars, newest, entry, rep, io, thr, db, asks, ev>>
  BY DEF ClientLeaves, Fault
<1>2. cl[c] \in Client /\ cl \in [Conns -> Client] /\ cl[c].inq \in Seq(Hdr)
  BY ServerTyped DEF ServerTypeOK
<1>3. PICK how \in {"fin", "rst"}, i \in {<<>>, cl[c].inq} :
         cl' = [cl EXCEPT ![c].st = how, ![c].want = NoHdr, ![c].out = <<>>, ![c].inq = i]
  BY <1>2 DEF ClientLeaves
<1>4. i \in Seq(Hdr) /\ <<>> \in Seq(Hdr) /\ NoHdr \in Hdr
  <2>1. <<>> \in Seq(Hdr) /\ (i = <<>> \/ i = cl[c].inq)
    OBVIOUS
  <2> QED BY <1>2, <2>1, Blank
<1> DEFINE r == [[[[cl[c] EXCEPT !.st = how] EXCEPT !.want = NoHdr] EXCEPT !.out = <<>>]
                   EXCEPT !.inq = i]
<1>5. cl' = [cl EXCEPT ![c] = r]
  BY <1>2, <1>3
<1>6. /\ r \in Client /\ r.pid = cl[c].pid /\ r.st = how /\ r.inq = i /\ r.stage = cl[c].stage
      /\ r.out = <<>> /\ r.want = NoHdr
  BY <1>2, <1>4 DEF Client
<1> HIDE DEF r
<1>7. cl' \in [Conns -> Client] /\ cl'[c] = r /\ \A d \in Conns : d # c => cl'[d] = cl[d]
  BY <1>2, <1>5, <1>6
<1>8. ClientOnly
  BY <1>1 DEF ClientOnly
<1>9. asks' \in Nat /\ faults' \in Nat
  BY <1>1 DEF ServerTypeOK
<1>10. ServerTypeOK'
  BY <1>7, <1>8, <1>9, ClientOnlyDoes
<1> QED BY <1>1, <1>6, <1>7, <1>8, <1>10

\* A thread takes the first header of the stream of its socket.
LEMMA RecvDoes ==
  ASSUME ServerTypeOK, NEW t \in Conns, Recv(t)
  PROVE  LET s == thr[t].sock
         IN /\ ServerTypeOK' /\ UNCHANGED <<newest, entry, rep, db, ev, conn, partner>>
            /\ s \in Conns /\ cl[s].inq # <<>> /\ cl[s].st \in {"open", "fin"}
            /\ thr[t].pc = "recv" /\ thr'[t].pc = "exec" /\ thr'[t].sock = s
            /\ thr'[t].hdr = Head(cl[s].inq) /\ \A d \in Conns : d # t => thr'[d] = thr[d]
            /\ cl'[s].inq = Tail(cl[s].inq) /\ cl'[s].pid = cl[s].pid /\ cl'[s].st = cl[s].st
            /\ cl'[s].stage = cl[s].stage /\ cl'[s].want = cl[s].want
            /\ cl'[s].out = cl[s].out /\ \A d \in Conns : d # s => cl'[d] = cl[d]
<1> DEFINE s == thr[t].sock
           h == Head(cl[s].inq)
           i == Tail(cl[s].inq)
<1>1. /\ s \in Conns /\ cl[s].inq # <<>> /\ cl[s].st \in {"open", "fin"} /\ thr[t].pc = "recv"
      /\ thr' = [thr EXCEPT ![t].pc = "exec", ![t].hdr = h]
      /\ cl' = [cl EXCEPT ![s].inq = i]
      /\ UNCHANGED <<up, diskVars, tableVars, newest, entry, rep, io, db, asks, faults, ev>>
  BY DEF Recv, ServerTypeOK
<1>2. /\ cl \in [Conns -> Client] /\ cl[s] \in Client /\ cl[s].inq \in Seq(Hdr)
      /\ thr \in [Conns -> Thread] /\ thr[t] \in Thread
  BY <1>1, ServerTyped DEF ServerTypeOK
<1>3. h \in Hdr /\ i \in Seq(Hdr)
  <2> HIDE DEF s
  <2> QED BY <1>1, <1>2
<1> HIDE DEF h, i
<1> DEFINE n == [[thr[t] EXCEPT !.pc = "exec"] EXCEPT !.hdr = h]
           r == [cl[s] EXCEPT !.inq = i]
<1>4. n \in Thread /\ n.pc = "exec" /\ n.sock = s /\ n.hdr = h
  BY <1>2, <1>3 DEF Thread, Answering
<1>5. /\ r \in Client /\ r.inq = i /\ r.pid = cl[s].pid /\ r.st = cl[s].st
      /\ r.stage = cl[s].stage /\ r.want = cl[s].want /\ r.out = cl[s].out
  <2> HIDE DEF s
  <2> QED BY <1>2, <1>3 DEF Client
<1>6. thr' = [thr EXCEPT ![t] = n]
  BY <1>1, <1>2
<1>7. cl' = [cl EXCEPT ![s] = r]
  BY <1>1, <1>2
<1> HIDE DEF n, r
<1>8. thr' \in [Conns -> Thread] /\ thr'[t] = n /\ \A d \in Conns : d # t => thr'[d] = thr[d]
  BY <1>2, <1>4, <1>6
<1>9. cl' \in [Conns -> Client] /\ cl'[s] = r /\ \A d \in Conns : d # s => cl'[d] = cl[d]
  <2> HIDE DEF s
  <2> QED BY <1>1, <1>2, <1>5, <1>7
<1>10. ServerTypeOK'
  BY <1>1, <1>8, <1>9 DEF ServerTypeOK, diskVars, tableVars
<1>11. UNCHANGED <<newest, entry, rep, db, ev, conn, partner>>
  BY <1>1 DEF tableVars
<1>12. thr'[t].pc = "exec" /\ thr'[t].sock = s /\ thr'[t].hdr = Head(cl[s].inq)
  BY <1>4, <1>8 DEF h
<1>13. /\ cl'[s].inq = Tail(cl[s].inq) /\ cl'[s].pid = cl[s].pid /\ cl'[s].st = cl[s].st
       /\ cl'[s].stage = cl[s].stage /\ cl'[s].want = cl[s].want /\ cl'[s].out = cl[s].out
  BY <1>5, <1>9 DEF i
<1> QED BY <1>1, <1>8, <1>9, <1>10, <1>11, <1>12, <1>13

\* A partner is made: it gets a row and the newest socket.
LEMMA MakePartnerDoes ==
  ASSUME ServerTypeOK, NEW t \in Conns, Execute(t), MakePartner(t, thr[t].hdr),
         Goes(t, "recv"), snap' = snap
  PROVE  LET h == thr[t].hdr
         IN /\ ServerTypeOK' /\ UNCHANGED <<newest, entry, cl>>
            /\ thr[t].pc = "exec" /\ h.op = "make"
            /\ thr'[t].pc = "recv" /\ thr'[t].sock = thr[t].sock /\ thr'[t].hdr = h
            /\ \A d \in Conns : d # t => thr'[d] = thr[d]
            /\ \A q \in Slots :
                 /\ conn'[q].fd = IF q = h.pid THEN newest ELSE conn[q].fd
                 /\ partner'[q].sock = IF q = h.pid THEN newest ELSE partner[q].sock
            /\ \A q : HasRow(q)' <=> HasRow(q) \/ q = h.pid
            /\ rep' = rep \cup {h.pid}
            /\ ev \subseteq ev' /\ ("hurt" \in ev' => "hurt" \in ev)
            /\ "raced" \notin ev' => newest = thr[t].sock
<1> DEFINE h == thr[t].hdr
           e == ServerEntry(h.pid)
<1>1. /\ thr[t].pc = "exec" /\ h.op = "make"
      /\ conn' = [conn EXCEPT ![h.pid] = [fd |-> newest, state |-> "inuse"]]
      /\ partner' = [partner EXCEPT ![h.pid] = e] /\ db' = Inserted(h.pid)
      /\ rep' = rep \cup {h.pid}
      /\ ev' = IF newest # thr[t].sock THEN ev \cup {"raced"} ELSE ev
      /\ UNCHANGED <<up, cl, created, lost, total, recovery_mode, io, listens, disk, newest,
                     entry, asks, faults>>
  BY DEF Execute, MakePartner
<1>2. h.pid \in Pids /\ h.pid \in Slots
  BY ServerTyped
<1>3. e.sock = newest /\ DOMAIN e = {"id", "state", "sock"}
  BY DEF ServerEntry
<1> HIDE DEF e, h
<1>4. /\ thr' \in [Conns -> Thread] /\ thr'[t].pc = "recv" /\ thr'[t].sock = thr[t].sock
      /\ thr'[t].hdr = thr[t].hdr /\ \A d \in Conns : d # t => thr'[d] = thr[d]
  BY ThreadGoes
<1>5. /\ conn' \in [Slots -> [fd : 0..MaxConns, state : {"inuse", "pause", "resume"}]]
      /\ \A q \in Slots : conn'[q].fd = IF q = h.pid THEN newest ELSE conn[q].fd
  BY <1>1, <1>2 DEF ServerTypeOK
<1>6. /\ partner' = [q \in Slots |-> partner'[q]] /\ partner'[h.pid] = e
      /\ \A q \in Slots : q # h.pid => partner'[q] = partner[q]
  <2>1. partner = [q \in Slots |-> partner[q]]
    BY DEF ServerTypeOK
  <2> QED BY <1>1, <1>2, <2>1
<1>7. \A q \in Slots : /\ DOMAIN partner'[q] = {"id", "state", "sock"}
                       /\ partner'[q].sock = IF q = h.pid THEN newest ELSE partner[q].sock
                       /\ partner'[q].sock \in 0..MaxConns
  BY <1>3, <1>6 DEF ServerTypeOK
<1>8. /\ db' \in Seq(PartnerRow)
      /\ \A i \in DOMAIN db : i \in DOMAIN db' /\ db'[i].pid = db[i].pid
      /\ \E i \in DOMAIN db' : db'[i].pid = h.pid
      /\ \A i \in DOMAIN db' : i \in DOMAIN db \/ db'[i].pid = h.pid
  BY <1>1, <1>2, RowAdded
<1>9. \A q : HasRow(q)' <=> HasRow(q) \/ q = h.pid
  BY <1>8 DEF HasRow
<1>10. /\ ev \subseteq ev' /\ ("hurt" \in ev' => "hurt" \in ev) /\ ev' \subseteq ServerEvents
       /\ "raced" \notin ev' => newest = thr[t].sock
  BY <1>1 DEF ServerTypeOK, ServerEvents
<1>11. rep' \subseteq Pids
  BY <1>1, <1>2 DEF ServerTypeOK
<1>12. ServerTypeOK'
  BY <1>1, <1>4, <1>5, <1>6, <1>7, <1>8, <1>10, <1>11 DEF ServerTypeOK
<1> QED BY <1>1, <1>4, <1>5, <1>7, <1>9, <1>10, <1>12 DEF h

\* The daemon starts again: nothing is left but the rows, and no connection.
LEMMA RestartDoes ==
  ASSUME ServerTypeOK, ServerRestart
  PROVE  /\ ServerTypeOK' /\ newest' = 0 /\ entry' = 0 /\ rep' = {} /\ db' = db
         /\ \A q \in Slots : conn'[q].fd = 0 /\ partner'[q].sock = 0
         /\ \A t \in Conns : thr'[t] = NoThread
         /\ \A c \in Conns :
              /\ cl'[c].pid = cl[c].pid /\ cl'[c].stage = cl[c].stage
              /\ \/ cl'[c] = cl[c] /\ cl[c].st = "none"
                 \/ /\ cl[c].st # "none" /\ cl'[c].st = "shut" /\ cl'[c].want = NoHdr
                    /\ cl'[c].inq = <<>> /\ cl'[c].out = <<>>
         /\ ev \subseteq ev' /\ ("hurt" \in ev' => "hurt" \in ev)
<1>1. /\ up' = TRUE /\ listens' = FALSE /\ disk' = [p \in Slots |-> "none"] /\ snap' = {}
      /\ conn' = [p \in Slots |-> [fd |-> 0, state |-> "inuse"]]
      /\ newest' = 0 /\ created' = [p \in Slots |-> FALSE] /\ lost' = {} /\ total' = 0
      /\ entry' = 0 /\ rep' = {} /\ io' = [p \in Slots |-> "none"]
      /\ thr' = [c \in Conns |-> NoThread] /\ recovery_mode' = Recovering
      /\ ev' = ev \cup {"restart"} /\ UNCHANGED <<db, asks, faults>>
  BY DEF ServerRestart, Fresh
<1>2. /\ partner' = [q \in Slots |-> partner'[q]]
      /\ \A q \in Slots : DOMAIN partner'[q] = {"id", "state", "sock"} /\ partner'[q].sock = 0
  <2>1. partner' = [p \in Slots |->
          IF p < Len(InUse) THEN [id |-> InUse[p + 1].pid, state |-> InUse[p + 1].state,
                                  sock |-> 0]
          ELSE [id |-> 0, state |-> "none", sock |-> 0]]
    BY DEF ServerRestart
  <2>2. partner' = [q \in Slots |-> partner'[q]]
    BY <2>1
  <2>3. ASSUME NEW q \in Slots
        PROVE  DOMAIN partner'[q] = {"id", "state", "sock"} /\ partner'[q].sock = 0
    <3>1. \/ partner'[q] = [id |-> InUse[q + 1].pid, state |-> InUse[q + 1].state, sock |-> 0]
          \/ partner'[q] = [id |-> 0, state |-> "none", sock |-> 0]
      BY <2>1
    <3> QED BY <3>1
  <2> QED BY <2>2, <2>3
<1>3. Recovering \subseteq Pids
  <2>1. \A i \in DOMAIN db : db[i] \in PartnerRow
    BY DEF ServerTypeOK
  <2>2. \A i \in DOMAIN db : db[i].pid \in Pids
    BY <2>1 DEF PartnerRow
  <2> QED BY <2>2 DEF Recovering
<1>4. /\ cl' \in [Conns -> Client]
      /\ \A c \in Conns :
           /\ cl'[c].pid = cl[c].pid /\ cl'[c].stage = cl[c].stage
           /\ \/ cl'[c] = cl[c] /\ cl[c].st = "none"
              \/ /\ cl[c].st # "none" /\ cl'[c].st = "shut" /\ cl'[c].want = NoHdr
                 /\ cl'[c].inq = <<>> /\ cl'[c].out = <<>>
  <2>1. cl' = [c \in Conns |-> IF cl[c].st = "none" THEN cl[c]
                               ELSE [cl[c] EXCEPT !.st = "shut", !.want = NoHdr,
                                                  !.inq = <<>>, !.out = <<>>]]
    BY DEF ServerRestart
  <2>2. ASSUME NEW c \in Conns
        PROVE  /\ cl'[c] \in Client
               /\ cl'[c].pid = cl[c].pid /\ cl'[c].stage = cl[c].stage
               /\ \/ cl'[c] = cl[c] /\ cl[c].st = "none"
                  \/ /\ cl[c].st # "none" /\ cl'[c].st = "shut" /\ cl'[c].want = NoHdr
                     /\ cl'[c].inq = <<>> /\ cl'[c].out = <<>>
    <3>1. cl[c] \in Client /\ <<>> \in Seq(Hdr)
      BY ServerTyped
    <3>2. CASE cl[c].st = "none"
      <4>1. cl'[c] = cl[c]
        BY <2>1, <3>2
      <4> QED BY <3>1, <3>2, <4>1
    <3>3. CASE cl[c].st # "none"
      <4>1. cl'[c] = [cl[c] EXCEPT !.st = "shut", !.want = NoHdr, !.inq = <<>>, !.out = <<>>]
        BY <2>1, <3>3
      <4> QED BY <3>1, <3>3, <4>1, Blank DEF Client
    <3> QED BY <3>2, <3>3
  <2>3. cl' = [c \in Conns |-> cl'[c]]
    BY <2>1
  <2> QED BY <2>2, <2>3
<1>5. ev \subseteq ev' /\ ("hurt" \in ev' => "hurt" \in ev) /\ ev' \subseteq ServerEvents
  BY <1>1 DEF ServerTypeOK, ServerEvents
<1>6. \A q \in Slots : conn'[q].fd = 0 /\ partner'[q].sock = 0
  BY <1>1, <1>2
<1>7. thr' \in [Conns -> Thread]
  BY <1>1, Blank
<1>8. conn' \in [Slots -> [fd : 0..MaxConns, state : {"inuse", "pause", "resume"}]]
  BY <1>1, Numbers
<1>9. /\ disk' \in [Slots -> {"none", "whole", "unsized"}]
      /\ io' \in [Slots -> {"none", "mapped", "inuse", "released"}]
      /\ created' \in [Slots -> BOOLEAN]
  BY <1>1
<1>10. ServerTypeOK'
  BY ZenonT(60), <1>1, <1>2, <1>3, <1>4, <1>5, <1>7, <1>8, <1>9, Numbers DEF ServerTypeOK
<1> QED BY <1>1, <1>2, <1>4, <1>5, <1>6, <1>10

\* The commands and a crash touch neither connections nor threads.
Aside ==
  /\ UNCHANGED <<conn, partner, newest, entry, rep, thr, db, cl>>
  /\ ev \subseteq ev' /\ ("hurt" \in ev' => "hurt" \in ev)

\* The three steps that are Aside.
LEMMA AsideDoes ==
  ASSUME ServerTypeOK, CreateDisk \/ (\E p \in Pids : SnapDisk(p)) \/ ServerCrash
  PROVE  ServerTypeOK' /\ Aside
<1>1. CASE CreateDisk
  <2>1. /\ \E p \in Pids : \E x \in {"unsized", "whole"} : disk' = [disk EXCEPT ![p] = x]
        /\ listens' = TRUE
        /\ UNCHANGED <<up, snap, tableVars, newest, entry, rep, io, thr, db, cl, asks, faults, ev>>
    BY <1>1 DEF CreateDisk, Listen
  <2>2. disk' \in [Slots -> {"none", "whole", "unsized"}]
    BY <2>1 DEF ServerTypeOK
  <2>3. ServerTypeOK'
    BY <2>1, <2>2 DEF ServerTypeOK, tableVars
  <2> QED BY <2>1, <2>3 DEF Aside, tableVars
<1>2. ASSUME NEW p \in Pids, SnapDisk(p) PROVE ServerTypeOK' /\ Aside
  <2>1. /\ up' \in {up, FALSE} /\ ev' \in {ev, ev \cup {"nodisk"}}
        /\ snap' \subseteq snap \cup {p}
        /\ UNCHANGED <<listens, disk, tableVars, newest, entry, rep, io, thr, db, cl, asks, faults>>
    BY <1>2 DEF SnapDisk
  <2>2. ev' \subseteq ServerEvents /\ snap' \subseteq Pids /\ up' \in BOOLEAN
    BY <2>1 DEF ServerTypeOK, ServerEvents
  <2>3. ServerTypeOK'
    BY <2>1, <2>2 DEF ServerTypeOK, tableVars
  <2> QED BY <2>1, <2>3 DEF Aside, tableVars
<1>3. CASE ServerCrash
  <2>1. /\ up' = FALSE /\ ev' = ev \cup {"crash"} /\ faults' = faults + 1
        /\ UNCHANGED <<diskVars, tableVars, newest, entry, rep, io, thr, db, cl, asks>>
    BY <1>3 DEF ServerCrash, Fault
  <2>2. ev' \subseteq ServerEvents /\ faults' \in Nat
    BY <2>1 DEF ServerTypeOK, ServerEvents
  <2>3. ServerTypeOK'
    BY <2>1, <2>2 DEF ServerTypeOK, tableVars, diskVars
  <2> QED BY <2>1, <2>3 DEF Aside, tableVars
<1> QED BY <1>1, <1>2, <1>3

-----------------------------------------------------------------------------
(* The steps of the daemon, by what they do.                               *)

Makes(t) ==
  Execute(t) /\ MakePartner(t, thr[t].hdr) /\ Goes(t, "recv") /\ snap' = snap

\* Every step of the specification is one of these.
LEMMA ServerSteps ==
  ASSUME ServerTypeOK, HeaderInv, ServerNext
  PROVE  \/ ServerTypeOK' /\ Aside
         \/ ServerRestart
         \/ \E c \in Conns : \/ \E p \in Pids, stage \in {"new", "mapped"} : Accept(c, p, stage)
                             \/ ThreadStart(c) \/ Recv(c) \/ Makes(c)
                             \/ \E op \in Ops : ClientSend(c, op)
                             \/ ClientTake(c) \/ ClientLeaves(c)
                             \/ ServerTypeOK' /\ Handles(c)
<1>1. CASE CreateDisk \/ (\E p \in Pids : SnapDisk(p)) \/ ServerCrash
  BY <1>1, AsideDoes
<1>2. ASSUME NEW c \in Conns, ClientStep(c)
      PROVE  \/ \E p \in Pids, stage \in {"new", "mapped"} : Accept(c, p, stage)
             \/ \E op \in Ops : ClientSend(c, op)
             \/ ClientTake(c) \/ ClientLeaves(c)
  BY <1>2 DEF ClientStep, Ops, Silent
<1>3. ASSUME NEW c \in Conns, ThreadStep(c)
      PROVE  ThreadStart(c) \/ Recv(c) \/ Makes(c) \/ (ServerTypeOK' /\ Handles(c))
  <2>1. CASE Execute(c)
    <3> DEFINE h == thr[c].hdr
    <3>1. \/ MakePartner(c, h) /\ Goes(c, "recv") /\ snap' = snap
          \/ SynReceived(c, h) /\ Goes(c, "recv") /\ snap' = snap
          \/ GetBitmap(c, h) /\ Goes(c, "recv") /\ snap' = snap
          \/ GetData(c, h) /\ snap' = snap
          \/ TerminateRound(c, h) /\ Goes(c, "recv")
      BY <2>1 DEF Execute, Goes
    <3> QED BY <2>1, <3>1, SynReceivedDoes, GetBitmapDoes, GetDataDoes, TerminateDoes
            DEF Makes
  <2>2. CASE RecvEof(c) \/ RecvError(c) \/ RecvPause(c)
    BY <2>2, RecvEofDoes, RecvErrorDoes, RecvPauseDoes
  <2>3. CASE Unread(c) \/ SendChunk(c) \/ SendError(c) \/ Wake(c)
    BY <2>3, UnreadDoes, SendChunkDoes, SendErrorDoes, WakeDoes
  <2> QED BY <1>3, <2>1, <2>2, <2>3 DEF ThreadStep
<1> QED BY <1>1, <1>2, <1>3 DEF ServerNext

\* Exceptions are never taken back.
LEMMA Worsens ==
  ASSUME ev \subseteq ev'
  PROVE  /\ Undisturbed' => Undisturbed
         /\ (ev \cap {"raced", "given"} = {})' => ev \cap {"raced", "given"} = {}
         /\ "slot" \notin ev' => "slot" \notin ev
         /\ Undisturbed' => (ev \cap {"raced", "given"} = {})' /\ "slot" \notin ev'
                            /\ "late" \notin ev' /\ "readerror" \notin ev'
  BY DEF Undisturbed

\* One lemma per kind of step: it keeps the invariant.
LEMMA AsideKeeps ==
  ASSUME ServerSideInv, ServerTypeOK', Aside PROVE ServerSideInv'
<1>1. /\ UNCHANGED <<conn, partner, newest, entry, rep, thr, db, cl>>
      /\ ev \subseteq ev' /\ ("hurt" \in ev' => "hurt" \in ev)
  BY DEF Aside
<1>2. SockInv'
  BY <1>1 DEF ServerSideInv, SockInv, Accepted
<1>3. HeaderInv'
  BY <1>1 DEF ServerSideInv, HeaderInv
<1>4. MadeInv'
  BY <1>1, Worsens DEF ServerSideInv, MadeInv, HasRow
<1>5. ReadInv'
  BY <1>1, Worsens DEF ServerSideInv, ReadInv
<1>6. LateInv'
  BY <1>1, Worsens DEF ServerSideInv, LateInv
<1>7. TraceInv'
  BY <1>1, Worsens DEF ServerSideInv, TraceInv, Busy
<1> QED BY <1>2, <1>3, <1>4, <1>5, <1>6, <1>7 DEF ServerSideInv

LEMMA RestartKeeps ==
  ASSUME ServerSideInv, ServerRestart PROVE ServerSideInv'
<1>1. ServerTypeOK
  BY DEF ServerSideInv
<1>2. /\ ServerTypeOK' /\ newest' = 0 /\ entry' = 0 /\ rep' = {} /\ db' = db
      /\ \A q \in Slots : conn'[q].fd = 0 /\ partner'[q].sock = 0
      /\ \A t \in Conns : thr'[t] = NoThread
      /\ \A c \in Conns :
           /\ cl'[c].pid = cl[c].pid /\ cl'[c].stage = cl[c].stage
           /\ \/ cl'[c] = cl[c] /\ cl[c].st = "none"
              \/ /\ cl[c].st # "none" /\ cl'[c].st = "shut" /\ cl'[c].want = NoHdr
                 /\ cl'[c].inq = <<>> /\ cl'[c].out = <<>>
      /\ ev \subseteq ev' /\ ("hurt" \in ev' => "hurt" \in ev)
  BY <1>1, RestartDoes
<1>3. \A t \in Conns : /\ thr'[t].pc = "none" /\ thr'[t].sock = 0 /\ thr'[t].hdr = NoHdr
                       /\ thr'[t].hdr.op = "none"
  BY <1>2, Blank
<1>4. \A i : i \notin DOMAIN << >>
  OBVIOUS
<1>5. SockInv'
  BY <1>2, <1>3 DEF SockInv, Accepted
<1>6. HeaderInv'
  BY <1>2, <1>3, <1>4 DEF ServerSideInv, HeaderInv
<1>7. MadeInv'
  BY <1>2, <1>3, <1>4, Worsens, Numbers DEF ServerSideInv, MadeInv, HasRow
<1>8. ReadInv'
  BY <1>3 DEF ReadInv
<1>9. LateInv'
  BY <1>2 DEF LateInv
<1>10. TraceInv'
  BY <1>2, Worsens DEF ServerSideInv, TraceInv
<1> QED BY <1>2, <1>5, <1>6, <1>7, <1>8, <1>9, <1>10 DEF ServerSideInv

LEMMA ThreadStartKeeps ==
  ASSUME ServerSideInv, NEW c \in Conns, ThreadStart(c) PROVE ServerSideInv'
<1>1. ServerTypeOK
  BY DEF ServerSideInv
<1>2. /\ ServerTypeOK' /\ cl' = cl /\ db' = db /\ rep' = rep /\ partner' = partner
      /\ newest' = newest /\ entry' = entry
      /\ thr[c].pc = "new" /\ thr'[c].pc = "recv" /\ thr'[c].sock = entry
      /\ thr'[c].hdr = thr[c].hdr /\ \A d \in Conns : d # c => thr'[d] = thr[d]
      /\ \A q \in Slots : conn'[q].fd = IF q = 0 THEN entry ELSE conn[q].fd
      /\ ev \subseteq ev' /\ ("hurt" \in ev' => "hurt" \in ev)
      /\ "given" \notin ev' /\ HasRow(0) => entry \in Conns /\ cl[entry].pid = 0
  BY <1>1, ThreadStartDoes
<1>3. thr[c].hdr = NoHdr /\ thr'[c].hdr = NoHdr
  BY <1>2 DEF ServerSideInv, HeaderInv
<1>4. SockInv'
  BY <1>2 DEF ServerSideInv, SockInv, Accepted
<1>5. HeaderInv'
  BY <1>2, <1>3, Blank DEF ServerSideInv, HeaderInv
<1>6. MadeInv'
  <2>1. \A p : HasRow(p)' <=> HasRow(p)
    BY <1>2 DEF HasRow
  <2>2. \A d \in Conns : thr'[d].hdr = thr[d].hdr
    BY <1>2
  <2> QED BY <1>2, <2>1, <2>2, Worsens DEF ServerSideInv, MadeInv
<1>7. ReadInv'
  BY <1>2, Worsens DEF ServerSideInv, ReadInv
<1>8. LateInv'
  <2>1. \A d \in Conns : thr'[d].hdr = thr[d].hdr /\ (thr'[d].pc \in Answering => thr[d].pc \in Answering)
    BY <1>2 DEF Answering
  <2> QED BY <1>2, <2>1, Worsens DEF ServerSideInv, LateInv
<1>9. TraceInv'
  <2>1. \A d \in Conns : thr'[d].hdr = thr[d].hdr /\ (Busy(d)' <=> Busy(d))
    BY <1>2 DEF Busy, Answering
  <2> QED BY <1>2, <2>1, Worsens DEF ServerSideInv, TraceInv
<1> QED BY <1>2, <1>4, <1>5, <1>6, <1>7, <1>8, <1>9 DEF ServerSideInv

LEMMA ClientSendKeeps ==
  ASSUME ServerSideInv, NEW c \in Conns, NEW op \in Ops, ClientSend(c, op)
  PROVE  ServerSideInv'
<1>1. ServerTypeOK
  BY DEF ServerSideInv
<1>2. /\ ServerTypeOK' /\ ClientOnly /\ \A d \in Conns : d # c => cl'[d] = cl[d]
      /\ cl[c].st = "open" /\ cl[c].want = NoHdr
      /\ op = "meta" => cl[c].stage = "related"
      /\ op \in {"data", "term"} => cl[c].stage = "mapped"
      /\ cl'[c].pid = cl[c].pid /\ cl'[c].st = cl[c].st /\ cl'[c].out = cl[c].out
      /\ cl'[c].stage = cl[c].stage \/ cl'[c].stage = "made"
           \/ (cl'[c].stage = "related" /\ op = "term")
  BY <1>1, ClientSendDoes
<1>3. PICK h \in Hdr : /\ h.op = op /\ h.pid = cl[c].pid
                       /\ cl'[c].inq = Append(cl[c].inq, h)
                       /\ cl'[c].want = IF op \in Silent THEN NoHdr ELSE h
  BY <1>1, ClientSendDoes
<1>4. UNCHANGED <<conn, partner, newest, entry, rep, thr, db, ev>>
  BY <1>2 DEF ClientOnly, tableVars
<1>5. cl[c].inq \in Seq(Hdr)
  BY <1>1, ServerTyped
<1>6. /\ Len(cl[c].inq) \in Nat /\ DOMAIN cl[c].inq = 1 .. Len(cl[c].inq)
      /\ Len(cl'[c].inq) = Len(cl[c].inq) + 1
      /\ DOMAIN cl'[c].inq = 1 .. (Len(cl[c].inq) + 1)
      /\ \A i \in DOMAIN cl'[c].inq :
           \/ i = Len(cl[c].inq) + 1 /\ cl'[c].inq[i] = h
           \/ i \in DOMAIN cl[c].inq /\ cl'[c].inq[i] = cl[c].inq[i]
  <2>1. /\ Len(cl[c].inq) \in Nat /\ DOMAIN cl[c].inq = 1 .. Len(cl[c].inq)
        /\ Len(cl'[c].inq) = Len(cl[c].inq) + 1
        /\ DOMAIN cl'[c].inq = 1 .. (Len(cl[c].inq) + 1)
        /\ cl'[c].inq[Len(cl[c].inq) + 1] = h
        /\ \A i \in 1 .. Len(cl[c].inq) : cl'[c].inq[i] = cl[c].inq[i]
    BY <1>3, <1>5, AppendProperties
  <2>2. \A i \in 1 .. (Len(cl[c].inq) + 1) : i = Len(cl[c].inq) + 1 \/ i \in 1 .. Len(cl[c].inq)
    BY <2>1
  <2> QED BY <2>1, <2>2
<1>7. SockInv'
  BY <1>2, <1>4 DEF ServerSideInv, SockInv, Accepted
<1>8. \A d \in Conns : cl'[d].pid = cl[d].pid /\ cl'[d].st = cl[d].st /\ cl'[d].out = cl[d].out
  BY <1>2
<1>9. HeaderInv'
  <2>1. \A d \in Conns : \A i \in DOMAIN cl'[d].inq : /\ cl'[d].inq[i].op \in Ops
                                                      /\ cl'[d].inq[i].pid = cl'[d].pid
    <3>1. \A i \in DOMAIN cl'[c].inq : cl'[c].inq[i].op \in Ops /\ cl'[c].inq[i].pid = cl'[c].pid
      BY <1>3, <1>6, <1>8 DEF ServerSideInv, HeaderInv
    <3>2. \A d \in Conns : d # c => \A i \in DOMAIN cl'[d].inq :
                                      cl'[d].inq[i].op \in Ops /\ cl'[d].inq[i].pid = cl'[d].pid
      BY <1>2 DEF ServerSideInv, HeaderInv
    <3> QED BY <3>1, <3>2
  <2> QED BY <1>4, <1>8, <2>1 DEF ServerSideInv, HeaderInv
<1>10. MadeInv'
  <2> SUFFICES ASSUME ev \cap {"raced", "given"} = {} PROVE MadeInv'
    BY <1>4 DEF MadeInv
  <2>1. \A p : HasRow(p)' <=> HasRow(p)
    BY <1>4 DEF HasRow
  <2>2. op \in {"meta", "data", "term"} => HasRow(cl[c].pid)
    BY <1>2 DEF ServerSideInv, MadeInv
  <2>3. \A d \in Conns :
          /\ cl'[d].out # <<>> \/ cl'[d].stage \in {"related", "mapped"} => HasRow(cl'[d].pid)
          /\ \A i \in DOMAIN cl'[d].inq :
               cl'[d].inq[i].op \in {"meta", "data", "term"} => HasRow(cl'[d].pid)
    <3>1. cl'[c].out # <<>> \/ cl'[c].stage \in {"related", "mapped"} => HasRow(cl'[c].pid)
      BY <1>2, <2>2 DEF ServerSideInv, MadeInv
    <3>2. \A i \in DOMAIN cl'[c].inq :
               cl'[c].inq[i].op \in {"meta", "data", "term"} => HasRow(cl'[c].pid)
      BY <1>2, <1>3, <1>6, <2>2 DEF ServerSideInv, MadeInv
    <3>3. \A d \in Conns : d # c =>
            /\ cl'[d].out # <<>> \/ cl'[d].stage \in {"related", "mapped"} => HasRow(cl'[d].pid)
            /\ \A i \in DOMAIN cl'[d].inq :
                 cl'[d].inq[i].op \in {"meta", "data", "term"} => HasRow(cl'[d].pid)
      BY <1>2 DEF ServerSideInv, MadeInv
    <3> QED BY <3>1, <3>2, <3>3
  <2> QED BY <1>4, <1>8, <2>1, <2>3 DEF ServerSideInv, MadeInv
<1>11. ReadInv'
  BY <1>4 DEF ServerSideInv, ReadInv
<1>12. LateInv'
  <2>1. \A d \in Conns : cl[d].st = "fin" => cl'[d] = cl[d]
    BY <1>2
  <2> QED BY <1>4, <1>8, <2>1 DEF ServerSideInv, LateInv, Undisturbed
<1>13. TraceInv'
  <2> SUFFICES ASSUME Undisturbed PROVE TraceInv'
    BY <1>4 DEF TraceInv, Undisturbed
  <2>1. \A d \in Conns : Busy(d)' <=> Busy(d)
    BY <1>4 DEF Busy
  <2>2. /\ cl[c].out = <<>> /\ ~Busy(c)
        /\ \A i \in DOMAIN cl[c].inq : cl[c].inq[i].op \in Silent
    <3>1. "none" \notin Ops /\ NoHdr.op = "none"
      BY Blank DEF Ops, Silent
    <3>2. \A i \in DOMAIN cl[c].inq : cl[c].inq[i] # NoHdr
      BY <3>1 DEF ServerSideInv, HeaderInv
    <3>3. \A i \in DOMAIN cl[c].inq : cl[c].inq[i].op \in Silent
      BY <1>2, <3>2 DEF ServerSideInv, TraceInv
    <3>4. Busy(c) => thr[c].hdr.op = "data" \/ thr[c].hdr # NoHdr
      BY DEF ServerSideInv, HeaderInv, Busy, Answering
    <3>5. ~Busy(c)
      BY <1>2, <3>1, <3>4 DEF ServerSideInv, TraceInv
    <3> QED BY <1>2, <3>3, <3>5 DEF ServerSideInv, TraceInv
  <2>3. /\ \A i \in DOMAIN cl'[c].inq :
                \/ cl'[c].inq[i].op \in Silent
                \/ /\ i = Len(cl'[c].inq) /\ cl'[c].inq[i] = cl'[c].want
                   /\ cl'[c].out = <<>> /\ ~Busy(c)'
    BY <1>2, <1>3, <1>6, <2>1, <2>2
  <2> QED BY <1>2, <1>4, <2>1, <2>2, <2>3 DEF ServerSideInv, TraceInv
<1> QED BY <1>2, <1>7, <1>9, <1>10, <1>11, <1>12, <1>13 DEF ServerSideInv

LEMMA ClientTakeKeeps ==
  ASSUME ServerSideInv, NEW c \in Conns, ClientTake(c) PROVE ServerSideInv'
<1>1. ServerTypeOK
  BY DEF ServerSideInv
<1>2. /\ ServerTypeOK' /\ ClientOnly /\ \A d \in Conns : d # c => cl'[d] = cl[d]
      /\ cl[c].out # <<>> /\ cl'[c].out = Tail(cl[c].out) /\ cl'[c].want = NoHdr
      /\ cl'[c].pid = cl[c].pid /\ cl'[c].st = cl[c].st /\ cl'[c].inq = cl[c].inq
  BY <1>1, ClientTakeDoes
<1>3. UNCHANGED <<conn, partner, newest, entry, rep, thr, db, ev>>
  BY <1>2 DEF ClientOnly, tableVars
<1>4. \A d \in Conns : cl'[d].pid = cl[d].pid /\ cl'[d].st = cl[d].st /\ cl'[d].inq = cl[d].inq
  BY <1>2
<1>5. SockInv'
  BY <1>3, <1>4 DEF ServerSideInv, SockInv, Accepted
<1>6. HeaderInv'
  BY <1>3, <1>4 DEF ServerSideInv, HeaderInv
<1>7. MadeInv'
  <2> SUFFICES ASSUME ev \cap {"raced", "given"} = {} PROVE MadeInv'
    BY <1>3 DEF MadeInv
  <2>1. \A p : HasRow(p)' <=> HasRow(p)
    BY <1>3 DEF HasRow
  <2>2. HasRow(cl[c].pid)
    BY <1>2 DEF ServerSideInv, MadeInv
  <2>3. \A d \in Conns : cl'[d].out # <<>> \/ cl'[d].stage \in {"related", "mapped"}
                           => HasRow(cl'[d].pid)
    BY <1>2, <2>2 DEF ServerSideInv, MadeInv
  <2> QED BY <1>3, <1>4, <2>1, <2>3 DEF ServerSideInv, MadeInv
<1>8. ReadInv'
  BY <1>3 DEF ServerSideInv, ReadInv
<1>9. LateInv'
  BY <1>3, <1>4 DEF ServerSideInv, LateInv, Undisturbed
<1>10. TraceInv'
  <2> SUFFICES ASSUME Undisturbed PROVE TraceInv'
    BY <1>3 DEF TraceInv, Undisturbed
  <2>1. \A d \in Conns : Busy(d)' <=> Busy(d)
    BY <1>3 DEF Busy
  <2>2. cl[c].st = "open"
    BY <1>2 DEF ServerSideInv, TraceInv
  <2>3. Len(cl[c].out) = 1 /\ cl[c].out \in Seq(Hdr)
    BY <1>1, <1>2, <2>2, ServerTyped DEF ServerSideInv, TraceInv
  <2>4. cl'[c].out = <<>>
    <3>1. Tail(cl[c].out) \in Seq(Hdr) /\ Len(Tail(cl[c].out)) = 0
      BY <1>2, <2>3
    <3> QED BY <1>2, <3>1, EmptySeq
  <2>5. /\ ~Busy(c) /\ \A i \in DOMAIN cl[c].inq : cl[c].inq[i].op \in Silent
    BY <1>2, <2>2 DEF ServerSideInv, TraceInv
  <2> QED BY <1>2, <1>3, <1>4, <2>1, <2>2, <2>4, <2>5 DEF ServerSideInv, TraceInv
<1> QED BY <1>2, <1>5, <1>6, <1>7, <1>8, <1>9, <1>10 DEF ServerSideInv

LEMMA ClientLeavesKeeps ==
  ASSUME ServerSideInv, NEW c \in Conns, ClientLeaves(c) PROVE ServerSideInv'
<1>1. ServerTypeOK
  BY DEF ServerSideInv
<1>2. /\ ServerTypeOK' /\ ClientOnly /\ \A d \in Conns : d # c => cl'[d] = cl[d]
      /\ cl[c].st = "open" /\ cl'[c].st \in {"fin", "rst"}
      /\ cl'[c].want = NoHdr /\ cl'[c].out = <<>> /\ cl'[c].stage = cl[c].stage
      /\ cl'[c].pid = cl[c].pid /\ cl'[c].inq \in {<<>>, cl[c].inq}
  BY <1>1, ClientLeavesDoes
<1>3. UNCHANGED <<conn, partner, newest, entry, rep, thr, db, ev>>
  BY <1>2 DEF ClientOnly, tableVars
<1>4. \A d \in Conns : cl'[d].pid = cl[d].pid /\ (cl'[d].st = "none" <=> cl[d].st = "none")
  BY <1>2
<1>5. /\ \A i \in DOMAIN cl'[c].inq : i \in DOMAIN cl[c].inq /\ cl'[c].inq[i] = cl[c].inq[i]
  <2>1. cl'[c].inq = <<>> \/ cl'[c].inq = cl[c].inq
    BY <1>2
  <2>2. \A i : i \notin DOMAIN << >>
    OBVIOUS
  <2> QED BY <2>1, <2>2
<1>6. \A d \in Conns : \A i \in DOMAIN cl'[d].inq : /\ i \in DOMAIN cl[d].inq
                                                    /\ cl'[d].inq[i] = cl[d].inq[i]
  BY <1>2, <1>5
<1>7. SockInv'
  BY <1>3, <1>4 DEF ServerSideInv, SockInv, Accepted
<1>8. HeaderInv'
  BY <1>3, <1>4, <1>6 DEF ServerSideInv, HeaderInv
<1>9. MadeInv'
  <2> SUFFICES ASSUME ev \cap {"raced", "given"} = {} PROVE MadeInv'
    BY <1>3 DEF MadeInv
  <2>1. \A p : HasRow(p)' <=> HasRow(p)
    BY <1>3 DEF HasRow
  <2>2. \A d \in Conns : /\ cl'[d].out # <<>> => cl[d].out # <<>>
                         /\ cl'[d].stage = cl[d].stage
    BY <1>2
  <2> QED BY <1>3, <1>4, <1>6, <2>1, <2>2 DEF ServerSideInv, MadeInv
<1>10. ReadInv'
  BY <1>3 DEF ServerSideInv, ReadInv
<1>11. LateInv'
  <2> SUFFICES ASSUME Undisturbed PROVE LateInv'
    BY <1>3 DEF LateInv, Undisturbed
  <2>1. ASSUME NEW a \in Conns, NEW d \in Conns, a # d, cl'[a].st = "open",
               cl'[d].st # "none", cl'[d].pid = cl'[a].pid
        PROVE  /\ cl'[d].st # "open" /\ thr'[d].pc \notin Answering
               /\ cl'[d].st = "fin" => cl'[d].inq = <<>> /\ thr'[d].hdr = NoHdr
    <3>1. a # c /\ cl'[a] = cl[a]
      BY <1>2, <2>1
    <3>2. /\ cl[d].st # "open" /\ thr[d].pc \notin Answering
          /\ cl[d].st = "fin" => cl[d].inq = <<>> /\ thr[d].hdr = NoHdr
      BY <1>4, <2>1, <3>1 DEF ServerSideInv, LateInv
    <3>3. d # c /\ cl'[d] = cl[d]
      BY <1>2, <3>2
    <3> QED BY <1>3, <3>2, <3>3
  <2> QED BY <2>1 DEF LateInv
<1>12. TraceInv'
  <2> SUFFICES ASSUME Undisturbed PROVE TraceInv'
    BY <1>3 DEF TraceInv, Undisturbed
  <2>1. \A d \in Conns : Busy(d)' <=> Busy(d)
    BY <1>3 DEF Busy
  <2> QED BY <1>2, <1>3, <2>1 DEF ServerSideInv, TraceInv
<1> QED BY <1>2, <1>7, <1>8, <1>9, <1>10, <1>11, <1>12 DEF ServerSideInv

LEMMA RecvKeeps ==
  ASSUME ServerSideInv, NEW t \in Conns, Recv(t) PROVE ServerSideInv'
<1> DEFINE s == thr[t].sock
           h == Head(cl[s].inq)
<1>1. ServerTypeOK
  BY DEF ServerSideInv
<1>2. /\ ServerTypeOK' /\ UNCHANGED <<newest, entry, rep, db, ev, conn, partner>>
      /\ s \in Conns /\ cl[s].inq # <<>> /\ cl[s].st \in {"open", "fin"}
      /\ thr[t].pc = "recv" /\ thr'[t].pc = "exec" /\ thr'[t].sock = s
      /\ thr'[t].hdr = h /\ \A d \in Conns : d # t => thr'[d] = thr[d]
      /\ cl'[s].inq = Tail(cl[s].inq) /\ cl'[s].pid = cl[s].pid /\ cl'[s].st = cl[s].st
      /\ cl'[s].stage = cl[s].stage /\ cl'[s].want = cl[s].want
      /\ cl'[s].out = cl[s].out /\ \A d \in Conns : d # s => cl'[d] = cl[d]
  BY <1>1, RecvDoes
<1> HIDE DEF s
<1>3. /\ 1 \in DOMAIN cl[s].inq /\ h = cl[s].inq[1] /\ Len(cl[s].inq) \in Nat
      /\ DOMAIN cl[s].inq = 1 .. Len(cl[s].inq)
      /\ Len(cl'[s].inq) = Len(cl[s].inq) - 1
      /\ DOMAIN cl'[s].inq = 1 .. Len(cl'[s].inq)
      /\ \A i \in DOMAIN cl'[s].inq : i + 1 \in DOMAIN cl[s].inq /\ cl'[s].inq[i] = cl[s].inq[i + 1]
  <2>1. cl[s].inq \in Seq(Hdr)
    BY <1>1, <1>2, ServerTyped
  <2> QED BY <1>2, <2>1
<1> HIDE DEF h
<1>4. h.op \in Ops /\ h.pid = cl[s].pid /\ h # NoHdr
  <2>1. h.op \in Ops /\ h.pid = cl[s].pid
    BY <1>2, <1>3 DEF ServerSideInv, HeaderInv
  <2>2. NoHdr.op \notin Ops
    BY Blank DEF Ops, Silent
  <2> QED BY <2>1, <2>2
<1>5. \A d \in Conns : /\ cl'[d].pid = cl[d].pid /\ cl'[d].st = cl[d].st
                       /\ cl'[d].stage = cl[d].stage /\ cl'[d].out = cl[d].out
                       /\ cl'[d].want = cl[d].want
  BY <1>2
<1>6. \A d \in Conns : \A i \in DOMAIN cl'[d].inq :
         \E j \in DOMAIN cl[d].inq : cl'[d].inq[i] = cl[d].inq[j]
  <2>1. \A i \in DOMAIN cl'[s].inq : \E j \in DOMAIN cl[s].inq : cl'[s].inq[i] = cl[s].inq[j]
    BY <1>3
  <2>2. \A d \in Conns : d # s => cl'[d].inq = cl[d].inq
    BY <1>2
  <2> QED BY <2>1, <2>2
<1>7. SockInv'
  <2>1. SockInv
    BY DEF ServerSideInv
  <2>2. \A c \in Conns : cl'[c].st = cl[c].st
    BY <1>5
  <2>3. Accepted(newest)' /\ Accepted(entry)'
    BY <1>2, <2>1, <2>2 DEF SockInv, Accepted
  <2>4. \A p \in Slots : Accepted(conn[p].fd)' /\ Accepted(partner[p].sock)'
    BY <1>2, <2>1, <2>2 DEF SockInv, Accepted
  <2>5. \A d \in Conns : thr'[d].sock = thr[d].sock /\ (thr'[d].pc # "none" => thr[d].pc # "none")
    BY <1>2 DEF s
  <2>6. \A d \in Conns : Accepted(thr[d].sock)' /\ (thr'[d].pc # "none" => cl'[d].st # "none")
    BY <2>1, <2>2, <2>5 DEF SockInv, Accepted
  <2> QED BY <2>3, <2>4, <2>6 DEF SockInv
<1>8. HeaderInv'
  <2>1. \A d \in Conns : \A i \in DOMAIN cl'[d].inq : /\ cl'[d].inq[i].op \in Ops
                                                      /\ cl'[d].inq[i].pid = cl'[d].pid
    BY <1>5, <1>6 DEF ServerSideInv, HeaderInv
  <2> QED BY <1>2, <1>4, <1>5, <2>1 DEF ServerSideInv, HeaderInv
<1>9. MadeInv'
  <2> SUFFICES ASSUME ev \cap {"raced", "given"} = {} PROVE MadeInv'
    BY <1>2 DEF MadeInv
  <2>1. \A p : HasRow(p)' <=> HasRow(p)
    BY <1>2 DEF HasRow
  <2>2. \A d \in Conns : \A i \in DOMAIN cl'[d].inq :
          cl'[d].inq[i].op \in {"meta", "data", "term"} => HasRow(cl'[d].pid)
    BY <1>5, <1>6 DEF ServerSideInv, MadeInv
  <2>3. h.op \in {"meta", "data", "term"} => HasRow(h.pid)
    BY <1>2, <1>3, <1>4 DEF ServerSideInv, MadeInv
  <2>4. \A d \in Conns : thr'[d].hdr.op \in {"meta", "data", "term"} => HasRow(thr'[d].hdr.pid)
    BY <1>2, <2>3 DEF ServerSideInv, MadeInv
  <2> QED BY <1>2, <1>5, <2>1, <2>2, <2>4 DEF ServerSideInv, MadeInv
<1>10. ReadInv'
  BY <1>2 DEF ServerSideInv, ReadInv, s
<1>11. ASSUME Undisturbed PROVE s = t
  <2>1. "slot" \notin ev
    BY <1>11 DEF Undisturbed
  <2> QED BY <1>2, <2>1 DEF ServerSideInv, ReadInv, s
<1>12. LateInv'
  <2> SUFFICES ASSUME Undisturbed PROVE LateInv'
    BY <1>2 DEF LateInv, Undisturbed
  <2>1. ASSUME NEW a \in Conns, NEW d \in Conns, a # d, cl'[a].st = "open",
               cl'[d].st # "none", cl'[d].pid = cl'[a].pid
        PROVE  /\ cl'[d].st # "open" /\ thr'[d].pc \notin Answering
               /\ cl'[d].st = "fin" => cl'[d].inq = <<>> /\ thr'[d].hdr = NoHdr
    <3>1. /\ cl[d].st # "open" /\ thr[d].pc \notin Answering
          /\ cl[d].st = "fin" => cl[d].inq = <<>> /\ thr[d].hdr = NoHdr
      BY <1>5, <2>1 DEF ServerSideInv, LateInv
    <3>2. d # t /\ d # s
      BY <1>2, <1>11, <3>1
    <3> QED BY <1>2, <3>1, <3>2
  <2> QED BY <2>1 DEF LateInv
<1>13. TraceInv'
  <2> SUFFICES ASSUME Undisturbed PROVE TraceInv'
    BY <1>2 DEF TraceInv, Undisturbed
  <2>1. s = t
    BY <1>11
  <2>2. \A d \in Conns : d # t => (Busy(d)' <=> Busy(d))
    BY <1>2 DEF Busy
  <2>3. ~Busy(t) /\ (Busy(t)' <=> h.op \notin Silent)
    BY <1>2 DEF Busy, Answering
  <2>4. CASE cl[t].st = "open"
    <3>1. \A i \in DOMAIN cl[t].inq :
            \/ cl[t].inq[i].op \in Silent
            \/ i = Len(cl[t].inq) /\ cl[t].inq[i] = cl[t].want /\ cl[t].out = <<>>
      BY <2>4 DEF ServerSideInv, TraceInv
    <3>2. h.op \notin Silent => Len(cl[t].inq) = 1 /\ h = cl[t].want /\ cl[t].out = <<>>
      BY <1>3, <2>1, <3>1
    <3>3. h.op \notin Silent => \A i \in DOMAIN cl'[t].inq : FALSE
      <4>0. Len(cl'[t].inq) = Len(cl[t].inq) - 1
        BY <1>3, <2>1
      <4>1. h.op \notin Silent => Len(cl'[t].inq) = 0
        <5>1. 1 - 1 = 0
          OBVIOUS
        <5> QED BY <3>2, <4>0, <5>1
      <4>2. DOMAIN cl'[t].inq = 1 .. Len(cl'[t].inq)
        BY <1>3, <2>1
      <4>3. \A i : i \notin 1 .. 0
        OBVIOUS
      <4> QED BY <4>1, <4>2, <4>3
    <3>4. \A i \in DOMAIN cl'[t].inq :
            \/ cl'[t].inq[i].op \in Silent
            \/ /\ i = Len(cl'[t].inq) /\ cl'[t].inq[i] = cl'[t].want
               /\ cl'[t].out = <<>> /\ h.op \in Silent
      <4>1. SUFFICES ASSUME NEW i \in DOMAIN cl'[t].inq
                     PROVE  \/ cl'[t].inq[i].op \in Silent
                            \/ /\ i = Len(cl'[t].inq) /\ cl'[t].inq[i] = cl'[t].want
                               /\ cl'[t].out = <<>> /\ h.op \in Silent
        OBVIOUS
      <4>2. i + 1 \in DOMAIN cl[t].inq /\ cl'[t].inq[i] = cl[t].inq[i + 1] /\ i \in Nat
        BY SMTT(60), <1>3, <2>1
      <4>3. i + 1 = Len(cl[t].inq) => i = Len(cl'[t].inq)
        BY <1>3, <2>1, <4>2
      <4> QED BY <1>2, <2>1, <3>1, <3>3, <4>2, <4>3
    <3> QED BY <1>2, <1>5, <2>1, <2>2, <2>3, <2>4, <3>2, <3>4 DEF ServerSideInv, TraceInv
  <2>5. CASE cl[t].st # "open"
    BY <1>2, <1>5, <2>1, <2>2, <2>5 DEF ServerSideInv, TraceInv
  <2> QED BY <2>4, <2>5
<1> QED BY <1>2, <1>7, <1>8, <1>9, <1>10, <1>12, <1>13 DEF ServerSideInv

LEMMA MakesKeeps ==
  ASSUME ServerSideInv, NEW t \in Conns, Makes(t) PROVE ServerSideInv'
<1> DEFINE h == thr[t].hdr
<1>1. ServerTypeOK
  BY DEF ServerSideInv
<1>2. /\ ServerTypeOK' /\ UNCHANGED <<newest, entry, cl>>
      /\ thr[t].pc = "exec" /\ h.op = "make"
      /\ thr'[t].pc = "recv" /\ thr'[t].sock = thr[t].sock /\ thr'[t].hdr = h
      /\ \A d \in Conns : d # t => thr'[d] = thr[d]
      /\ \A q \in Slots :
           /\ conn'[q].fd = IF q = h.pid THEN newest ELSE conn[q].fd
           /\ partner'[q].sock = IF q = h.pid THEN newest ELSE partner[q].sock
      /\ \A q : HasRow(q)' <=> HasRow(q) \/ q = h.pid
      /\ rep' = rep \cup {h.pid}
      /\ ev \subseteq ev' /\ ("hurt" \in ev' => "hurt" \in ev)
      /\ "raced" \notin ev' => newest = thr[t].sock
  BY <1>1, MakePartnerDoes DEF Makes
<1>3. h # NoHdr /\ thr[t].sock \in Conns /\ h.pid = cl[thr[t].sock].pid
  BY <1>2 DEF ServerSideInv, HeaderInv
<1> HIDE DEF h
<1>4. \A d \in Conns : thr'[d].hdr = thr[d].hdr /\ thr'[d].sock = thr[d].sock
  BY <1>2 DEF h
<1>5. SockInv'
  BY <1>2, <1>4 DEF ServerSideInv, SockInv, Accepted
<1>6. HeaderInv'
  BY <1>2, <1>4 DEF ServerSideInv, HeaderInv
<1>7. MadeInv'
  <2> SUFFICES ASSUME (ev \cap {"raced", "given"} = {})' PROVE MadeInv'
    BY DEF MadeInv
  <2>1. ev \cap {"raced", "given"} = {}
    BY <1>2, Worsens
  <2>2. newest = thr[t].sock /\ cl[newest].pid = h.pid
    BY <1>2, <1>3
  <2>3. \A q : HasRow(q) => HasRow(q)'
    BY <1>2
  <2>4. \A q \in Slots :
          /\ HasRow(q)' /\ conn'[q].fd \in Conns => cl'[conn'[q].fd].pid = q
          /\ partner'[q].sock \in Conns => cl'[partner'[q].sock].pid = q
    BY <1>2, <2>1, <2>2 DEF ServerSideInv, MadeInv
  <2>5. \A p \in rep' : HasRow(p)'
    BY <1>2, <2>1, <2>3 DEF ServerSideInv, MadeInv
  <2> QED BY <1>2, <1>4, <2>1, <2>3, <2>4, <2>5 DEF ServerSideInv, MadeInv
<1>8. ReadInv'
  BY <1>2, <1>4, Worsens DEF ServerSideInv, ReadInv
<1>9. \A d \in Conns : thr'[d].pc \in Answering => thr[d].pc \in Answering
  BY <1>2 DEF Answering
<1>10. LateInv'
  BY <1>2, <1>4, <1>9, Worsens DEF ServerSideInv, LateInv
<1>11. TraceInv'
  <2>1. \A d \in Conns : Busy(d)' <=> Busy(d)
    BY <1>2, <1>4 DEF Busy, Silent, Answering, h
  <2> QED BY <1>2, <1>4, <2>1, Worsens DEF ServerSideInv, TraceInv
<1> QED BY <1>2, <1>5, <1>6, <1>7, <1>8, <1>10, <1>11 DEF ServerSideInv

\* A set of connections has a newest one.
LEMMA NewestOf ==
  ASSUME NEW S, S \subseteq Conns, S # {} PROVE \E d \in S : \A e \in S : e <= d
<1> DEFINE R == OpToRel(<, Nat)
           M == {MaxConns - d : d \in S}
<1>1. IsWellFoundedOn(R, Nat)
  BY NatLessThanWellFounded
<1>2. M \subseteq Nat /\ M # {}
  <2>1. MaxConns \in Nat /\ \A d \in 1 .. MaxConns : MaxConns - d \in Nat
    BY Numbers
  <2> QED BY <2>1 DEF Conns
<1>3. PICK x \in M : \A y \in M : ~(<<y, x>> \in R)
  <2> HIDE DEF R, M
  <2> QED BY <1>1, <1>2, WFMin
<1>4. PICK d \in S : x = MaxConns - d
  OBVIOUS
<1>5. ASSUME NEW e \in S PROVE e <= d
  <2>1. MaxConns - e \in M /\ MaxConns - e \in Nat /\ x \in Nat
    BY <1>2
  <2>2. MaxConns - e < x => <<MaxConns - e, x>> \in R
    BY <2>1 DEF OpToRel
  <2>3. ~(MaxConns - e < x)
    <3> HIDE DEF R, M
    <3> QED BY <1>3, <2>1, <2>2
  <2>4. e \in Nat /\ d \in Nat /\ MaxConns \in Nat
    BY Numbers
  <2> HIDE DEF R, M
  <2> QED BY <1>4, <2>1, <2>3, <2>4
<1> QED BY <1>5

\* A client that goes on had its bitmap on an earlier connection.
LEMMA StageKept ==
  ASSUME NEW c \in Conns, NEW p \in Pids, Accept(c, p, "mapped")
  PROVE  \E d \in Conns : cl[d].pid = p /\ cl[d].stage = "mapped"
<1> DEFINE before == {d \in Conns : cl[d].st # "none" /\ cl[d].pid = p}
           last == CHOOSE d \in before : \A e \in before : e <= d
<1>1. before # {} /\ cl[last].stage = "mapped"
  BY DEF Accept
<1>2. \E d \in before : \A e \in before : e <= d
  <2>1. before \subseteq Conns
    OBVIOUS
  <2> HIDE DEF before
  <2> QED BY <1>1, <2>1, NewestOf
<1>3. last \in before
  <2> HIDE DEF before
  <2> QED BY <1>2
<1>4. last \in Conns /\ cl[last].pid = p
  BY <1>3
<1> HIDE DEF last
<1> QED BY <1>1, <1>4

LEMMA AcceptKeeps ==
  ASSUME ServerSideInv, NEW c \in Conns, NEW p \in Pids, NEW stage \in {"new", "mapped"},
         Accept(c, p, stage)
  PROVE  ServerSideInv'
<1>1. ServerTypeOK
  BY DEF ServerSideInv
<1>2. /\ ServerTypeOK'
      /\ cl[c].st = "none" /\ cl'[c].pid = p /\ cl'[c].st = "open" /\ cl'[c].stage = stage
      /\ cl'[c].inq = <<>> /\ cl'[c].out = <<>> /\ cl'[c].want = NoHdr
      /\ \A d \in Conns : d # c => cl'[d] = cl[d] /\ thr'[d] = thr[d]
      /\ thr'[c].pc = "new" /\ thr'[c].sock = 0 /\ thr'[c].hdr = NoHdr
      /\ newest' = c /\ entry' \in {c, entry} /\ db' = db /\ rep' = rep
      /\ ev \subseteq ev' /\ ("hurt" \in ev' => "hurt" \in ev)
      /\ "slot" \notin ev' => entry' = c /\ \A d \in Conns : thr[d].pc # "new"
      /\ "late" \notin ev' => ~Late(p)
  BY <1>1, AcceptDoes
<1>3. PICK s \in Slots : \A q \in Slots :
              \/ /\ q = s /\ conn'[q].fd = c /\ partner'[q].sock = c
                 /\ q = p \/ "given" \in ev'
              \/ conn'[q].fd = conn[q].fd /\ partner'[q].sock = partner[q].sock
  BY <1>1, AcceptDoes
<1>4. \A d \in Conns : cl[d].pid = p => cl[d].st # "open"
  BY DEF Accept
<1>5. \A i : i \notin DOMAIN << >>
  OBVIOUS
<1>6. \A x : Accepted(x) => Accepted(x)' /\ x # c /\ (x \in Conns => cl'[x].pid = cl[x].pid)
  BY <1>2, Numbers DEF Accepted
<1>7. SockInv'
  <2>1. Accepted(0)' /\ Accepted(c)'
    BY <1>2 DEF Accepted
  <2>3. Accepted(newest)' /\ Accepted(entry)'
    BY <1>2, <1>6, <2>1 DEF ServerSideInv, SockInv, Accepted
  <2>4. \A q \in Slots : Accepted(conn[q].fd)' /\ Accepted(partner[q].sock)'
    BY <1>2, <1>3 DEF ServerSideInv, SockInv, Accepted
  <2>5. \A d \in Conns : Accepted(thr[d].sock)' /\ (thr'[d].pc # "none" => cl'[d].st # "none")
    BY <1>2 DEF ServerSideInv, SockInv, Accepted
  <2> QED BY <2>3, <2>4, <2>5 DEF SockInv
<1>8. HeaderInv'
  <2>1. \A d \in Conns : \A i \in DOMAIN cl'[d].inq : /\ cl'[d].inq[i].op \in Ops
                                                      /\ cl'[d].inq[i].pid = cl'[d].pid
    BY <1>2, <1>5 DEF ServerSideInv, HeaderInv
  <2>2. \A d \in Conns : d # c => Accepted(thr[d].sock)
    BY DEF ServerSideInv, SockInv
  <2>3. ASSUME NEW d \in Conns, d # c
        PROVE  /\ thr'[d] = thr[d]
               /\ thr[d].sock \in Conns => cl'[thr[d].sock].pid = cl[thr[d].sock].pid
    BY <1>2, <1>6, <2>2, <2>3
  <2>4. \A d \in Conns :
       LET h == thr'[d].hdr
       IN /\ thr'[d].pc \in {"none", "new"} => h = NoHdr
          /\ h # NoHdr => /\ thr'[d].sock \in Conns /\ h.op \in Ops
                          /\ h.pid = cl'[thr'[d].sock].pid
          /\ thr'[d].pc = "exec" => h # NoHdr
          /\ thr'[d].pc \in {"send", "send0", "unread", "sleep0", "sleep", "pause"} =>
               h.op = "data"
          /\ thr'[d].pc \in {"sleep0", "send0"} => "readerror" \in ev'
    <3> SUFFICES ASSUME NEW d \in Conns
                 PROVE LET h == thr'[d].hdr
       IN /\ thr'[d].pc \in {"none", "new"} => h = NoHdr
          /\ h # NoHdr => /\ thr'[d].sock \in Conns /\ h.op \in Ops
                          /\ h.pid = cl'[thr'[d].sock].pid
          /\ thr'[d].pc = "exec" => h # NoHdr
          /\ thr'[d].pc \in {"send", "send0", "unread", "sleep0", "sleep", "pause"} =>
               h.op = "data"
          /\ thr'[d].pc \in {"sleep0", "send0"} => "readerror" \in ev'
      OBVIOUS
    <3>1. CASE d = c
      BY <1>2, <3>1
    <3>2. CASE d # c
      BY <1>2, <2>3, <3>2 DEF ServerSideInv, HeaderInv
    <3> QED BY <3>1, <3>2
  <2> QED BY <2>1, <2>4 DEF HeaderInv
<1>9. MadeInv'
  <2> SUFFICES ASSUME (ev \cap {"raced", "given"} = {})' PROVE MadeInv'
    BY DEF MadeInv
  <2>1. ev \cap {"raced", "given"} = {} /\ "given" \notin ev'
    BY <1>2, Worsens
  <2>2. \A q : HasRow(q)' <=> HasRow(q)
    BY <1>2 DEF HasRow
  <2>3. stage = "mapped" => HasRow(p)
    <3>1. stage = "mapped" => \E d \in Conns : cl[d].pid = p /\ cl[d].stage = "mapped"
      BY StageKept
    <3> QED BY <2>1, <3>1 DEF ServerSideInv, MadeInv
  <2>4. \A q \in Slots : Accepted(conn[q].fd) /\ Accepted(partner[q].sock)
    BY DEF ServerSideInv, SockInv
  <2>5. \A q \in Slots :
          /\ HasRow(q) /\ conn'[q].fd \in Conns => cl'[conn'[q].fd].pid = q
          /\ partner'[q].sock \in Conns => cl'[partner'[q].sock].pid = q
    BY <1>2, <1>3, <1>6, <2>1, <2>4 DEF ServerSideInv, MadeInv
  <2>6. \A d \in Conns :
          /\ cl'[d].out # <<>> \/ cl'[d].stage \in {"related", "mapped"} => HasRow(cl'[d].pid)
          /\ \A i \in DOMAIN cl'[d].inq :
               cl'[d].inq[i].op \in {"meta", "data", "term"} => HasRow(cl'[d].pid)
    BY <1>2, <1>5, <2>1, <2>3 DEF ServerSideInv, MadeInv
  <2>7. \A d \in Conns : thr'[d].hdr.op \in {"meta", "data", "term"} => HasRow(thr'[d].hdr.pid)
    BY <1>2, <2>1, Blank DEF ServerSideInv, MadeInv
  <2> QED BY <1>2, <2>1, <2>2, <2>5, <2>6, <2>7 DEF ServerSideInv, MadeInv
<1>10. ReadInv'
  BY <1>2, Worsens DEF ServerSideInv, ReadInv
<1>11. LateInv'
  <2> SUFFICES ASSUME Undisturbed' PROVE LateInv'
    BY DEF LateInv
  <2>1. Undisturbed /\ ~Late(p) /\ "slot" \notin ev
    BY <1>2, Worsens DEF Undisturbed
  <2>2. ASSUME NEW a \in Conns, NEW d \in Conns, a # d, cl'[a].st = "open",
               cl'[d].st # "none", cl'[d].pid = cl'[a].pid
        PROVE  /\ cl'[d].st # "open" /\ thr'[d].pc \notin Answering
               /\ cl'[d].st = "fin" => cl'[d].inq = <<>> /\ thr'[d].hdr = NoHdr
    <3>1. CASE a = c
      <4>1. cl'[d] = cl[d] /\ thr'[d] = thr[d] /\ cl[d].pid = p
        BY <1>2, <2>2, <3>1
      <4>2. thr[d].pc \in Answering => thr[d].sock = d /\ thr[d].hdr # NoHdr
        BY <2>1, Blank DEF ServerSideInv, HeaderInv, ReadInv, Answering
      <4>3. thr[d].pc \in Answering => thr[d].hdr.pid = p
        BY <4>1, <4>2 DEF ServerSideInv, HeaderInv
      <4>4. thr[d].pc \notin Answering
        BY <2>1, <4>3 DEF Late
      <4>5. cl[d].st = "fin" => cl[d].inq = <<>> /\ thr[d].hdr = NoHdr
        BY <2>1, <4>1 DEF Late
      <4> QED BY <1>4, <4>1, <4>4, <4>5
    <3>2. CASE a # c
      <4>1. cl'[a] = cl[a] /\ d # c
        BY <1>2, <1>4, <2>2, <3>2
      <4> QED BY <1>2, <2>1, <2>2, <4>1 DEF ServerSideInv, LateInv
    <3> QED BY <3>1, <3>2
  <2> QED BY <2>2 DEF LateInv
<1>12. TraceInv'
  <2> SUFFICES ASSUME Undisturbed' PROVE TraceInv'
    BY DEF TraceInv
  <2>1. Undisturbed
    BY <1>2, Worsens
  <2>2. \A d \in Conns : d # c => (Busy(d)' <=> Busy(d))
    BY <1>2 DEF Busy
  <2>3. ~Busy(c)'
    BY <1>2 DEF Busy, Answering
  <2> QED BY <1>2, <1>5, <2>1, <2>2, <2>3 DEF ServerSideInv, TraceInv
<1> QED BY <1>2, <1>7, <1>8, <1>9, <1>10, <1>11, <1>12 DEF ServerSideInv

LEMMA HandlesKeeps ==
  ASSUME ServerSideInv, NEW t \in Conns, ServerTypeOK', Handles(t) PROVE ServerSideInv'
<1> DEFINE h == thr[t].hdr
<1>1. ServerTypeOK
  BY DEF ServerSideInv
<1>2. /\ thr[t].pc \notin {"none", "new"} /\ thr'[t].pc \notin {"none", "new"}
      /\ thr'[t].sock = thr[t].sock /\ thr'[t].hdr = h
      /\ \A d \in Conns : d # t => thr'[d] = thr[d]
      /\ thr'[t].pc = "exec" => /\ thr[t].pc = "recv" /\ h # NoHdr /\ thr[t].sock \in Conns
                                /\ cl[thr[t].sock].st = "fin"
      /\ thr'[t].pc \in Answering \ {"exec"} => thr[t].pc \in Answering
      /\ thr'[t].pc \in {"send", "send0", "unread", "sleep0", "sleep", "pause"} => h.op = "data"
      /\ thr'[t].pc \in {"sleep0", "send0"} => "readerror" \in ev'
  BY DEF Handles, Moves
<1>3. /\ newest' = newest /\ entry' = entry /\ rep' = rep
      /\ \A q \in Slots : /\ conn'[q].fd \in {0, conn[q].fd}
                          /\ partner'[q].sock = partner[q].sock
      /\ \A q : HasRow(q)' <=> HasRow(q)
      /\ ev \subseteq ev'
      /\ "hurt" \in ev' =>
           \/ "hurt" \in ev
           \/ /\ h.op = "data"
              /\ \E x \in Conns : /\ x = conn[h.pid].fd /\ cl[x].st = "open"
                                  /\ cl[x].pid # h.pid
  BY DEF Handles, Holds
<1>4. Shuts \/ Sends(t)
  BY DEF Handles
<1>5. /\ \A d \in Conns : thr'[d].hdr = thr[d].hdr /\ thr'[d].sock = thr[d].sock
      /\ \A d \in Conns : thr[d].pc \notin {"none", "new"} <=> thr'[d].pc \notin {"none", "new"}
  BY <1>2
<1>6. \A c \in Conns : /\ cl'[c].pid = cl[c].pid /\ cl'[c].stage = cl[c].stage
                       /\ cl'[c].st = "none" <=> cl[c].st = "none"
                       /\ cl'[c].st # cl[c].st => cl'[c].st = "shut"
                       /\ cl'[c].inq = cl[c].inq \/ cl'[c].inq = <<>>
                       /\ cl'[c].st # "shut" => cl'[c].inq = cl[c].inq /\ cl'[c].want = cl[c].want
  <2>1. CASE Shuts
    BY <2>1 DEF Shuts
  <2>2. CASE Sends(t)
    BY <2>2 DEF Sends
  <2> QED BY <1>4, <2>1, <2>2
<1>7. \A i : i \notin DOMAIN << >>
  OBVIOUS
<1>8. h.pid \in Slots /\ h.pid \in Pids
  BY <1>1, ServerTyped
<1> HIDE DEF h
<1>9. SockInv'
  BY <1>2, <1>3, <1>5, <1>6 DEF ServerSideInv, SockInv, Accepted
<1>10. HeaderInv'
  <2>1. \A c \in Conns : \A i \in DOMAIN cl'[c].inq : /\ cl'[c].inq[i].op \in Ops
                                                      /\ cl'[c].inq[i].pid = cl'[c].pid
    BY <1>6, <1>7 DEF ServerSideInv, HeaderInv
  <2>2. ASSUME NEW d \in Conns
        PROVE  LET g == thr'[d].hdr
               IN /\ thr'[d].pc \in {"none", "new"} => g = NoHdr
                  /\ g # NoHdr => /\ thr'[d].sock \in Conns /\ g.op \in Ops
                                  /\ g.pid = cl'[thr'[d].sock].pid
                  /\ thr'[d].pc = "exec" => g # NoHdr
                  /\ thr'[d].pc \in {"send", "send0", "unread", "sleep0", "sleep", "pause"} =>
                       g.op = "data"
                  /\ thr'[d].pc \in {"sleep0", "send0"} => "readerror" \in ev'
    <3>1. /\ thr'[d].hdr # NoHdr => /\ thr'[d].sock \in Conns /\ thr'[d].hdr.op \in Ops
                                    /\ thr'[d].hdr.pid = cl'[thr'[d].sock].pid
      BY <1>5, <1>6 DEF ServerSideInv, HeaderInv
    <3>2. CASE d = t
      BY <1>2, <3>1, <3>2
    <3>3. CASE d # t
      BY <1>2, <1>3, <3>1, <3>3 DEF ServerSideInv, HeaderInv
    <3> QED BY <3>2, <3>3
  <2> QED BY <2>1, <2>2 DEF HeaderInv
<1>11. MadeInv'
  <2> SUFFICES ASSUME (ev \cap {"raced", "given"} = {})' PROVE MadeInv'
    BY DEF MadeInv
  <2>1. ev \cap {"raced", "given"} = {}
    BY <1>3, Worsens
  <2>2. h.op = "data" => HasRow(h.pid)
    BY <2>1 DEF ServerSideInv, MadeInv, h
  <2>3. "hurt" \notin ev'
    BY <1>3, <1>8, <2>1, <2>2 DEF ServerSideInv, MadeInv
  <2>4. \A q \in Slots :
          /\ HasRow(q)' /\ conn'[q].fd \in Conns => cl'[conn'[q].fd].pid = q
          /\ partner'[q].sock \in Conns => cl'[partner'[q].sock].pid = q
    <3> SUFFICES ASSUME NEW q \in Slots
                 PROVE  /\ HasRow(q)' /\ conn'[q].fd \in Conns => cl'[conn'[q].fd].pid = q
                        /\ partner'[q].sock \in Conns => cl'[partner'[q].sock].pid = q
      OBVIOUS
    <3>1. /\ HasRow(q) /\ conn[q].fd \in Conns => cl[conn[q].fd].pid = q
          /\ partner[q].sock \in Conns => cl[partner[q].sock].pid = q
      BY <2>1 DEF ServerSideInv, MadeInv
    <3>2. /\ conn'[q].fd \in {0, conn[q].fd} /\ partner'[q].sock = partner[q].sock
          /\ HasRow(q)' <=> HasRow(q)
      BY <1>3
    <3>3. ASSUME HasRow(q)', conn'[q].fd \in Conns PROVE cl'[conn'[q].fd].pid = q
      <4>1. conn'[q].fd = conn[q].fd
        BY <3>2, <3>3, Numbers
      <4> QED BY <1>6, <3>1, <3>2, <3>3, <4>1
    <3>4. ASSUME partner'[q].sock \in Conns PROVE cl'[partner'[q].sock].pid = q
      BY <1>6, <3>1, <3>2, <3>4
    <3> QED BY <3>3, <3>4
  <2>5. \A c \in Conns : cl'[c].out # <<>> => HasRow(cl'[c].pid)
    <3>1. CASE Shuts
      BY <2>1, <3>1 DEF ServerSideInv, MadeInv, Shuts
    <3>2. CASE Sends(t)
      <4>1. h.pid \in rep \/ h.op = "data"
        BY <3>2 DEF Sends, h
      <4>2. HasRow(h.pid)
        BY <2>1, <2>2, <4>1 DEF ServerSideInv, MadeInv
      <4>3. PICK s \in Conns : /\ s = partner[h.pid].sock
                               /\ \A c \in Conns : c # s => cl'[c] = cl[c]
        BY <3>2 DEF Sends, h
      <4>4. cl[s].pid = h.pid
        BY <1>8, <2>1, <4>3 DEF ServerSideInv, MadeInv
      <4> QED BY <1>6, <2>1, <4>2, <4>3, <4>4 DEF ServerSideInv, MadeInv
    <3> QED BY <1>4, <3>1, <3>2
  <2>6. \A c \in Conns : \A i \in DOMAIN cl'[c].inq :
          cl'[c].inq[i].op \in {"meta", "data", "term"} => HasRow(cl'[c].pid)
    BY <1>6, <1>7, <2>1 DEF ServerSideInv, MadeInv
  <2>7. \A c \in Conns : cl'[c].stage \in {"related", "mapped"} => HasRow(cl'[c].pid)
    BY <1>6, <2>1 DEF ServerSideInv, MadeInv
  <2>8. \A d \in Conns : thr'[d].hdr.op \in {"meta", "data", "term"} => HasRow(thr'[d].hdr.pid)
    BY <1>5, <2>1 DEF ServerSideInv, MadeInv
  <2>9. \A p \in rep' : HasRow(p)
    BY <1>3, <2>1 DEF ServerSideInv, MadeInv
  <2> QED BY <1>3, <2>3, <2>4, <2>5, <2>6, <2>7, <2>8, <2>9 DEF MadeInv
<1>12. ReadInv'
  BY <1>2, <1>3, <1>5, Worsens DEF ServerSideInv, ReadInv
<1>13. ASSUME Undisturbed' PROVE Undisturbed /\ thr[t].sock = t /\ "readerror" \notin ev'
  <2>1. Undisturbed /\ "slot" \notin ev /\ "readerror" \notin ev'
    BY <1>3, <1>13, Worsens
  <2> QED BY <1>2, <2>1 DEF ServerSideInv, ReadInv
<1>14. LateInv'
  <2> SUFFICES ASSUME Undisturbed' PROVE LateInv'
    BY DEF LateInv
  <2>1. Undisturbed /\ thr[t].sock = t
    BY <1>13
  <2>2. ASSUME NEW a \in Conns, NEW d \in Conns, a # d, cl'[a].st = "open",
               cl'[d].st # "none", cl'[d].pid = cl'[a].pid
        PROVE  /\ cl'[d].st # "open" /\ thr'[d].pc \notin Answering
               /\ cl'[d].st = "fin" => cl'[d].inq = <<>> /\ thr'[d].hdr = NoHdr
    <3>1. cl[a].st = "open" /\ cl[d].st # "none" /\ cl[d].pid = cl[a].pid
      BY <1>6, <2>2
    <3>2. /\ cl[d].st # "open" /\ thr[d].pc \notin Answering
          /\ cl[d].st = "fin" => cl[d].inq = <<>> /\ thr[d].hdr = NoHdr
      BY <2>1, <2>2, <3>1 DEF ServerSideInv, LateInv
    <3>3. thr'[d].pc \notin Answering
      BY <1>2, <2>1, <3>2 DEF h
    <3>4. cl'[d].st # "open" /\ (cl'[d].st = "fin" => cl[d].st = "fin" /\ cl'[d].inq = cl[d].inq)
      BY <1>6, <3>2
    <3> QED BY <1>5, <3>2, <3>3, <3>4
  <2> QED BY <2>2 DEF LateInv
<1>15. TraceInv'
  <2> SUFFICES ASSUME Undisturbed' PROVE TraceInv'
    BY DEF TraceInv
  <2>1. Undisturbed /\ thr[t].sock = t /\ "readerror" \notin ev'
    BY <1>13
  <2>2. \A d \in Conns : cl[d].st = "open" /\ Busy(d)' => Busy(d)
    BY <1>2, <2>1 DEF Busy, h
  <2>3. CASE Shuts
    <3>1. \A c \in Conns : \/ cl'[c] = cl[c]
                           \/ /\ cl'[c].st = "shut" /\ cl'[c].want = NoHdr
                              /\ cl'[c].out = <<>>
      BY <2>3 DEF Shuts
    <3> QED BY <1>5, <2>1, <2>2, <3>1 DEF ServerSideInv, TraceInv
  <2>4. CASE Sends(t)
    <3>1. PICK s \in Conns, a \in Hdr :
            /\ s = partner[h.pid].sock /\ cl[s].st = "open"
            /\ cl'[s].out = Append(cl[s].out, a) /\ (a = h \/ "readerror" \in ev')
            /\ cl'[s].pid = cl[s].pid /\ cl'[s].st = cl[s].st
            /\ cl'[s].want = cl[s].want /\ cl'[s].inq = cl[s].inq
            /\ \A c \in Conns : c # s => cl'[c] = cl[c]
      BY <2>4 DEF Sends, h
    <3>2. thr[t].pc \in Answering /\ thr'[t].pc = "recv" /\ h.op \notin Silent
      BY <2>4 DEF Sends, h
    <3>3. ev \cap {"raced", "given"} = {}
      BY <2>1 DEF Undisturbed
    <3>4. h # NoHdr
      BY <3>2, Blank DEF ServerSideInv, HeaderInv, Answering, h
    <3>5. cl[s].pid = h.pid /\ cl[t].pid = h.pid
      <4>1. cl[s].pid = h.pid
        BY <1>8, <3>1, <3>3 DEF ServerSideInv, MadeInv
      <4>2. thr[t].sock = t
        BY <1>2, <2>1, Worsens DEF ServerSideInv, ReadInv, Undisturbed
      <4>3. h.pid = cl[thr[t].sock].pid
        BY <3>4 DEF ServerSideInv, HeaderInv, h
      <4> QED BY <4>1, <4>2, <4>3
    <3>6. cl[t].st # "none"
      BY <1>2 DEF ServerSideInv, SockInv
    <3>7. s = t
      BY <2>1, <3>1, <3>2, <3>5, <3>6 DEF ServerSideInv, LateInv
    <3>8. Busy(t) /\ ~Busy(t)'
      BY <3>2 DEF Busy, Answering, h
    <3>9. h = cl[t].want /\ cl[t].out = <<>>
      BY <2>1, <3>1, <3>7, <3>8 DEF ServerSideInv, TraceInv, h
    <3>10. cl'[t].out = <<h>>
      BY <2>1, <3>1, <3>7, <3>9
    <3>11. Len(cl'[t].out) = 1 /\ cl'[t].out[1] = cl'[t].want /\ cl'[t].want # NoHdr
      BY <3>1, <3>4, <3>7, <3>9, <3>10
    <3>12. \A i \in DOMAIN cl'[t].inq : cl'[t].inq[i].op \in Silent
      BY <2>1, <3>1, <3>7, <3>8 DEF ServerSideInv, TraceInv
    <3>13. /\ cl'[t].st # "open" => cl'[t].out = <<>> /\ cl'[t].want = NoHdr
           /\ cl'[t].st = "open" =>
               /\ \A i \in DOMAIN cl'[t].inq :
                    \/ cl'[t].inq[i].op \in Silent
                    \/ /\ i = Len(cl'[t].inq) /\ cl'[t].inq[i] = cl'[t].want
                       /\ cl'[t].out = <<>> /\ ~Busy(t)'
               /\ Busy(t)' => thr'[t].hdr = cl'[t].want /\ cl'[t].out = <<>>
               /\ cl'[t].out # <<>> => /\ cl'[t].want # NoHdr /\ Len(cl'[t].out) = 1
                                       /\ cl'[t].out[1] = cl'[t].want
      BY <3>1, <3>7, <3>8, <3>11, <3>12
    <3>14. \A d \in Conns : d # t => cl'[d] = cl[d] /\ (Busy(d)' <=> Busy(d))
      BY <1>2, <3>1, <3>7 DEF Busy
    <3> QED BY <1>5, <2>1, <3>13, <3>14 DEF ServerSideInv, TraceInv
  <2> QED BY <1>4, <2>3, <2>4
<1> QED BY <1>9, <1>10, <1>11, <1>12, <1>14, <1>15 DEF ServerSideInv

-----------------------------------------------------------------------------
(* The theorems about the server.                                          *)

\* The first state of a daemon has the invariant.
LEMMA ServerStarts == ServerInit => ServerSideInv
<1> SUFFICES ASSUME ServerInit PROVE ServerSideInv
  OBVIOUS
<1>1. /\ up = TRUE /\ listens = FALSE /\ disk = [p \in Slots |-> "none"] /\ snap = {}
      /\ partner = [p \in Slots |-> [id |-> 0, state |-> "none", sock |-> 0]]
      /\ conn = [p \in Slots |-> [fd |-> 0, state |-> "inuse"]]
      /\ newest = 0 /\ created = [p \in Slots |-> FALSE] /\ lost = {} /\ total = 0
      /\ recovery_mode = {} /\ entry = 0 /\ rep = {} /\ io = [p \in Slots |-> "none"]
      /\ thr = [c \in Conns |-> NoThread] /\ db = <<>> /\ cl = [c \in Conns |-> NoConn]
      /\ asks = 0 /\ faults = 0 /\ ev = {}
  BY DEF ServerInit
<1>2. /\ \A t \in Conns : /\ thr[t].pc = "none" /\ thr[t].sock = 0 /\ thr[t].hdr = NoHdr
                          /\ thr[t].hdr.op = "none"
      /\ \A c \in Conns : /\ cl[c].st = "none" /\ cl[c].inq = <<>> /\ cl[c].out = <<>>
                          /\ cl[c].want = NoHdr /\ cl[c].stage = "new"
      /\ \A q \in Slots : /\ conn[q].fd = 0 /\ partner[q].sock = 0
                          /\ DOMAIN partner[q] = {"id", "state", "sock"}
  BY <1>1, Blank DEF NoConn
<1>3. thr \in [Conns -> Thread] /\ cl \in [Conns -> Client]
  BY <1>1, Blank
<1>4. conn \in [Slots -> [fd : 0..MaxConns, state : {"inuse", "pause", "resume"}]]
  BY <1>1, Numbers
<1>5. /\ disk \in [Slots -> {"none", "whole", "unsized"}]
      /\ io \in [Slots -> {"none", "mapped", "inuse", "released"}]
      /\ created \in [Slots -> BOOLEAN] /\ partner = [q \in Slots |-> partner[q]]
      /\ db \in Seq(PartnerRow)
  BY <1>1
<1>6. ServerTypeOK
  BY <1>1, <1>2, <1>3, <1>4, <1>5, Numbers DEF ServerTypeOK
<1>7. \A i : i \notin DOMAIN << >>
  OBVIOUS
<1>8. SockInv
  BY <1>1, <1>2 DEF SockInv, Accepted
<1>9. HeaderInv
  BY <1>2, <1>7 DEF HeaderInv
<1>10. MadeInv
  BY <1>1, <1>2, <1>7, Numbers DEF MadeInv
<1>11. ReadInv /\ LateInv /\ TraceInv
  BY <1>2 DEF ReadInv, LateInv, TraceInv
<1> QED BY <1>6, <1>8, <1>9, <1>10, <1>11 DEF ServerSideInv

\* Every step keeps the invariant.
LEMMA ServerMoves == ServerSideInv /\ [ServerNext]_serverVars => ServerSideInv'
<1> SUFFICES ASSUME ServerSideInv, [ServerNext]_serverVars PROVE ServerSideInv'
  OBVIOUS
<1>1. CASE ServerNext
  <2>1. ServerTypeOK /\ HeaderInv
    BY DEF ServerSideInv
  <2>2. CASE ServerTypeOK' /\ Aside
    BY <2>2, AsideKeeps
  <2>3. CASE ServerRestart
    BY <2>3, RestartKeeps
  <2>4. ASSUME NEW c \in Conns,
               \/ \E p \in Pids, stage \in {"new", "mapped"} : Accept(c, p, stage)
               \/ ThreadStart(c) \/ Recv(c) \/ Makes(c)
               \/ \E op \in Ops : ClientSend(c, op)
               \/ ClientTake(c) \/ ClientLeaves(c)
               \/ ServerTypeOK' /\ Handles(c)
        PROVE  ServerSideInv'
    BY <2>4, AcceptKeeps, ThreadStartKeeps, RecvKeeps, MakesKeeps, ClientSendKeeps,
       ClientTakeKeeps, ClientLeavesKeeps, HandlesKeeps
  <2> QED BY <1>1, <2>1, <2>2, <2>3, <2>4, ServerSteps
<1>2. CASE UNCHANGED serverVars
  <2>1. UNCHANGED <<up, listens, disk, snap, partner, conn, created, lost, total, recovery_mode,
                    newest, entry, rep, io, thr, db, cl, asks, faults, ev>>
    BY <1>2 DEF serverVars, diskVars, tableVars
  <2>2. ServerTypeOK'
    BY <2>1 DEF ServerSideInv, ServerTypeOK
  <2>3. Aside
    BY <2>1 DEF Aside
  <2> QED BY <2>2, <2>3, AsideKeeps
<1> QED BY <1>1, <1>2

\* In every state of the Windows server its sockets, tables, headers and streams
\* fit together (ServerSideInv): a partner with a row holds the connection of its
\* own client until a socket is given away, a thread handles headers of one
\* client only, and a request leaves one trace at most.
THEOREM ServerSideInvariant == ServerSpec => []ServerSideInv
<1>1. ServerInit => ServerSideInv
  BY ServerStarts
<1>2. ServerSideInv /\ [ServerNext]_serverVars => ServerSideInv'
  BY ServerMoves
<1> QED BY <1>1, <1>2, PTL DEF ServerSpec

\* While no event mixes the connections up (Undisturbed), the answer a client
\* of the Windows server finds on its connection is the one answer to the one
\* request it waits for: the handlers send on the socket of the partner the
\* header names, and that is the connection the request came by.
THEOREM AnswersAreOwn == ServerSpec => []AnswersMatch
<1>1. ServerSideInv => AnswersMatch
  <2> SUFFICES ASSUME ServerSideInv, Undisturbed, NEW c \in Conns, cl[c].out # <<>>
               PROVE  Len(cl[c].out) = 1 /\ cl[c].out[1] = cl[c].want
    BY DEF AnswersMatch
  <2> QED BY DEF ServerSideInv, TraceInv
<1> QED BY <1>1, ServerSideInvariant, PTL

\* While no socket was given to the wrong partner, a thread that fails on a
\* request closes no connection but the one of its own client.
THEOREM FailuresCloseTheirOwn == ServerSpec => []ClosesOwn
<1>1. ServerSideInv => ClosesOwn
  BY DEF ServerSideInv, MadeInv, ClosesOwn
<1> QED BY <1>1, ServerSideInvariant, PTL

\* While no second connection was accepted before a new thread had read the
\* one entry they share, every server thread receives from the connection it was
\* started for.
THEOREM ThreadsReadTheirOwn == ServerSpec => []ReadsOwn
<1>1. ServerSideInv => ReadsOwn
  BY DEF ServerSideInv, ReadInv, ReadsOwn
<1> QED BY <1>1, ServerSideInvariant, PTL
=============================================================================
