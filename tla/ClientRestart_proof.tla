------------------------ MODULE ClientRestart_proof ------------------------
(***************************************************************************)
(* What a crash and a restart of the client keep, proved for every number  *)
(* of partners, bitmap, round, pause and crash.                            *)
(*                                                                         *)
(* RestartInv is inductive.  Its parts speak of one partner at a time, so  *)
(* a step is looked at twice: for the partner it is about, and as a step   *)
(* aside (Aside, BootAside) for the others and for db_init.  What has to   *)
(* do with all partners at once, the numbers that db_init gives the rows   *)
(* of a result, is in the lemmas of the first section.                     *)
(***************************************************************************)
EXTENDS ClientRestart, FiniteSetTheorems, SequenceTheorems, WellFoundedInduction,
        TLAPS

-----------------------------------------------------------------------------
(* Constants, rows and their numbers.                                      *)

LEMMA Domains ==
  /\ Partners \subseteq Slots /\ Partners \subseteq Nat /\ Slots \subseteq Nat
  /\ 0 \in Partners /\ 0 \in Slots /\ Grains \subseteq Nat /\ 0 \in Grains
  /\ NumBits \in Nat /\ Grains \subseteq 0 .. NumBits /\ NoFile \notin SUBSET Grains
  /\ NumPartners \in Nat /\ MaxRows \in Nat
  /\ \A b \in 0 .. NumBits : b < NumBits => b \in Grains
  /\ \A b \in Grains : b + 1 \in 0 .. NumBits
  /\ \A b \in 0 .. NumBits : b \in Nat
<1>1. NoFile \notin SUBSET Grains
  BY SizeAssumption DEF Grains, NoFile
<1> QED BY <1>1, SizeAssumption DEF Partners, Slots, Grains

\* A set of natural numbers has a least one.
LEMMA LeastOf ==
  ASSUME NEW S, S \subseteq Nat, S # {} PROVE \E x \in S : \A y \in S : x <= y
<1> DEFINE R == OpToRel(<, Nat)
<1>1. IsWellFoundedOn(R, Nat)
  BY NatLessThanWellFounded
<1>2. PICK x \in S : \A y \in S : ~(<<y, x>> \in R)
  <2> HIDE DEF R
  <2> QED BY <1>1, WFMin
<1>3. ASSUME NEW y \in S PROVE x <= y
  <2>1. x \in Nat /\ y \in Nat
    OBVIOUS
  <2>2. y < x => <<y, x>> \in R
    BY <2>1 DEF OpToRel
  <2> HIDE DEF R
  <2> QED BY <1>2, <2>1, <2>2
<1> QED BY <1>3

\* The number of a row is less than the number of rows, and grows with its place.
LEMMA Numbering ==
  ASSUME NEW S, S \subseteq Nat, IsFiniteSet(S)
  PROVE  /\ Cardinality(S) \in Nat
         /\ \A k \in S : Number(S, k) \in Nat /\ Number(S, k) < Cardinality(S)
         /\ \A k, j \in S : j < k => Number(S, j) < Number(S, k)
<1> DEFINE B(k) == {j \in S : j < k}
<1>0. Cardinality(S) \in Nat
  BY FS_CardinalityType
<1>1. ASSUME NEW k \in S PROVE /\ IsFiniteSet(B(k)) /\ Number(S, k) = Cardinality(B(k))
                               /\ Number(S, k) \in Nat /\ Number(S, k) < Cardinality(S)
  <2>1. IsFiniteSet(S \ {k}) /\ Cardinality(S \ {k}) = Cardinality(S) - 1
    BY FS_RemoveElement
  <2>2. B(k) \in SUBSET (S \ {k})
    OBVIOUS
  <2>3. IsFiniteSet(B(k)) /\ Cardinality(B(k)) <= Cardinality(S) - 1
    BY <2>1, <2>2, FS_Subset
  <2>4. Cardinality(B(k)) \in Nat
    BY <2>3, FS_CardinalityType
  <2>5. Number(S, k) = Cardinality(B(k))
    BY DEF Number
  <2> HIDE DEF B
  <2> QED BY <1>0, <2>3, <2>4, <2>5
<1>2. ASSUME NEW k \in S, NEW j \in S, j < k PROVE Number(S, j) < Number(S, k)
  <2>1. B(j) \cup {j} \in SUBSET B(k)
    <3>1. ASSUME NEW x \in S, x < j PROVE x < k
      <4>1. x \in Nat /\ j \in Nat /\ k \in Nat
        OBVIOUS
      <4> QED BY <1>2, <3>1, <4>1
    <3> QED BY <1>2, <3>1
  <2>2. j \notin B(j)
    OBVIOUS
  <2>3. Cardinality(B(j) \cup {j}) = Cardinality(B(j)) + 1
    BY <1>1, <2>2, FS_AddElement
  <2>4. Cardinality(B(j) \cup {j}) <= Cardinality(B(k))
    BY <1>1, <2>1, FS_Subset
  <2> HIDE DEF B
  <2> QED BY <1>1, <2>3, <2>4
<1> QED BY <1>0, <1>1, <1>2

\* Every number below the number of rows is the number of one.
LEMMA RowExists ==
  ASSUME NEW S, S \subseteq Nat, IsFiniteSet(S), NEW i \in Nat, i < Cardinality(S)
  PROVE  \E k \in S : Number(S, k) = i
<1> DEFINE T == {k \in S : Number(S, k) < i}
<1>0. /\ Cardinality(S) \in Nat
      /\ \A k \in S : Number(S, k) \in Nat /\ Number(S, k) < Cardinality(S)
      /\ \A k, j \in S : j < k => Number(S, j) < Number(S, k)
  BY Numbering
<1>1. T \subseteq S /\ IsFiniteSet(T) /\ Cardinality(T) \in Nat
  <2>1. T \in SUBSET S
    OBVIOUS
  <2>2. IsFiniteSet(T)
    BY <2>1, FS_Subset
  <2> QED BY <2>1, <2>2, FS_CardinalityType
<1>2. Cardinality(T) <= i
  <2> DEFINE f == [k \in T |-> Number(S, k)]
  <2>1. f \in Injection(T, 0 .. (i - 1))
    <3>1. f \in [T -> 0 .. (i - 1)]
      <4>1. ASSUME NEW k \in T PROVE Number(S, k) \in 0 .. (i - 1)
        <5>1. Number(S, k) \in Nat /\ Number(S, k) < i
          BY <1>0
        <5> QED BY <5>1
      <4> QED BY <4>1
    <3>2. ASSUME NEW a \in T, NEW b \in T, f[a] = f[b] PROVE a = b
      <4>1. a \in Nat /\ b \in Nat /\ a \in S /\ b \in S
        OBVIOUS
      <4>2. Number(S, a) = Number(S, b)
        BY <3>2
      <4>3. ~(a < b) /\ ~(b < a)
        BY <1>0, <4>1, <4>2
      <4> QED BY <4>1, <4>3
    <3> QED BY <3>1, <3>2 DEF Injection, IsInjective
  <2>2. IsFiniteSet(0 .. (i - 1)) /\ Cardinality(0 .. (i - 1)) = i
    <3>1. i - 1 \in Int /\ (0 > i - 1 => i = 0)
      OBVIOUS
    <3> QED BY <3>1, FS_Interval
  <2> HIDE DEF f, T
  <2> QED BY <2>1, <2>2, FS_Injection
<1>3. S \ T # {}
  <2>1. T # S
    BY <1>0, <1>1, <1>2
  <2> QED BY <1>1, <2>1
<1>4. PICK k \in S \ T : \A j \in S \ T : k <= j
  <2> HIDE DEF T
  <2> QED BY <1>3, LeastOf
<1>5. {j \in S : j < k} = T
  <2>1. ASSUME NEW j \in S, j < k PROVE j \in T
    BY <1>4, <2>1
  <2>2. ASSUME NEW j \in T PROVE j < k
    <3>1. Number(S, j) < i /\ ~(Number(S, k) < i) /\ j \in S /\ j \in Nat /\ k \in Nat
      BY <1>4
    <3>2. ~(k < j) /\ k # j
      BY <1>0, <1>4, <3>1
    <3> QED BY <3>1, <3>2
  <2> QED BY <2>1, <2>2
<1>6. Number(S, k) = Cardinality(T)
  BY <1>5 DEF Number
<1>7. ~(Number(S, k) < i)
  BY <1>4
<1> HIDE DEF T
<1> QED BY <1>0, <1>1, <1>2, <1>4, <1>6, <1>7

\* The rows the two queries return.
LEMMA Queries ==
  ASSUME TypeOK
  PROVE  /\ LivePartners \subseteq Nat /\ IsFiniteSet(LivePartners)
         /\ OpenResyncs \subseteq Nat /\ IsFiniteSet(OpenResyncs)
         /\ Cardinality(LivePartners) \in Nat /\ Cardinality(OpenResyncs) \in Nat
         /\ Cardinality(OpenResyncs) <= MaxRows
<1>1. /\ DOMAIN partnerRows = 1 .. Len(partnerRows) /\ Len(partnerRows) \in Nat
      /\ DOMAIN resyncRows = 1 .. Len(resyncRows) /\ Len(resyncRows) \in Nat
  BY DEF TypeOK
<1>2. /\ LivePartners \in SUBSET (1 .. Len(partnerRows))
      /\ OpenResyncs \in SUBSET (1 .. Len(resyncRows))
  BY <1>1 DEF LivePartners, OpenResyncs
<1>3. /\ IsFiniteSet(1 .. Len(partnerRows)) /\ IsFiniteSet(1 .. Len(resyncRows))
      /\ Cardinality(1 .. Len(resyncRows)) = Len(resyncRows)
  <2>1. 1 \in Int /\ Len(partnerRows) \in Int /\ Len(resyncRows) \in Int
    BY <1>1
  <2>2. 1 > Len(resyncRows) => Len(resyncRows) = 0
    BY <1>1
  <2>3. IsFiniteSet(1 .. Len(partnerRows))
    BY <2>1, FS_Interval
  <2>4. /\ IsFiniteSet(1 .. Len(resyncRows))
        /\ Cardinality(1 .. Len(resyncRows)) =
             IF 1 > Len(resyncRows) THEN 0 ELSE Len(resyncRows) - 1 + 1
    BY <2>1, FS_Interval
  <2> QED BY <1>1, <2>2, <2>3, <2>4
<1>4. IsFiniteSet(LivePartners) /\ IsFiniteSet(OpenResyncs)
      /\ Cardinality(OpenResyncs) <= Len(resyncRows)
  BY <1>2, <1>3, FS_Subset
<1>5. Cardinality(LivePartners) \in Nat /\ Cardinality(OpenResyncs) \in Nat
  BY <1>4, FS_CardinalityType
<1>6. LivePartners \subseteq Nat /\ OpenResyncs \subseteq Nat
  BY <1>1, <1>2
<1> QED BY <1>1, <1>4, <1>5, <1>6, Domains DEF TypeOK

\* A row of a table, and a table rebuilt row by row.
LEMMA RowIn ==
  ASSUME NEW R, NEW s \in Seq(R)
  PROVE  /\ DOMAIN s = 1 .. Len(s) /\ Len(s) \in Nat
         /\ \A k \in DOMAIN s : s[k] \in R
OBVIOUS

LEMMA Rebuilt ==
  ASSUME NEW R, NEW n \in Nat, NEW s \in [1 .. n -> R]
  PROVE  s \in Seq(R) /\ Len(s) = n
OBVIOUS

\* UPDATE ... SET state WHERE pid: the rows of the table afterwards.
NewPartnerRows(new, p, s) ==
  /\ new \in Seq([pid : Partners, state : PartnerStates])
  /\ DOMAIN new = DOMAIN partnerRows
  /\ \A k \in DOMAIN partnerRows :
       /\ new[k].pid = partnerRows[k].pid
       /\ new[k].state = IF partnerRows[k].pid = p THEN s ELSE partnerRows[k].state
       /\ partnerRows[k].pid # p => new[k] = partnerRows[k]

LEMMA SetPartnerState ==
  ASSUME TypeOK, NEW p \in Partners, NEW s \in PartnerStates
  PROVE  NewPartnerRows(SetState(partnerRows, p, s), p, s)
<1> DEFINE new == SetState(partnerRows, p, s)
           Row == [pid : Partners, state : PartnerStates]
<1>0. partnerRows \in Seq(Row)
  BY DEF TypeOK
<1>1. /\ DOMAIN partnerRows = 1 .. Len(partnerRows) /\ Len(partnerRows) \in Nat
      /\ \A k \in DOMAIN partnerRows : partnerRows[k] \in Row
  <2> HIDE DEF Row
  <2> QED BY <1>0, RowIn
<1>2. DOMAIN new = DOMAIN partnerRows
  BY DEF SetState
<1>3. ASSUME NEW k \in DOMAIN partnerRows
      PROVE /\ new[k] \in Row /\ new[k].pid = partnerRows[k].pid
            /\ new[k].state = IF partnerRows[k].pid = p THEN s ELSE partnerRows[k].state
            /\ partnerRows[k].pid # p => new[k] = partnerRows[k]
  <2>1. partnerRows[k] \in Row
    BY <1>1
  <2> QED BY <2>1 DEF SetState
<1>4. new \in [1 .. Len(partnerRows) -> Row]
  BY <1>1, <1>2, <1>3 DEF SetState
<1>5. new \in Seq(Row)
  <2> HIDE DEF new, Row
  <2> QED BY <1>1, <1>4, Rebuilt
<1> HIDE DEF new
<1> QED BY <1>2, <1>3, <1>5 DEF NewPartnerRows, new

NewResyncRows(new, p, s) ==
  /\ new \in Seq([pid : Partners, last : Grains, state : RowStates])
  /\ DOMAIN new = DOMAIN resyncRows /\ Len(new) = Len(resyncRows)
  /\ \A k \in DOMAIN resyncRows :
       /\ new[k].pid = resyncRows[k].pid /\ new[k].last = resyncRows[k].last
       /\ new[k].state = IF resyncRows[k].pid = p THEN s ELSE resyncRows[k].state
       /\ resyncRows[k].pid # p => new[k] = resyncRows[k]

LEMMA SetResyncState ==
  ASSUME TypeOK, NEW p \in Partners, NEW s \in RowStates
  PROVE  NewResyncRows(SetState(resyncRows, p, s), p, s)
<1> DEFINE new == SetState(resyncRows, p, s)
           Row == [pid : Partners, last : Grains, state : RowStates]
<1>0. resyncRows \in Seq(Row)
  BY DEF TypeOK
<1>1. /\ DOMAIN resyncRows = 1 .. Len(resyncRows) /\ Len(resyncRows) \in Nat
      /\ \A k \in DOMAIN resyncRows : resyncRows[k] \in Row
  <2> HIDE DEF Row
  <2> QED BY <1>0, RowIn
<1>2. DOMAIN new = DOMAIN resyncRows
  BY DEF SetState
<1>3. ASSUME NEW k \in DOMAIN resyncRows
      PROVE /\ new[k] \in Row
            /\ new[k].pid = resyncRows[k].pid /\ new[k].last = resyncRows[k].last
            /\ new[k].state = IF resyncRows[k].pid = p THEN s ELSE resyncRows[k].state
            /\ resyncRows[k].pid # p => new[k] = resyncRows[k]
  <2>1. resyncRows[k] \in Row
    BY <1>1
  <2> QED BY <2>1 DEF SetState
<1>4. new \in [1 .. Len(resyncRows) -> Row]
  BY <1>1, <1>2, <1>3 DEF SetState
<1>5. new \in Seq(Row) /\ Len(new) = Len(resyncRows)
  <2> HIDE DEF new, Row
  <2> QED BY <1>1, <1>4, Rebuilt
<1> HIDE DEF new
<1> QED BY <1>2, <1>3, <1>5 DEF NewResyncRows, new

-----------------------------------------------------------------------------
(* What a step leaves alone.                                               *)

\* A step that is none of partner p's.
Aside(p) ==
  /\ misplaced' = misplaced /\ crashes' = crashes
  /\ rounds'[p] = rounds[p] /\ pauses'[p] = pauses[p] /\ asked'[p] = asked[p]
  /\ th'[p] = th[p] /\ last'[p] = last[p] /\ rep'[p] = rep[p]
  /\ recovery'[p] = recovery[p] /\ slot'[p] = slot[p] /\ conn'[p] = conn[p]
  /\ bits'[p] = bits[p] /\ want'[p] = want[p] /\ good'[p] = good[p]
  /\ file'[p] = file[p] /\ srv'[p] = srv[p]
  /\ \A k \in DOMAIN resyncRows' : resyncRows'[k].pid = p =>
       k \in DOMAIN resyncRows /\ resyncRows'[k] = resyncRows[k]
  /\ \A k \in DOMAIN partnerRows' : partnerRows'[k].pid = p =>
       k \in DOMAIN partnerRows /\ partnerRows'[k] = partnerRows[k]
  /\ (ctl'.op = "metadata" /\ ctl'.pid = p) <=> (ctl.op = "metadata" /\ ctl.pid = p)
  /\ ctl'.op \in {"pause", "resume"} /\ ctl'.pid = p =>
       ctl.op \in {"pause", "resume"} /\ ctl.pid = p

PartnerInv(p) == RoundInv(p) /\ UnpausedInv(p) /\ CopyInv(p)

LEMMA AsideKept ==
  ASSUME NEW p \in Partners, Aside(p), PartnerInv(p)
  PROVE  PartnerInv(p)'
<1>1. Placed(p)' <=> Placed(p)
  BY DEF Aside, Placed, NoMixedPause
<1>2. Stored(p)' <=> Stored(p)
  BY DEF Aside, Stored
<1>3. \A k \in RowsOf(p)' : k \in RowsOf(p) /\ resyncRows'[k] = resyncRows[k]
  BY DEF Aside, RowsOf
<1>4. AllCompleted(p) => AllCompleted(p)'
  BY <1>3 DEF AllCompleted
<1>5. RoundInv(p)'
  BY <1>1, <1>3, <1>4 DEF Aside, RoundInv, PartnerInv
<1>6. UnpausedInv(p)'
  BY <1>1, <1>3, <1>4 DEF Aside, UnpausedInv, PartnerInv
<1>7. \A b : Safe(p, b) => Safe(p, b)'
  BY DEF Aside, Safe
<1>8. CopyInv(p)'
  <2>1. (Placed(p) /\ (crashes = 0 \/ Stored(p)))' <=> (Placed(p) /\ (crashes = 0 \/ Stored(p)))
    BY <1>1, <1>2 DEF Aside
  <2>2. Paused(p)' <=> Paused(p)
    BY DEF Aside, Paused
  <2> QED BY <1>3, <1>7, <2>1, <2>2 DEF Aside, CopyInv, Safe, PartnerInv
<1> QED BY <1>5, <1>6, <1>8 DEF PartnerInv

\* A step that changes neither the tables nor what db_init still has to read.
BootAside ==
  /\ UNCHANGED <<partnerRows, resyncRows, daemon, boot, misplaced, target>>
  /\ daemon = "boot" /\ ~misplaced =>
       /\ \A i \in Slots : i >= boot => /\ recovery'[i] = recovery[i] /\ slot'[i].id = slot[i].id
                                       /\ slot'[i].ip = slot[i].ip
       /\ \A p \in Partners : conn'[p] = conn[p]
       /\ \A p \in Partners : p >= boot => th'[p] = th[p] /\ rep'[p] = rep[p]

LEMMA BootKept ==
  ASSUME BootInv, BootAside PROVE BootInv'
<1>1. LivePartners' = LivePartners /\ OpenResyncs' = OpenResyncs
  BY DEF BootAside, LivePartners, OpenResyncs
<1>2. OneRowEach' <=> OneRowEach
  BY <1>1 DEF OneRowEach
<1>3. Misplaced' <=> Misplaced
  BY <1>1 DEF BootAside, Misplaced, Number
<1>4. UNCHANGED <<daemon, boot, misplaced, target>>
  BY DEF BootAside
<1>5. daemon = "hung" => misplaced \/ ~OneRowEach
  BY DEF BootInv
<1>6. ~misplaced /\ daemon \in {"up", "boot", "hung"} => \A p \in Partners : target[p] = p
  BY DEF BootInv
<1>7. ASSUME ~misplaced, daemon = "boot"
      PROVE /\ ~Misplaced'
            /\ \A i \in Slots : i >= boot /\ recovery'[i] => i \in Partners /\ slot'[i].id = i
            /\ \A i \in Slots : i >= boot =>
                 IF i < Cardinality(LivePartners) THEN recovery'[i]
                                                  ELSE slot'[i].id = 0 /\ ~slot'[i].ip
            /\ \A p \in Partners :
                 /\ p < boot => conn'[p]
                 /\ p >= boot => ~conn'[p] /\ th'[p].pc = "idle" /\ rep'[p] # "COMPLETED"
  BY <1>3, <1>7 DEF BootInv, BootAside
<1> QED BY <1>1, <1>2, <1>4, <1>5, <1>6, <1>7 DEF BootInv

\* The same while db_init does not run.
LEMMA BootUp ==
  ASSUME BootInv, daemon = "up", UNCHANGED <<daemon, target, misplaced>> PROVE BootInv'
BY DEF BootInv

\* After a restart that mixed up the rows nothing is claimed.
LEMMA NothingClaimed ==
  ASSUME misplaced' PROVE \A p \in Partners : PartnerInv(p)'
BY DEF PartnerInv, RoundInv, UnpausedInv, CopyInv, Placed

LEMMA Parts ==
  ASSUME RestartInv
  PROVE  TypeOK /\ ShapeInv /\ BootInv /\ \A q \in Partners : PartnerInv(q)
BY DEF RestartInv, PartnerInv

LEMMA Whole ==
  ASSUME TypeOK', ShapeInv', BootInv', \A q \in Partners : PartnerInv(q)'
  PROVE  RestartInv'
BY DEF RestartInv, PartnerInv

\* Updates of the arrays in memory.
SlotType == [id : Partners, state : PartnerStates \cup {"FREE"}, ip : BOOLEAN]

LEMMA SetSlot ==
  ASSUME TypeOK, NEW i \in Slots, NEW s \in PartnerStates,
         slot' = [slot EXCEPT ![i].state = s]
  PROVE  /\ slot' \in [Slots -> SlotType]
         /\ slot'[i].state = s /\ slot'[i].id = slot[i].id /\ slot'[i].ip = slot[i].ip
         /\ \A j \in Slots : j # i => slot'[j] = slot[j]
         /\ \A j \in Slots : slot'[j].id = slot[j].id
<1>1. slot \in [Slots -> SlotType]
  BY DEF TypeOK, SlotType
<1>2. slot' = [slot EXCEPT ![i] = [slot[i] EXCEPT !.state = s]]
  BY <1>1
<1>3. slot[i] \in SlotType
  BY <1>1
<1>4. /\ [slot[i] EXCEPT !.state = s] \in SlotType
      /\ [slot[i] EXCEPT !.state = s].state = s /\ [slot[i] EXCEPT !.state = s].id = slot[i].id
      /\ [slot[i] EXCEPT !.state = s].ip = slot[i].ip
  BY <1>3 DEF SlotType
<1> HIDE DEF SlotType
<1> QED BY <1>1, <1>2, <1>4

ThreadType == [pc : ThreadPoints, bit : 0 .. NumBits]

LEMMA SetThread ==
  ASSUME TypeOK, NEW p \in Partners, NEW r \in ThreadType, th' = [th EXCEPT ![p] = r]
  PROVE  /\ th' \in [Partners -> ThreadType] /\ th'[p] = r
         /\ \A q \in Partners : q # p => th'[q] = th[q]
<1>1. th \in [Partners -> ThreadType]
  BY DEF TypeOK, ThreadType
<1> HIDE DEF ThreadType
<1> QED BY <1>1

LEMMA GoThread ==
  ASSUME TypeOK, NEW p \in Partners, NEW pc \in ThreadPoints, th' = [th EXCEPT ![p].pc = pc]
  PROVE  /\ th' \in [Partners -> ThreadType] /\ th'[p].pc = pc /\ th'[p].bit = th[p].bit
         /\ \A q \in Partners : q # p => th'[q] = th[q]
<1>1. th \in [Partners -> ThreadType]
  BY DEF TypeOK, ThreadType
<1>2. th' = [th EXCEPT ![p] = [th[p] EXCEPT !.pc = pc]]
  BY <1>1
<1>3. th[p] \in ThreadType
  BY <1>1
<1>4. /\ [th[p] EXCEPT !.pc = pc] \in ThreadType
      /\ [th[p] EXCEPT !.pc = pc].pc = pc /\ [th[p] EXCEPT !.pc = pc].bit = th[p].bit
  BY <1>3 DEF ThreadType
<1> HIDE DEF ThreadType
<1> QED BY <1>1, <1>2, <1>4

-----------------------------------------------------------------------------
(* Commands.                                                               *)

LEMMA MetadataStep ==
  ASSUME RestartInv, NEW p \in Partners, Metadata(p) PROVE RestartInv'
<1>0. /\ daemon = "up" /\ ctl = IdleCtl /\ conn[p] /\ TypeOK /\ ShapeInv /\ BootInv
      /\ \A q \in Partners : PartnerInv(q)
  BY Parts DEF Metadata, Command
<1>t. p \in Slots /\ Partners \subseteq Slots
  BY Domains
<1>a. /\ UNCHANGED <<partnerRows, resyncRows, file, good, want, srv, daemon, boot, last, rep,
                     recovery, target, bits, conn, th, pauses, crashes, misplaced>>
      /\ \/ asked[p] = "nothing"
         \/ asked[p] = "resync" /\ rep[p] = "COMPLETED" /\ th[p].pc = "idle"
      /\ ctl'.op = "metadata" /\ ctl'.pid = p /\ ctl'.pc \in {"partner", "recv"}
      /\ ctl'.pc = "partner" => slot[p].state = "RELEASED"
      /\ ctl' \in [op : {"none", "metadata", "pause", "resume"}, pid : Partners,
                   pc : {"idle", "partner", "rows", "recv"}]
  BY DEF Metadata, Begin, diskVars, srvVars
<1>b. /\ asked' \in [Partners -> {"nothing", "metadata", "resync"}] /\ rounds' \in [Partners -> Nat]
      /\ asked'[p] = "metadata" /\ rounds'[p] = rounds[p] + 1
      /\ \A q \in Partners : q # p => asked'[q] = asked[q] /\ rounds'[q] = rounds[q]
      /\ rounds[p] \in Nat /\ pauses[p] \in Nat
  <2>1. /\ asked \in [Partners -> {"nothing", "metadata", "resync"}]
        /\ rounds \in [Partners -> Nat] /\ pauses \in [Partners -> Nat]
    BY <1>0 DEF TypeOK
  <2>2. asked' = [asked EXCEPT ![p] = "metadata"] /\ rounds' = [rounds EXCEPT ![p] = @ + 1]
    BY DEF Metadata
  <2>3. /\ rounds' \in [Partners -> Nat] /\ rounds'[p] = rounds[p] + 1 /\ rounds[p] \in Nat
        /\ \A q \in Partners : q # p => rounds'[q] = rounds[q]
    BY <2>1, <2>2
  <2> QED BY <2>1, <2>2, <2>3
<1>c. /\ slot' \in [Slots -> SlotType] /\ \A j \in Slots : j # p => slot'[j] = slot[j]
      /\ slot[p].state = "RELEASED" => slot'[p].state = "IN_USE"
      /\ slot[p].state # "RELEASED" => slot'[p] = slot[p]
  <2>1. CASE slot[p].state = "RELEASED"
    <3>1. slot' = [slot EXCEPT ![p].state = "IN_USE"] /\ "IN_USE" \in PartnerStates
      BY <2>1 DEF Metadata, PartnerStates
    <3> QED BY <1>0, <1>t, <2>1, <3>1, SetSlot
  <2>2. CASE slot[p].state # "RELEASED"
    BY <1>0, <2>2 DEF Metadata, TypeOK, SlotType
  <2> QED BY <2>1, <2>2
<1>1. TypeOK'
  BY <1>0, <1>a, <1>b, <1>c DEF TypeOK, SlotType
<1>2. ShapeInv'
  <2>1. ctl'.pc = "partner" => slot'[ctl'.pid].state # "FREE"
    BY <1>a, <1>c
  <2>2. \A q \in Partners : th[q].pc = "release" => slot'[q].state # "FREE"
    BY <1>0, <1>t, <1>c DEF ShapeInv
  <2>3. \A q \in Partners : /\ asked'[q] = "nothing" => rounds'[q] = 0
                            /\ asked'[q] # "nothing" => rounds'[q] > 0
    BY <1>0, <1>b DEF ShapeInv
  <2> QED BY <1>0, <1>a, <1>b, <2>1, <2>2, <2>3 DEF ShapeInv
<1>3. BootInv'
  BY <1>0, <1>a, BootUp
<1>4. ASSUME NEW q \in Partners, q # p PROVE PartnerInv(q)'
  <2>1. Aside(q)
    BY <1>0, <1>4, <1>a, <1>b, <1>c, <1>t DEF Aside, IdleCtl
  <2> QED BY <1>0, <2>1, AsideKept
<1>5. PartnerInv(p)'
  <2>2. Placed(p)' => Placed(p) /\ (asked[p] # "nothing" => pauses[p] = 0)
    BY <1>0, <1>a, <1>b DEF Placed, NoMixedPause, ShapeInv
  <2>3. RowsOf(p)' = RowsOf(p) /\ (AllCompleted(p)' <=> AllCompleted(p))
    BY <1>a DEF RowsOf, AllCompleted
  <2>4. RoundInv(p)'
    <3>1. SUFFICES ASSUME Placed(p)' PROVE RoundInv(p)'
      BY DEF RoundInv
    <3>2. Placed(p) /\ RoundInv(p) /\ UnpausedInv(p)
      BY <1>0, <2>2, <3>1 DEF PartnerInv
    <3>3. /\ th[p].pc = "idle" /\ last[p] = 0 /\ pauses[p] = 0 /\ AllCompleted(p)
          /\ ~(recovery[p] /\ conn[p])
          /\ rounds'[p] <= 1 => RowsOf(p) = {}
      BY <1>0, <1>a, <1>b, <2>2, <3>1, <3>2 DEF RoundInv, UnpausedInv, ShapeInv
    <3> QED BY <1>a, <1>b, <2>3, <3>3 DEF RoundInv
  <2>5. UnpausedInv(p)'
    BY <1>0, <1>a, <1>c, <1>t, <2>2, <2>3 DEF PartnerInv, UnpausedInv, PauseStates, RowsOf
  <2>6. CopyInv(p)'
    <3>1. SUFFICES ASSUME Placed(p)', crashes = 0 \/ Stored(p)' PROVE CopyInv(p)'
      BY <1>a DEF CopyInv
    <3>2. Placed(p) /\ (crashes = 0 \/ Stored(p)) /\ CopyInv(p) /\ RoundInv(p) /\ UnpausedInv(p)
      BY <1>0, <1>a, <2>2, <3>1 DEF PartnerInv, Stored
    <3>3. th[p].pc = "idle" /\ (rounds'[p] <= 1 => RowsOf(p) = {})
      BY <1>0, <1>a, <1>b, <2>2, <3>1, <3>2 DEF RoundInv, UnpausedInv, ShapeInv
    <3>4. \A b : Safe(p, b)' <=> Safe(p, b)
      BY <1>a DEF Safe
    <3> QED BY <1>a, <1>b, <2>3, <3>2, <3>3, <3>4 DEF CopyInv, Safe, RowsOf
  <2> QED BY <2>4, <2>5, <2>6 DEF PartnerInv
<1> QED BY <1>1, <1>2, <1>3, <1>4, <1>5, Whole

\* The bitmap of a round arrives when nothing of the round before is open.
LEMMA MetadataRecvStep ==
  ASSUME RestartInv, NEW p \in Partners, p = ctl.pid, MetadataRecv PROVE RestartInv'
<1>0. TypeOK /\ ShapeInv /\ BootInv /\ \A q \in Partners : PartnerInv(q)
  BY Parts
<1>t. p \in Partners /\ 0 \in Partners
  BY <1>0, Domains DEF TypeOK
<1>d. daemon = "up" /\ ctl.op = "metadata" /\ asked[p] = "metadata"
  BY <1>0 DEF MetadataRecv, ShapeInv, IdleCtl
<1>a. /\ UNCHANGED <<partnerRows, resyncRows, daemon, boot, slot, last, rep, recovery, target, conn,
                     th, asked, rounds, pauses, crashes, misplaced>>
      /\ ctl' = IdleCtl
  BY DEF MetadataRecv, histVars
<1>b. /\ want' \in [Partners -> SUBSET Grains] /\ good' \in [Partners -> SUBSET Grains]
      /\ bits' \in [Partners -> SUBSET Grains]
      /\ file' \in [Partners -> (SUBSET Grains) \cup {NoFile}]
      /\ srv' \in [Partners -> {"idle", "active", "released"}]
      /\ want'[p] = bits'[p] /\ srv'[p] = "active"
      /\ \A q \in Partners : q # p => /\ want'[q] = want[q] /\ good'[q] = good[q]
                                      /\ bits'[q] = bits[q] /\ file'[q] = file[q] /\ srv'[q] = srv[q]
  <2>1. PICK b \in Bitmaps :
          /\ want' = [want EXCEPT ![p] = b] /\ good' = [good EXCEPT ![p] = @ \ b]
          /\ bits' = [bits EXCEPT ![p] = b]
          /\ file' = IF b \cap FirstWord # {} THEN [file EXCEPT ![p] = b] ELSE file
    BY DEF MetadataRecv
  <2>2. b \in SUBSET Grains
    BY SizeAssumption
  <2>3. srv' = [srv EXCEPT ![p] = "active"]
    BY DEF MetadataRecv
  <2>4. /\ want \in [Partners -> SUBSET Grains] /\ good \in [Partners -> SUBSET Grains]
        /\ bits \in [Partners -> SUBSET Grains] /\ file \in [Partners -> (SUBSET Grains) \cup {NoFile}]
        /\ srv \in [Partners -> {"idle", "active", "released"}]
    BY <1>0 DEF TypeOK
  <2> QED BY <1>t, <2>1, <2>2, <2>3, <2>4
<1>1. TypeOK'
  BY <1>0, <1>a, <1>b, <1>t DEF TypeOK, IdleCtl
<1>2. ShapeInv'
  BY <1>0, <1>a, <1>d DEF ShapeInv, IdleCtl
<1>3. BootInv'
  BY <1>0, <1>a, <1>d, BootUp
<1>4. ASSUME NEW q \in Partners, q # p PROVE PartnerInv(q)'
  <2>1. Aside(q)
    BY <1>4, <1>a, <1>b DEF Aside, IdleCtl
  <2> QED BY <1>0, <2>1, AsideKept
<1>5. PartnerInv(p)'
  <2>1. (Placed(p)' <=> Placed(p)) /\ RowsOf(p)' = RowsOf(p) /\ (AllCompleted(p)' <=> AllCompleted(p))
    BY <1>a DEF Placed, NoMixedPause, RowsOf, AllCompleted
  <2>2. Placed(p) => /\ th[p].pc = "idle" /\ last[p] = 0 /\ AllCompleted(p)
                     /\ rounds[p] <= 1 => RowsOf(p) = {}
    BY <1>0, <1>d, <1>t DEF PartnerInv, RoundInv
  <2>3. RoundInv(p)'
    BY <1>0, <1>a, <1>b, <1>d, <1>t, <2>1 DEF PartnerInv, RoundInv
  <2>4. UnpausedInv(p)'
    BY <1>0, <1>a, <1>d, <1>t, <2>1 DEF PartnerInv, UnpausedInv, IdleCtl
  <2>5. Safe(p, 0)'
    <3>1. \A g \in want'[p] : g \in Nat
      BY <1>b, <1>t, Domains
    <3> QED BY <3>1, <1>a DEF Safe
  <2>6. CopyInv(p)'
    <3>1. SUFFICES ASSUME Placed(p)' PROVE CopyInv(p)'
      BY DEF CopyInv
    <3>2. /\ th'[p].pc = "idle" /\ last'[p] = 0 /\ asked'[p] = "metadata" /\ srv'[p] = "active"
          /\ \A k \in RowsOf(p)' : resyncRows'[k].state = "COMPLETED" /\ ~(rounds'[p] <= 1)
      BY <1>a, <1>b, <1>d, <2>1, <2>2, <3>1 DEF AllCompleted
    <3> QED BY <2>5, <3>2 DEF CopyInv
  <2> QED BY <2>3, <2>4, <2>6 DEF PartnerInv
<1> QED BY <1>1, <1>2, <1>3, <1>4, <1>5, Whole

LEMMA ResyncStep ==
  ASSUME RestartInv, NEW p \in Partners, Resync(p) PROVE RestartInv'
<1>0. /\ daemon = "up" /\ ctl = IdleCtl /\ conn[p] /\ TypeOK /\ ShapeInv /\ BootInv
      /\ \A q \in Partners : PartnerInv(q)
  BY Parts DEF Resync, Command
<1>t. p \in Slots /\ Partners \subseteq Slots /\ 0 \in 0 .. NumBits
  BY Domains
<1>a. /\ UNCHANGED <<partnerRows, resyncRows, file, good, want, srv, daemon, boot, slot, last, rep,
                     recovery, target, bits, conn, ctl, rounds, pauses, crashes, misplaced>>
      /\ asked[p] = "metadata"
  BY DEF Resync, diskVars, srvVars, memVars, histVars
<1>b. /\ asked' \in [Partners -> {"nothing", "metadata", "resync"}] /\ asked'[p] = "resync"
      /\ \A q \in Partners : q # p => asked'[q] = asked[q]
  BY <1>0 DEF Resync, TypeOK
<1>c. /\ th' \in [Partners -> ThreadType] /\ th'[p].pc = "new" /\ th'[p].bit = 0
      /\ \A q \in Partners : q # p => th'[q] = th[q]
  <2>1. [pc |-> "new", bit |-> 0] \in ThreadType
    BY <1>t DEF ThreadType, ThreadPoints
  <2>2. th' = [th EXCEPT ![p] = [pc |-> "new", bit |-> 0]]
    BY DEF Resync, ResyncInit
  <2> QED BY <1>0, <2>1, <2>2, SetThread
<1>1. TypeOK'
  BY <1>0, <1>a, <1>b, <1>c DEF TypeOK, ThreadType
<1>2. ShapeInv'
  <2>1. \A q \in Partners :
          /\ th'[q].pc # "idle" => conn'[q]
          /\ th'[q].pc \in {"copy", "grain"} => th'[q].bit \in Grains
          /\ th'[q].pc = "term" => th'[q].bit = NumBits
          /\ th'[q].pc = "release" => slot'[q].state # "FREE"
          /\ asked'[q] = "nothing" => rounds'[q] = 0
          /\ asked'[q] # "nothing" => rounds'[q] > 0
    BY <1>0, <1>a, <1>b, <1>c DEF ShapeInv
  <2> QED BY <1>0, <1>a, <2>1 DEF ShapeInv, IdleCtl
<1>3. BootInv'
  BY <1>0, <1>a, BootUp
<1>4. ASSUME NEW q \in Partners, q # p PROVE PartnerInv(q)'
  <2>1. Aside(q)
    BY <1>4, <1>a, <1>b, <1>c DEF Aside
  <2> QED BY <1>0, <2>1, AsideKept
<1>5. PartnerInv(p)'
  <2>1. /\ (Placed(p)' <=> Placed(p)) /\ RowsOf(p)' = RowsOf(p) /\ (AllCompleted(p)' <=> AllCompleted(p))
        /\ (Stored(p)' <=> Stored(p)) /\ \A b : Safe(p, b)' <=> Safe(p, b)
    BY <1>a DEF Placed, NoMixedPause, RowsOf, AllCompleted, Stored, Safe
  <2>2. Placed(p) => /\ last[p] = 0 /\ AllCompleted(p) /\ ~recovery[p] /\ bits[p] = want[p]
    BY <1>0, <1>a DEF PartnerInv, RoundInv, IdleCtl
  <2>3. RoundInv(p)'
    BY <1>a, <1>b, <2>1, <2>2 DEF RoundInv
  <2>4. UnpausedInv(p)'
    BY <1>0, <1>a, <1>c, <2>1, <2>2 DEF PartnerInv, UnpausedInv
  <2>5. Safe(p, 0)
    <3>1. \A g \in want[p] : g \in Nat
      BY <1>0, Domains DEF TypeOK
    <3> QED BY <3>1 DEF Safe
  <2>6. CopyInv(p)'
    <3>1. SUFFICES ASSUME Placed(p), crashes = 0 \/ Stored(p) PROVE CopyInv(p)'
      BY <1>a, <2>1 DEF CopyInv
    <3>2. CopyInv(p)
      BY <1>0 DEF PartnerInv
    <3>3. \A k \in RowsOf(p) : resyncRows[k].state # "COMPLETED" \/ rounds[p] <= 1
                                => Safe(p, resyncRows[k].last)
      BY <3>1, <3>2 DEF CopyInv
    <3>4. srv[p] = "released" => want[p] \subseteq good[p]
      BY <3>1, <3>2 DEF CopyInv
    <3>5. \A k \in RowsOf(p)' : resyncRows'[k].state # "COMPLETED" \/ rounds'[p] <= 1
                                => Safe(p, resyncRows[k].last)'
      BY <1>a, <2>1, <3>3
    <3>6. Safe(p, last[p])' /\ Safe(p, th[p].bit)'
      BY <1>a, <1>c, <2>1, <2>2, <2>5, <3>1 DEF Safe
    <3> QED BY <1>a, <1>c, <2>2, <3>1, <3>4, <3>5, <3>6 DEF CopyInv
  <2> QED BY <2>3, <2>4, <2>6 DEF PartnerInv
<1> QED BY <1>1, <1>2, <1>3, <1>4, <1>5, Whole

LEMMA PauseStep ==
  ASSUME RestartInv, NEW p \in Partners, Pause(p) PROVE RestartInv'
<1>0. /\ daemon = "up" /\ ctl = IdleCtl /\ conn[p] /\ TypeOK /\ ShapeInv /\ BootInv
      /\ \A q \in Partners : PartnerInv(q)
  BY Parts DEF Pause, Command
<1>t. p \in Slots /\ Partners \subseteq Slots
  BY Domains
<1>a. /\ UNCHANGED <<partnerRows, resyncRows, file, good, want, srv, daemon, boot, last, recovery,
                     target, bits, conn, th, asked, rounds, crashes, misplaced>>
      /\ last[p] # 0 /\ ctl' = [op |-> "pause", pid |-> p, pc |-> "partner"]
  BY DEF Pause, Begin, diskVars, srvVars
<1>b. /\ pauses' \in [Partners -> Nat] /\ pauses'[p] = pauses[p] + 1 /\ pauses[p] \in Nat
      /\ \A q \in Partners : q # p => pauses'[q] = pauses[q]
      /\ rep' \in [Slots -> RowStates] /\ rep'[p] = "PAUSE"
      /\ \A q \in Slots : q # p => rep'[q] = rep[q]
  <2>1. pauses \in [Partners -> Nat] /\ rep \in [Slots -> RowStates]
    BY <1>0 DEF TypeOK
  <2>2. pauses' = [pauses EXCEPT ![p] = @ + 1] /\ rep' = [rep EXCEPT ![p] = "PAUSE"]
    BY DEF Pause
  <2>3. "PAUSE" \in RowStates
    BY DEF RowStates
  <2>4. /\ pauses' \in [Partners -> Nat] /\ pauses'[p] = pauses[p] + 1 /\ pauses[p] \in Nat
        /\ \A q \in Partners : q # p => pauses'[q] = pauses[q]
    BY <2>1, <2>2
  <2> QED BY <1>t, <2>1, <2>2, <2>3, <2>4
<1>c. /\ slot' \in [Slots -> SlotType] /\ \A j \in Slots : j # p => slot'[j] = slot[j]
      /\ slot'[p].state = "PAUSE"
  <2>1. slot' = [slot EXCEPT ![p].state = "PAUSE"] /\ "PAUSE" \in PartnerStates
    BY DEF Pause, PartnerStates
  <2> QED BY <1>0, <1>t, <2>1, SetSlot
<1>1. TypeOK'
  <2>1. ctl' \in [op : {"none", "metadata", "pause", "resume"}, pid : Partners,
                 pc : {"idle", "partner", "rows", "recv"}]
    BY <1>a
  <2> QED BY <1>0, <1>a, <1>b, <1>c, <2>1 DEF TypeOK, SlotType
<1>2. ShapeInv'
  <2>1. \A q \in Partners : th'[q].pc = "release" => slot'[q].state # "FREE"
    BY <1>0, <1>a, <1>c, <1>t DEF ShapeInv
  <2>2. ctl'.op = "pause" /\ ctl'.pid = p /\ ctl'.pc = "partner"
    BY <1>a
  <2> QED BY <1>0, <1>a, <1>c, <2>1, <2>2 DEF ShapeInv
<1>3. BootInv'
  BY <1>0, <1>a, BootUp
<1>4. ASSUME NEW q \in Partners, q # p PROVE PartnerInv(q)'
  <2>1. ctl'.op = "pause" /\ ctl'.pid = p /\ ctl.op = "none"
    BY <1>0, <1>a DEF IdleCtl
  <2>2. Aside(q)
    BY <1>4, <1>a, <1>b, <1>c, <1>t, <2>1 DEF Aside
  <2> QED BY <1>0, <2>2, AsideKept
<1>5. PartnerInv(p)'
  <2>1. /\ (Placed(p)' => Placed(p)) /\ RowsOf(p)' = RowsOf(p)
        /\ (Stored(p)' <=> Stored(p)) /\ \A b : Safe(p, b)' <=> Safe(p, b)
    BY <1>a, <1>b DEF Placed, NoMixedPause, RowsOf, Stored, Safe
  <2>2. Placed(p) => asked[p] = "resync"
    BY <1>0, <1>a DEF PartnerInv, RoundInv
  <2>3. RoundInv(p)'
    BY <1>0, <1>a, <1>b, <2>1, <2>2 DEF PartnerInv, RoundInv
  <2>4. UnpausedInv(p)'
    BY <1>b DEF UnpausedInv
  <2>5. Paused(p)'
    BY <1>c DEF Paused
  <2>6. CopyInv(p)'
    BY <1>0, <1>a, <2>1, <2>5 DEF PartnerInv, CopyInv, Safe
  <2> QED BY <2>3, <2>4, <2>6 DEF PartnerInv
<1> QED BY <1>1, <1>2, <1>3, <1>4, <1>5, Whole

LEMMA ResumeStep ==
  ASSUME RestartInv, NEW p \in Partners, Resume(p) PROVE RestartInv'
<1>0. /\ daemon = "up" /\ ctl = IdleCtl /\ conn[p] /\ TypeOK /\ ShapeInv /\ BootInv
      /\ \A q \in Partners : PartnerInv(q)
  BY Parts DEF Resume, Command
<1>t. p \in Slots /\ Partners \subseteq Slots
  BY Domains
<1>a. /\ UNCHANGED <<partnerRows, resyncRows, file, good, want, srv, daemon, boot, last, recovery,
                     target, bits, conn, th, asked, rounds, pauses, crashes, misplaced>>
      /\ slot[p].state = "PAUSE" /\ th[p].pc = "idle"
      /\ ctl' = [op |-> "resume", pid |-> p, pc |-> "partner"]
  BY DEF Resume, Begin, diskVars, srvVars, histVars
<1>b. /\ rep' \in [Slots -> RowStates] /\ rep'[p] = "RESUME"
      /\ \A q \in Slots : q # p => rep'[q] = rep[q]
  BY <1>0, <1>t DEF Resume, TypeOK, RowStates
<1>c. /\ slot' \in [Slots -> SlotType] /\ \A j \in Slots : j # p => slot'[j] = slot[j]
      /\ slot'[p].state = "RESUME"
  <2>1. slot' = [slot EXCEPT ![p].state = "RESUME"] /\ "RESUME" \in PartnerStates
    BY DEF Resume, PartnerStates
  <2> QED BY <1>0, <1>t, <2>1, SetSlot
<1>1. TypeOK'
  <2>1. ctl' \in [op : {"none", "metadata", "pause", "resume"}, pid : Partners,
                 pc : {"idle", "partner", "rows", "recv"}]
    BY <1>a
  <2> QED BY <1>0, <1>a, <1>b, <1>c, <2>1 DEF TypeOK, SlotType
<1>2. ShapeInv'
  <2>1. \A q \in Partners : th'[q].pc = "release" => slot'[q].state # "FREE"
    BY <1>0, <1>a, <1>c, <1>t DEF ShapeInv
  <2>2. ctl'.op = "resume" /\ ctl'.pid = p /\ ctl'.pc = "partner"
    BY <1>a
  <2> QED BY <1>0, <1>a, <1>c, <2>1, <2>2 DEF ShapeInv
<1>3. BootInv'
  BY <1>0, <1>a, BootUp
<1>4. ASSUME NEW q \in Partners, q # p PROVE PartnerInv(q)'
  <2>1. ctl'.op = "resume" /\ ctl'.pid = p /\ ctl.op = "none"
    BY <1>0, <1>a DEF IdleCtl
  <2>2. Aside(q)
    BY <1>4, <1>a, <1>b, <1>c, <1>t, <2>1 DEF Aside
  <2> QED BY <1>0, <2>2, AsideKept
<1>5. PartnerInv(p)'
  <2>1. /\ (Placed(p)' <=> Placed(p)) /\ RowsOf(p)' = RowsOf(p)
        /\ (Stored(p)' <=> Stored(p)) /\ \A b : Safe(p, b)' <=> Safe(p, b)
    BY <1>a DEF Placed, NoMixedPause, RowsOf, Stored, Safe
  <2>2. Placed(p) => pauses[p] # 0 /\ asked[p] = "resync"
    BY <1>0, <1>a DEF PartnerInv, RoundInv, UnpausedInv, PauseStates
  <2>3. RoundInv(p)'
    BY <1>0, <1>a, <1>b, <2>1, <2>2 DEF PartnerInv, RoundInv
  <2>4. UnpausedInv(p)'
    BY <1>a, <2>1, <2>2 DEF UnpausedInv
  <2>6. CopyInv(p)'
    BY <1>0, <1>a, <2>1 DEF PartnerInv, CopyInv, Safe
  <2> QED BY <2>3, <2>4, <2>6 DEF PartnerInv
<1> QED BY <1>1, <1>2, <1>3, <1>4, <1>5, Whole

LEMMA CommandPartnerStep ==
  ASSUME RestartInv, NEW p \in Partners, p = ctl.pid, CommandPartner PROVE RestartInv'
<1>0. TypeOK /\ ShapeInv /\ BootInv /\ \A q \in Partners : PartnerInv(q)
  BY Parts
<1>t. p \in Slots /\ Partners \subseteq Slots
  BY Domains
<1>d. /\ daemon = "up" /\ ctl.op # "none" /\ ctl.op \in {"none", "metadata", "pause", "resume"}
      /\ slot[p].state \in PartnerStates
  BY <1>0, <1>t DEF CommandPartner, ShapeInv, IdleCtl, TypeOK
<1>a. /\ UNCHANGED <<resyncRows, file, good, want, srv, daemon, boot, slot, last, rep, recovery,
                     target, bits, conn, th, asked, rounds, pauses, crashes, misplaced>>
      /\ partnerRows' = SetState(partnerRows, p, slot[p].state)
  BY DEF CommandPartner, srvVars, memVars, histVars
<1>b. /\ ctl'.op = ctl.op /\ ctl'.pid = p
      /\ ctl'.pc = IF ctl.op = "metadata" THEN "recv" ELSE "rows"
      /\ ctl' \in [op : {"none", "metadata", "pause", "resume"}, pid : Partners,
                   pc : {"idle", "partner", "rows", "recv"}]
  BY <1>0 DEF CommandPartner, TypeOK
<1>c. /\ partnerRows' \in Seq([pid : Partners, state : PartnerStates])
      /\ DOMAIN partnerRows' = DOMAIN partnerRows
      /\ \A k \in DOMAIN partnerRows :
           /\ partnerRows'[k].pid = partnerRows[k].pid
           /\ partnerRows'[k].state = IF partnerRows[k].pid = p THEN slot[p].state
                                                              ELSE partnerRows[k].state
           /\ partnerRows[k].pid # p => partnerRows'[k] = partnerRows[k]
  <2>1. NewPartnerRows(partnerRows', p, slot[p].state)
    BY <1>0, <1>a, <1>d, SetPartnerState
  <2> QED BY <2>1 DEF NewPartnerRows
<1>1. TypeOK'
  BY <1>0, <1>a, <1>b, <1>c DEF TypeOK
<1>2. ShapeInv'
  BY <1>0, <1>a, <1>b, <1>d DEF ShapeInv
<1>3. BootInv'
  BY <1>0, <1>a, <1>d, BootUp
<1>4. ASSUME NEW q \in Partners, q # p PROVE PartnerInv(q)'
  <2>1. Aside(q)
    BY <1>4, <1>a, <1>b, <1>c DEF Aside
  <2> QED BY <1>0, <2>1, AsideKept
<1>5. PartnerInv(p)'
  <2>1. /\ (Placed(p)' <=> Placed(p)) /\ RowsOf(p)' = RowsOf(p) /\ (AllCompleted(p)' <=> AllCompleted(p))
        /\ (Stored(p)' <=> Stored(p)) /\ \A b : Safe(p, b)' <=> Safe(p, b)
    BY <1>a DEF Placed, NoMixedPause, RowsOf, Stored, Safe, AllCompleted
  <2>3. RoundInv(p)'
    BY <1>0, <1>a, <1>b, <2>1 DEF PartnerInv, RoundInv
  <2>4. UnpausedInv(p)'
    <3> SUFFICES ASSUME Placed(p)', pauses'[p] = 0 PROVE UnpausedInv(p)'
      BY DEF UnpausedInv
    <3>0. UnpausedInv(p) /\ Placed(p) /\ pauses[p] = 0
      BY <1>0, <1>a, <2>1 DEF PartnerInv
    <3>1. \A k \in DOMAIN partnerRows' :
            partnerRows'[k].pid = p => partnerRows'[k].state \notin PauseStates
      BY <3>0, <1>c DEF UnpausedInv
    <3>2. \A k \in RowsOf(p)' : resyncRows'[k].state \notin PauseStates
      BY <3>0, <1>a, <2>1 DEF UnpausedInv
    <3> QED BY <3>0, <3>1, <3>2, <1>a, <1>b, <2>1 DEF UnpausedInv
  <2>6. CopyInv(p)'
    BY <1>0, <1>a, <2>1 DEF PartnerInv, CopyInv, Safe, Paused
  <2> QED BY <2>3, <2>4, <2>6 DEF PartnerInv
<1> QED BY <1>1, <1>2, <1>3, <1>4, <1>5, Whole

\* A pause or a resume writes its state into every row of its partner; it may, as
\* there is no row but those of the one round.
LEMMA CommandRowsStep ==
  ASSUME RestartInv, NEW p \in Partners, p = ctl.pid, CommandRows PROVE RestartInv'
<1>0. TypeOK /\ ShapeInv /\ BootInv /\ \A q \in Partners : PartnerInv(q)
  BY Parts
<1>t. p \in Slots /\ Partners \subseteq Slots /\ 0 \in Partners /\ Grains \subseteq 0 .. NumBits
  BY Domains
<1>d. /\ daemon = "up" /\ ctl.op \in {"pause", "resume"} /\ conn[p]
      /\ rep[p] \in RowStates /\ last[p] \in Grains
  BY <1>0, <1>t DEF CommandRows, ShapeInv, IdleCtl, TypeOK
<1>a. /\ UNCHANGED <<partnerRows, file, good, want, srv, daemon, boot, slot, last, rep, recovery,
                     target, bits, conn, asked, rounds, pauses, crashes, misplaced>>
      /\ resyncRows' = SetState(resyncRows, p, rep[p]) /\ ctl' = IdleCtl
  BY DEF CommandRows, srvVars, memVars, histVars
<1>b. /\ th' \in [Partners -> ThreadType]
      /\ \/ th'[p] = th[p]
         \/ th'[p].pc = "new" /\ th'[p].bit = last[p]
      /\ \A q \in Partners : q # p => th'[q] = th[q]
  <2>1. CASE ctl.op = "resume"
    <3>1. [pc |-> "new", bit |-> last[p]] \in ThreadType
      BY <1>t, <1>d DEF ThreadType, ThreadPoints
    <3>2. th' = [th EXCEPT ![p] = [pc |-> "new", bit |-> last[p]]]
      BY <2>1 DEF CommandRows, ResyncInit
    <3> QED BY <1>0, <3>1, <3>2, SetThread
  <2>2. CASE ctl.op # "resume"
    <3>1. th \in [Partners -> ThreadType]
      BY <1>0 DEF TypeOK, ThreadType
    <3>2. th' = th
      BY <2>2 DEF CommandRows
    <3> QED BY <3>1, <3>2
  <2> QED BY <2>1, <2>2
<1>c. /\ resyncRows' \in Seq([pid : Partners, last : Grains, state : RowStates])
      /\ DOMAIN resyncRows' = DOMAIN resyncRows /\ Len(resyncRows') = Len(resyncRows)
      /\ \A k \in DOMAIN resyncRows :
           /\ resyncRows'[k].pid = resyncRows[k].pid /\ resyncRows'[k].last = resyncRows[k].last
           /\ resyncRows[k].pid # p => resyncRows'[k] = resyncRows[k]
  <2>1. NewResyncRows(resyncRows', p, rep[p])
    BY <1>0, <1>a, <1>d, SetResyncState
  <2> QED BY <2>1 DEF NewResyncRows
<1>1. TypeOK'
  BY <1>0, <1>a, <1>b, <1>c, <1>t DEF TypeOK, ThreadType, IdleCtl
<1>2. ShapeInv'
  <2>1. \A q \in Partners :
          /\ th'[q].pc # "idle" => conn'[q]
          /\ th'[q].pc \in {"copy", "grain"} => th'[q].bit \in Grains
          /\ th'[q].pc = "term" => th'[q].bit = NumBits
          /\ th'[q].pc = "release" => slot'[q].state # "FREE"
    BY <1>0, <1>a, <1>b, <1>d DEF ShapeInv
  <2> QED BY <1>0, <1>a, <1>d, <2>1 DEF ShapeInv, IdleCtl
<1>3. BootInv'
  BY <1>0, <1>a, <1>d, BootUp
<1>4. ASSUME NEW q \in Partners, q # p PROVE PartnerInv(q)'
  <2>1. Aside(q)
    BY <1>4, <1>a, <1>b, <1>c, <1>d DEF Aside, IdleCtl
  <2> QED BY <1>0, <2>1, AsideKept
<1>5. PartnerInv(p)'
  <2>1. /\ (Placed(p)' <=> Placed(p)) /\ RowsOf(p)' = RowsOf(p)
        /\ (Stored(p)' <=> Stored(p)) /\ \A b : Safe(p, b)' <=> Safe(p, b)
    BY <1>a, <1>c DEF Placed, NoMixedPause, RowsOf, Stored, Safe
  <2>2. Placed(p) => pauses[p] # 0 /\ asked[p] = "resync" /\ rounds[p] <= 1
    BY <1>0, <1>d DEF PartnerInv, RoundInv, UnpausedInv, Placed, NoMixedPause
  <2>3. RoundInv(p)'
    BY <1>0, <1>a, <1>b, <2>1, <2>2 DEF PartnerInv, RoundInv
  <2>4. UnpausedInv(p)'
    BY <1>a, <2>1, <2>2 DEF UnpausedInv
  <2>6. CopyInv(p)'
    <3>1. SUFFICES ASSUME Placed(p), crashes = 0 \/ Stored(p) PROVE CopyInv(p)'
      BY <1>a, <2>1 DEF CopyInv
    <3>2. CopyInv(p)
      BY <1>0 DEF PartnerInv
    <3>3. \A k \in RowsOf(p) : Safe(p, resyncRows[k].last)
      BY <2>2, <3>1, <3>2 DEF CopyInv
    <3>4. \A k \in RowsOf(p)' : Safe(p, resyncRows[k].last)'
      BY <1>a, <1>c, <2>1, <3>3 DEF RowsOf, Safe
    <3>5. Paused(p)' <=> Paused(p)
      BY <1>a DEF Paused
    <3>6. /\ Safe(p, last[p]) /\ (asked[p] = "resync" /\ conn[p] => want[p] \subseteq bits[p])
          /\ srv[p] = "released" => want[p] \subseteq good[p]
      BY <3>1, <3>2 DEF CopyInv
    <3>7. CASE th'[p] = th[p]
      BY <1>a, <2>1, <3>1, <3>2, <3>4, <3>5, <3>6, <3>7 DEF CopyInv, Safe
    <3>8. CASE th'[p].pc = "new" /\ th'[p].bit = last[p]
      BY <1>a, <3>4, <3>6, <3>8 DEF CopyInv, Safe
    <3> QED BY <1>b, <3>7, <3>8
  <2> QED BY <2>3, <2>4, <2>6 DEF PartnerInv
<1> QED BY <1>1, <1>2, <1>3, <1>4, <1>5, Whole

-----------------------------------------------------------------------------
(* The resync thread.                                                      *)

\* A thread runs while the daemon does, and db_init has started it.
LEMMA ThreadRuns ==
  ASSUME ShapeInv, BootInv, TypeOK, NEW p \in Partners, th[p].pc # "idle"
  PROVE  /\ conn[p] /\ daemon \in {"up", "boot", "hung"}
         /\ ~Locked => daemon = "up"
         /\ daemon = "boot" /\ ~misplaced => p < boot
<1>1. conn[p] /\ daemon \in {"up", "boot", "hung"}
  BY DEF ShapeInv, TypeOK
<1>2. ASSUME daemon = "boot", ~misplaced PROVE p < boot
  <2>1. p \in Nat /\ boot \in Nat
    BY Domains DEF TypeOK
  <2>2. ~(p >= boot)
    BY <1>2 DEF BootInv
  <2> QED BY <2>1, <2>2
<1> QED BY <1>1, <1>2 DEF Locked

\* INSERT INTO resync.
LEMMA InsertRow ==
  ASSUME TypeOK, NEW p \in Partners, Len(resyncRows) < MaxRows,
         resyncRows' = Append(resyncRows, [pid |-> p, last |-> 0, state |-> "IN_PROGRESS"])
  PROVE  /\ resyncRows' \in Seq([pid : Partners, last : Grains, state : RowStates])
         /\ Len(resyncRows') <= MaxRows
         /\ \A k \in DOMAIN resyncRows' :
              \/ k \in DOMAIN resyncRows /\ resyncRows'[k] = resyncRows[k]
              \/ resyncRows'[k] = [pid |-> p, last |-> 0, state |-> "IN_PROGRESS"]
<1> DEFINE Row == [pid : Partners, last : Grains, state : RowStates]
           r == [pid |-> p, last |-> 0, state |-> "IN_PROGRESS"]
<1>1. resyncRows \in Seq(Row) /\ r \in Row /\ MaxRows \in Nat
  BY Domains DEF TypeOK, RowStates
<1>2. resyncRows' = Append(resyncRows, r)
  OBVIOUS
<1> HIDE DEF Row, r
<1>3. /\ resyncRows' \in Seq(Row) /\ Len(resyncRows') = Len(resyncRows) + 1
      /\ Len(resyncRows) \in Nat /\ DOMAIN resyncRows = 1 .. Len(resyncRows)
      /\ DOMAIN resyncRows' = 1 .. Len(resyncRows) + 1
      /\ \A k \in 1 .. Len(resyncRows) : resyncRows'[k] = resyncRows[k]
      /\ resyncRows'[Len(resyncRows) + 1] = r
  BY <1>1, <1>2
<1>4. \A k \in DOMAIN resyncRows' :
        (k \in DOMAIN resyncRows /\ resyncRows'[k] = resyncRows[k]) \/ resyncRows'[k] = r
  BY <1>3
<1> QED BY <1>1, <1>3, <1>4 DEF Row, r

LEMMA StartStep ==
  ASSUME RestartInv, NEW p \in Partners, Start(p) PROVE RestartInv'
<1>0. TypeOK /\ ShapeInv /\ BootInv /\ th[p].pc = "new" /\ \A q \in Partners : PartnerInv(q)
  BY Parts DEF Start, At
<1>t. p \in Slots /\ Partners \subseteq Slots /\ p \in Nat
  BY Domains
<1>r. /\ conn[p] /\ (~Locked => daemon = "up")
      /\ daemon = "boot" /\ ~misplaced => p < boot
  BY <1>0, ThreadRuns
<1>a. UNCHANGED <<partnerRows, file, good, want, srv, daemon, boot, slot, last, target, bits, conn,
                  ctl, asked, rounds, pauses, crashes, misplaced>>
  BY DEF Start, srvVars, histVars
<1>b. /\ th' \in [Partners -> ThreadType] /\ th'[p].pc = "loop" /\ th'[p].bit = th[p].bit
      /\ \A q \in Partners : q # p => th'[q] = th[q]
  <2>1. th' = [th EXCEPT ![p].pc = "loop"] /\ "loop" \in ThreadPoints
    BY DEF Start, GoTo, ThreadPoints
  <2> QED BY <1>0, <2>1, GoThread
<1>p. Placed(p) => /\ asked[p] = "resync"
                   /\ recovery[p] => rep[p] # "COMPLETED"
                   /\ pauses[p] = 0 /\ th[p].bit # 0 => rep[p] # "COMPLETED"
  BY <1>0, <1>r DEF PartnerInv, RoundInv, UnpausedInv
<1>c. /\ resyncRows' \in Seq([pid : Partners, last : Grains, state : RowStates])
      /\ Len(resyncRows') <= MaxRows
      /\ \A k \in DOMAIN resyncRows' :
           \/ k \in DOMAIN resyncRows /\ resyncRows'[k] = resyncRows[k]
           \/ resyncRows'[k] = [pid |-> p, last |-> 0, state |-> "IN_PROGRESS"]
      /\ rep' \in [Slots -> RowStates] /\ \A q \in Slots : q # p => rep'[q] = rep[q]
      /\ rep'[p] = rep[p] \/ rep'[p] = "IN_PROGRESS"
      /\ recovery' \in [Slots -> BOOLEAN] /\ ~recovery'[p]
      /\ \A q \in Slots : q # p => recovery'[q] = recovery[q]
      /\ daemon = "up" \/ (resyncRows' = resyncRows /\ rep' = rep)
      /\ Placed(p) /\ pauses[p] = 0 => rep'[p] # "COMPLETED"
  <2>0. /\ rep \in [Slots -> RowStates] /\ recovery \in [Slots -> BOOLEAN]
        /\ resyncRows \in Seq([pid : Partners, last : Grains, state : RowStates])
        /\ Len(resyncRows) <= MaxRows
    BY <1>0 DEF TypeOK
  <2>1. CASE recovery[p] /\ recovery' = [recovery EXCEPT ![p] = FALSE] /\ UNCHANGED <<resyncRows, rep>>
    BY <1>t, <1>p, <2>0, <2>1
  <2>2. CASE /\ ~recovery[p] /\ ~Locked /\ Len(resyncRows) < MaxRows
             /\ resyncRows' = Append(resyncRows, [pid |-> p, last |-> 0, state |-> "IN_PROGRESS"])
             /\ rep' = [rep EXCEPT ![p] = "IN_PROGRESS"] /\ UNCHANGED recovery
    <3>1. /\ resyncRows' \in Seq([pid : Partners, last : Grains, state : RowStates])
          /\ Len(resyncRows') <= MaxRows
          /\ \A k \in DOMAIN resyncRows' :
               \/ k \in DOMAIN resyncRows /\ resyncRows'[k] = resyncRows[k]
               \/ resyncRows'[k] = [pid |-> p, last |-> 0, state |-> "IN_PROGRESS"]
      BY <1>0, <2>2, InsertRow
    <3>2. /\ rep' \in [Slots -> RowStates] /\ rep'[p] = "IN_PROGRESS"
          /\ \A q \in Slots : q # p => rep'[q] = rep[q]
      BY <1>t, <2>0, <2>2 DEF RowStates
    <3> QED BY <1>r, <1>t, <2>0, <2>2, <3>1, <3>2
  <2>3. CASE ~recovery[p] /\ th[p].bit # 0 /\ UNCHANGED <<resyncRows, rep, recovery>>
    BY <1>t, <1>p, <2>0, <2>3
  <2> QED BY <2>1, <2>2, <2>3 DEF Start
<1>1. TypeOK'
  BY <1>0, <1>a, <1>b, <1>c DEF TypeOK, ThreadType
<1>2. ShapeInv'
  <2>1. \A q \in Partners :
          /\ th'[q].pc # "idle" => th[q].pc # "idle"
          /\ th'[q].pc \in {"copy", "grain", "term", "release"} => th'[q] = th[q]
    BY <1>0, <1>b
  <2>2. daemon \notin {"down", "failed"}
    BY <1>0, <1>r DEF ShapeInv
  <2> QED BY <1>0, <1>a, <2>1, <2>2 DEF ShapeInv
<1>3. BootInv'
  <2>1. CASE daemon = "up"
    BY <1>0, <1>a, <2>1, BootUp
  <2>2. CASE daemon # "up"
    <3>1. BootAside
      <4>1. UNCHANGED <<partnerRows, resyncRows, daemon, boot, misplaced, target, slot, conn, rep>>
        BY <1>a, <1>c, <2>2
      <4>2. ASSUME daemon = "boot", ~misplaced, NEW i \in Slots, i >= boot PROVE recovery'[i] = recovery[i]
        <5>1. i # p
          BY <1>0, <1>r, <1>t, <4>2, Domains DEF TypeOK
        <5> QED BY <1>c, <5>1
      <4>3. ASSUME daemon = "boot", ~misplaced, NEW q \in Partners, q >= boot PROVE th'[q] = th[q]
        <5>1. q # p
          BY <1>0, <1>r, <1>t, <4>3, Domains DEF TypeOK
        <5> QED BY <1>b, <5>1
      <4> QED BY <4>1, <4>2, <4>3 DEF BootAside
    <3> QED BY <1>0, <3>1, BootKept
  <2> QED BY <2>1, <2>2
<1>4. ASSUME NEW q \in Partners, q # p PROVE PartnerInv(q)'
  <2>1. \A k \in DOMAIN resyncRows' : resyncRows'[k].pid = q =>
          k \in DOMAIN resyncRows /\ resyncRows'[k] = resyncRows[k]
    BY <1>4, <1>c
  <2>2. Aside(q)
    BY <1>4, <1>a, <1>b, <1>c, <1>t, <2>1 DEF Aside
  <2> QED BY <1>0, <2>2, AsideKept
<1>5. PartnerInv(p)'
  <2>1. /\ (Placed(p)' <=> Placed(p)) /\ (Stored(p)' <=> Stored(p)) /\ (Paused(p)' <=> Paused(p))
        /\ \A b : Safe(p, b)' <=> Safe(p, b)
    BY <1>a DEF Placed, NoMixedPause, Stored, Safe, Paused
  <2>2. \A k \in RowsOf(p)' : \/ k \in RowsOf(p) /\ resyncRows'[k] = resyncRows[k]
                              \/ resyncRows'[k].state = "IN_PROGRESS" /\ resyncRows'[k].last = 0
    BY <1>c DEF RowsOf
  <2>3. RoundInv(p)'
    BY <1>a, <1>c, <1>p, <2>1 DEF RoundInv
  <2>4. UnpausedInv(p)'
    <3>1. SUFFICES ASSUME Placed(p), pauses[p] = 0 PROVE UnpausedInv(p)'
      BY <1>a, <2>1 DEF UnpausedInv
    <3>2. UnpausedInv(p)
      BY <1>0 DEF PartnerInv
    <3>3. \A k \in RowsOf(p)' : resyncRows'[k].state \notin PauseStates
      BY <2>2, <3>1, <3>2 DEF UnpausedInv, PauseStates
    <3>4. rep'[p] \notin PauseStates /\ rep'[p] # "COMPLETED"
      BY <1>c, <3>1, <3>2 DEF UnpausedInv, PauseStates
    <3> QED BY <1>a, <1>b, <3>1, <3>2, <3>3, <3>4 DEF UnpausedInv
  <2>5. Safe(p, 0)
    <3>1. \A g \in want[p] : g \in Nat
      BY <1>0, Domains DEF TypeOK
    <3> QED BY <3>1 DEF Safe
  <2>6. CopyInv(p)'
    <3>1. SUFFICES ASSUME Placed(p), crashes = 0 \/ Stored(p) PROVE CopyInv(p)'
      BY <1>a, <2>1 DEF CopyInv
    <3>2. CopyInv(p)
      BY <1>0 DEF PartnerInv
    <3>3. \A k \in RowsOf(p)' : resyncRows'[k].state # "COMPLETED" \/ rounds'[p] <= 1
                                => Safe(p, resyncRows'[k].last)
      BY <1>a, <2>2, <2>5, <3>1, <3>2 DEF CopyInv
    <3>4. /\ Safe(p, last[p]) /\ (asked[p] = "resync" /\ conn[p] => want[p] \subseteq bits[p])
          /\ srv[p] = "released" => want[p] \subseteq good[p]
          /\ Safe(p, th[p].bit)
      BY <1>0, <3>1, <3>2 DEF CopyInv
    <3> QED BY <1>a, <1>b, <2>1, <3>3, <3>4 DEF CopyInv, Safe
  <2> QED BY <2>3, <2>4, <2>6 DEF PartnerInv
<1> QED BY <1>1, <1>2, <1>3, <1>4, <1>5, Whole

\* A step of a thread that leaves the tables alone, as db_init sees it.
LEMMA ThreadBoot ==
  ASSUME TypeOK, BootInv, NEW p \in Partners,
         daemon = "boot" /\ ~misplaced => p < boot,
         UNCHANGED <<partnerRows, resyncRows, daemon, boot, misplaced, target, recovery, conn>>,
         \A i \in Slots : slot'[i].id = slot[i].id /\ slot'[i].ip = slot[i].ip,
         \A q \in Partners : q # p => th'[q] = th[q] /\ rep'[q] = rep[q]
  PROVE  BootInv'
<1>1. ASSUME daemon = "boot", ~misplaced, NEW q \in Partners, q >= boot PROVE q # p
  BY <1>1, Domains DEF TypeOK
<1>2. BootAside
  BY <1>1 DEF BootAside
<1> QED BY <1>2, BootKept

LEMMA LoopTestStep ==
  ASSUME RestartInv, NEW p \in Partners, LoopTest(p) PROVE RestartInv'
<1>0. TypeOK /\ ShapeInv /\ BootInv /\ th[p].pc = "loop" /\ \A q \in Partners : PartnerInv(q)
  BY Parts DEF LoopTest, At
<1>t. p \in Slots /\ Partners \subseteq Slots
  BY Domains
<1>r. conn[p] /\ (daemon = "boot" /\ ~misplaced => p < boot)
  BY <1>0, ThreadRuns
<1>a. UNCHANGED <<partnerRows, resyncRows, file, good, want, srv, daemon, boot, slot, rep, recovery,
                  target, bits, conn, ctl, asked, rounds, pauses, crashes, misplaced>>
  BY DEF LoopTest, diskVars, srvVars, histVars
<1>b. th[p].bit \in 0 .. NumBits /\ bits[p] \in SUBSET Grains
  BY <1>0 DEF TypeOK
<1>c. /\ th' \in [Partners -> ThreadType] /\ \A q \in Partners : q # p => th'[q] = th[q]
      /\ last' \in [Slots -> Grains] /\ \A q \in Slots : q # p => last'[q] = last[q]
      /\ \/ th'[p].pc = "idle" /\ last' = last
         \/ ~Paused(p) /\ th'[p].pc = "term" /\ th'[p].bit = th[p].bit /\ th[p].bit = NumBits /\ last' = last
         \/ ~Paused(p) /\ th'[p].pc = "copy" /\ th'[p].bit = th[p].bit /\ th[p].bit \in Grains /\ last' = last
         \/ /\ ~Paused(p) /\ th'[p].pc = "loop" /\ th'[p].bit = th[p].bit + 1
            /\ th[p].bit \in Grains \ bits[p] /\ last'[p] = th[p].bit
  <2>0. last \in [Slots -> Grains] /\ th \in [Partners -> ThreadType] /\ th[p] \in ThreadType
    BY <1>0 DEF TypeOK, ThreadType
  <2>1. CASE th' = [th EXCEPT ![p] = IdleThread] /\ UNCHANGED last
    <3>1. IdleThread \in ThreadType /\ IdleThread.pc = "idle"
      BY Domains DEF IdleThread, ThreadType, ThreadPoints
    <3> QED BY <1>0, <2>0, <2>1, <3>1, SetThread
  <2>2. CASE ~Paused(p) /\ th[p].bit >= NumBits /\ GoTo(p, "term") /\ UNCHANGED last
    <3>1. th' = [th EXCEPT ![p].pc = "term"] /\ "term" \in ThreadPoints
      BY <2>2 DEF GoTo, ThreadPoints
    <3>2. th[p].bit = NumBits
      BY <1>b, <2>2, Domains
    <3> QED BY <1>0, <2>0, <2>2, <3>1, <3>2, GoThread
  <2>3. CASE ~Paused(p) /\ th[p].bit \in bits[p] /\ GoTo(p, "copy") /\ UNCHANGED last
    <3>1. th' = [th EXCEPT ![p].pc = "copy"] /\ "copy" \in ThreadPoints
      BY <2>3 DEF GoTo, ThreadPoints
    <3> QED BY <1>0, <1>b, <2>0, <2>3, <3>1, GoThread
  <2>4. CASE /\ ~Paused(p) /\ th[p].bit \in Grains \ bits[p] /\ last' = [last EXCEPT ![p] = th[p].bit]
             /\ th' = [th EXCEPT ![p].bit = @ + 1]
    <3>1. PICK r \in ThreadType : r = [pc |-> "loop", bit |-> th[p].bit + 1]
      BY <2>4, Domains DEF ThreadType, ThreadPoints
    <3>2. th' = [th EXCEPT ![p] = r]
      <4>1. th' = [th EXCEPT ![p] = [th[p] EXCEPT !.bit = th[p].bit + 1]]
        BY <2>0, <2>4
      <4>2. [th[p] EXCEPT !.bit = th[p].bit + 1] = r
        BY <1>0, <2>0, <3>1 DEF ThreadType
      <4> QED BY <4>1, <4>2
    <3>3. th' \in [Partners -> ThreadType] /\ th'[p] = r /\ \A q \in Partners : q # p => th'[q] = th[q]
      BY <1>0, <3>2, SetThread
    <3>4. last' \in [Slots -> Grains] /\ last'[p] = th[p].bit /\ \A q \in Slots : q # p => last'[q] = last[q]
      BY <1>t, <2>0, <2>4
    <3> QED BY <2>4, <3>1, <3>3, <3>4
  <2> QED BY <2>1, <2>2, <2>3, <2>4 DEF LoopTest
<1>1. TypeOK'
  BY <1>0, <1>a, <1>c DEF TypeOK, ThreadType
<1>2. ShapeInv'
  <2>1. \A q \in Partners :
          /\ th'[q].pc # "idle" => conn'[q]
          /\ th'[q].pc \in {"copy", "grain"} => th'[q].bit \in Grains
          /\ th'[q].pc = "term" => th'[q].bit = NumBits
          /\ th'[q].pc = "release" => slot'[q].state # "FREE"
    BY <1>0, <1>a, <1>c, <1>r DEF ShapeInv
  <2>2. daemon \notin {"down", "failed"}
    BY <1>0, <1>r DEF ShapeInv
  <2> QED BY <1>0, <1>a, <2>1, <2>2 DEF ShapeInv
<1>3. BootInv'
  BY <1>0, <1>a, <1>c, <1>r, ThreadBoot
<1>4. ASSUME NEW q \in Partners, q # p PROVE PartnerInv(q)'
  <2>1. Aside(q)
    BY <1>4, <1>a, <1>c, <1>t DEF Aside
  <2> QED BY <1>0, <2>1, AsideKept
<1>5. PartnerInv(p)'
  <2>1. /\ (Placed(p)' <=> Placed(p)) /\ (Stored(p)' <=> Stored(p)) /\ (Paused(p)' <=> Paused(p))
        /\ RowsOf(p)' = RowsOf(p) /\ (AllCompleted(p)' <=> AllCompleted(p))
        /\ \A b : Safe(p, b)' <=> Safe(p, b)
    BY <1>a DEF Placed, NoMixedPause, Stored, Safe, Paused, RowsOf, AllCompleted
  <2>2. Placed(p) => asked[p] = "resync" /\ ~recovery[p]
    BY <1>0, <1>r DEF PartnerInv, RoundInv
  <2>3. RoundInv(p)'
    BY <1>a, <2>1, <2>2 DEF RoundInv
  <2>4. UnpausedInv(p)'
    BY <1>0, <1>a, <1>c, <2>1 DEF PartnerInv, UnpausedInv
  <2>5. CopyInv(p)'
    <3>1. SUFFICES ASSUME Placed(p), crashes = 0 \/ Stored(p) PROVE CopyInv(p)'
      BY <1>a, <2>1 DEF CopyInv
    <3>2. CopyInv(p)
      BY <1>0 DEF PartnerInv
    <3>3. /\ Safe(p, last[p]) /\ want[p] \subseteq bits[p]
          /\ srv[p] = "released" => want[p] \subseteq good[p]
          /\ ~Paused(p) => Safe(p, th[p].bit)
          /\ \A k \in RowsOf(p) : resyncRows[k].state # "COMPLETED" \/ rounds[p] <= 1
                                   => Safe(p, resyncRows[k].last)
      BY <1>0, <1>r, <2>2, <3>1, <3>2 DEF CopyInv
    <3>4. \A k \in RowsOf(p)' : resyncRows'[k].state # "COMPLETED" \/ rounds'[p] <= 1
                                 => Safe(p, resyncRows'[k].last)
      BY <1>a, <2>1, <3>3
    <3>5. CASE th'[p].pc = "idle" /\ last' = last
      BY <1>a, <2>1, <3>3, <3>4, <3>5 DEF CopyInv, Safe
    <3>6. CASE ~Paused(p) /\ th'[p].pc \in {"copy", "term"} /\ th'[p].bit = th[p].bit /\ last' = last
      BY <1>a, <2>1, <3>3, <3>4, <3>6 DEF CopyInv, Safe
    <3>7. CASE /\ ~Paused(p) /\ th'[p].pc = "loop" /\ th'[p].bit = th[p].bit + 1
               /\ th[p].bit \in Grains \ bits[p] /\ last'[p] = th[p].bit
      <4>1. ASSUME NEW g \in want[p], g < th[p].bit + 1 PROVE g \in good[p]
        <5>1. g \in Nat /\ th[p].bit \in Nat /\ g # th[p].bit
          BY <1>0, <3>3, <3>7, Domains DEF TypeOK
        <5>2. g < th[p].bit
          BY <4>1, <5>1
        <5> QED BY <3>3, <3>7, <5>2 DEF Safe
      <4>2. Safe(p, th[p].bit + 1)
        BY <4>1 DEF Safe
      <4> QED BY <1>a, <2>1, <3>3, <3>4, <3>7, <4>2 DEF CopyInv, Safe
    <3> QED BY <1>c, <3>5, <3>6, <3>7
  <2> QED BY <2>3, <2>4, <2>5 DEF PartnerInv
<1> QED BY <1>1, <1>2, <1>3, <1>4, <1>5, Whole

LEMMA CopyStep ==
  ASSUME RestartInv, NEW p \in Partners, Copy(p) PROVE RestartInv'
<1>0. TypeOK /\ ShapeInv /\ BootInv /\ th[p].pc = "copy" /\ \A q \in Partners : PartnerInv(q)
  BY Parts DEF Copy, At
<1>t. p \in Slots /\ Partners \subseteq Slots
  BY Domains
<1>r. /\ conn[p] /\ daemon \in {"up", "boot", "hung"}
      /\ daemon = "boot" /\ ~misplaced => p < boot
  BY <1>0, ThreadRuns
<1>a. UNCHANGED <<partnerRows, resyncRows, file, want, srv, daemon, boot, slot, last, rep, recovery,
                  target, bits, conn, ctl, asked, rounds, pauses, crashes, misplaced>>
  BY DEF Copy, srvVars, memVars, histVars
<1>b. th[p].bit \in Grains /\ good \in [Partners -> SUBSET Grains]
  BY <1>0 DEF TypeOK, ShapeInv
<1>c. /\ th' \in [Partners -> ThreadType] /\ th'[p].pc = "grain" /\ th'[p].bit = th[p].bit
      /\ \A q \in Partners : q # p => th'[q] = th[q]
  <2>1. th' = [th EXCEPT ![p].pc = "grain"] /\ "grain" \in ThreadPoints
    BY DEF Copy, GoTo, ThreadPoints
  <2> QED BY <1>0, <2>1, GoThread
<1>d. /\ good' \in [Partners -> SUBSET Grains]
      /\ ~misplaced => /\ \A q \in Partners : q # p => good'[q] = good[q]
                       /\ good'[p] = good[p] \/ good'[p] = good[p] \cup {th[p].bit}
                       /\ ~Paused(p) => good'[p] = good[p] \cup {th[p].bit}
  <2>1. ~misplaced => target[p] = p
    BY <1>0, <1>r DEF BootInv
  <2>2. CASE Paused(p) /\ UNCHANGED good
    BY <1>b, <2>2
  <2>3. CASE ~Paused(p) /\ target[p] = p /\ good' = [good EXCEPT ![p] = @ \cup {th[p].bit}]
    BY <1>b, <2>3
  <2>4. CASE ~Paused(p) /\ target[p] # p /\ good' = [good EXCEPT ![target[p]] = @ \ {th[p].bit}]
    <3>1. misplaced
      BY <2>1, <2>4
    <3>2. good' \in [Partners -> SUBSET Grains]
      BY <1>b, <2>4
    <3> QED BY <3>1, <3>2
  <2> QED BY <2>2, <2>3, <2>4 DEF Copy
<1>1. TypeOK'
  BY <1>0, <1>a, <1>c, <1>d DEF TypeOK, ThreadType
<1>2. ShapeInv'
  <2>1. \A q \in Partners :
          /\ th'[q].pc # "idle" => conn'[q]
          /\ th'[q].pc \in {"copy", "grain"} => th'[q].bit \in Grains
          /\ th'[q].pc = "term" => th'[q].bit = NumBits
          /\ th'[q].pc = "release" => slot'[q].state # "FREE"
    BY <1>0, <1>a, <1>b, <1>c, <1>r DEF ShapeInv
  <2> QED BY <1>0, <1>a, <1>r, <2>1 DEF ShapeInv
<1>3. BootInv'
  BY <1>0, <1>a, <1>c, <1>r, ThreadBoot
<1>4. CASE misplaced
  <2>1. \A q \in Partners : PartnerInv(q)'
    BY <1>a, <1>4, NothingClaimed
  <2> QED BY <1>1, <1>2, <1>3, <2>1, Whole
<1>5. CASE ~misplaced
  <2>1. ASSUME NEW q \in Partners, q # p PROVE PartnerInv(q)'
    <3>1. Aside(q)
      BY <1>5, <2>1, <1>a, <1>c, <1>d DEF Aside
    <3> QED BY <1>0, <3>1, AsideKept
  <2>2. /\ (Placed(p)' <=> Placed(p)) /\ (Stored(p)' <=> Stored(p)) /\ (Paused(p)' <=> Paused(p))
        /\ RowsOf(p)' = RowsOf(p) /\ (AllCompleted(p)' <=> AllCompleted(p))
        /\ \A b : Safe(p, b) => Safe(p, b)'
    BY <1>a, <1>d, <1>5 DEF Placed, NoMixedPause, Stored, Safe, Paused, RowsOf, AllCompleted
  <2>3. RoundInv(p)'
    BY <1>0, <1>a, <1>r, <2>2 DEF PartnerInv, RoundInv
  <2>4. UnpausedInv(p)'
    BY <1>0, <1>a, <1>c, <2>2 DEF PartnerInv, UnpausedInv
  <2>5. CopyInv(p)'
    <3>1. SUFFICES ASSUME Placed(p), crashes = 0 \/ Stored(p) PROVE CopyInv(p)'
      BY <1>a, <2>2 DEF CopyInv
    <3>2. CopyInv(p)
      BY <1>0 DEF PartnerInv
    <3>3. /\ Safe(p, last[p]) /\ (asked[p] = "resync" /\ conn[p] => want[p] \subseteq bits[p])
          /\ srv[p] = "released" => want[p] \subseteq good[p]
          /\ Safe(p, th[p].bit)
          /\ \A k \in RowsOf(p) : resyncRows[k].state # "COMPLETED" \/ rounds[p] <= 1
                                   => Safe(p, resyncRows[k].last)
      BY <1>0, <3>1, <3>2 DEF CopyInv
    <3>4. \A k \in RowsOf(p)' : resyncRows'[k].state # "COMPLETED" \/ rounds'[p] <= 1
                                 => Safe(p, resyncRows[k].last)'
      BY <1>a, <2>2, <3>3
    <3>5. Safe(p, last[p])' /\ Safe(p, th[p].bit)'
      BY <1>a, <1>c, <1>d, <1>5, <3>3 DEF Safe
    <3> QED BY <1>5, <1>a, <1>c, <1>d, <2>2, <3>3, <3>4, <3>5 DEF CopyInv
  <2> QED BY <1>1, <1>2, <1>3, <2>1, <2>3, <2>4, <2>5, Whole DEF PartnerInv
<1> QED BY <1>4, <1>5

\* update_into_resync.
LEMMA SetPosition ==
  ASSUME TypeOK, NEW p \in Partners, NEW g \in Grains,
         resyncRows' = [i \in DOMAIN resyncRows |->
           IF resyncRows[i].pid = p /\ resyncRows[i].state = rep[p]
             THEN [resyncRows[i] EXCEPT !.last = g] ELSE resyncRows[i]]
  PROVE  /\ resyncRows' \in Seq([pid : Partners, last : Grains, state : RowStates])
         /\ DOMAIN resyncRows' = DOMAIN resyncRows /\ Len(resyncRows') = Len(resyncRows)
         /\ \A k \in DOMAIN resyncRows :
              /\ resyncRows'[k].pid = resyncRows[k].pid /\ resyncRows'[k].state = resyncRows[k].state
              /\ resyncRows'[k].last = resyncRows[k].last \/ resyncRows'[k].last = g
              /\ resyncRows[k].pid # p => resyncRows'[k] = resyncRows[k]
<1> DEFINE Row == [pid : Partners, last : Grains, state : RowStates]
<1>0. resyncRows \in Seq(Row)
  BY DEF TypeOK
<1>1. /\ DOMAIN resyncRows = 1 .. Len(resyncRows) /\ Len(resyncRows) \in Nat
      /\ \A k \in DOMAIN resyncRows : resyncRows[k] \in Row
  <2> HIDE DEF Row
  <2> QED BY <1>0, RowIn
<1>2. DOMAIN resyncRows' = DOMAIN resyncRows
  OBVIOUS
<1>3. ASSUME NEW k \in DOMAIN resyncRows
      PROVE /\ resyncRows'[k] \in Row
            /\ resyncRows'[k].pid = resyncRows[k].pid /\ resyncRows'[k].state = resyncRows[k].state
            /\ resyncRows'[k].last = resyncRows[k].last \/ resyncRows'[k].last = g
            /\ resyncRows[k].pid # p => resyncRows'[k] = resyncRows[k]
  <2>1. resyncRows[k] \in Row
    BY <1>1
  <2> QED BY <2>1
<1>4. resyncRows' \in [1 .. Len(resyncRows) -> Row]
  BY <1>1, <1>2, <1>3
<1>5. resyncRows' \in Seq(Row) /\ Len(resyncRows') = Len(resyncRows)
  <2> HIDE DEF Row
  <2> QED BY <1>1, <1>4, Rebuilt
<1> QED BY <1>2, <1>3, <1>5

LEMMA GrainDoneStep ==
  ASSUME RestartInv, NEW p \in Partners, GrainDone(p) PROVE RestartInv'
<1>0. TypeOK /\ ShapeInv /\ BootInv /\ th[p].pc = "grain" /\ \A q \in Partners : PartnerInv(q)
  BY Parts DEF GrainDone, At
<1>t. p \in Slots /\ Partners \subseteq Slots
  BY Domains
<1>r. conn[p] /\ daemon = "up"
  BY <1>0, ThreadRuns DEF GrainDone
<1>a. UNCHANGED <<partnerRows, file, good, want, srv, daemon, boot, slot, rep, recovery, target, bits,
                  conn, ctl, asked, rounds, pauses, crashes, misplaced>>
  BY DEF GrainDone, srvVars, histVars
<1>g. th[p].bit \in Grains
  BY <1>0 DEF ShapeInv
<1>b. /\ th' \in [Partners -> ThreadType] /\ th'[p].pc = "loop" /\ th'[p].bit = th[p].bit + 1
      /\ \A q \in Partners : q # p => th'[q] = th[q]
  <2>0. th \in [Partners -> ThreadType] /\ th[p] \in ThreadType
    BY <1>0 DEF TypeOK, ThreadType
  <2>1. PICK r : r = [th[p] EXCEPT !.pc = "loop", !.bit = th[p].bit + 1]
    OBVIOUS
  <2>2. th' = [th EXCEPT ![p] = r]
    BY <2>0, <2>1 DEF GrainDone
  <2>3. r \in ThreadType /\ r.pc = "loop" /\ r.bit = th[p].bit + 1
    BY <1>g, <2>0, <2>1, Domains DEF ThreadType, ThreadPoints
  <2> QED BY <1>0, <2>2, <2>3, SetThread
<1>c. /\ last' \in [Slots -> Grains] /\ last'[p] = th[p].bit
      /\ \A q \in Slots : q # p => last'[q] = last[q]
  <2>1. last \in [Slots -> Grains] /\ last' = [last EXCEPT ![p] = th[p].bit]
    BY <1>0 DEF TypeOK, GrainDone
  <2> QED BY <1>g, <1>t, <2>1
<1>d. /\ resyncRows' \in Seq([pid : Partners, last : Grains, state : RowStates])
      /\ DOMAIN resyncRows' = DOMAIN resyncRows /\ Len(resyncRows') = Len(resyncRows)
      /\ \A k \in DOMAIN resyncRows :
           /\ resyncRows'[k].pid = resyncRows[k].pid /\ resyncRows'[k].state = resyncRows[k].state
           /\ resyncRows'[k].last = resyncRows[k].last \/ resyncRows'[k].last = th[p].bit
           /\ resyncRows[k].pid # p => resyncRows'[k] = resyncRows[k]
  <2>1. PICK g \in Grains : g = th[p].bit
    BY <1>g
  <2>2. resyncRows' = [i \in DOMAIN resyncRows |->
           IF resyncRows[i].pid = p /\ resyncRows[i].state = rep[p]
             THEN [resyncRows[i] EXCEPT !.last = g] ELSE resyncRows[i]]
    BY <2>1 DEF GrainDone
  <2> QED BY <1>0, <2>1, <2>2, SetPosition
<1>1. TypeOK'
  BY <1>0, <1>a, <1>b, <1>c, <1>d DEF TypeOK, ThreadType
<1>2. ShapeInv'
  <2>1. \A q \in Partners :
          /\ th'[q].pc # "idle" => conn'[q]
          /\ th'[q].pc \in {"copy", "grain"} => th'[q].bit \in Grains
          /\ th'[q].pc = "term" => th'[q].bit = NumBits
          /\ th'[q].pc = "release" => slot'[q].state # "FREE"
    BY <1>0, <1>a, <1>b, <1>r DEF ShapeInv
  <2> QED BY <1>0, <1>a, <1>r, <2>1 DEF ShapeInv
<1>3. BootInv'
  BY <1>0, <1>a, <1>r, BootUp
<1>4. ASSUME NEW q \in Partners, q # p PROVE PartnerInv(q)'
  <2>1. \A k \in DOMAIN resyncRows' : resyncRows'[k].pid = q =>
          k \in DOMAIN resyncRows /\ resyncRows'[k] = resyncRows[k]
    BY <1>4, <1>d
  <2>2. Aside(q)
    BY <1>4, <1>a, <1>b, <1>c, <1>t, <2>1 DEF Aside
  <2> QED BY <1>0, <2>2, AsideKept
<1>5. PartnerInv(p)'
  <2>1. /\ (Placed(p)' <=> Placed(p)) /\ (Stored(p)' <=> Stored(p)) /\ (Paused(p)' <=> Paused(p))
        /\ RowsOf(p)' = RowsOf(p)
        /\ \A b : Safe(p, b)' <=> Safe(p, b)
    BY <1>a, <1>d DEF Placed, NoMixedPause, Stored, Safe, Paused, RowsOf
  <2>2. Placed(p) => asked[p] = "resync" /\ ~recovery[p]
    BY <1>0, <1>r DEF PartnerInv, RoundInv
  <2>3. RoundInv(p)'
    BY <1>a, <2>1, <2>2 DEF RoundInv
  <2>4. UnpausedInv(p)'
    <3>1. \A k \in RowsOf(p) : resyncRows'[k].state = resyncRows[k].state
      BY <1>d DEF RowsOf
    <3> QED BY <1>0, <1>a, <1>b, <2>1, <3>1 DEF PartnerInv, UnpausedInv
  <2>5. CopyInv(p)'
    <3>1. SUFFICES ASSUME Placed(p), crashes = 0 \/ Stored(p) PROVE CopyInv(p)'
      BY <1>a, <2>1 DEF CopyInv
    <3>2. CopyInv(p)
      BY <1>0 DEF PartnerInv
    <3>3. /\ want[p] \subseteq bits[p]
          /\ srv[p] = "released" => want[p] \subseteq good[p]
          /\ Safe(p, th[p].bit) /\ (~Paused(p) => th[p].bit \in good[p])
          /\ \A k \in RowsOf(p) : resyncRows[k].state # "COMPLETED" \/ rounds[p] <= 1
                                   => Safe(p, resyncRows[k].last)
      BY <1>0, <1>r, <2>2, <3>1, <3>2 DEF CopyInv
    <3>4. \A k \in RowsOf(p)' : resyncRows'[k].state # "COMPLETED" \/ rounds'[p] <= 1
                                 => Safe(p, resyncRows'[k].last)
      <4>1. \A k \in RowsOf(p) : /\ resyncRows'[k].state = resyncRows[k].state
                                 /\ \/ resyncRows'[k].last = resyncRows[k].last
                                    \/ resyncRows'[k].last = th[p].bit
        BY <1>d DEF RowsOf
      <4> QED BY <1>a, <2>1, <3>3, <4>1
    <3>5. ~Paused(p) => Safe(p, th[p].bit + 1)
      <4>1. ASSUME ~Paused(p), NEW g \in want[p], g < th[p].bit + 1 PROVE g \in good[p]
        <5>1. g \in Nat /\ th[p].bit \in Nat
          BY <1>0, <1>g, Domains DEF TypeOK
        <5>2. g < th[p].bit \/ g = th[p].bit
          BY <4>1, <5>1
        <5> QED BY <3>3, <4>1, <5>2 DEF Safe
      <4> QED BY <4>1 DEF Safe
    <3> QED BY <1>a, <1>b, <1>c, <2>1, <3>3, <3>4, <3>5 DEF CopyInv, Safe
  <2> QED BY <2>3, <2>4, <2>5 DEF PartnerInv
<1> QED BY <1>1, <1>2, <1>3, <1>4, <1>5, Whole

\* The server is told that the round is over at a position behind the last grain.
LEMMA TerminateStep ==
  ASSUME RestartInv, NEW p \in Partners, Terminate(p) PROVE RestartInv'
<1>0. TypeOK /\ ShapeInv /\ BootInv /\ th[p].pc = "term" /\ \A q \in Partners : PartnerInv(q)
  BY Parts DEF Terminate, At
<1>t. p \in Slots /\ Partners \subseteq Slots
  BY Domains
<1>r. conn[p] /\ (daemon = "boot" /\ ~misplaced => p < boot)
  BY <1>0, ThreadRuns
<1>a. UNCHANGED <<partnerRows, resyncRows, file, good, want, daemon, boot, recovery, target, bits, conn,
                  ctl, asked, rounds, pauses, crashes, misplaced>>
  BY DEF Terminate, diskVars, histVars
<1>b. /\ th' \in [Partners -> ThreadType] /\ srv' \in [Partners -> {"idle", "active", "released"}]
      /\ last' \in [Slots -> Grains] /\ slot' \in [Slots -> SlotType] /\ rep' \in [Slots -> RowStates]
      /\ \A q \in Partners : q # p => th'[q] = th[q] /\ srv'[q] = srv[q]
      /\ \A q \in Slots : q # p => last'[q] = last[q] /\ slot'[q] = slot[q] /\ rep'[q] = rep[q]
      /\ \A q \in Slots : slot'[q].id = slot[q].id /\ slot'[q].ip = slot[q].ip
      /\ \/ /\ rep[p] = "COMPLETED" /\ th'[p].pc = "idle"
            /\ UNCHANGED <<srv, slot, last, rep>>
         \/ /\ th'[p].pc = "release" /\ rep'[p] = "COMPLETED" /\ slot'[p].state = "RELEASED"
            /\ last'[p] = last[p] \/ last'[p] = 0
            /\ ~Paused(p) => last'[p] = 0
  <2>0. /\ srv \in [Partners -> {"idle", "active", "released"}] /\ last \in [Slots -> Grains]
        /\ slot \in [Slots -> SlotType] /\ rep \in [Slots -> RowStates] /\ 0 \in Grains
        /\ "COMPLETED" \in RowStates /\ "RELEASED" \in PartnerStates /\ "release" \in ThreadPoints
    BY <1>0, Domains DEF TypeOK, SlotType, RowStates, PartnerStates, ThreadPoints
  <2>1. CASE rep[p] = "COMPLETED"
    <3>1. th' = [th EXCEPT ![p] = IdleThread] /\ UNCHANGED <<srv, slot, last, rep>>
      BY <2>1 DEF Terminate
    <3>2. IdleThread \in ThreadType /\ IdleThread.pc = "idle"
      BY Domains DEF IdleThread, ThreadType, ThreadPoints
    <3>3. th' \in [Partners -> ThreadType] /\ th'[p] = IdleThread /\ \A q \in Partners : q # p => th'[q] = th[q]
      BY <1>0, <3>1, <3>2, SetThread
    <3> QED BY <2>0, <2>1, <3>1, <3>2, <3>3
  <2>2. CASE rep[p] # "COMPLETED"
    <3>1. /\ srv' = [srv EXCEPT ![p] = "released"]
          /\ last' = IF Paused(p) THEN last ELSE [last EXCEPT ![p] = 0]
          /\ slot' = [slot EXCEPT ![p].state = "RELEASED"]
          /\ rep' = [rep EXCEPT ![p] = "COMPLETED"] /\ th' = [th EXCEPT ![p].pc = "release"]
      BY <2>2 DEF Terminate, GoTo
    <3>2. th' \in [Partners -> ThreadType] /\ th'[p].pc = "release" /\ \A q \in Partners : q # p => th'[q] = th[q]
      BY <1>0, <2>0, <3>1, GoThread
    <3>3. /\ slot' \in [Slots -> SlotType] /\ slot'[p].state = "RELEASED"
          /\ slot'[p].id = slot[p].id /\ slot'[p].ip = slot[p].ip
          /\ \A j \in Slots : j # p => slot'[j] = slot[j]
      BY <1>0, <1>t, <2>0, <3>1, SetSlot
    <3>4. /\ srv' \in [Partners -> {"idle", "active", "released"}]
          /\ \A q \in Partners : q # p => srv'[q] = srv[q]
      BY <2>0, <3>1
    <3>5. /\ last' \in [Slots -> Grains] /\ \A q \in Slots : q # p => last'[q] = last[q]
          /\ last'[p] = last[p] \/ last'[p] = 0
          /\ ~Paused(p) => last'[p] = 0
      BY <1>t, <2>0, <3>1
    <3>6. /\ rep' \in [Slots -> RowStates] /\ rep'[p] = "COMPLETED"
          /\ \A q \in Slots : q # p => rep'[q] = rep[q]
      BY <1>t, <2>0, <3>1
    <3> QED BY <3>2, <3>3, <3>4, <3>5, <3>6
  <2> QED BY <2>1, <2>2
<1>1. TypeOK'
  BY <1>0, <1>a, <1>b DEF TypeOK, ThreadType, SlotType
<1>2. ShapeInv'
  <2>1. \A q \in Partners : slot[q].state # "FREE" => slot'[q].state # "FREE"
    BY <1>b, <1>t
  <2>2. \A q \in Partners :
          /\ th'[q].pc # "idle" => conn'[q]
          /\ th'[q].pc \in {"copy", "grain"} => th'[q].bit \in Grains
          /\ th'[q].pc = "term" => th'[q].bit = NumBits
          /\ th'[q].pc = "release" => slot'[q].state # "FREE"
    BY <1>0, <1>a, <1>b, <1>r, <1>t DEF ShapeInv
  <2>3. daemon \notin {"down", "failed"}
    BY <1>0, <1>r DEF ShapeInv
  <2>4. ctl.pid \in Partners
    BY <1>0 DEF TypeOK
  <2> QED BY <1>0, <1>a, <2>1, <2>2, <2>3, <2>4 DEF ShapeInv
<1>3. BootInv'
  BY <1>0, <1>a, <1>b, <1>r, <1>t, ThreadBoot
<1>4. ASSUME NEW q \in Partners, q # p PROVE PartnerInv(q)'
  <2>1. Aside(q)
    BY <1>4, <1>a, <1>b, <1>t DEF Aside
  <2> QED BY <1>0, <2>1, AsideKept
<1>5. PartnerInv(p)'
  <2>1. /\ (Placed(p)' <=> Placed(p)) /\ (Stored(p)' <=> Stored(p))
        /\ RowsOf(p)' = RowsOf(p) /\ (AllCompleted(p)' <=> AllCompleted(p))
        /\ \A b : Safe(p, b)' <=> Safe(p, b)
    BY <1>a DEF Placed, NoMixedPause, Stored, Safe, RowsOf, AllCompleted
  <2>2. Placed(p) => asked[p] = "resync" /\ ~recovery[p]
    BY <1>0, <1>r DEF PartnerInv, RoundInv
  <2>3. RoundInv(p)'
    BY <1>a, <2>1, <2>2 DEF RoundInv
  <2>4. UnpausedInv(p)'
    <3>1. SUFFICES ASSUME Placed(p), pauses[p] = 0 PROVE UnpausedInv(p)'
      BY <1>a, <2>1 DEF UnpausedInv
    <3>2. /\ slot[p].state \notin PauseStates /\ rep[p] # "COMPLETED"
          /\ \A k \in DOMAIN partnerRows :
               partnerRows[k].pid = p => partnerRows[k].state \notin PauseStates
          /\ \A k \in RowsOf(p) : resyncRows[k].state \notin PauseStates
          /\ ctl.op \in {"pause", "resume"} => ctl.pid # p
      BY <1>0, <3>1 DEF PartnerInv, UnpausedInv
    <3>3. /\ th'[p].pc = "release" /\ rep'[p] = "COMPLETED" /\ slot'[p].state = "RELEASED"
          /\ last'[p] = 0
      BY <1>b, <3>2 DEF Paused, PauseStates
    <3> QED BY <1>a, <2>1, <3>2, <3>3 DEF UnpausedInv, PauseStates
  <2>5. CopyInv(p)'
    <3>1. SUFFICES ASSUME Placed(p), crashes = 0 \/ Stored(p) PROVE CopyInv(p)'
      BY <1>a, <2>1 DEF CopyInv
    <3>2. CopyInv(p)
      BY <1>0 DEF PartnerInv
    <3>3. /\ Safe(p, last[p]) /\ want[p] \subseteq bits[p] /\ Safe(p, th[p].bit)
          /\ \A k \in RowsOf(p) : resyncRows[k].state # "COMPLETED" \/ rounds[p] <= 1
                                   => Safe(p, resyncRows[k].last)
      BY <1>0, <1>r, <2>2, <3>1, <3>2 DEF CopyInv
    <3>4. Safe(p, 0) /\ want[p] \subseteq good[p]
      <4>1. want[p] \subseteq Grains /\ th[p].bit = NumBits
        BY <1>0 DEF TypeOK, ShapeInv
      <4>2. \A g \in Grains : g \in Nat /\ g < NumBits
        BY SizeAssumption DEF Grains
      <4> QED BY <3>3, <4>1, <4>2 DEF Safe
    <3>5. Safe(p, last'[p])
      BY <1>b, <3>3, <3>4
    <3>6. \A k \in RowsOf(p)' : resyncRows'[k].state # "COMPLETED" \/ rounds'[p] <= 1
                                 => Safe(p, resyncRows'[k].last)
      BY <1>a, <2>1, <3>3
    <3>7. th'[p].pc \in {"idle", "release"}
      BY <1>b
    <3> QED BY <1>a, <2>1, <3>3, <3>4, <3>5, <3>6, <3>7 DEF CopyInv, Safe
  <2> QED BY <2>3, <2>4, <2>5 DEF PartnerInv
<1> QED BY <1>1, <1>2, <1>3, <1>4, <1>5, Whole

LEMMA ReleasePartnerStep ==
  ASSUME RestartInv, NEW p \in Partners, ReleasePartner(p) PROVE RestartInv'
<1>0. TypeOK /\ ShapeInv /\ BootInv /\ th[p].pc = "release" /\ \A q \in Partners : PartnerInv(q)
  BY Parts DEF ReleasePartner, At
<1>t. p \in Slots /\ Partners \subseteq Slots
  BY Domains
<1>r. conn[p] /\ daemon = "up"
  BY <1>0, ThreadRuns DEF ReleasePartner
<1>a. /\ UNCHANGED <<resyncRows, file, good, want, srv, daemon, boot, slot, last, rep, recovery, target,
                     bits, conn, ctl, asked, rounds, pauses, crashes, misplaced>>
      /\ partnerRows' = SetState(partnerRows, p, slot[p].state)
  BY DEF ReleasePartner, srvVars, memVars, histVars
<1>b. /\ th' \in [Partners -> ThreadType] /\ th'[p].pc = "complete" /\ th'[p].bit = th[p].bit
      /\ \A q \in Partners : q # p => th'[q] = th[q]
  <2>1. th' = [th EXCEPT ![p].pc = "complete"] /\ "complete" \in ThreadPoints
    BY DEF ReleasePartner, GoTo, ThreadPoints
  <2> QED BY <1>0, <2>1, GoThread
<1>c. /\ partnerRows' \in Seq([pid : Partners, state : PartnerStates])
      /\ DOMAIN partnerRows' = DOMAIN partnerRows
      /\ \A k \in DOMAIN partnerRows :
           /\ partnerRows'[k].pid = partnerRows[k].pid
           /\ partnerRows'[k].state = IF partnerRows[k].pid = p THEN slot[p].state
                                                              ELSE partnerRows[k].state
           /\ partnerRows[k].pid # p => partnerRows'[k] = partnerRows[k]
  <2>1. slot[p].state \in PartnerStates
    BY <1>0, <1>t DEF TypeOK, ShapeInv
  <2>2. NewPartnerRows(partnerRows', p, slot[p].state)
    BY <1>0, <1>a, <2>1, SetPartnerState
  <2> QED BY <2>2 DEF NewPartnerRows
<1>1. TypeOK'
  BY <1>0, <1>a, <1>b, <1>c DEF TypeOK, ThreadType
<1>2. ShapeInv'
  <2>1. \A q \in Partners :
          /\ th'[q].pc # "idle" => conn'[q]
          /\ th'[q].pc \in {"copy", "grain"} => th'[q].bit \in Grains
          /\ th'[q].pc = "term" => th'[q].bit = NumBits
          /\ th'[q].pc = "release" => slot'[q].state # "FREE"
    BY <1>0, <1>a, <1>b, <1>r DEF ShapeInv
  <2> QED BY <1>0, <1>a, <1>r, <2>1 DEF ShapeInv
<1>3. BootInv'
  BY <1>0, <1>a, <1>r, BootUp
<1>4. ASSUME NEW q \in Partners, q # p PROVE PartnerInv(q)'
  <2>1. Aside(q)
    BY <1>4, <1>a, <1>b, <1>c DEF Aside
  <2> QED BY <1>0, <2>1, AsideKept
<1>5. PartnerInv(p)'
  <2>1. /\ (Placed(p)' <=> Placed(p)) /\ (Stored(p)' <=> Stored(p)) /\ (Paused(p)' <=> Paused(p))
        /\ RowsOf(p)' = RowsOf(p) /\ (AllCompleted(p)' <=> AllCompleted(p))
        /\ \A b : Safe(p, b)' <=> Safe(p, b)
    BY <1>a DEF Placed, NoMixedPause, Stored, Safe, RowsOf, AllCompleted, Paused
  <2>3. RoundInv(p)'
    BY <1>0, <1>a, <1>r, <2>1 DEF PartnerInv, RoundInv
  <2>4. UnpausedInv(p)'
    BY <1>0, <1>a, <1>b, <1>c, <2>1 DEF PartnerInv, UnpausedInv
  <2>5. CopyInv(p)'
    BY <1>0, <1>a, <1>b, <2>1 DEF PartnerInv, CopyInv, Safe
  <2> QED BY <2>3, <2>4, <2>5 DEF PartnerInv
<1> QED BY <1>1, <1>2, <1>3, <1>4, <1>5, Whole

\* The last update closes every row of the partner.
LEMMA CompleteRowsStep ==
  ASSUME RestartInv, NEW p \in Partners, CompleteRows(p) PROVE RestartInv'
<1>0. TypeOK /\ ShapeInv /\ BootInv /\ th[p].pc = "complete" /\ \A q \in Partners : PartnerInv(q)
  BY Parts DEF CompleteRows, At
<1>t. p \in Slots /\ Partners \subseteq Slots
  BY Domains
<1>r. conn[p] /\ daemon = "up" /\ rep[p] \in RowStates
  BY <1>0, <1>t, ThreadRuns DEF CompleteRows, TypeOK
<1>a. /\ UNCHANGED <<partnerRows, file, good, want, srv, daemon, boot, slot, last, rep, recovery, target,
                     bits, conn, ctl, asked, rounds, pauses, crashes, misplaced>>
      /\ resyncRows' = SetState(resyncRows, p, rep[p])
  BY DEF CompleteRows, srvVars, memVars, histVars
<1>b. /\ th' \in [Partners -> ThreadType] /\ th'[p].pc = "idle"
      /\ \A q \in Partners : q # p => th'[q] = th[q]
  <2>1. th' = [th EXCEPT ![p] = IdleThread] /\ IdleThread \in ThreadType /\ IdleThread.pc = "idle"
    BY Domains DEF CompleteRows, IdleThread, ThreadType, ThreadPoints
  <2> QED BY <1>0, <2>1, SetThread
<1>c. /\ resyncRows' \in Seq([pid : Partners, last : Grains, state : RowStates])
      /\ DOMAIN resyncRows' = DOMAIN resyncRows /\ Len(resyncRows') = Len(resyncRows)
      /\ \A k \in DOMAIN resyncRows :
           /\ resyncRows'[k].pid = resyncRows[k].pid /\ resyncRows'[k].last = resyncRows[k].last
           /\ resyncRows'[k].state = IF resyncRows[k].pid = p THEN rep[p] ELSE resyncRows[k].state
           /\ resyncRows[k].pid # p => resyncRows'[k] = resyncRows[k]
  <2>1. NewResyncRows(resyncRows', p, rep[p])
    BY <1>0, <1>a, <1>r, SetResyncState
  <2> QED BY <2>1 DEF NewResyncRows
<1>1. TypeOK'
  BY <1>0, <1>a, <1>b, <1>c DEF TypeOK, ThreadType
<1>2. ShapeInv'
  <2>1. \A q \in Partners :
          /\ th'[q].pc # "idle" => conn'[q]
          /\ th'[q].pc \in {"copy", "grain"} => th'[q].bit \in Grains
          /\ th'[q].pc = "term" => th'[q].bit = NumBits
          /\ th'[q].pc = "release" => slot'[q].state # "FREE"
    BY <1>0, <1>a, <1>b, <1>r DEF ShapeInv
  <2> QED BY <1>0, <1>a, <1>r, <2>1 DEF ShapeInv
<1>3. BootInv'
  BY <1>0, <1>a, <1>r, BootUp
<1>4. ASSUME NEW q \in Partners, q # p PROVE PartnerInv(q)'
  <2>1. Aside(q)
    BY <1>4, <1>a, <1>b, <1>c DEF Aside
  <2> QED BY <1>0, <2>1, AsideKept
<1>5. PartnerInv(p)'
  <2>1. /\ (Placed(p)' <=> Placed(p)) /\ (Stored(p)' <=> Stored(p)) /\ RowsOf(p)' = RowsOf(p)
        /\ \A b : Safe(p, b)' <=> Safe(p, b)
    BY <1>a, <1>c DEF Placed, NoMixedPause, Stored, Safe, RowsOf
  <2>2. \A k \in RowsOf(p) : resyncRows'[k].state = rep[p] /\ resyncRows'[k].last = resyncRows[k].last
    BY <1>c DEF RowsOf
  <2>3. Placed(p) => asked[p] = "resync" /\ ~recovery[p]
    BY <1>0, <1>r DEF PartnerInv, RoundInv
  <2>4. Placed(p) /\ pauses[p] = 0 => rep[p] = "COMPLETED"
    BY <1>0 DEF PartnerInv, UnpausedInv
  <2>5. RoundInv(p)'
    BY <1>a, <2>1, <2>3 DEF RoundInv
  <2>6. UnpausedInv(p)'
    <3>1. Placed(p) /\ pauses[p] = 0 => AllCompleted(p)'
      BY <2>1, <2>2, <2>4 DEF AllCompleted
    <3> QED BY <1>0, <1>a, <1>b, <2>1, <2>2, <2>4, <3>1 DEF PartnerInv, UnpausedInv, PauseStates
  <2>7. CopyInv(p)'
    <3>1. SUFFICES ASSUME Placed(p), crashes = 0 \/ Stored(p) PROVE CopyInv(p)'
      BY <1>a, <2>1 DEF CopyInv
    <3>2. CopyInv(p)
      BY <1>0 DEF PartnerInv
    <3>3. \A k \in RowsOf(p)' : resyncRows'[k].state # "COMPLETED" \/ rounds'[p] <= 1
                                 => Safe(p, resyncRows'[k].last)
      BY <1>a, <2>1, <2>2, <2>4, <3>1, <3>2 DEF CopyInv, Placed, NoMixedPause
    <3> QED BY <1>a, <1>b, <2>1, <3>1, <3>2, <3>3 DEF CopyInv, Safe
  <2> QED BY <2>5, <2>6, <2>7 DEF PartnerInv
<1> QED BY <1>1, <1>2, <1>3, <1>4, <1>5, Whole

-----------------------------------------------------------------------------
(* Crash and restart.                                                      *)

\* The end of the process, by a crash or in db_init: what is left are the tables,
\* the files and the disks, and all that is claimed of memory is that it is empty.
LEMMA MemoryLost ==
  ASSUME RestartInv, NEW state \in {"down", "failed"}, LoseMemory(state), crashes' \in Nat, crashes' > 0,
         UNCHANGED <<partnerRows, resyncRows, file, good, want, srv, asked, rounds, pauses, misplaced>>
  PROVE  RestartInv'
<1>0. TypeOK /\ ShapeInv /\ BootInv /\ \A q \in Partners : PartnerInv(q)
  BY Parts
<1>t. Partners \subseteq Slots /\ 0 \in Partners /\ 0 \in Grains /\ 0 \in 0 .. NumBits
  BY Domains
<1>a. /\ daemon' \in {"down", "failed"} /\ boot' = 0 /\ ctl' = IdleCtl
      /\ slot' = [i \in Slots |-> ZeroSlot] /\ last' = [i \in Slots |-> 0]
      /\ rep' = [i \in Slots |-> "IN_PROGRESS"] /\ recovery' = [i \in Slots |-> FALSE]
      /\ target' = [i \in Slots |-> NoDisk] /\ bits' = [p \in Partners |-> {}]
      /\ conn' = [p \in Partners |-> FALSE] /\ th' = [p \in Partners |-> IdleThread]
  BY DEF LoseMemory
<1>1. TypeOK'
  <2>1. /\ ZeroSlot \in [id : Partners, state : PartnerStates \cup {"FREE"}, ip : BOOLEAN]
        /\ IdleThread \in [pc : ThreadPoints, bit : 0 .. NumBits]
        /\ IdleCtl \in [op : {"none", "metadata", "pause", "resume"}, pid : Partners,
                        pc : {"idle", "partner", "rows", "recv"}]
        /\ "IN_PROGRESS" \in RowStates
    BY <1>t DEF ZeroSlot, IdleThread, IdleCtl, ThreadPoints, RowStates
  <2> QED BY <1>0, <1>t, <1>a, <2>1 DEF TypeOK
<1>2. ShapeInv'
  BY <1>0, <1>a DEF ShapeInv, IdleCtl, IdleThread
<1>3. BootInv'
  BY <1>a DEF BootInv
<1>4. ASSUME NEW p \in Partners PROVE PartnerInv(p)'
  <2>0. /\ th'[p].pc = "idle" /\ ~conn'[p] /\ ~recovery'[p] /\ last'[p] = 0 /\ rep'[p] = "IN_PROGRESS"
        /\ slot'[p].state = "FREE" /\ ctl'.op = "none"
    BY <1>a, <1>t DEF IdleThread, ZeroSlot, IdleCtl
  <2>1. /\ (Placed(p)' <=> Placed(p)) /\ (Stored(p)' <=> Stored(p)) /\ RowsOf(p)' = RowsOf(p)
        /\ (AllCompleted(p)' <=> AllCompleted(p)) /\ \A b : Safe(p, b)' <=> Safe(p, b)
    BY DEF Placed, NoMixedPause, Stored, Safe, RowsOf, AllCompleted
  <2>2. RoundInv(p)'
    BY <1>0, <2>0, <2>1 DEF PartnerInv, RoundInv
  <2>3. UnpausedInv(p)'
    BY <1>0, <2>0, <2>1 DEF PartnerInv, UnpausedInv, PauseStates
  <2>4. Safe(p, 0)
    <3>1. \A g \in want[p] : g \in Nat
      BY <1>0, Domains DEF TypeOK
    <3> QED BY <3>1 DEF Safe
  <2>5. CopyInv(p)'
    BY <1>0, <2>0, <2>1, <2>4 DEF PartnerInv, CopyInv, Safe
  <2> QED BY <2>2, <2>3, <2>5 DEF PartnerInv
<1> QED BY <1>1, <1>2, <1>3, <1>4, Whole

LEMMA CrashStep ==
  ASSUME RestartInv, Crash PROVE RestartInv'
<1>1. crashes \in Nat /\ crashes' = crashes + 1
  BY DEF RestartInv, TypeOK, Crash
<1>2. LoseMemory("down") /\ "down" \in {"down", "failed"}
  BY DEF Crash
<1>3. UNCHANGED <<partnerRows, resyncRows, file, good, want, srv, asked, rounds, pauses, misplaced>>
  BY DEF Crash, diskVars, srvVars
<1>4. crashes' \in Nat /\ crashes' > 0
  BY <1>1
<1> QED BY <1>2, <1>3, <1>4, MemoryLost

LEMMA RestoreFailsStep ==
  ASSUME RestartInv, RestoreFails PROVE RestartInv'
<1>1. LoseMemory("failed") /\ "failed" \in {"down", "failed"} /\ daemon = "boot"
  BY DEF RestoreFails, Restoring
<1>2. UNCHANGED <<partnerRows, resyncRows, file, good, want, srv, asked, rounds, pauses, misplaced, crashes>>
  BY DEF RestoreFails, diskVars, srvVars, histVars
<1>3. crashes \in Nat /\ crashes > 0
  BY <1>1 DEF RestartInv, TypeOK, ShapeInv
<1> QED BY <1>1, <1>2, <1>3, MemoryLost

\* Row number i of a result, as long as it has one.
LEMMA RowAtNumber ==
  ASSUME NEW S, S \subseteq Nat, IsFiniteSet(S), NEW i \in Nat, i < Cardinality(S)
  PROVE  RowAt(S, i) \in S /\ Number(S, RowAt(S, i)) = i
<1>1. \E k \in S : Number(S, k) = i
  BY RowExists
<1> QED BY <1>1 DEF RowAt

\* Unless rows are misplaced, row number i of either result is partner i's.
LEMMA InPlace ==
  ASSUME TypeOK, ~Misplaced
  PROVE  /\ \A k \in LivePartners : partnerRows[k].pid = Number(LivePartners, k)
         /\ \A k \in LivePartners : Number(LivePartners, k) < Cardinality(LivePartners)
         /\ \A k \in OpenResyncs : Number(OpenResyncs, k) \in Partners
                                    => resyncRows[k].pid = Number(OpenResyncs, k)
<1>1. LivePartners \subseteq Nat /\ IsFiniteSet(LivePartners)
  BY Queries
<1>2. \A k \in LivePartners : Number(LivePartners, k) < Cardinality(LivePartners)
  BY <1>1, Numbering
<1> QED BY <1>2 DEF Misplaced

LEMMA BootStep ==
  ASSUME RestartInv, Boot PROVE RestartInv'
<1>0. /\ TypeOK /\ ShapeInv /\ BootInv /\ daemon \in {"down", "failed"}
      /\ \A q \in Partners : PartnerInv(q)
  BY Parts DEF Boot
<1>t. /\ Partners \subseteq Slots /\ Slots \subseteq Nat /\ Partners \subseteq Nat
      /\ 0 \in Partners /\ 0 \in Grains
  BY Domains
<1>a. /\ UNCHANGED <<partnerRows, resyncRows, file, good, want, srv, bits, conn, th, ctl, asked, rounds,
                     pauses, crashes>>
      /\ daemon' = "boot" /\ boot' = 0 /\ misplaced' = (misplaced \/ Misplaced)
  BY DEF Boot, diskVars, srvVars
<1>q. /\ LivePartners \subseteq Nat /\ IsFiniteSet(LivePartners)
      /\ OpenResyncs \subseteq Nat /\ IsFiniteSet(OpenResyncs)
      /\ Cardinality(LivePartners) \in Nat /\ Cardinality(OpenResyncs) \in Nat
  BY <1>0, Queries
<1>u. LivePartners' = LivePartners /\ OpenResyncs' = OpenResyncs /\ (Misplaced' <=> Misplaced)
  <2>1. LivePartners' = LivePartners /\ OpenResyncs' = OpenResyncs
    BY <1>a DEF LivePartners, OpenResyncs
  <2> QED BY <1>a, <2>1 DEF Misplaced, Number
<1>l. \A k \in LivePartners : /\ k \in DOMAIN partnerRows
                              /\ partnerRows[k].pid \in Partners
                              /\ partnerRows[k].state \in PartnerStates
  <2>1. partnerRows \in Seq([pid : Partners, state : PartnerStates])
    BY <1>0 DEF TypeOK
  <2>2. \A k \in DOMAIN partnerRows : partnerRows[k] \in [pid : Partners, state : PartnerStates]
    BY <2>1, RowIn
  <2> QED BY <2>2 DEF LivePartners
<1>o. \A k \in OpenResyncs : /\ k \in DOMAIN resyncRows
                             /\ resyncRows[k].pid \in Partners /\ resyncRows[k].last \in Grains
                             /\ resyncRows[k].state \in RowStates /\ resyncRows[k].state # "COMPLETED"
  <2>1. resyncRows \in Seq([pid : Partners, last : Grains, state : RowStates])
    BY <1>0 DEF TypeOK
  <2>2. \A k \in DOMAIN resyncRows : resyncRows[k] \in [pid : Partners, last : Grains, state : RowStates]
    BY <2>1, RowIn
  <2> QED BY <2>2 DEF OpenResyncs
\* Memory as the partner table fills it,
<1>b. ASSUME NEW i \in Slots
      PROVE  \/ /\ i < Cardinality(LivePartners)
                /\ \E k \in LivePartners :
                     /\ Number(LivePartners, k) = i
                     /\ slot'[i] = [id |-> partnerRows[k].pid, state |-> partnerRows[k].state, ip |-> TRUE]
             \/ ~(i < Cardinality(LivePartners)) /\ slot'[i] = ZeroSlot
  <2>1. slot'[i] = IF i < Cardinality(LivePartners)
                     THEN LET r == partnerRows[RowAt(LivePartners, i)]
                          IN [id |-> r.pid, state |-> r.state, ip |-> TRUE]
                     ELSE ZeroSlot
    BY DEF Boot
  <2>2. CASE i < Cardinality(LivePartners)
    <3>1. RowAt(LivePartners, i) \in LivePartners /\ Number(LivePartners, RowAt(LivePartners, i)) = i
      BY <1>q, <1>t, <2>2, RowAtNumber
    <3> QED BY <2>1, <2>2, <3>1
  <2>3. CASE ~(i < Cardinality(LivePartners))
    BY <2>1, <2>3
  <2> QED BY <2>2, <2>3
\* and as the resync table does.
<1>c. ASSUME NEW i \in Slots
      PROVE  \/ /\ i < Cardinality(OpenResyncs)
                /\ \E k \in OpenResyncs :
                     /\ Number(OpenResyncs, k) = i /\ last'[i] = resyncRows[k].last
                     /\ rep'[i] = resyncRows[k].state /\ target'[i] = resyncRows[k].pid
             \/ /\ ~(i < Cardinality(OpenResyncs)) /\ last'[i] = 0 /\ rep'[i] = "IN_PROGRESS"
                /\ target'[i] = IF i \in Partners THEN i ELSE NoDisk
  <2>1. /\ last'[i] = IF i < Cardinality(OpenResyncs) THEN resyncRows[RowAt(OpenResyncs, i)].last ELSE 0
        /\ rep'[i] = IF i < Cardinality(OpenResyncs) THEN resyncRows[RowAt(OpenResyncs, i)].state
                                                     ELSE "IN_PROGRESS"
        /\ target'[i] = IF i < Cardinality(OpenResyncs) THEN resyncRows[RowAt(OpenResyncs, i)].pid
                        ELSE IF i \in Partners THEN i ELSE NoDisk
    BY DEF Boot
  <2>2. CASE i < Cardinality(OpenResyncs)
    <3>1. RowAt(OpenResyncs, i) \in OpenResyncs /\ Number(OpenResyncs, RowAt(OpenResyncs, i)) = i
      BY <1>q, <1>t, <2>2, RowAtNumber
    <3> QED BY <2>1, <2>2, <3>1
  <2>3. CASE ~(i < Cardinality(OpenResyncs))
    BY <2>1, <2>3
  <2> QED BY <2>2, <2>3
<1>d. /\ slot' = [i \in Slots |-> slot'[i]] /\ last' = [i \in Slots |-> last'[i]]
      /\ rep' = [i \in Slots |-> rep'[i]] /\ target' = [i \in Slots |-> target'[i]]
      /\ recovery' \in [Slots -> BOOLEAN]
      /\ \A i \in Slots : recovery'[i] <=> \E k \in LivePartners : partnerRows[k].pid = i
  BY DEF Boot, RecoveryMode
<1>1. TypeOK'
  <2>1. ASSUME NEW i \in Slots PROVE slot'[i] \in SlotType
    <3>1. CASE slot'[i] = ZeroSlot
      BY <1>t, <3>1 DEF SlotType, ZeroSlot
    <3>2. CASE \E k \in LivePartners :
                 slot'[i] = [id |-> partnerRows[k].pid, state |-> partnerRows[k].state, ip |-> TRUE]
      <4>1. PICK k \in LivePartners :
              slot'[i] = [id |-> partnerRows[k].pid, state |-> partnerRows[k].state, ip |-> TRUE]
        BY <3>2
      <4>2. partnerRows[k].pid \in Partners /\ partnerRows[k].state \in PartnerStates
        BY <1>l
      <4> QED BY <4>1, <4>2 DEF SlotType
    <3> QED BY <1>b, <3>1, <3>2
  <2>2. \A i \in Slots : last'[i] \in Grains /\ rep'[i] \in RowStates /\ target'[i] \in Partners \cup {NoDisk}
    BY <1>c, <1>o, <1>t DEF RowStates
  <2>3. /\ slot' \in [Slots -> SlotType] /\ last' \in [Slots -> Grains] /\ rep' \in [Slots -> RowStates]
        /\ target' \in [Slots -> Partners \cup {NoDisk}] /\ misplaced' \in BOOLEAN
    BY <1>a, <1>d, <2>1, <2>2
  <2> QED BY <1>0, <1>a, <1>d, <2>3 DEF TypeOK, SlotType
<1>2. ShapeInv'
  BY <1>0, <1>a DEF ShapeInv, IdleCtl
<1>m. ASSUME ~misplaced' PROVE ~misplaced /\ ~Misplaced
  BY <1>a, <1>m
<1>p. ASSUME ~misplaced', NEW i \in Partners
      PROVE  /\ target'[i] = i
             /\ \/ /\ i < Cardinality(OpenResyncs)
                   /\ \E k \in RowsOf(i) : /\ resyncRows[k].state # "COMPLETED"
                                           /\ last'[i] = resyncRows[k].last
                                           /\ rep'[i] = resyncRows[k].state
                \/ last'[i] = 0 /\ rep'[i] = "IN_PROGRESS"
             /\ \/ \E k \in DOMAIN partnerRows : /\ partnerRows[k].pid = i
                                                 /\ slot'[i].state = partnerRows[k].state
                \/ slot'[i].state = "FREE"
  <2>0. i \in Slots
    BY <1>t
  <2>1. /\ \A k \in LivePartners : partnerRows[k].pid = Number(LivePartners, k)
        /\ \A k \in OpenResyncs : Number(OpenResyncs, k) \in Partners
                                    => resyncRows[k].pid = Number(OpenResyncs, k)
    BY <1>0, <1>p, <1>m, InPlace
  <2>2. \/ \E k \in DOMAIN partnerRows : /\ partnerRows[k].pid = i
                                         /\ slot'[i].state = partnerRows[k].state
        \/ slot'[i].state = "FREE"
    <3>1. CASE slot'[i] = ZeroSlot
      BY <3>1 DEF ZeroSlot
    <3>2. CASE \E k \in LivePartners :
                 /\ Number(LivePartners, k) = i
                 /\ slot'[i] = [id |-> partnerRows[k].pid, state |-> partnerRows[k].state, ip |-> TRUE]
      <4>1. PICK k \in LivePartners :
              /\ Number(LivePartners, k) = i
              /\ slot'[i] = [id |-> partnerRows[k].pid, state |-> partnerRows[k].state, ip |-> TRUE]
        BY <3>2
      <4>2. slot'[i].state = partnerRows[k].state /\ partnerRows[k].pid = i /\ k \in DOMAIN partnerRows
        BY <1>l, <2>1, <4>1
      <4> QED BY <4>2
    <3> QED BY <1>b, <2>0, <3>1, <3>2
  <2>3. CASE \E k \in OpenResyncs :
               /\ Number(OpenResyncs, k) = i /\ last'[i] = resyncRows[k].last
               /\ rep'[i] = resyncRows[k].state /\ target'[i] = resyncRows[k].pid
    <3>1. PICK k \in OpenResyncs :
               /\ Number(OpenResyncs, k) = i /\ last'[i] = resyncRows[k].last
               /\ rep'[i] = resyncRows[k].state /\ target'[i] = resyncRows[k].pid
      BY <2>3
    <3>2. resyncRows[k].pid = i
      BY <2>1, <3>1
    <3>3. k \in RowsOf(i) /\ resyncRows[k].state # "COMPLETED"
      BY <1>o, <3>2 DEF RowsOf
    <3>4. Number(OpenResyncs, k) < Cardinality(OpenResyncs)
      BY <1>q, Numbering
    <3> QED BY <2>2, <3>1, <3>2, <3>3, <3>4
  <2>4. CASE last'[i] = 0 /\ rep'[i] = "IN_PROGRESS" /\ target'[i] = i
    BY <2>2, <2>4
  <2> QED BY <1>c, <2>0, <2>3, <2>4
<1>3. BootInv'
  <2>1. SUFFICES ASSUME ~misplaced' PROVE BootInv'
    BY <1>a DEF BootInv
  <2>2. /\ \A k \in LivePartners : partnerRows[k].pid = Number(LivePartners, k)
        /\ \A k \in LivePartners : Number(LivePartners, k) < Cardinality(LivePartners)
    BY <1>0, <1>m, <2>1, InPlace
  <2>3. \A p \in Partners : target'[p] = p
    BY <1>p, <2>1
  <2>4. ASSUME NEW i \in Slots, recovery'[i] PROVE i \in Partners /\ slot'[i].id = i
    <3>1. PICK k \in LivePartners : partnerRows[k].pid = i
      BY <1>d, <2>4
    <3>2. i \in Partners /\ i < Cardinality(LivePartners)
      BY <1>l, <2>2, <3>1
    <3>3. PICK j \in LivePartners :
            /\ Number(LivePartners, j) = i
            /\ slot'[i] = [id |-> partnerRows[j].pid, state |-> partnerRows[j].state, ip |-> TRUE]
      BY <1>b, <3>2
    <3> QED BY <2>2, <3>2, <3>3
  <2>5. ASSUME NEW i \in Slots
        PROVE  IF i < Cardinality(LivePartners) THEN recovery'[i] ELSE slot'[i].id = 0 /\ ~slot'[i].ip
    <3>1. CASE i < Cardinality(LivePartners)
      <4>1. PICK j \in LivePartners : Number(LivePartners, j) = i
        BY <1>b, <3>1
      <4>2. partnerRows[j].pid = i
        BY <2>2, <4>1
      <4> QED BY <1>d, <3>1, <4>2
    <3>2. CASE ~(i < Cardinality(LivePartners))
      BY <1>b, <3>2 DEF ZeroSlot
    <3> QED BY <3>1, <3>2
  <2>6. ASSUME NEW p \in Partners
        PROVE  ~conn'[p] /\ th'[p].pc = "idle" /\ rep'[p] # "COMPLETED" /\ ~(p < boot')
    <3>1. ~conn'[p] /\ th'[p].pc = "idle" /\ ~(p < boot')
      BY <1>0, <1>a, <1>t DEF ShapeInv
    <3>2. rep'[p] # "COMPLETED"
      BY <1>p, <2>1
    <3> QED BY <3>1, <3>2
  <2>7. ~Misplaced'
    BY <1>m, <1>u, <2>1
  <2> QED BY <1>a, <1>u, <2>3, <2>4, <2>5, <2>6, <2>7 DEF BootInv
<1>4. ASSUME NEW p \in Partners PROVE PartnerInv(p)'
  <2>1. SUFFICES ASSUME Placed(p)' PROVE PartnerInv(p)'
    BY DEF PartnerInv, RoundInv, UnpausedInv, CopyInv
  <2>2. ~misplaced' /\ Placed(p)
    BY <1>a, <1>m, <2>1 DEF Placed, NoMixedPause
  <2>3. /\ ~conn'[p] /\ th'[p].pc = "idle" /\ ctl'.op = "none" /\ crashes > 0
    BY <1>0, <1>a DEF ShapeInv, IdleCtl
  <2>4. \/ \E k \in RowsOf(p) : /\ resyncRows[k].state # "COMPLETED"
                                /\ last'[p] = resyncRows[k].last
                                /\ rep'[p] = resyncRows[k].state
        \/ last'[p] = 0 /\ rep'[p] = "IN_PROGRESS"
    BY <1>p, <2>2
  <2>5. /\ (Stored(p)' <=> Stored(p)) /\ RowsOf(p)' = RowsOf(p)
        /\ (AllCompleted(p)' <=> AllCompleted(p)) /\ \A b : Safe(p, b)' <=> Safe(p, b)
    BY <1>a DEF Stored, Safe, RowsOf, AllCompleted
  <2>6. RoundInv(p)'
    <3>1. AllCompleted(p) => last'[p] = 0
      BY <2>4 DEF AllCompleted
    <3> QED BY <1>0, <1>a, <2>2, <2>3, <2>5, <3>1 DEF PartnerInv, RoundInv
  <2>7. UnpausedInv(p)'
    <3>1. SUFFICES ASSUME pauses[p] = 0 PROVE UnpausedInv(p)'
      BY <1>a DEF UnpausedInv
    <3>2. UnpausedInv(p)
      BY <1>0 DEF PartnerInv
    <3>3. rep'[p] \notin PauseStates /\ rep'[p] # "COMPLETED"
      BY <2>2, <2>4, <3>1, <3>2 DEF UnpausedInv, PauseStates
    <3>4. \/ \E k \in DOMAIN partnerRows : /\ partnerRows[k].pid = p
                                           /\ slot'[p].state = partnerRows[k].state
          \/ slot'[p].state = "FREE"
      BY <1>p, <2>2
    <3>5. slot'[p].state \notin PauseStates
      BY <2>2, <3>1, <3>2, <3>4 DEF UnpausedInv, PauseStates
    <3> QED BY <1>a, <2>2, <2>3, <2>5, <3>1, <3>2, <3>3, <3>5 DEF UnpausedInv
  <2>8. Safe(p, 0)
    <3>1. \A g \in want[p] : g \in Nat
      BY <1>0, Domains DEF TypeOK
    <3> QED BY <3>1 DEF Safe
  <2>9. CopyInv(p)'
    <3>1. SUFFICES ASSUME Stored(p) PROVE CopyInv(p)'
      BY <1>0, <1>a, <2>3, <2>5 DEF CopyInv, TypeOK
    <3>2. CopyInv(p)
      BY <1>0 DEF PartnerInv
    <3>3. Safe(p, last'[p])
      BY <2>2, <2>4, <2>8, <3>1, <3>2 DEF CopyInv
    <3> QED BY <1>a, <2>2, <2>3, <2>5, <3>1, <3>2, <3>3 DEF CopyInv, Safe
  <2> QED BY <2>6, <2>7, <2>9 DEF PartnerInv
<1> QED BY <1>1, <1>2, <1>3, <1>4, Whole

\* db_lock is taken twice only for a row that no partner's slot stands behind.
LEMMA RestoreHangsStep ==
  ASSUME RestartInv, RestoreHangs PROVE RestartInv'
<1>0. TypeOK /\ ShapeInv /\ BootInv /\ \A q \in Partners : PartnerInv(q)
  BY Parts
<1>a. /\ UNCHANGED <<partnerRows, resyncRows, file, good, want, srv, boot, slot, last, rep, recovery,
                     target, bits, th, ctl, asked, rounds, pauses, crashes, misplaced>>
      /\ daemon = "boot" /\ daemon' = "hung" /\ boot < Cardinality(OpenResyncs) /\ ~recovery[boot]
  BY DEF RestoreHangs, Restoring, diskVars, srvVars, histVars
<1>q. /\ Cardinality(LivePartners) \in Nat /\ Cardinality(OpenResyncs) \in Nat
      /\ Cardinality(OpenResyncs) <= MaxRows /\ boot \in Nat /\ MaxRows \in Nat
  BY <1>0, Queries, Domains DEF TypeOK
<1>b. boot \in Slots
  BY <1>a, <1>q DEF Slots
<1>c. PICK p \in Partners : /\ p = slot[boot].id /\ slot[p].ip
                            /\ conn' = [conn EXCEPT ![p] = TRUE]
  BY <1>0, <1>b DEF RestoreHangs, TypeOK
<1>d. conn' \in [Partners -> BOOLEAN] /\ \A q \in Partners : conn[q] => conn'[q]
  BY <1>0, <1>c DEF TypeOK
<1>e. ASSUME ~misplaced PROVE conn' = conn /\ ~OneRowEach
  <2>1. boot >= boot
    BY <1>q
  <2>2. ~(boot < Cardinality(LivePartners)) /\ slot[boot].id = 0 /\ ~slot[boot].ip
    BY <1>0, <1>a, <1>b, <1>e, <2>1 DEF BootInv
  <2>3. p = 0 /\ boot # 0
    BY <1>c, <2>2
  <2>4. conn[p]
    BY <1>0, <1>a, <1>e, <1>q, <2>3 DEF BootInv
  <2>5. conn' = conn
    BY <1>0, <1>c, <2>4 DEF TypeOK
  <2> QED BY <1>a, <1>q, <2>2, <2>5 DEF OneRowEach
<1>1. TypeOK'
  BY <1>0, <1>a, <1>d DEF TypeOK
<1>2. ShapeInv'
  <2>1. ctl.pid \in Partners
    BY <1>0 DEF TypeOK
  <2> QED BY <1>0, <1>a, <1>d, <2>1 DEF ShapeInv
<1>3. BootInv'
  <2>1. OneRowEach' <=> OneRowEach
    BY <1>a DEF OneRowEach, OpenResyncs, LivePartners
  <2> QED BY <1>0, <1>a, <1>e, <2>1 DEF BootInv
<1>4. CASE misplaced
  <2>1. \A q \in Partners : PartnerInv(q)'
    BY <1>a, <1>4, NothingClaimed
  <2> QED BY <1>1, <1>2, <1>3, <2>1, Whole
<1>5. CASE ~misplaced
  <2>1. ASSUME NEW q \in Partners PROVE PartnerInv(q)'
    <3>1. Aside(q)
      BY <1>5, <1>a, <1>e DEF Aside
    <3> QED BY <1>0, <3>1, AsideKept
  <2> QED BY <1>1, <1>2, <1>3, <2>1, Whole
<1> QED BY <1>4, <1>5

\* A restored thread starts with the stored bitmap at the stored position.
LEMMA RestoreStep ==
  ASSUME RestartInv, Restore PROVE RestartInv'
<1>0. TypeOK /\ ShapeInv /\ BootInv /\ \A q \in Partners : PartnerInv(q)
  BY Parts
<1>a. /\ UNCHANGED <<partnerRows, resyncRows, file, good, want, srv, daemon, slot, last, rep, recovery,
                     target, ctl, asked, rounds, pauses, crashes, misplaced>>
      /\ daemon = "boot" /\ boot' = boot + 1 /\ boot < Cardinality(OpenResyncs) /\ recovery[boot]
  BY DEF Restore, Restoring, diskVars, srvVars, histVars
<1>q. /\ Cardinality(OpenResyncs) \in Nat /\ OpenResyncs \subseteq Nat /\ IsFiniteSet(OpenResyncs)
      /\ Cardinality(OpenResyncs) <= MaxRows /\ boot \in Nat /\ MaxRows \in Nat
  BY <1>0, Queries, Domains DEF TypeOK
<1>b. boot \in Slots
  BY <1>a, <1>q DEF Slots
<1>t. Partners \subseteq Slots /\ Partners \subseteq Nat
  BY Domains
<1>c. PICK p \in Partners :
        /\ p = slot[boot].id /\ conn' = [conn EXCEPT ![p] = TRUE]
        /\ IF rep[p] = "COMPLETED"
             THEN UNCHANGED <<bits, th>>
             ELSE /\ file[p] # NoFile /\ bits' = [bits EXCEPT ![p] = file[p]]
                  /\ th' = [th EXCEPT ![p] = [pc |-> "new", bit |-> last[p]]]
  BY <1>0, <1>b DEF Restore, TypeOK, LoadBitmap, RestartFrom, ResyncInit
<1>d. /\ conn' \in [Partners -> BOOLEAN] /\ conn'[p]
      /\ \A q \in Partners : q # p => conn'[q] = conn[q]
  BY <1>0, <1>c DEF TypeOK
<1>e. /\ bits' \in [Partners -> SUBSET Grains] /\ \A q \in Partners : q # p => bits'[q] = bits[q]
      /\ rep[p] # "COMPLETED" => bits'[p] = file[p]
  <2>0. bits \in [Partners -> SUBSET Grains] /\ file \in [Partners -> (SUBSET Grains) \cup {NoFile}]
    BY <1>0 DEF TypeOK
  <2>1. bits \in [Partners -> SUBSET Grains] /\ (file[p] # NoFile => file[p] \in SUBSET Grains)
    BY <2>0
  <2>2. CASE rep[p] = "COMPLETED"
    BY <1>c, <2>1, <2>2
  <2>3. CASE rep[p] # "COMPLETED"
    BY <1>c, <2>1, <2>3
  <2> QED BY <2>2, <2>3
<1>f. /\ th' \in [Partners -> ThreadType] /\ \A q \in Partners : q # p => th'[q] = th[q]
      /\ rep[p] # "COMPLETED" => th'[p].pc = "new" /\ th'[p].bit = last[p]
      /\ rep[p] = "COMPLETED" => th'[p] = th[p]
  <2>1. th \in [Partners -> ThreadType]
    BY <1>0 DEF TypeOK, ThreadType
  <2>2. CASE rep[p] = "COMPLETED"
    BY <1>c, <2>1, <2>2
  <2>3. CASE rep[p] # "COMPLETED"
    <3>1. last[p] \in Grains
      BY <1>0, <1>t DEF TypeOK
    <3>2. [pc |-> "new", bit |-> last[p]] \in ThreadType
      BY <3>1, Domains DEF ThreadType, ThreadPoints
    <3> QED BY <1>0, <1>c, <2>3, <3>2, SetThread
  <2> QED BY <2>2, <2>3
<1>1. TypeOK'
  <2>1. boot' \in Nat
    BY <1>a, <1>q
  <2> QED BY <1>0, <1>a, <1>d, <1>e, <1>f, <2>1 DEF TypeOK, ThreadType
<1>2. ShapeInv'
  <2>1. \A q \in Partners :
          /\ th'[q].pc # "idle" => conn'[q]
          /\ th'[q].pc \in {"copy", "grain"} => th'[q].bit \in Grains
          /\ th'[q].pc = "term" => th'[q].bit = NumBits
          /\ th'[q].pc = "release" => slot'[q].state # "FREE"
    BY <1>0, <1>a, <1>d, <1>f DEF ShapeInv
  <2> QED BY <1>0, <1>a, <2>1 DEF ShapeInv, IdleCtl
<1>u. LivePartners' = LivePartners /\ OpenResyncs' = OpenResyncs /\ (Misplaced' <=> Misplaced)
  <2>1. LivePartners' = LivePartners /\ OpenResyncs' = OpenResyncs
    BY <1>a DEF LivePartners, OpenResyncs
  <2> QED BY <1>a, <2>1 DEF Misplaced, Number
<1>4. CASE misplaced
  <2>1. \A q \in Partners : PartnerInv(q)'
    BY <1>a, <1>4, NothingClaimed
  <2>2. BootInv'
    BY <1>a, <1>4 DEF BootInv
  <2> QED BY <1>1, <1>2, <2>1, <2>2, Whole
<1>5. CASE ~misplaced
  <2>0. boot >= boot
    BY <1>q
  <2>1. p = boot /\ rep[p] # "COMPLETED" /\ ~Misplaced
    <3>1. boot \in Partners /\ slot[boot].id = boot
      BY <1>0, <1>5, <1>a, <1>b, <2>0 DEF BootInv
    <3>2. p = boot
      BY <1>c, <3>1
    <3> QED BY <1>0, <1>5, <1>a, <2>0, <3>2 DEF BootInv
  <2>2. BootInv'
    <3>1. \A i \in Slots : i >= boot + 1 => i >= boot
      BY <1>q, <1>t, Domains
    <3>2. \A i \in Slots : i >= boot' /\ recovery'[i] => i \in Partners /\ slot'[i].id = i
      BY <1>0, <1>5, <1>a, <3>1 DEF BootInv
    <3>3. \A i \in Slots : i >= boot' =>
            IF i < Cardinality(LivePartners) THEN recovery'[i] ELSE slot'[i].id = 0 /\ ~slot'[i].ip
      BY <1>0, <1>5, <1>a, <3>1 DEF BootInv
    <3>4. ASSUME NEW q \in Partners, q < boot' PROVE conn'[q]
      <4>1. q < boot \/ q = p
        BY <1>a, <1>q, <1>t, <2>1, <3>4
      <4>2. q < boot => conn[q]
        BY <1>0, <1>5, <1>a DEF BootInv
      <4> QED BY <1>d, <4>1, <4>2
    <3>5. ASSUME NEW q \in Partners, q >= boot'
          PROVE ~conn'[q] /\ th'[q].pc = "idle" /\ rep'[q] # "COMPLETED"
      <4>1. q # p /\ q >= boot
        BY <1>a, <1>q, <1>t, <2>1, <3>5
      <4>2. ~conn[q] /\ th[q].pc = "idle" /\ rep[q] # "COMPLETED"
        BY <1>0, <1>5, <1>a, <4>1 DEF BootInv
      <4> QED BY <1>a, <1>d, <1>f, <4>1, <4>2
    <3>6. \A q \in Partners : target'[q] = q
      BY <1>0, <1>5, <1>a DEF BootInv
    <3> QED BY <1>a, <1>u, <2>1, <3>2, <3>3, <3>4, <3>5, <3>6 DEF BootInv
  <2>3. ASSUME NEW q \in Partners, q # p PROVE PartnerInv(q)'
    <3>1. Aside(q)
      BY <2>3, <1>a, <1>d, <1>e, <1>f DEF Aside
    <3> QED BY <1>0, <3>1, AsideKept
  <2>4. PartnerInv(p)'
    <3>1. SUFFICES ASSUME Placed(p)' PROVE PartnerInv(p)'
      BY DEF PartnerInv, RoundInv, UnpausedInv, CopyInv
    <3>2. /\ Placed(p) /\ (Stored(p)' <=> Stored(p)) /\ RowsOf(p)' = RowsOf(p)
          /\ (AllCompleted(p)' <=> AllCompleted(p)) /\ \A b : Safe(p, b)' <=> Safe(p, b)
      BY <1>a, <3>1 DEF Placed, NoMixedPause, Stored, Safe, RowsOf, AllCompleted
    <3>3. th'[p].pc = "new" /\ th'[p].bit = last[p] /\ bits'[p] = file[p] /\ crashes > 0
      BY <1>0, <1>a, <1>e, <1>f, <2>1 DEF ShapeInv
    <3>4. asked[p] = "resync"
      <4>1. PICK k \in OpenResyncs : Number(OpenResyncs, k) = boot
        BY <1>a, <1>q, RowExists
      <4>2. Number(OpenResyncs, k) \in Partners
        BY <2>1, <4>1
      <4>3. resyncRows[k].pid = p
        BY <1>0, <2>1, <4>1, <4>2, InPlace
      <4>4. ~AllCompleted(p)
        BY <4>3 DEF AllCompleted, OpenResyncs, RowsOf
      <4> QED BY <1>0, <3>2, <4>4 DEF PartnerInv, RoundInv
    <3>5. RoundInv(p)'
      BY <1>a, <2>1, <3>3, <3>4 DEF RoundInv
    <3>6. UnpausedInv(p)'
      BY <1>0, <1>a, <2>1, <3>2, <3>3 DEF PartnerInv, UnpausedInv
    <3>7. CopyInv(p)'
      <4>1. SUFFICES ASSUME Stored(p) PROVE CopyInv(p)'
        BY <1>0, <1>a, <3>2, <3>3 DEF CopyInv, TypeOK
      <4>2. CopyInv(p) /\ bits'[p] = want[p]
        BY <1>0, <3>3, <4>1 DEF PartnerInv, Stored
      <4> QED BY <1>a, <3>2, <3>3, <4>1, <4>2 DEF CopyInv, Safe
    <3> QED BY <3>5, <3>6, <3>7 DEF PartnerInv
  <2> QED BY <1>1, <1>2, <2>2, <2>3, <2>4, Whole
<1> QED BY <1>4, <1>5

LEMMA BootDoneStep ==
  ASSUME RestartInv, BootDone PROVE RestartInv'
<1>0. TypeOK /\ ShapeInv /\ BootInv /\ \A q \in Partners : PartnerInv(q)
  BY Parts
<1>a. /\ UNCHANGED <<partnerRows, resyncRows, file, good, want, srv, boot, slot, last, rep, recovery,
                     target, bits, conn, th, ctl, asked, rounds, pauses, crashes, misplaced>>
      /\ daemon = "boot" /\ daemon' = "up"
  BY DEF BootDone, diskVars, srvVars, memVars, histVars
<1>1. TypeOK'
  BY <1>0, <1>a DEF TypeOK
<1>2. ShapeInv'
  BY <1>0, <1>a DEF ShapeInv
<1>3. BootInv'
  BY <1>0, <1>a DEF BootInv
<1>4. ASSUME NEW q \in Partners PROVE PartnerInv(q)'
  <2>1. Aside(q)
    BY <1>a DEF Aside
  <2> QED BY <1>0, <2>1, AsideKept
<1> QED BY <1>1, <1>2, <1>3, <1>4, Whole

-----------------------------------------------------------------------------
(* The theorems.                                                           *)

LEMMA Established ==
  ASSUME Init PROVE RestartInv
<1>t. /\ Partners \subseteq Slots /\ 0 \in Partners /\ 0 \in Grains /\ 0 \in 0 .. NumBits
      /\ NumPartners \in Nat /\ MaxRows \in Nat
  BY Domains
<1>a. /\ resyncRows = <<>> /\ file = [p \in Partners |-> NoFile] /\ good = [p \in Partners |-> {}]
      /\ want = [p \in Partners |-> {}] /\ srv = [p \in Partners |-> "idle"]
      /\ daemon = "up" /\ boot = 0 /\ last = [i \in Slots |-> 0]
      /\ rep = [i \in Slots |-> "IN_PROGRESS"] /\ recovery = [i \in Slots |-> FALSE]
      /\ bits = [p \in Partners |-> {}] /\ conn = [p \in Partners |-> TRUE]
      /\ th = [p \in Partners |-> IdleThread] /\ ctl = IdleCtl
      /\ asked = [p \in Partners |-> "nothing"] /\ rounds = [p \in Partners |-> 0]
      /\ pauses = [p \in Partners |-> 0] /\ crashes = 0 /\ misplaced = FALSE
  BY DEF Init
<1>b. /\ partnerRows \in Seq([pid : Partners, state : PartnerStates])
      /\ \A k \in DOMAIN partnerRows : partnerRows[k].state = "IN_USE"
  <2>1. partnerRows = [i \in 1 .. NumPartners |-> [pid |-> i - 1, state |-> "IN_USE"]]
    BY DEF Init
  <2>2. ASSUME NEW i \in 1 .. NumPartners
        PROVE  [pid |-> i - 1, state |-> "IN_USE"] \in [pid : Partners, state : PartnerStates]
    <3>1. i - 1 \in Partners
      BY <1>t DEF Partners
    <3> QED BY <3>1 DEF PartnerStates
  <2>3. partnerRows \in [1 .. NumPartners -> [pid : Partners, state : PartnerStates]]
    BY <2>1, <2>2
  <2>4. partnerRows \in Seq([pid : Partners, state : PartnerStates])
    BY <1>t, <2>3, Rebuilt
  <2> QED BY <2>1, <2>4
<1>c. /\ slot \in [Slots -> SlotType] /\ target \in [Slots -> Partners \cup {NoDisk}]
      /\ \A p \in Partners : target[p] = p /\ slot[p].state = "IN_USE"
  <2>1. slot = [i \in Slots |-> IF i \in Partners THEN [id |-> i, state |-> "IN_USE", ip |-> TRUE]
                                                  ELSE ZeroSlot]
    BY DEF Init
  <2>2. target = [i \in Slots |-> IF i \in Partners THEN i ELSE NoDisk]
    BY DEF Init
  <2>3. ZeroSlot \in SlotType
    BY <1>t DEF SlotType, ZeroSlot
  <2>4. \A i \in Partners : [id |-> i, state |-> "IN_USE", ip |-> TRUE] \in SlotType
    BY DEF SlotType, PartnerStates
  <2>5. slot \in [Slots -> SlotType]
    BY <2>1, <2>3, <2>4
  <2>6. \A p \in Partners : slot[p].state = "IN_USE"
    BY <1>t, <2>1
  <2> QED BY <1>t, <2>2, <2>5, <2>6
<1>1. TypeOK
  <2>1. /\ IdleThread \in [pc : ThreadPoints, bit : 0 .. NumBits]
        /\ IdleCtl \in [op : {"none", "metadata", "pause", "resume"}, pid : Partners,
                        pc : {"idle", "partner", "rows", "recv"}]
        /\ "IN_PROGRESS" \in RowStates
    BY <1>t DEF IdleThread, IdleCtl, ThreadPoints, RowStates
  <2>2. resyncRows \in Seq([pid : Partners, last : Grains, state : RowStates]) /\ Len(resyncRows) <= MaxRows
    BY <1>a, <1>t
  <2>3. /\ file \in [Partners -> (SUBSET Grains) \cup {NoFile}] /\ good \in [Partners -> SUBSET Grains]
        /\ want \in [Partners -> SUBSET Grains] /\ bits \in [Partners -> SUBSET Grains]
        /\ srv \in [Partners -> {"idle", "active", "released"}] /\ conn \in [Partners -> BOOLEAN]
        /\ asked \in [Partners -> {"nothing", "metadata", "resync"}]
    BY <1>a
  <2>4. /\ last \in [Slots -> Grains] /\ rep \in [Slots -> RowStates] /\ recovery \in [Slots -> BOOLEAN]
        /\ th \in [Partners -> [pc : ThreadPoints, bit : 0 .. NumBits]]
    BY <1>a, <1>t, <2>1
  <2>5. rounds \in [Partners -> Nat] /\ pauses \in [Partners -> Nat] /\ crashes \in Nat /\ boot \in Nat
    BY <1>a
  <2> QED BY <1>a, <1>b, <1>c, <2>1, <2>2, <2>3, <2>4, <2>5 DEF TypeOK, SlotType
<1>2. ShapeInv
  BY <1>a DEF ShapeInv, IdleCtl, IdleThread
<1>3. BootInv
  BY <1>a, <1>c DEF BootInv
<1>4. ASSUME NEW p \in Partners PROVE RoundInv(p) /\ UnpausedInv(p) /\ CopyInv(p)
  <2>1. RowsOf(p) = {}
    BY <1>a DEF RowsOf
  <2>2. /\ th[p].pc = "idle" /\ last[p] = 0 /\ rep[p] = "IN_PROGRESS" /\ ~recovery[p] /\ ctl.op = "none"
        /\ asked[p] = "nothing" /\ want[p] = {} /\ pauses[p] = 0 /\ srv[p] = "idle"
        /\ slot[p].state = "IN_USE"
    BY <1>a, <1>c, <1>t DEF IdleThread, IdleCtl
  <2>3. RoundInv(p)
    BY <2>1, <2>2 DEF RoundInv, AllCompleted
  <2>4. UnpausedInv(p)
    BY <1>b, <2>1, <2>2 DEF UnpausedInv, PauseStates
  <2>5. CopyInv(p)
    BY <2>1, <2>2 DEF CopyInv, Safe
  <2> QED BY <2>3, <2>4, <2>5
<1> QED BY <1>1, <1>2, <1>3, <1>4 DEF RestartInv

LEMMA Preserved ==
  ASSUME RestartInv, [Next]_vars PROVE RestartInv'
<1>1. ctl.pid \in Partners
  BY DEF RestartInv, TypeOK
<1>2. CASE \E p \in Partners : Metadata(p) \/ Resync(p) \/ Pause(p) \/ Resume(p)
  BY <1>2, MetadataStep, ResyncStep, PauseStep, ResumeStep
<1>3. CASE \E p \in Partners : Thread(p)
  BY <1>3, StartStep, LoopTestStep, CopyStep, GrainDoneStep, TerminateStep, ReleasePartnerStep,
     CompleteRowsStep DEF Thread
<1>4. CASE Control
  <2>1. PICK p \in Partners : p = ctl.pid
    BY <1>1
  <2> QED BY <1>4, <2>1, MetadataRecvStep, CommandPartnerStep, CommandRowsStep DEF Control
<1>5. CASE DbInit
  BY <1>5, BootStep, RestoreFailsStep, RestoreHangsStep, RestoreStep, BootDoneStep DEF DbInit
<1>6. CASE Crash
  BY <1>6, CrashStep
<1>7. CASE UNCHANGED vars
  <2>0. TypeOK /\ ShapeInv /\ BootInv /\ \A q \in Partners : PartnerInv(q)
    BY Parts
  <2>a. UNCHANGED <<partnerRows, resyncRows, file, good, want, srv, daemon, boot, slot, last, rep, recovery,
                    target, bits, conn, th, ctl, asked, rounds, pauses, crashes, misplaced>>
    BY <1>7 DEF vars, diskVars, srvVars, memVars, histVars
  <2>1. TypeOK'
    BY <2>0, <2>a DEF TypeOK
  <2>2. ShapeInv'
    BY <2>0, <2>a DEF ShapeInv
  <2>3. BootAside
    BY <2>a DEF BootAside
  <2>4. BootInv'
    BY <2>0, <2>3, BootKept
  <2>5. ASSUME NEW q \in Partners PROVE PartnerInv(q)'
    <3>1. Aside(q)
      BY <2>a DEF Aside
    <3> QED BY <2>0, <3>1, AsideKept
  <2> QED BY <2>1, <2>2, <2>4, <2>5, Whole
<1> QED BY <1>2, <1>3, <1>4, <1>5, <1>6, <1>7 DEF Next

\* Tables, memory and threads stay in step over crashes and restarts of the client
\* (db_init of atdr_db.c, the commands and the resync thread), for any number of
\* partners, rounds, pauses and crashes.
THEOREM RestartInvariant == Spec => []RestartInv
<1> QED BY Established, Preserved, PTL DEF Spec

\* A round that replication_terminate declared over has copied all of its bitmap,
\* however often the client crashed in it and db_init took it up again.
THEOREM CompletionSurvivesCrashes == Spec => []CompletedMeansCopied
<1>1. ASSUME RestartInv PROVE CompletedMeansCopied
  BY <1>1 DEF RestartInv, CopyInv, CompletedMeansCopied, Placed
<1> QED BY <1>1, RestartInvariant, PTL

\* The position in every open row of the resync table is one from which db_init may
\* go on: update_into_resync and the commands never store one too far.
THEOREM RestartPointsAreSafe == Spec => []RestartPointSafe
<1>1. ASSUME RestartInv PROVE RestartPointSafe
  <2>1. SUFFICES ASSUME ~misplaced, NEW k \in OpenResyncs, NoMixedPause(resyncRows[k].pid),
                        Stored(resyncRows[k].pid)
                 PROVE  \A g \in want[resyncRows[k].pid] :
                          g < resyncRows[k].last => g \in good[resyncRows[k].pid]
    BY DEF RestartPointSafe
  <2>2. k \in DOMAIN resyncRows /\ resyncRows[k].state # "COMPLETED"
    BY DEF OpenResyncs
  <2>3. resyncRows[k].pid \in Partners
    <3>1. resyncRows \in Seq([pid : Partners, last : Grains, state : RowStates])
      BY <1>1 DEF RestartInv, TypeOK
    <3>2. resyncRows[k] \in [pid : Partners, last : Grains, state : RowStates]
      BY <2>2, <3>1, RowIn
    <3> QED BY <3>2
  <2>4. PICK p \in Partners : p = resyncRows[k].pid
    BY <2>3
  <2>5. Placed(p) /\ Stored(p) /\ k \in RowsOf(p)
    BY <2>1, <2>2, <2>4 DEF Placed, RowsOf
  <2>6. Safe(p, resyncRows[k].last)
    BY <1>1, <2>2, <2>5 DEF RestartInv, CopyInv
  <2> QED BY <2>4, <2>6 DEF Safe
<1> QED BY <1>1, RestartInvariant, PTL

\* db_init waits for its own db_lock, in disk_target_create, only when more resyncs
\* are open than there are partners or the tables are out of step.
THEOREM RestartTakesItsLockOnce == Spec => []NoSelfLock
<1>1. ASSUME RestartInv PROVE NoSelfLock
  BY <1>1 DEF RestartInv, BootInv, NoSelfLock
<1> QED BY <1>1, RestartInvariant, PTL
=============================================================================
