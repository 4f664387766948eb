------------------------ MODULE DirtyTracking_proof ------------------------
(***************************************************************************)
(* Proofs about DirtyTracking, for every bitmap size, word size, set of    *)
(* writers and bound: type correctness, the loss guarantee of the double   *)
(* bitmap, that the half in use is never cleared, that a round in order    *)
(* copies the snapshot, and that DirtyTracking implements Mirror.  The     *)
(* last part looks below the grain: what Geometry says of sectors, grains  *)
(* and chunks, for every size of each.                                     *)
(***************************************************************************)
EXTENDS DirtyTracking, Geometry, TLAPS

-----------------------------------------------------------------------------
(* Facts about the operators of the model.                                 *)

\* What the proofs use about grains.
LEMMA GrainFacts ==
  /\ NumBits \in Nat /\ WordBits \in Nat /\ NumBits > 0 /\ WordBits > 0
  /\ 0 \in Grains
  /\ \A g : g \in Grains <=> g \in Nat /\ g < NumBits
BY NumBitsAssumption, WordBitsAssumption DEF Grains

\* Only grains are in flight.
LEMMA InFlightTypes == TypeOK => InFlight \subseteq Grains
BY DEF TypeOK, InFlight

\* A step that leaves the requests alone leaves InFlight alone.
LEMMA InFlightKept == bio' = bio => InFlight' = InFlight
BY DEF InFlight

\* The other user's half is the other half.
LEMMA TheOtherHalf ==
  \A u \in Users : /\ HalfOf(u) \in {0, 1} /\ Other(u) \in Users
                   /\ HalfOf(Other(u)) = 1 - HalfOf(u)
                   /\ HalfOf(Other(u)) # HalfOf(u)
BY DEF Users, HalfOf, Other

\* The halves, named from the kernel's point of view.
LEMMA TrackedHalves ==
  ASSUME TypeOK PROVE Tracked = half[area] \cup half[1 - area]
<1>1. CASE area = 0
  BY <1>1 DEF Tracked
<1>2. CASE area = 1
  BY <1>2 DEF Tracked
<1> QED
  BY <1>1, <1>2 DEF TypeOK

-----------------------------------------------------------------------------
(* Type correctness.                                                       *)

LEMMA TypeMark ==
  ASSUME TypeOK, NEW w \in Writers, NEW f \in Grains,
         NEW t \in f .. NumBits - 1, NEW m \in {t, t + 1} \cap Grains,
         Mark(w, f, t, m)
  PROVE  TypeOK'
<1>1. (f .. t) \subseteq Grains /\ (f .. m) \subseteq Grains
  BY GrainFacts
<1>2. /\ half' \in [{0, 1} -> SUBSET Grains]
      /\ bio' \in [Writers -> SUBSET Grains]
  BY <1>1 DEF TypeOK, Mark
<1>3. /\ since' \subseteq Grains /\ raced' \subseteq Grains
      /\ events' \subseteq Events
  BY <1>1 DEF TypeOK, Mark, Events
<1>4. nwrites' \in 0 .. MaxWrites
  BY BoundsAssumption DEF TypeOK, Mark
<1> QED
  BY <1>2, <1>3, <1>4 DEF TypeOK, Mark, serverVars, clientVars

LEMMA TypeLand ==
  ASSUME TypeOK, NEW w \in Writers, NEW g \in Grains, Land(w, g) PROVE TypeOK'
BY DEF TypeOK, Land, kernelVars, serverVars, clientVars, historyVars

LEMMA TypeSnapDisk == ASSUME TypeOK, SnapDisk PROVE TypeOK'
BY InFlightTypes DEF TypeOK, SnapDisk, kernelVars, clientVars

LEMMA TypeStartLoad == ASSUME TypeOK, StartLoad PROVE TypeOK'
<1>1. raced' \subseteq Grains /\ events' \subseteq Events
  BY InFlightTypes DEF TypeOK, StartLoad, Exposed, Events
<1>2. user' \in Users /\ uuser' \in Users
  BY DEF TypeOK, StartLoad, LoadFrom, Other, Users
<1> QED
  BY <1>1, <1>2 DEF TypeOK, StartLoad, kernelVars, clientVars

LEMMA TypeCopyWord == ASSUME TypeOK, CopyWord PROVE TypeOK'
BY GrainFacts DEF TypeOK, CopyWord, kernelVars, clientVars, historyVars,
   HalfOf, Users

LEMMA TypeFlip == ASSUME TypeOK, Flip PROVE TypeOK'
BY DEF TypeOK, Flip, clientVars, historyVars, Other, Users

LEMMA TypeKeepArea == ASSUME TypeOK, KeepArea PROVE TypeOK'
BY DEF TypeOK, KeepArea, kernelVars, clientVars, historyVars

LEMMA TypeSendBitmap == ASSUME TypeOK, SendBitmap PROVE TypeOK'
BY DEF TypeOK, SendBitmap, kernelVars, historyVars, Users

LEMMA TypeTerminate == ASSUME TypeOK, Terminate PROVE TypeOK'
BY DEF TypeOK, Terminate, historyVars, HalfOf, Other, Users

LEMMA TypeRequestMetadata == ASSUME TypeOK, RequestMetadata PROVE TypeOK'
BY DEF TypeOK, RequestMetadata, kernelVars, serverVars, Events

LEMMA TypeStartResync == ASSUME TypeOK, StartResync PROVE TypeOK'
BY GrainFacts DEF TypeOK, StartResync, kernelVars, serverVars, historyVars

LEMMA TypeScanBit == ASSUME TypeOK, ScanBit PROVE TypeOK'
<1>1. bit_pos \in Grains /\ bit_pos' \in 0 .. NumBits
  BY GrainFacts DEF TypeOK, ScanBit
<1>2. tgt' \in [Grains -> Nat]
  BY <1>1 DEF TypeOK, ScanBit, Image
<1> QED
  BY <1>1, <1>2 DEF TypeOK, ScanBit, kernelVars, serverVars, historyVars

LEMMA TypeScanDone == ASSUME TypeOK, ScanDone PROVE TypeOK'
BY GrainFacts DEF TypeOK, ScanDone, kernelVars, serverVars, historyVars

LEMMA TypeLoseConnection == ASSUME TypeOK, LoseConnection PROVE TypeOK'
BY BoundsAssumption DEF TypeOK, LoseConnection, kernelVars, historyVars

LEMMA TypeReconnect == ASSUME TypeOK, Reconnect PROVE TypeOK'
BY GrainFacts DEF TypeOK, Reconnect, kernelVars, historyVars

\* TypeOK is preserved by every step.
LEMMA TypeStep == ASSUME TypeOK, [Next]_vars PROVE TypeOK'
<1>1. CASE Write
  BY <1>1, TypeMark, TypeLand DEF Write
<1>2. CASE Server
  BY <1>2, TypeSnapDisk, TypeStartLoad, TypeCopyWord,
     TypeFlip, TypeKeepArea, TypeSendBitmap, TypeTerminate DEF Server
<1>3. CASE Client
  BY <1>3, TypeRequestMetadata, TypeStartResync, TypeScanBit,
     TypeScanDone, TypeLoseConnection, TypeReconnect DEF Client
<1>4. CASE UNCHANGED vars
  BY <1>4 DEF TypeOK, vars, kernelVars, serverVars, clientVars, historyVars
<1>5. QED
  BY <1>1, <1>2, <1>3, <1>4 DEF Next

\* Every variable keeps its type: the bit positions of the copy loop and of
\* the resync loop stay inside the bitmap and every mark names a grain,
\* whatever the interleaving of writers, server and client.
THEOREM TypeCorrect == Spec => []TypeOK
<1>1. Init => TypeOK
  BY GrainFacts, BoundsAssumption DEF Init, TypeOK, Users, Events
<1>2. QED
  BY <1>1, TypeStep, PTL DEF Spec

-----------------------------------------------------------------------------
(* IInv is inductive: one lemma per action, one step per part.             *)

\* The flip moves the kernel to the half the server's bmap_user names.
LEMMA FlipAreas ==
  ASSUME IInv, Flip
  PROVE  area' = HalfOf(kuser') /\ area' = 1 - area /\ uuser' = kuser'
BY TheOtherHalf DEF IInv, TypeOK, ControlInv, Flip, HalfOf, Other, Users

\* terminate does not touch the half in use.
LEMMA TerminateKeeps ==
  ASSUME IInv, Terminate, Flipping PROVE half'[area] = half[area]
<1>1. CASE partner # "RELEASED"
  <2>1. HalfOf(Other(uuser)) # area
     BY TheOtherHalf DEF IInv, TypeOK, ControlInv, Terminate, RoundOpen
  <2> QED
    BY <1>1, <2>1 DEF IInv, TypeOK, Terminate
<1>2. CASE partner = "RELEASED"
  BY <1>2 DEF Terminate
<1> QED
  BY <1>1, <1>2

\* What one iteration does to the target.
LEMMA ScanBitCopy ==
  ASSUME IInv, ScanBit, NEW g \in Grains
  PROVE  /\ g # bit_pos \/ g \notin cbits => tgt'[g] = tgt[g]
         /\ g = bit_pos /\ g \in cbits => tgt'[g] = Image(g)
BY DEF IInv, TypeOK, ScanBit

\* Off the raced and the newly marked grains, the image is the disk.
LEMMA ScanBitImage ==
  ASSUME IInv, ScanBit, Flipping,
         NEW g \in Grains, g \notin raced, g \notin half[area]
  PROVE  Image(g) = src[g]
BY SourceAssumption
   DEF IInv, TypeOK, ControlInv, ImageInv, ScanBit, Image, Flipping, RoundOpen

\* Opening an image restarts the bookkeeping of writes that follow it.
LEMMA StepSnapDisk == ASSUME IInv, TypeOK', SnapDisk PROVE IInv'
<1>1. ControlInv'
  BY DEF IInv, TypeOK, ControlInv, SnapDisk, kernelVars, clientVars, Flipping,
     RoundOpen, Loading
<1>2. InFlightInv'
  BY InFlightKept DEF IInv, TypeOK, InFlightInv, SnapDisk, kernelVars,
     clientVars, Flipping, Loading
<1>3. ImageInv'
  BY DEF IInv, TypeOK, ControlInv, InFlightInv, ImageInv, SnapDisk,
     kernelVars, clientVars, Flipping, RoundOpen, Loading
<1>4. ProgressInv'
  BY DEF IInv, TypeOK, ControlInv, ProgressInv, SnapDisk, kernelVars,
     clientVars, Flipping, RoundOpen, Loading
<1>5. LostOnlyIfRaced'
  BY DEF IInv, TypeOK, LostOnlyIfRaced, Tracked, SnapDisk, kernelVars,
     clientVars, Flipping
<1>6. QED
  BY <1>1, <1>2, <1>3, <1>4, <1>5 DEF IInv

\* A load starts: every grain it may miss data of becomes raced.
LEMMA StepStartLoad == ASSUME IInv, TypeOK', StartLoad PROVE IInv'
<1>1. ControlInv'
  BY DEF IInv, TypeOK, ControlInv, StartLoad, kernelVars, clientVars,
     Flipping, RoundOpen, Loading, LoadFrom, Other, Exposed
<1>2. InFlightInv'
  BY InFlightKept DEF IInv, TypeOK, InFlightInv, StartLoad, kernelVars,
     clientVars, Flipping, Loading, Exposed
<1>3. ImageInv'
  BY DEF IInv, TypeOK, ControlInv, InFlightInv, ImageInv, StartLoad,
     kernelVars, clientVars, Flipping, RoundOpen, Loading, LoadFrom, Other,
     Exposed
<1>4. ProgressInv'
  <2>1. ~RoundOpen'
    BY DEF StartLoad, RoundOpen, clientVars
  <2>2. cpos' = 0
    BY DEF StartLoad
  <2>3. \A g \in Grains : ~(g < 0)
    BY GrainFacts
  <2> QED
    BY <2>1, <2>2, <2>3 DEF ProgressInv
<1>5. LostOnlyIfRaced'
  BY DEF IInv, TypeOK, LostOnlyIfRaced, Tracked, StartLoad, kernelVars,
     clientVars, Flipping
<1>6. QED
  BY <1>1, <1>2, <1>3, <1>4, <1>5 DEF IInv

\* One word is copied: a mark behind cpos is in ubits.
LEMMA StepCopyWord == ASSUME IInv, TypeOK', CopyWord PROVE IInv'
<1>1. ControlInv'
  BY DEF IInv, TypeOK, ControlInv, CopyWord, kernelVars, clientVars,
     historyVars, Flipping, RoundOpen, Loading, HalfOf
<1>2. InFlightInv'
  BY InFlightKept DEF IInv, TypeOK, ControlInv, InFlightInv, CopyWord,
     kernelVars, clientVars, historyVars, Flipping, Loading
<1>3. ImageInv'
  BY DEF IInv, TypeOK, ControlInv, InFlightInv, ImageInv, CopyWord,
     kernelVars, clientVars, historyVars, Flipping, RoundOpen, Loading, HalfOf
<1>4. ProgressInv'
  <2>1. ~RoundOpen'
    BY DEF IInv, ControlInv, CopyWord, RoundOpen, Loading, clientVars
  <2>2. ASSUME spc = "copy", Flipping,
               NEW g \in Grains, g \notin raced, g \notin half[1 - area],
               g < cpos'
        PROVE  g \in ubits' \/ tgt[g] = src[g]
    <3>1. CASE g < cpos
      BY <2>2, <3>1 DEF IInv, ProgressInv, CopyWord
    <3>2. CASE ~(g < cpos)
      <4>1. g \in cpos .. cpos + WordBits - 1
        BY <2>2, <3>2, GrainFacts DEF IInv, TypeOK, CopyWord
      <4>2. HalfOf(user) = area
        BY <2>2 DEF IInv, ControlInv
      <4>3. tgt[g] = src[g] \/ g \in half[area]
        BY <2>2, TrackedHalves DEF IInv, LostOnlyIfRaced, Flipping
      <4> QED
        BY <4>1, <4>2, <4>3 DEF CopyWord
    <3> QED
      BY <3>1, <3>2
  <2> QED
    BY <2>1, <2>2
       DEF ProgressInv, CopyWord, Loading, Flipping, kernelVars, historyVars,
           clientVars
<1>5. LostOnlyIfRaced'
  BY DEF IInv, TypeOK, LostOnlyIfRaced, Tracked, CopyWord, kernelVars,
     clientVars, historyVars, Flipping
<1>6. QED
  BY <1>1, <1>2, <1>3, <1>4, <1>5 DEF IInv

\* The copied half becomes the inactive one and the round is open.
LEMMA StepFlip == ASSUME IInv, TypeOK', Flip PROVE IInv'
<1>1. ControlInv'
  BY FlipAreas DEF IInv, ControlInv, Flip, clientVars
<1>2. InFlightInv'
  BY InFlightKept DEF IInv, InFlightInv, Flip, historyVars, Flipping, Loading
<1>3. ImageInv'
  BY DEF IInv, ControlInv, ImageInv, Flip, clientVars, historyVars,
     Flipping, RoundOpen, Loading
<1>4. ProgressInv'
  <2>1. ASSUME Flipping, NEW g \in Grains, g \notin raced, g \notin half[area']
        PROVE  g \in ubits \/ tgt[g] = src[g]
    <3>1. area' = 1 - area
      BY FlipAreas
    <3>2. cpos \in Nat /\ cpos >= NumBits
      BY DEF IInv, TypeOK, Flip
    <3>3. g < cpos
      BY <3>2, GrainFacts
    <3> QED
      BY <2>1, <3>1, <3>3 DEF IInv, ProgressInv, Flip
  <2> QED
    BY <2>1 DEF ProgressInv, Flip, Flipping, clientVars, historyVars
<1>5. LostOnlyIfRaced'
  BY DEF IInv, LostOnlyIfRaced, Tracked, Flipping, Flip, historyVars
<1>6. QED
  BY <1>1, <1>2, <1>3, <1>4, <1>5 DEF IInv

\* A load that does not flip: the guarantees are void from here on.
LEMMA StepKeepArea == ASSUME IInv, TypeOK', KeepArea PROVE IInv'
<1>1. ~Flipping'
  BY DEF IInv, ControlInv, KeepArea, historyVars, Flipping
<1>2. ControlInv'
  BY <1>1 DEF IInv, ControlInv, KeepArea, kernelVars, clientVars
<1>3. InFlightInv'
  BY <1>1, InFlightKept DEF IInv, InFlightInv, KeepArea, historyVars, Loading
<1>4. ImageInv'
  BY <1>1 DEF IInv, ImageInv, KeepArea, historyVars, Loading
<1>5. ProgressInv'
  BY <1>1 DEF ProgressInv
<1>6. LostOnlyIfRaced'
  BY <1>1 DEF LostOnlyIfRaced, Flipping
<1>7. QED
  BY <1>2, <1>3, <1>4, <1>5, <1>6 DEF IInv

\* What was in ubits is now in cbits.
LEMMA StepSendBitmap == ASSUME IInv, TypeOK', SendBitmap PROVE IInv'
<1>1. ControlInv'
  BY DEF IInv, TypeOK, ControlInv, SendBitmap, kernelVars, historyVars,
     Flipping, RoundOpen, Loading
<1>2. InFlightInv'
  BY InFlightKept DEF IInv, TypeOK, ControlInv, InFlightInv, SendBitmap,
     kernelVars, historyVars, Flipping, Loading
<1>3. ImageInv'
  BY DEF IInv, TypeOK, ControlInv, InFlightInv, ImageInv, SendBitmap,
     kernelVars, historyVars, Flipping, RoundOpen, Loading
<1>4. ProgressInv'
  BY DEF IInv, TypeOK, ControlInv, ProgressInv, SendBitmap, kernelVars,
     historyVars, Flipping, RoundOpen, Loading
<1>5. LostOnlyIfRaced'
  BY DEF IInv, TypeOK, LostOnlyIfRaced, Tracked, SendBitmap, kernelVars,
     historyVars, Flipping
<1>6. QED
  BY <1>1, <1>2, <1>3, <1>4, <1>5 DEF IInv

\* The round is over: what the cleared half tracked is up to date.
LEMMA StepTerminate == ASSUME IInv, TypeOK', Terminate PROVE IInv'
<1>1. ControlInv'
  BY DEF IInv, TypeOK, ControlInv, Terminate, historyVars, Flipping,
     RoundOpen, Loading, Other, HalfOf, Users
<1>2. InFlightInv'
  <2> QED
  BY TerminateKeeps, InFlightKept DEF IInv, TypeOK, InFlightInv, Terminate,
     historyVars, Flipping, Loading
<1>3. ImageInv'
  BY DEF IInv, TypeOK, ControlInv, InFlightInv, ImageInv, Terminate,
     historyVars, Flipping, RoundOpen, Loading, Other, HalfOf, Users
<1>4. ProgressInv'
  BY DEF IInv, TypeOK, ControlInv, ProgressInv, Terminate, historyVars,
     Flipping, RoundOpen, Loading, Other, HalfOf, Users
<1>5. LostOnlyIfRaced'
  <2>1. ASSUME Flipping, NEW g \in Grains, g \notin raced, g \notin half[area]
        PROVE tgt[g] = src[g]
    BY <2>1 DEF IInv, ControlInv, ProgressInv, Terminate, RoundOpen
  <2> QED
    BY TerminateKeeps, <2>1 DEF IInv, TypeOK, LostOnlyIfRaced, Tracked,
       Terminate, Flipping, historyVars
<1>6. QED
  BY <1>1, <1>2, <1>3, <1>4, <1>5 DEF IInv

\* A new request abandons a bitmap that was not used.
LEMMA StepRequestMetadata == ASSUME IInv, TypeOK', RequestMetadata PROVE IInv'
<1>1. ControlInv'
  BY DEF IInv, TypeOK, ControlInv, RequestMetadata, kernelVars, serverVars,
     Flipping, RoundOpen, Loading
<1>2. InFlightInv'
  BY InFlightKept DEF IInv, TypeOK, ControlInv, InFlightInv, RequestMetadata,
     kernelVars, serverVars, Flipping, Loading
<1>3. ImageInv'
  BY DEF IInv, TypeOK, ControlInv, InFlightInv, ImageInv, RequestMetadata,
     kernelVars, serverVars, Flipping, RoundOpen, Loading
<1>4. ProgressInv'
  BY DEF IInv, TypeOK, ControlInv, ProgressInv, RequestMetadata, kernelVars,
     serverVars, Flipping, RoundOpen, Loading
<1>5. LostOnlyIfRaced'
  BY DEF IInv, TypeOK, LostOnlyIfRaced, Tracked, RequestMetadata, kernelVars,
     serverVars, Flipping
<1>6. QED
  BY <1>1, <1>2, <1>3, <1>4, <1>5 DEF IInv

\* All of the bitmap is ahead of the scan.
LEMMA StepStartResync == ASSUME IInv, TypeOK', StartResync PROVE IInv'
<1>1. ControlInv'
  <2>1. last' <= bit_pos'
    BY DEF IInv, ControlInv, StartResync
  <2> QED
    BY <2>1 DEF IInv, ControlInv, StartResync, kernelVars, serverVars,
       historyVars, Flipping, RoundOpen, Loading
<1>2. InFlightInv'
  BY InFlightKept DEF IInv, TypeOK, ControlInv, InFlightInv, StartResync,
     kernelVars, serverVars, historyVars, Flipping, Loading
<1>3. ImageInv'
  BY DEF IInv, TypeOK, ControlInv, InFlightInv, ImageInv, StartResync,
     kernelVars, serverVars, historyVars, Flipping, RoundOpen, Loading
<1>4. ProgressInv'
  <2>1. \A g \in Grains : 0 <= g
    BY GrainFacts
  <2> QED
    BY <2>1 DEF IInv, ControlInv, ProgressInv, StartResync, kernelVars,
       serverVars, historyVars, Flipping, RoundOpen, Loading
<1>5. LostOnlyIfRaced'
  BY DEF IInv, TypeOK, LostOnlyIfRaced, Tracked, StartResync, kernelVars,
     serverVars, historyVars, Flipping
<1>6. QED
  BY <1>1, <1>2, <1>3, <1>4, <1>5 DEF IInv

\* The grain the scan leaves behind is up to date.
LEMMA StepScanBit == ASSUME IInv, TypeOK', ScanBit PROVE IInv'
<1>1. ControlInv'
  <2>1. last' <= bit_pos'
    BY GrainFacts DEF IInv, TypeOK, ScanBit
  <2> QED
    BY <2>1 DEF IInv, ControlInv, ScanBit, kernelVars, serverVars,
       historyVars, Flipping, RoundOpen, Loading
<1>2. InFlightInv'
  BY InFlightKept DEF IInv, TypeOK, ControlInv, InFlightInv, ScanBit,
     kernelVars, serverVars, historyVars, Flipping, Loading
<1>3. ImageInv'
  BY DEF IInv, TypeOK, ControlInv, InFlightInv, ImageInv, ScanBit, kernelVars,
     serverVars, historyVars, Flipping, RoundOpen, Loading, Image
<1>4. ProgressInv'
  <2>1. ASSUME Flipping, NEW g \in Grains, g \notin raced, g \notin half[area]
        PROVE  tgt'[g] = src[g] \/ (g \in cbits /\ bit_pos' <= g)
    <3>1. tgt[g] = src[g] \/ (g \in cbits /\ bit_pos <= g)
      BY <2>1 DEF IInv, ControlInv, ProgressInv, ScanBit, RoundOpen
    <3>2. bit_pos <= g /\ g # bit_pos => bit_pos' <= g
      BY GrainFacts DEF IInv, TypeOK, ScanBit
    <3> QED
      BY <2>1, <3>1, <3>2, ScanBitCopy, ScanBitImage
  <2> QED
    BY <2>1 DEF IInv, ControlInv, ProgressInv, ScanBit, kernelVars,
       serverVars, historyVars, Flipping, RoundOpen, Loading
<1>5. LostOnlyIfRaced'
  <2>1. ASSUME Flipping, NEW g \in Grains, g \notin raced, g \notin Tracked
        PROVE  tgt'[g] = src[g]
    BY <2>1, ScanBitCopy, ScanBitImage DEF IInv, TypeOK, LostOnlyIfRaced,
       Flipping, Tracked
  <2> QED
    BY <2>1 DEF LostOnlyIfRaced, ScanBit, kernelVars, historyVars, Flipping,
       Tracked
<1>6. QED
  BY <1>1, <1>2, <1>3, <1>4, <1>5 DEF IInv

\* Nothing is ahead of the scan any more.
LEMMA StepScanDone == ASSUME IInv, TypeOK', ScanDone PROVE IInv'
<1>1. ControlInv'
  BY DEF IInv, TypeOK, ControlInv, ScanDone, kernelVars, serverVars,
     historyVars, Flipping, RoundOpen, Loading
<1>2. InFlightInv'
  BY InFlightKept DEF IInv, TypeOK, ControlInv, InFlightInv, ScanDone,
     kernelVars, serverVars, historyVars, Flipping, Loading
<1>3. ImageInv'
  BY DEF IInv, TypeOK, ControlInv, InFlightInv, ImageInv, ScanDone,
     kernelVars, serverVars, historyVars, Flipping, RoundOpen, Loading
<1>4. ProgressInv'
  <2>1. \A g \in Grains : ~(bit_pos <= g)
    BY GrainFacts DEF IInv, TypeOK, ScanDone
  <2> QED
    BY <2>1 DEF IInv, ControlInv, ProgressInv, ScanDone, kernelVars,
       serverVars, historyVars, Flipping, RoundOpen, Loading
<1>5. LostOnlyIfRaced'
  BY DEF IInv, TypeOK, LostOnlyIfRaced, Tracked, ScanDone, kernelVars,
     serverVars, historyVars, Flipping
<1>6. QED
  BY <1>1, <1>2, <1>3, <1>4, <1>5 DEF IInv

\* Losing the connection changes nothing the invariant reads.
LEMMA StepLoseConnection == ASSUME IInv, TypeOK', LoseConnection PROVE IInv'
<1>1. ControlInv'
  BY DEF IInv, TypeOK, ControlInv, LoseConnection, kernelVars, historyVars,
     Flipping, RoundOpen, Loading
<1>2. InFlightInv'
  BY InFlightKept DEF IInv, TypeOK, ControlInv, InFlightInv, LoseConnection,
     kernelVars, historyVars, Flipping, Loading
<1>3. ImageInv'
  BY DEF IInv, TypeOK, ControlInv, InFlightInv, ImageInv, LoseConnection,
     kernelVars, historyVars, Flipping, RoundOpen, Loading
<1>4. ProgressInv'
  BY DEF IInv, TypeOK, ControlInv, ProgressInv, LoseConnection, kernelVars,
     historyVars, Flipping, RoundOpen, Loading
<1>5. LostOnlyIfRaced'
  BY DEF IInv, TypeOK, LostOnlyIfRaced, Tracked, LoseConnection, kernelVars,
     historyVars, Flipping
<1>6. QED
  BY <1>1, <1>2, <1>3, <1>4, <1>5 DEF IInv

\* Going back to last_resynced_bit only puts more grains ahead.
LEMMA StepReconnect == ASSUME IInv, TypeOK', Reconnect PROVE IInv'
<1>1. ControlInv'
  <2>1. last' <= bit_pos'
    BY GrainFacts DEF IInv, TypeOK, Reconnect
  <2> QED
    BY <2>1 DEF IInv, ControlInv, Reconnect, kernelVars, historyVars,
       Flipping, RoundOpen, Loading
<1>2. InFlightInv'
  BY InFlightKept DEF IInv, TypeOK, ControlInv, InFlightInv, Reconnect,
     kernelVars, historyVars, Flipping, Loading
<1>3. ImageInv'
  BY DEF IInv, TypeOK, ControlInv, InFlightInv, ImageInv, Reconnect,
     kernelVars, historyVars, Flipping, RoundOpen, Loading
<1>4. ProgressInv'
  <2>1. \A g \in Grains : bit_pos <= g => last <= g
    BY GrainFacts DEF IInv, TypeOK, ControlInv, Reconnect
  <2> QED
    BY <2>1 DEF IInv, ControlInv, ProgressInv, Reconnect, kernelVars,
       historyVars, Flipping, RoundOpen, Loading
<1>5. LostOnlyIfRaced'
  BY DEF IInv, TypeOK, LostOnlyIfRaced, Tracked, Reconnect, kernelVars,
     historyVars, Flipping
<1>6. QED
  BY <1>1, <1>2, <1>3, <1>4, <1>5 DEF IInv

\* A new write is marked in the half in use, or raced.
LEMMA StepMark ==
  ASSUME IInv, TypeOK', NEW w \in Writers, NEW f \in Grains,
         NEW t \in f .. NumBits - 1, NEW m \in {t, t + 1} \cap Grains,
         Mark(w, f, t, m)
  PROVE  IInv'
<1> DEFINE R == f .. t
<1>1. R \subseteq f .. m
  BY GrainFacts
<1>2. /\ half'[area] = half[area] \cup (f .. m)
      /\ half'[1 - area] = half[1 - area]
  BY DEF IInv, TypeOK, Mark
<1>3. since' = since \cup R
  BY DEF Mark
<1>4. \A g : g \in InFlight' => g \in InFlight \/ g \in R
  BY DEF IInv, TypeOK, Mark, InFlight
<1>5. /\ Loading => raced' = raced \cup R
      /\ ~Loading => raced' = raced \ R
  BY DEF Mark
<1>6. /\ Loading' = Loading /\ Flipping' = Flipping /\ RoundOpen' = RoundOpen
      /\ RoundOpen => ~Loading
  BY DEF IInv, ControlInv, Mark, Loading, Flipping, RoundOpen, serverVars,
     clientVars
<1>7. \A g : g \notin half'[area] /\ g \notin raced' =>
               g \notin half[area] /\ g \notin raced /\ g \notin R
  BY <1>1, <1>2, <1>5
<1> HIDE DEF R
<1>11. ControlInv'
  BY <1>6 DEF IInv, ControlInv, Mark, serverVars, clientVars
<1>12. InFlightInv'
  BY <1>1, <1>2, <1>3, <1>4, <1>5, <1>6, <1>7 DEF IInv, InFlightInv, Mark
<1>13. ImageInv'
  BY <1>3, <1>5, <1>6, <1>7 DEF IInv, ImageInv, Mark, serverVars
<1>14. ProgressInv'
  BY <1>2, <1>5, <1>6, <1>7
     DEF IInv, ProgressInv, Mark, Loading, serverVars, clientVars
<1>15. LostOnlyIfRaced'
  <2>1. \A g : g \notin Tracked' /\ g \notin raced' =>
                 g \notin Tracked /\ g \notin raced
    BY <1>2, <1>7 DEF IInv, TypeOK, Tracked, Mark
  <2> QED
    BY <2>1, <1>6 DEF IInv, LostOnlyIfRaced, Flipping, Mark
<1> QED
  BY <1>11, <1>12, <1>13, <1>14, <1>15 DEF IInv

\* A write that lands was accounted for when it was marked.
LEMMA StepLand ==
  ASSUME IInv, TypeOK', NEW w \in Writers, NEW g \in Grains, Land(w, g)
  PROVE  IInv'
<1>1. /\ g \in InFlight
      /\ \A h : h \in InFlight' => h \in InFlight
  BY DEF IInv, TypeOK, Land, InFlight
<1>2. \A h \in Grains : h # g => src'[h] = src[h]
  BY DEF IInv, TypeOK, Land
<1>3. /\ g \in since
      /\ Loading => g \in raced
      /\ Flipping => g \in raced \/ g \in half[area]
  BY <1>1 DEF IInv, InFlightInv
<1>4. Loading' = Loading /\ Flipping' = Flipping /\ RoundOpen' = RoundOpen
  BY DEF Land, Loading, Flipping, RoundOpen, serverVars, clientVars,
     historyVars
<1>11. ControlInv'
  BY <1>4 DEF IInv, ControlInv, Land, kernelVars, serverVars, clientVars
<1>12. InFlightInv'
  BY <1>1, <1>4 DEF IInv, InFlightInv, Land, kernelVars, historyVars
<1>13. ImageInv'
  BY <1>2, <1>3, <1>4 DEF IInv, ImageInv, Land, kernelVars, serverVars,
     historyVars
<1>14. ProgressInv'
  BY <1>2, <1>3, <1>4
     DEF IInv, ProgressInv, Land, Loading, kernelVars, serverVars, clientVars,
         historyVars
<1>15. LostOnlyIfRaced'
  BY ZenonT(60), <1>2, <1>3, <1>4 DEF IInv, TypeOK, LostOnlyIfRaced, Flipping, Tracked,
     Land, kernelVars, historyVars
<1> QED
  BY <1>11, <1>12, <1>13, <1>14, <1>15 DEF IInv

\* IInv is preserved by every step.
LEMMA InvStep == ASSUME IInv, [Next]_vars PROVE IInv'
<1> TypeOK'
  BY TypeStep DEF IInv
<1>1. CASE Write
  BY <1>1, StepMark, StepLand DEF Write
<1>2. CASE Server
  BY <1>2, StepSnapDisk, StepStartLoad, StepCopyWord,
     StepFlip, StepKeepArea, StepSendBitmap, StepTerminate DEF Server
<1>3. CASE Client
  BY <1>3, StepRequestMetadata, StepStartResync, StepScanBit,
     StepScanDone, StepLoseConnection, StepReconnect DEF Client
<1>4. CASE UNCHANGED vars
  <2>1. InFlight' = InFlight
    BY <1>4, InFlightKept DEF vars
  <2>2. ControlInv' /\ InFlightInv'
    BY <1>4, <2>1
       DEF IInv, ControlInv, InFlightInv, Flipping, RoundOpen, Loading,
           vars, kernelVars, serverVars, clientVars, historyVars
  <2>3. ImageInv' /\ ProgressInv' /\ LostOnlyIfRaced'
    BY <1>4
       DEF IInv, ImageInv, ProgressInv, LostOnlyIfRaced, Tracked, Flipping,
           RoundOpen, Loading, vars, kernelVars, serverVars, clientVars,
           historyVars
  <2> QED
    BY <2>2, <2>3 DEF IInv
<1>5. QED
  BY <1>1, <1>2, <1>3, <1>4 DEF Next

\* IInv holds initially.
LEMMA InvInit == Init => IInv
<1> SUFFICES ASSUME Init PROVE IInv
  OBVIOUS
<1>1. TypeOK
  BY GrainFacts, BoundsAssumption DEF Init, TypeOK, Users, Events
<1>2. InFlight = {}
  BY DEF Init, InFlight
<1>3. ControlInv /\ InFlightInv
  BY <1>2 DEF Init, ControlInv, InFlightInv, HalfOf, RoundOpen, Loading
<1>4. ImageInv /\ ProgressInv /\ LostOnlyIfRaced
  BY DEF Init, ImageInv, ProgressInv, LostOnlyIfRaced, RoundOpen, Loading
<1> QED
  BY <1>1, <1>3, <1>4 DEF IInv

\* The inductive invariant holds in every reachable state.
LEMMA Invariance == Spec => []IInv
BY InvInit, InvStep, PTL DEF Spec

\* The loss guarantee of copy-then-flip: while every load flips, a grain of
\* which the target copy is out of date has its bit in one of the halves,
\* unless its last write overlapped a load of the bitmap.
THEOREM LossGuarantee == Spec => []LostOnlyIfRaced
<1>1. IInv => LostOnlyIfRaced
  BY DEF IInv
<1>2. QED
  BY <1>1, Invariance, PTL

\* While every load flips, no step takes a mark out of the half the kernel
\* is writing: terminate clears the other one.
THEOREM ActiveHalf == Spec => ActiveHalfKept
<1>1. ASSUME IInv, [Next]_vars, Flipping PROVE half[area] \subseteq half'[area]
  <2>1. CASE Write
    <3>1. ASSUME NEW w \in Writers, NEW f, NEW t, NEW m, Mark(w, f, t, m)
          PROVE  half[area] \subseteq half'[area]
      BY <1>1, <3>1 DEF IInv, TypeOK, Mark
    <3>2. ASSUME NEW w \in Writers, NEW g, Land(w, g)
          PROVE  half[area] \subseteq half'[area]
      BY <3>2 DEF Land, kernelVars
    <3> QED
      BY <2>1, <3>1, <3>2 DEF Write
  <2>2. CASE Server
    BY <1>1, <2>2, TerminateKeeps
       DEF Server, SnapDisk, StartLoad, CopyWord, Flip, KeepArea, SendBitmap,
           kernelVars
  <2>3. CASE Client
    BY <2>3 DEF Client, RequestMetadata, StartResync, ScanBit, ScanDone,
                LoseConnection, Reconnect, kernelVars
  <2>4. CASE UNCHANGED vars
    BY <2>4 DEF vars, kernelVars
  <2> QED
    BY <1>1, <2>1, <2>2, <2>3, <2>4 DEF Next
<1>2. IInv /\ [Next]_vars =>
        [Flipping => half[area] \subseteq half'[area]]_vars
  BY <1>1 DEF Flipping
<1>3. QED
  BY <1>2, Invariance, PTL DEF Spec, ActiveHalfKept

-----------------------------------------------------------------------------
(* RoundInv is inductive with IInv: one lemma per part, one step per action. *)

\* The kernel variables and everything the history keeps of them.
LEMMA OtherHalfKept ==
  ASSUME IInv, NEW w \in Writers, NEW f \in Grains,
         NEW t \in f .. NumBits - 1, NEW m \in {t, t + 1} \cap Grains,
         Mark(w, f, t, m)
  PROVE  /\ half[area] \subseteq half'[area]
         /\ half'[1 - area] = half[1 - area]
         /\ area' = area
BY DEF IInv, TypeOK, Mark

\* Where a grain lies, seen from the copy loop and from the resync loop.
LEMMA GrainOrder ==
  ASSUME IInv, NEW g \in Grains
  PROVE  /\ 0 <= g
         /\ cpos >= NumBits => g < cpos
         /\ bit_pos >= NumBits => ~(bit_pos <= g)
         /\ bit_pos <= g /\ g # bit_pos => bit_pos + 1 <= g
         /\ cpc = "down" /\ bit_pos <= g => last <= g
<1>1. g \in Nat /\ g < NumBits /\ NumBits \in Nat
  BY GrainFacts
<1>2. cpos \in Nat /\ bit_pos \in Nat /\ last \in Nat
  BY GrainFacts DEF IInv, TypeOK
<1>3. cpc = "down" => last <= bit_pos
  BY DEF IInv, ControlInv
<1> QED
  BY <1>1, <1>2, <1>3

\* The other half of the other half is the half in use.
LEMMA HalfIndex ==
  ASSUME IInv PROVE area \in {0, 1} /\ 1 - area \in {0, 1} /\ 1 - (1 - area) = area
BY DEF IInv, TypeOK

\* No copy takes the target ahead of what it is copied from.
LEMMA VersionStep ==
  ASSUME IInv, VersionInv, [Next]_vars PROVE VersionInv'
<1> USE DEF VersionInv
<1>1. ASSUME NEW w \in Writers, NEW f \in Grains, NEW t \in f .. NumBits - 1,
             NEW m \in {t, t + 1} \cap Grains, Mark(w, f, t, m)
      PROVE  VersionInv'
  BY <1>1 DEF Mark
<1>2. ASSUME NEW w \in Writers, NEW g \in Grains, Land(w, g) PROVE VersionInv'
  BY <1>2 DEF IInv, TypeOK, Land
<1>3. CASE SnapDisk
  <2>1. \A g \in Grains : src[g] <= src[g]
    BY DEF IInv, TypeOK
  <2> QED
    BY <1>3, <2>1 DEF SnapDisk
<1>4. CASE ScanBit
  <2>1. bit_pos \in Grains
    BY <1>4, GrainFacts DEF IInv, TypeOK, ScanBit
  <2>2. \A g \in Grains : tgt'[g] = tgt[g] \/ tgt'[g] = Image(g)
    BY <1>4, ScanBitCopy
  <2>3. \A g \in Grains : Image(g) <= src[g] /\ (Source = "snapshot" => Image(g) <= img[g])
    BY SourceAssumption DEF IInv, TypeOK, Image
  <2> QED
    BY <1>4, <2>2, <2>3 DEF ScanBit
<1>5. CASE \/ StartLoad \/ CopyWord \/ Flip \/ KeepArea \/ SendBitmap
           \/ Terminate \/ RequestMetadata \/ StartResync \/ ScanDone
           \/ LoseConnection \/ Reconnect \/ UNCHANGED vars
  BY <1>5 DEF StartLoad, CopyWord, Flip, KeepArea, SendBitmap, Terminate,
              RequestMetadata, StartResync, ScanDone, LoseConnection,
              Reconnect, vars
<1> QED
  BY <1>1, <1>2, <1>3, <1>4, <1>5 DEF Next, Write, Server, Client

\* A mark a load took is not cleared before the end of its round.
LEMMA TakenStep ==
  ASSUME IInv, TakenInv, [Next]_vars PROVE TakenInv'
<1> USE DEF TakenInv, RoundOpen, Flipping
<1>1. ASSUME NEW w \in Writers, NEW f \in Grains, NEW t \in f .. NumBits - 1,
             NEW m \in {t, t + 1} \cap Grains, Mark(w, f, t, m)
      PROVE  TakenInv'
  BY <1>1, OtherHalfKept DEF IInv, Mark, serverVars, clientVars
<1>2. ASSUME NEW w \in Writers, NEW g \in Grains, Land(w, g) PROVE TakenInv'
  BY <1>2 DEF Land, kernelVars, serverVars, clientVars, historyVars
<1>3. CASE SnapDisk
  BY <1>3 DEF SnapDisk, kernelVars, clientVars
<1>4. CASE StartLoad
  BY <1>4 DEF StartLoad, kernelVars, clientVars
<1>5. CASE CopyWord
  BY <1>5 DEF IInv, ControlInv, CopyWord, kernelVars, clientVars, historyVars,
              Loading
<1>6. CASE Flip
  <2>1. area' = 1 - area /\ area = 1 - area'
    BY <1>6, FlipAreas, HalfIndex
  <2> QED
    BY <1>6, <2>1 DEF IInv, ControlInv, Flip, clientVars, historyVars
<1>7. CASE KeepArea
  BY <1>7 DEF IInv, ControlInv, KeepArea, kernelVars, clientVars, historyVars
<1>8. CASE SendBitmap
  BY <1>8 DEF SendBitmap, kernelVars, historyVars
<1>9. CASE Terminate
  BY <1>9 DEF IInv, ControlInv, Terminate, historyVars
<1>10. CASE RequestMetadata
  BY <1>10 DEF IInv, ControlInv, RequestMetadata, kernelVars, serverVars
<1>11. CASE StartResync \/ ScanBit \/ ScanDone \/ LoseConnection \/ Reconnect
  BY <1>11 DEF IInv, ControlInv, StartResync, ScanBit, ScanDone,
               LoseConnection, Reconnect, kernelVars, serverVars, historyVars
<1>12. CASE UNCHANGED vars
  BY <1>12 DEF vars, kernelVars, serverVars, clientVars, historyVars
<1> QED
  BY <1>1, <1>2, <1>3, <1>4, <1>5, <1>6, <1>7, <1>8, <1>9, <1>10, <1>11, <1>12
     DEF Next, Write, Server, Client

\* Between rounds the other half is empty.
LEMMA OrderStep ==
  ASSUME IInv, TakenInv, OrderInv, [Next]_vars PROVE OrderInv'
<1> USE DEF OrderInv, AtOldHalf, InOrder, Unraced, Flipping
<1>1. ASSUME NEW w \in Writers, NEW f \in Grains, NEW t \in f .. NumBits - 1,
             NEW m \in {t, t + 1} \cap Grains, Mark(w, f, t, m)
      PROVE  OrderInv'
  BY <1>1, OtherHalfKept DEF Mark, serverVars, clientVars
<1>2. ASSUME NEW w \in Writers, NEW g \in Grains, Land(w, g) PROVE OrderInv'
  BY <1>2 DEF Land, kernelVars, serverVars, clientVars, historyVars
<1>3. CASE SnapDisk
  BY <1>3 DEF SnapDisk, kernelVars, clientVars
<1>4. CASE StartLoad
  BY <1>4 DEF IInv, ControlInv, StartLoad, kernelVars, clientVars
<1>5. CASE CopyWord
  BY <1>5 DEF CopyWord, kernelVars, clientVars, historyVars
<1>6. CASE Flip
  BY <1>6 DEF IInv, ControlInv, Flip, clientVars, historyVars
<1>7. CASE KeepArea
  BY <1>7 DEF IInv, ControlInv, KeepArea, kernelVars, clientVars, historyVars
<1>8. CASE SendBitmap
  BY <1>8 DEF IInv, ControlInv, SendBitmap, kernelVars, historyVars
<1>9. CASE Terminate
  <2>1. partner = "IN_USE"
    BY <1>9 DEF TakenInv, RoundOpen, Terminate
  <2>2. Flipping => HalfOf(Other(uuser)) = 1 - area
    BY <1>9, TheOtherHalf DEF IInv, TypeOK, ControlInv, RoundOpen, Terminate
  <2>3. Flipping => half'[1 - area] = {}
    BY <1>9, <2>1, <2>2, HalfIndex DEF IInv, TypeOK, Terminate
  <2> QED
    BY <1>9, <2>3 DEF Terminate, historyVars
<1>10. CASE RequestMetadata
  BY <1>10 DEF IInv, ControlInv, RequestMetadata, kernelVars, serverVars
<1>11. CASE StartResync \/ ScanBit \/ ScanDone \/ LoseConnection \/ Reconnect
  BY <1>11 DEF StartResync, ScanBit, ScanDone,
               LoseConnection, Reconnect, kernelVars, serverVars, historyVars
<1>12. CASE UNCHANGED vars
  BY <1>12 DEF vars, kernelVars, serverVars, clientVars, historyVars
<1> QED
  BY <1>1, <1>2, <1>3, <1>4, <1>5, <1>6, <1>7, <1>8, <1>9, <1>10, <1>11, <1>12
     DEF Next, Write, Server, Client

\* A round in order copies the snapshot.
LEMMA SnapshotStep ==
  ASSUME IInv, TypeOK', TakenInv, OrderInv, SnapshotInv, [Next]_vars
  PROVE  SnapshotInv'
<1> USE DEF SnapshotInv, RoundOpen, InOrder, Unraced, Flipping
<1>1. ASSUME NEW w \in Writers, NEW f \in Grains, NEW t \in f .. NumBits - 1,
             NEW m \in {t, t + 1} \cap Grains, Mark(w, f, t, m)
      PROVE  SnapshotInv'
  BY <1>1 DEF Mark, serverVars, clientVars
<1>2. ASSUME NEW w \in Writers, NEW g \in Grains, Land(w, g) PROVE SnapshotInv'
  BY <1>2 DEF Land, kernelVars, serverVars, clientVars, historyVars
<1>3. CASE SnapDisk
  BY <1>3 DEF SnapDisk, Events
<1>4. CASE StartLoad
  BY <1>4 DEF StartLoad, clientVars
<1>5. CASE CopyWord
  BY <1>5 DEF IInv, ControlInv, CopyWord, Loading, clientVars, historyVars
<1>6. CASE Flip
  <2>1. ASSUME Source = "snapshot", InOrder, Unraced, Flipping,
               NEW g \in Grains
        PROVE  tgt[g] = img[g] \/ g \in ubits
    <3>1. cpc = "wait" /\ spc = "copy" /\ disk_fd = "open" /\ raced = {}
      BY <1>6, <2>1 DEF IInv, ControlInv, OrderInv, Flip
    <3>2. half[1 - area] = {}
      BY <2>1, <3>1 DEF OrderInv, AtOldHalf
    <3>3. img[g] = src[g]
      BY <2>1, <3>1 DEF IInv, ImageInv, Loading
    <3>4. g < cpos
      BY <1>6, GrainOrder DEF Flip
    <3> QED
      BY <2>1, <3>1, <3>2, <3>3, <3>4 DEF IInv, ProgressInv
  <2> QED
    BY <1>6, <2>1 DEF IInv, ControlInv, Flip, clientVars, historyVars
<1>7. CASE KeepArea
  BY <1>7 DEF IInv, ControlInv, KeepArea, historyVars
<1>8. CASE SendBitmap
  BY <1>8 DEF IInv, ControlInv, SendBitmap, historyVars
<1>9. CASE Terminate
  BY <1>9 DEF IInv, ControlInv, Terminate, historyVars
<1>10. CASE RequestMetadata
  BY <1>10 DEF IInv, ControlInv, RequestMetadata, serverVars
<1>11. CASE StartResync
  BY <1>11, GrainOrder
     DEF IInv, ControlInv, StartResync, serverVars, historyVars
<1>12. CASE ScanBit
  <2>2. Source = "snapshot" => \A g \in Grains : Image(g) = img[g]
    BY DEF Image
  <2> QED
    BY <1>12, <2>2, GrainOrder, ScanBitCopy
       DEF IInv, ControlInv, ScanBit, serverVars, historyVars
<1>13. CASE ScanDone
  BY <1>13, GrainOrder DEF IInv, ControlInv, ScanDone, serverVars, historyVars
<1>14. CASE LoseConnection
  BY <1>14 DEF LoseConnection, historyVars
<1>15. CASE Reconnect
  BY <1>15, GrainOrder DEF Reconnect, historyVars
<1>16. CASE UNCHANGED vars
  BY <1>16 DEF vars, serverVars, clientVars, historyVars
<1> QED
  BY <1>1, <1>2, <1>3, <1>4, <1>5, <1>6, <1>7, <1>8, <1>9, <1>10, <1>11,
     <1>12, <1>13, <1>14, <1>15, <1>16 DEF Next, Write, Server, Client

\* RoundInv holds in every reachable state.
LEMMA RoundInvariance == Spec => []RoundInv
<1>1. Init => RoundInv
  <2> SUFFICES ASSUME Init PROVE RoundInv
    OBVIOUS
  <2>1. VersionInv /\ TakenInv
    BY DEF Init, VersionInv, TakenInv, RoundOpen
  <2>2. OrderInv /\ SnapshotInv
    BY DEF Init, OrderInv, SnapshotInv, RoundOpen, InOrder
  <2> QED
    BY <2>1, <2>2 DEF RoundInv
<1>2. IInv /\ RoundInv /\ [Next]_vars => RoundInv'
  BY TypeStep, VersionStep, TakenStep, OrderStep, SnapshotStep
     DEF RoundInv, IInv
<1> QED
  BY <1>1, <1>2, Invariance, PTL DEF Spec

\* A round run in the documented order, without a race, leaves the target
\* equal to the snapshot, whatever is written during the resync and however
\* often its connection is lost.
THEOREM SnapshotGuarantee == Spec => []PointInTime
<1>1. IInv /\ RoundInv => PointInTime
  <2> SUFFICES ASSUME IInv, RoundInv, cpc = "term", Source = "snapshot",
                      "in order" \in events,
                      events \cap {"race", "no flip"} = {}
               PROVE  tgt = img
    BY DEF PointInTime
  <2>1. \A g \in Grains : tgt[g] = img[g]
    BY DEF IInv, ControlInv, RoundInv, SnapshotInv, InOrder, Unraced,
           Flipping, RoundOpen
  <2>2. tgt = [g \in Grains |-> tgt[g]] /\ img = [g \in Grains |-> img[g]]
    BY DEF IInv, TypeOK
  <2> QED
    BY <2>1, <2>2
<1>2. QED
  BY <1>1, Invariance, RoundInvariance, PTL

-----------------------------------------------------------------------------
(* DirtyTracking implements Mirror.                                        *)

\* Only grains are marked.
LEMMA TrackedTypes == TypeOK => Tracked \subseteq Grains
BY DEF TypeOK, Tracked

\* A write is accepted when its grains are marked.
LEMMA MarkAccepts ==
  ASSUME IInv, NEW w \in Writers, NEW f \in Grains,
         NEW t \in f .. NumBits - 1, NEW m \in {t, t + 1} \cap Grains,
         Mark(w, f, t, m)
  PROVE  Promise!Accept
<1>1. /\ (f .. t) \subseteq f .. m
      /\ (f .. m) \subseteq Grains
  BY GrainFacts
<1>2. Tracked' = Tracked \cup (f .. m)
  BY DEF IInv, TypeOK, Mark, Tracked
<1>3. Flipping' = Flipping
  BY DEF Mark, Flipping
<1> DEFINE E == IF Flipping THEN raced ELSE Grains
<1>4. E' \in {E \cup (f .. t), E \ (f .. t)}
  <2>1. CASE Flipping
    BY <1>3, <2>1 DEF Mark
  <2>2. CASE ~Flipping
    BY <1>1, <1>3, <2>2
  <2> QED
    BY <2>1, <2>2
<1>5. src' = src /\ tgt' = tgt
  BY DEF Mark
<1> QED
  BY <1>1, <1>2, <1>4, <1>5 DEF Promise!Accept

\* A write lands on a grain that is owed or excused.
LEMMA LandLands ==
  ASSUME IInv, NEW w \in Writers, NEW g \in Grains, Land(w, g)
  PROVE  Promise!Land
<1>1. g \in InFlight
  BY DEF IInv, TypeOK, Land, InFlight
<1>2. Flipping => g \in raced \/ g \in Tracked
  BY <1>1 DEF IInv, TypeOK, InFlightInv, Tracked
<1>3. /\ src' = [src EXCEPT ![g] = @ + 1]
      /\ tgt' = tgt /\ Tracked' = Tracked /\ raced' = raced
      /\ Flipping' = Flipping
  BY DEF Land, Tracked, Flipping, kernelVars, historyVars
<1> QED
  BY <1>2, <1>3 DEF Promise!Land

\* A load excuses the grains it may miss.
LEMMA StartLoadExcuses == ASSUME IInv, TypeOK', StartLoad PROVE Promise!Excuse
<1>1. /\ src' = src /\ tgt' = tgt /\ Tracked' = Tracked
      /\ raced \subseteq raced' /\ raced' \subseteq Grains /\ raced \subseteq Grains
      /\ Flipping' => Flipping
  BY DEF IInv, TypeOK, StartLoad, Tracked, Flipping, kernelVars
<1> QED
  BY <1>1 DEF Promise!Excuse

\* One iteration of the resync copies one grain, or does nothing.
LEMMA ScanBitCopies ==
  ASSUME IInv, RoundInv, ScanBit
  PROVE  Promise!Copy \/ UNCHANGED Promise!vars
<1>1. /\ src' = src /\ Tracked' = Tracked /\ raced' = raced
      /\ Flipping' = Flipping
  BY DEF ScanBit, Tracked, Flipping, kernelVars, historyVars
<1>2. CASE bit_pos \notin cbits
  BY <1>1, <1>2 DEF ScanBit, Promise!vars
<1>3. CASE bit_pos \in cbits
  <2>1. bit_pos \in Grains
    BY <1>3 DEF IInv, TypeOK
  <2>2. Flipping => bit_pos \in Tracked
    BY <1>3, TrackedHalves DEF IInv, RoundInv, TakenInv, ScanBit
  <2>3. Image(bit_pos) \in tgt[bit_pos] .. src[bit_pos]
    BY <2>1, SourceAssumption DEF IInv, TypeOK, RoundInv, VersionInv, Image
  <2>4. tgt' = [tgt EXCEPT ![bit_pos] = Image(bit_pos)]
    BY <1>3 DEF ScanBit
  <2> QED
    BY <1>1, <2>1, <2>2, <2>3, <2>4 DEF Promise!Copy
<1> QED
  BY <1>2, <1>3

\* terminate settles what the round copied.
LEMMA TerminateSettles == ASSUME IInv, TypeOK', Terminate PROVE Promise!Settle
<1>1. src' = src /\ tgt' = tgt /\ raced' = raced /\ Flipping' = Flipping
  BY DEF Terminate, Flipping, historyVars
<1>2. Tracked' \subseteq Tracked
  BY TheOtherHalf DEF IInv, TypeOK, Terminate, Tracked
<1>3. ASSUME Flipping, NEW g \in Tracked \ Tracked', g \notin raced
      PROVE  tgt[g] = src[g]
  <2>1. g \in Grains
    BY <1>3, TrackedTypes DEF IInv
  <2>2. g \notin half[area]
    BY <1>3, TerminateKeeps DEF IInv, TypeOK, Tracked
  <2> QED
    BY <1>3, <2>1, <2>2 DEF IInv, ControlInv, ProgressInv, Terminate, RoundOpen
<1>4. Tracked \subseteq Grains
  BY TrackedTypes DEF IInv
<1> QED
  BY <1>1, <1>2, <1>3, <1>4 DEF Promise!Settle

\* The other steps do not show.
LEMMA HiddenSteps ==
  ASSUME IInv,
         \/ SnapDisk \/ CopyWord \/ Flip \/ KeepArea \/ SendBitmap
         \/ RequestMetadata \/ StartResync \/ ScanDone \/ LoseConnection
         \/ Reconnect \/ UNCHANGED vars
  PROVE  UNCHANGED Promise!vars
<1>1. src' = src /\ tgt' = tgt /\ half' = half /\ raced' = raced
  BY DEF SnapDisk, CopyWord, Flip, KeepArea, SendBitmap, RequestMetadata,
         StartResync, ScanDone, LoseConnection, Reconnect, kernelVars,
         historyVars, vars
<1>2. Flipping' = Flipping
  BY DEF SnapDisk, CopyWord, Flip, KeepArea, SendBitmap, RequestMetadata,
         StartResync, ScanDone, LoseConnection, Reconnect, historyVars, vars,
         Flipping
<1> QED
  BY <1>1, <1>2 DEF Promise!vars, Tracked

\* The bitmap, the load and the resync together implement the mirror: they
\* mark before they write, copy only what is marked, never put an older
\* version on the target, and clear a mark only when its grain is copied,
\* with the exceptions the mapping of "excused" lists.
THEOREM Implements == Spec => IsMirror
<1>1. Init => Promise!Init
  BY DEF Init, Promise!Init, Tracked, Flipping
<1>2. ASSUME IInv, RoundInv, [Next]_vars
      PROVE  [Promise!Next]_(Promise!vars)
  <2>1. TypeOK'
    BY <1>2, TypeStep DEF IInv
  <2>2. CASE Write
    BY <1>2, <2>2, MarkAccepts, LandLands DEF Write, Promise!Next
  <2>3. CASE Server
    BY <1>2, <2>1, <2>3, StartLoadExcuses, TerminateSettles, HiddenSteps
       DEF Server, Promise!Next
  <2>4. CASE Client
    BY <1>2, <2>4, ScanBitCopies, HiddenSteps DEF Client, Promise!Next
  <2>5. CASE UNCHANGED vars
    BY <1>2, <2>5, HiddenSteps
  <2> QED
    BY <1>2, <2>2, <2>3, <2>4, <2>5 DEF Next
<1> QED
  BY <1>1, <1>2, Invariance, RoundInvariance, PTL
     DEF Spec, IsMirror, Promise!Spec
-----------------------------------------------------------------------------
(* Below the grain: arithmetic.                                            *)

\* Multiplication by a grain size keeps the order.
LEMMA TimesMonotone ==
  ASSUME NEW a \in Int, NEW b \in Int, NEW k \in Nat, a <= b
  PROVE  a * k <= b * k
  OBVIOUS

\* ... and can be cancelled.
LEMMA TimesCancel ==
  ASSUME NEW a \in Int, NEW b \in Int, NEW k \in Nat, a * k < b * k
  PROVE  a < b
  BY TimesMonotone

\* Every address lies in a grain.
LEMMA GrainOf ==
  ASSUME NEW s \in Nat, NEW k \in Nat \ {0}
  PROVE  \E g \in Nat : g * k <= s /\ s < (g + 1) * k
  <1>1. s \div k \in Nat
    OBVIOUS
  <1>2. s = (s \div k) * k + (s % k) /\ s % k \in 0 .. k - 1
    OBVIOUS
  <1> QED
    BY <1>1, <1>2

\* A quotient without remainder.
LEMMA ExactQuotient ==
  ASSUME NEW k \in Nat, NEW c \in Nat \ {0}
  PROVE  (k * c) \div c = k
  OBVIOUS

-----------------------------------------------------------------------------
(* The kernel's bits.                                                      *)

\* FindPos returns a bit; the address is not behind its grain unless it is
\* the last one, and not before it.
LEMMA FindPosBounds ==
  ASSUME NEW addr \in Nat
  PROVE  /\ FindPos(addr) \in Bits
         /\ FindPos(addr) = MapBits - 1 \/ addr < (FindPos(addr) + 1) * Grain
         /\ \A g \in Bits : addr < (g + 1) * Grain => FindPos(addr) <= g
  <1> DEFINE hits == {cur \in Bits : addr < (cur + 1) * Grain}
             First(cur) == cur \in hits /\ \A other \in hits : cur <= other
  <1> USE SizesAssumption
  <1>1. CASE hits = {}
    <2>1. FindPos(addr) = MapBits - 1
      BY <1>1 DEF FindPos
    <2>2. MapBits - 1 \in Bits
      BY DEF Bits
    <2> QED
      BY <1>1, <2>1, <2>2
  <1>2. CASE hits # {}
    <2>1. PICK c \in hits : TRUE
      BY <1>2
    <2>2. PICK g \in Nat : g * Grain <= addr /\ addr < (g + 1) * Grain
      BY GrainOf
    <2>3. \A x \in hits : g <= x
      <3> SUFFICES ASSUME NEW x \in hits PROVE g <= x
        OBVIOUS
      <3>1. x \in Int /\ addr < (x + 1) * Grain
        BY DEF Bits
      <3>2. g * Grain < (x + 1) * Grain
        BY <2>2, <3>1
      <3>3. g < x + 1
        BY <3>1, <3>2, TimesCancel
      <3> QED
        BY <3>1, <3>3
    <2>4. g \in hits
      <3>1. g <= c /\ c \in Bits
        BY <2>1, <2>3
      <3> QED
        BY <2>2, <3>1 DEF Bits
    <2>5. FindPos(addr) = CHOOSE cur \in hits : \A o \in hits : cur <= o
      BY <1>2 DEF FindPos
    <2>6. /\ FindPos(addr) \in hits
          /\ \A o \in hits : FindPos(addr) <= o
      BY <2>3, <2>4, <2>5
    <2> QED
      BY <2>6
  <1> QED
    BY <1>1, <1>2

\* The bits of a write are bits of the bitmap, and the grain of every sector
\* it touches is among them.
LEMMA WriteIsMarked ==
  ASSUME NEW start \in Nat, NEW len \in Nat, NEW s \in Nat,
         start <= s, s < start + len,
         NEW g \in Bits, InGrain(s, g)
  PROVE  g \in MarkRange(start, len)
  <1> USE SizesAssumption
  <1>1. g \in Int /\ g <= MapBits - 1
    BY DEF Bits
  <1>2. FindPos(start) \in Int /\ FindPos(start + len) \in Int
    BY FindPosBounds DEF Bits
  <1>3. FindPos(start) <= g
    <2>1. start < (g + 1) * Grain
      BY <1>1 DEF InGrain
    <2> QED
      BY <2>1, FindPosBounds
  <1>4. g <= FindPos(start + len)
    <2> DEFINE e == FindPos(start + len)
    <2>1. CASE e = MapBits - 1
      BY <1>1, <2>1
    <2>2. CASE start + len < (e + 1) * Grain
      <3>1. g * Grain < (e + 1) * Grain
        BY <1>1, <1>2, <2>2 DEF InGrain
      <3>2. g < e + 1
        BY <1>1, <1>2, <3>1, TimesCancel
      <3> QED
        BY <1>1, <1>2, <3>2
    <2> QED
      BY <2>1, <2>2, FindPosBounds, start + len \in Nat
  <1> QED
    BY <1>1, <1>2, <1>3, <1>4 DEF MarkRange

\* A write sets bits of the bitmap only.
LEMMA MarkRangeType ==
  ASSUME NEW start \in Nat, NEW len \in Nat
  PROVE  MarkRange(start, len) \subseteq Bits
  <1>1. FindPos(start) \in Bits /\ FindPos(start + len) \in Bits
    BY FindPosBounds
  <1> QED
    BY <1>1, SizesAssumption DEF MarkRange, Bits

\* The grain that FindPos returns does not begin behind the address.
LEMMA FindPosNotLate ==
  ASSUME NEW addr \in Nat PROVE FindPos(addr) * Grain <= addr
  <1> USE SizesAssumption
  <1>1. FindPos(addr) \in Bits /\ FindPos(addr) \in Nat
    BY FindPosBounds DEF Bits
  <1>2. CASE FindPos(addr) = 0
    BY <1>2
  <1>3. CASE FindPos(addr) # 0
    <2>1. FindPos(addr) - 1 \in Bits /\ FindPos(addr) - 1 \in Nat
      BY <1>1, <1>3 DEF Bits
    <2>2. ~(addr < ((FindPos(addr) - 1) + 1) * Grain)
      BY <1>1, <2>1, FindPosBounds
    <2>3. (FindPos(addr) - 1) + 1 = FindPos(addr)
      BY <1>1
    <2>4. ~(addr < FindPos(addr) * Grain)
      BY <2>2, <2>3
    <2> QED
      BY <1>1, <2>4
  <1> QED
    BY <1>2, <1>3

\* A bit that a write sets is that of a grain with a written sector, or of the
\* grain right behind the last one.
LEMMA MarkIsTight ==
  ASSUME NEW start \in Sectors, NEW len \in Nat \ {0},
         start + len \in 0 .. MapBits * Grain, NEW b \in MarkRange(start, len)
  PROVE  \E s \in Sectors : /\ start <= s /\ s < start + len
                            /\ b * Grain - 1 <= s /\ s < (b + 1) * Grain
  <1> USE SizesAssumption
  <1>1. start \in Nat /\ start + len \in Nat /\ start < MapBits * Grain
    BY DEF Sectors
  <1>2. /\ FindPos(start) \in Nat /\ FindPos(start + len) \in Nat
        /\ b \in Nat /\ FindPos(start) <= b /\ b <= FindPos(start + len)
    BY <1>1, FindPosBounds DEF MarkRange, Bits
  <1>3. b * Grain <= start + len
    <2>1. b * Grain <= FindPos(start + len) * Grain
      BY <1>2, TimesMonotone
    <2>2. FindPos(start + len) * Grain <= start + len
      BY <1>1, FindPosNotLate
    <2>3. b * Grain \in Int /\ FindPos(start + len) * Grain \in Int
      BY <1>2
    <2> QED
      BY <1>1, <2>1, <2>2, <2>3
  <1>4. start < (b + 1) * Grain
    <2>1. start < (FindPos(start) + 1) * Grain
      <3>1. CASE FindPos(start) = MapBits - 1
        BY <1>1, <3>1
      <3> QED
        BY <1>1, <3>1, FindPosBounds
    <2>2. (FindPos(start) + 1) * Grain <= (b + 1) * Grain
      BY <1>2, TimesMonotone
    <2>3. (FindPos(start) + 1) * Grain \in Int /\ (b + 1) * Grain \in Int
      BY <1>2
    <2> QED
      BY <1>1, <2>1, <2>2, <2>3
  <1>5. b * Grain - 1 < (b + 1) * Grain /\ b * Grain \in Int /\ (b + 1) * Grain \in Int
    BY <1>2
  <1>6. CASE start >= b * Grain - 1
    BY <1>1, <1>4, <1>5, <1>6
  <1>7. CASE start < b * Grain - 1
    <2>1. b * Grain - 1 \in Sectors
      BY <1>1, <1>3, <1>5, <1>7 DEF Sectors
    <2> QED
      BY <1>1, <1>3, <1>5, <1>7, <2>1
  <1> QED
    BY <1>1, <1>5, <1>6, <1>7

\* The bitmap stands for the whole disk.
LEMMA SectorHasBit ==
  ASSUME NEW s \in Sectors
  PROVE  s \in Nat /\ \E g \in Bits : InGrain(s, g)
  <1> USE SizesAssumption
  <1>0. s \in Nat /\ s < MapBits * Grain
    BY DEF Sectors
  <1>1. PICK g \in Nat : g * Grain <= s /\ s < (g + 1) * Grain
    BY <1>0, GrainOf
  <1>2. g * Grain < MapBits * Grain
    BY <1>0, <1>1
  <1>3. g < MapBits
    BY <1>2, TimesCancel
  <1>4. g \in Bits
    BY <1>3 DEF Bits
  <1>5. InGrain(s, g)
    BY <1>1 DEF InGrain
  <1> QED
    BY <1>0, <1>4, <1>5

-----------------------------------------------------------------------------
(* The steps.                                                              *)

\* Nothing is out of date at the start.
LEMMA InitSectorInv == SectorInit => SectorInv
  <1> SUFFICES ASSUME SectorInit PROVE SectorInv
    OBVIOUS
  <1> USE SizesAssumption, WritesAssumption DEF SectorInit
  <1>1. SectorTypeOK
    <2>1. held \in [Sectors -> Sectors \cup {OutOfDate}]
      OBVIOUS
    <2>2. bit \in 0 .. MapBits /\ chunk \in Nat /\ writes \in 0 .. MaxBios
      OBVIOUS
    <2> QED
      BY <2>1, <2>2 DEF SectorTypeOK
  <1>2. SizesInv /\ CopyInv /\ EverySectorCopied
    BY DEF SizesInv, CopyInv, EverySectorCopied
  <1> QED
    BY <1>1, <1>2 DEF SectorInv

LEMMA StepMakeRelation == SectorInv /\ MakeRelation => SectorInv'
  <1> SUFFICES ASSUME SectorInv, MakeRelation PROVE SectorInv'
    OBVIOUS
  <1>1. SectorTypeOK'
    BY SizesAssumption DEF SectorInv, SectorTypeOK, MakeRelation, Sizes
  <1>2. SizesInv'
    BY DEF SectorInv, SizesInv, MakeRelation
  <1>3. CopyInv' /\ EverySectorCopied'
    BY DEF SectorInv, CopyInv, EverySectorCopied, MakeRelation, Ahead, InGrain
  <1> QED
    BY <1>1, <1>2, <1>3 DEF SectorInv

LEMMA StepNegotiate ==
  ASSUME NEW own \in ClientSizes, SectorInv, Negotiate(own)
  PROVE  SectorInv'
  <1>1. SectorTypeOK'
    BY DEF SectorInv, SectorTypeOK, Negotiate
  <1>2. SizesInv'
    BY DEF SectorInv, SizesInv, Negotiate
  <1>3. CopyInv' /\ EverySectorCopied'
    BY DEF SectorInv, CopyInv, EverySectorCopied, Negotiate, Ahead, InGrain
  <1> QED
    BY <1>1, <1>2, <1>3 DEF SectorInv

\* A write marks the grain of every sector it makes out of date.
LEMMA StepWrite ==
  ASSUME NEW start \in Sectors, NEW len \in 1 .. MaxWrite, SectorInv,
         WriteSectors(start, len)
  PROVE  SectorInv'
  <1> USE SizesAssumption, WritesAssumption
  <1>0. start \in Nat /\ len \in Nat
    BY DEF Sectors
  <1>1. SectorTypeOK'
    <2>1. marks' \subseteq Bits
      BY <1>0, MarkRangeType DEF SectorInv, SectorTypeOK, WriteSectors
    <2>2. held' \in [Sectors -> Sectors \cup {OutOfDate}]
      BY DEF SectorInv, SectorTypeOK, WriteSectors
    <2>3. writes' \in 0 .. MaxBios
      BY DEF SectorInv, SectorTypeOK, WriteSectors
    <2> QED
      BY <2>1, <2>2, <2>3 DEF SectorInv, SectorTypeOK, WriteSectors
  <1>2. SizesInv' /\ EverySectorCopied'
    BY DEF SectorInv, SizesInv, EverySectorCopied, WriteSectors
  <1>3. CopyInv'
    <2> SUFFICES ASSUME NEW s \in Sectors, held'[s] # s PROVE Ahead(s)'
      BY DEF CopyInv
    <2>1. s \in Nat
      BY SectorHasBit
    <2>2. CASE start <= s /\ s < start + len
      <3>1. PICK g \in Bits : InGrain(s, g)
        BY SectorHasBit
      <3>2. g \in marks'
        BY <1>0, <2>1, <2>2, <3>1, WriteIsMarked DEF WriteSectors
      <3>3. bit' = 0 /\ chunk' = 0
        BY DEF SectorInv, SizesInv, WriteSectors
      <3>4. bit' < g \/ (bit' = g /\ g * Grain + chunk' * Chunk <= s)
        BY <3>1, <3>3 DEF Bits, InGrain
      <3> QED
        BY <3>1, <3>2, <3>4 DEF Ahead, InGrain
    <2>3. CASE ~(start <= s /\ s < start + len)
      <3>1. held'[s] = held[s]
        BY <2>3 DEF WriteSectors
      <3>2. Ahead(s)
        BY <3>1 DEF SectorInv, CopyInv, WriteSectors
      <3> QED
        BY <3>2 DEF Ahead, InGrain, WriteSectors
    <2> QED
      BY <2>2, <2>3
  <1> QED
    BY <1>1, <1>2, <1>3 DEF SectorInv

LEMMA StepStartTransfers == SectorInv /\ StartTransfers => SectorInv'
  <1> SUFFICES ASSUME SectorInv, StartTransfers PROVE SectorInv'
    OBVIOUS
  <1>1. SectorTypeOK'
    BY SizesAssumption DEF SectorInv, SectorTypeOK, StartTransfers
  <1>2. SizesInv' /\ EverySectorCopied'
    BY DEF SectorInv, SizesInv, EverySectorCopied, StartTransfers
  <1>3. CopyInv'
    BY DEF SectorInv, SizesInv, CopyInv, StartTransfers, Ahead, InGrain
  <1> QED
    BY <1>1, <1>2, <1>3 DEF SectorInv

\* A transfer reads and writes the same sectors, and what stays ahead of the
\* scan is ahead of the next chunk.
LEMMA StepCopyChunk == SectorInv /\ CopyChunk => SectorInv'
  <1> SUFFICES ASSUME SectorInv, CopyChunk PROVE SectorInv'
    OBVIOUS
  <1> USE SizesAssumption
  <1> DEFINE to == bit * Grain + chunk * Chunk
  <1>0. bit \in Nat /\ chunk \in Nat /\ to \in Int
    BY DEF SectorInv, SectorTypeOK
  <1>1. /\ StartLba(chdr, bit, chunk) = to
        /\ StartLba(shdr, bit, chunk) = to
    BY DEF SectorInv, SizesInv, CopyChunk, StartLba, Sizes
  <1>2. held' = [s \in Sectors |->
                  IF to <= s /\ s < to + Buf THEN to + (s - to) ELSE held[s]]
    BY <1>1 DEF CopyChunk
  <1> HIDE DEF to
  <1>3. \A s \in Sectors : s \in Int /\ to + (s - to) = s
    BY <1>0, SectorHasBit
  <1>4. held' = [s \in Sectors |->
                  IF to <= s /\ s < to + Buf THEN s ELSE held[s]]
    BY <1>2, <1>3
  <1>5. SectorTypeOK'
    <2>1. held' \in [Sectors -> Sectors \cup {OutOfDate}]
      BY <1>4 DEF SectorInv, SectorTypeOK
    <2> QED
      BY <1>0, <2>1 DEF SectorInv, SectorTypeOK, CopyChunk
  <1>6. SizesInv' /\ EverySectorCopied'
    BY DEF SectorInv, SizesInv, EverySectorCopied, CopyChunk
  <1>7. CopyInv'
    <2> SUFFICES ASSUME NEW s \in Sectors, held'[s] # s PROVE Ahead(s)'
      BY DEF CopyInv
    <2>1. ~(to <= s /\ s < to + Buf) /\ held'[s] = held[s]
      BY <1>4
    <2> Ahead(s)
      BY <2>1 DEF SectorInv, CopyInv, CopyChunk
    <2>2. PICK g \in marks :
            /\ InGrain(s, g)
            /\ \/ bit < g
               \/ bit = g /\ g * Grain + chunk * Chunk <= s
      BY DEF Ahead
    <2>3. CASE bit < g
      BY <2>2, <2>3 DEF Ahead, InGrain, CopyChunk
    <2>4. CASE bit = g /\ to <= s
      <3>1. to + Buf <= s
        BY <1>0, <1>3, <2>1, <2>4
      <3>2. to + Chunk <= s
        BY <1>0, <1>3, <3>1
      <3>3. g * Grain + (chunk + 1) * Chunk <= s
        BY <1>0, <1>3, <2>4, <3>2 DEF to
      <3> QED
        BY <2>2, <2>4, <3>3 DEF Ahead, InGrain, CopyChunk
    <2> QED
      BY <2>2, <2>3, <2>4 DEF to
  <1> QED
    BY <1>5, <1>6, <1>7 DEF SectorInv

\* When the chunks of a grain are done, none of its sectors is ahead.
LEMMA StepNextBit == SectorInv /\ NextBit => SectorInv'
  <1> SUFFICES ASSUME SectorInv, NextBit PROVE SectorInv'
    OBVIOUS
  <1> USE SizesAssumption
  <1>0. bit \in Nat /\ chunk \in Nat /\ marks \subseteq Bits
    BY DEF SectorInv, SectorTypeOK
  <1>1. SectorTypeOK'
    BY DEF SectorInv, SectorTypeOK, NextBit
  <1>2. SizesInv' /\ EverySectorCopied'
    BY DEF SectorInv, SizesInv, EverySectorCopied, NextBit
  <1>3. CopyInv'
    <2> SUFFICES ASSUME NEW s \in Sectors, held'[s] # s PROVE Ahead(s)'
      BY DEF CopyInv
    <2>0. s \in Int
      BY SectorHasBit
    <2> Ahead(s)
      BY DEF SectorInv, CopyInv, NextBit
    <2>1. PICK g \in marks :
            /\ InGrain(s, g)
            /\ \/ bit < g
               \/ bit = g /\ g * Grain + chunk * Chunk <= s
      BY DEF Ahead
    <2>2. g \in Int
      BY <1>0 DEF Bits
    <2>3. bit # g
      <3> SUFFICES ASSUME bit = g PROVE FALSE
        OBVIOUS
      <3>1. chunk >= Grain \div Chunk
        BY <2>1 DEF SectorInv, SizesInv, NextBit, TotalIterations, Sizes
      <3>2. PICK k \in 1 .. Grain : Grain = k * Chunk
        OBVIOUS
      <3>3. k <= chunk
        BY <1>0, <3>1, <3>2, ExactQuotient
      <3>4. k * Chunk <= chunk * Chunk
        BY <1>0, <3>3, TimesMonotone
      <3>5. s < g * Grain + Grain
        BY <2>0, <2>1, <2>2 DEF InGrain
      <3>6. g * Grain + chunk * Chunk <= s
        BY <2>1, <2>2, <1>0
      <3> HIDE SizesAssumption
      <3>7. /\ g * Grain \in Int /\ chunk * Chunk \in Int
            /\ Grain \in Int /\ Grain <= chunk * Chunk
        BY <1>0, <2>2, <3>2, <3>4, SizesAssumption
      <3> QED
        BY <2>0, <3>5, <3>6, <3>7
    <2>4. bit < g
      BY <2>1, <2>3
    <2>5. bit' < g \/ (bit' = g /\ g * Grain + chunk' * Chunk <= s)
      BY <1>0, <2>0, <2>1, <2>2, <2>4 DEF NextBit, InGrain
    <2> QED
      BY <2>1, <2>5 DEF Ahead, InGrain, NextBit
  <1> QED
    BY <1>1, <1>2, <1>3 DEF SectorInv

\* Behind the last bit nothing is ahead, so the round has copied everything.
LEMMA StepFinish == SectorInv /\ Finish => SectorInv'
  <1> SUFFICES ASSUME SectorInv, Finish PROVE SectorInv'
    OBVIOUS
  <1> USE SizesAssumption
  <1>1. SectorTypeOK'
    BY DEF SectorInv, SectorTypeOK, Finish
  <1>2. SizesInv' /\ CopyInv'
    BY DEF SectorInv, SizesInv, CopyInv, Finish
  <1>3. EverySectorCopied'
    <2> SUFFICES ASSUME NEW s \in Sectors PROVE held[s] = s
      BY DEF EverySectorCopied, Finish
    <2>1. \A g \in marks : g \in Int /\ g < bit
      BY DEF SectorInv, SectorTypeOK, Finish, Bits
    <2>2. ~Ahead(s)
      BY <2>1 DEF Ahead, SectorInv, SectorTypeOK
    <2> QED
      BY <2>2 DEF SectorInv, CopyInv, Finish
  <1> QED
    BY <1>1, <1>2, <1>3 DEF SectorInv

\* Every step keeps the invariant.
LEMMA StepSectorInv == SectorInv /\ [SectorNext]_sectorVars => SectorInv'
  <1> SUFFICES ASSUME SectorInv, [SectorNext]_sectorVars PROVE SectorInv'
    OBVIOUS
  <1>1. CASE MakeRelation
    BY <1>1, StepMakeRelation
  <1>2. CASE \E own \in ClientSizes : Negotiate(own)
    BY <1>2, StepNegotiate
  <1>3. CASE \E start \in Sectors, len \in 1 .. MaxWrite : WriteSectors(start, len)
    BY <1>3, StepWrite
  <1>4. CASE StartTransfers
    BY <1>4, StepStartTransfers
  <1>5. CASE CopyChunk
    BY <1>5, StepCopyChunk
  <1>6. CASE NextBit
    BY <1>6, StepNextBit
  <1>7. CASE Finish
    BY <1>7, StepFinish
  <1>8. CASE UNCHANGED sectorVars
    BY <1>8 DEF sectorVars, SectorInv, SectorTypeOK, SizesInv, CopyInv, EverySectorCopied,
                Ahead, InGrain
  <1> QED
    BY <1>1, <1>2, <1>3, <1>4, <1>5, <1>6, <1>7, <1>8 DEF SectorNext

\* For every size of bitmap, grain and chunk that the set-up allows, a resync
\* copies every sector the kernel saw written to its own place on the target:
\* ebdr_find_pos, get_data and restart_resync agree about addresses.
THEOREM SectorsCopied == SectorSpec => []EverySectorCopied
  <1>1. SectorInv => EverySectorCopied
    BY DEF SectorInv
  <1> QED
    BY <1>1, InitSectorInv, StepSectorInv, PTL DEF SectorSpec

\* A write keeps the marks tight: the ones it finds and the ones it sets.
LEMMA WriteKeepsTight ==
  ASSUME NEW start \in Sectors, NEW len \in 1 .. MaxWrite, SectorTypeOK, MarksTight,
         WriteSectors(start, len)
  PROVE  MarksTight'
  <1> SUFFICES ASSUME NEW b \in marks'
               PROVE  \E s \in Sectors : /\ held'[s] = OutOfDate
                                         /\ b * Grain - 1 <= s /\ s < (b + 1) * Grain
    BY DEF MarksTight
  <1>1. \A s \in Sectors :
          held'[s] = IF start <= s /\ s < start + len THEN OutOfDate ELSE held[s]
    BY DEF WriteSectors
  <1>2. CASE b \in marks
    BY <1>1, <1>2 DEF MarksTight, WriteSectors
  <1>3. CASE b \in MarkRange(start, len)
    <2>1. len \in Nat \ {0}
      BY WritesAssumption
    <2>2. start + len \in 0 .. MapBits * Grain
      BY DEF WriteSectors
    <2> QED
      BY <1>1, <1>3, <2>1, <2>2, MarkIsTight
  <1> QED
    BY <1>2, <1>3 DEF WriteSectors

\* The kernel never marks a grain that no written sector is in or right before:
\* ebdr_find_pos rounds the sector after a write up by one grain at most, for
\* every size of bitmap, grain and write.
THEOREM MarksStayTight == SectorSpec => []MarksTight
  <1>1. SectorInit => MarksTight
    BY DEF SectorInit, MarksTight
  <1>2. ASSUME SectorInv, MarksTight, [SectorNext]_sectorVars PROVE MarksTight'
    <2>1. SectorTypeOK
      BY <1>2 DEF SectorInv
    <2>2. CASE \E start \in Sectors, len \in 1 .. MaxWrite : WriteSectors(start, len)
      BY <1>2, <2>1, <2>2, WriteKeepsTight
    <2>3. CASE ~\E start \in Sectors, len \in 1 .. MaxWrite : WriteSectors(start, len)
      BY <1>2, <2>3 DEF SectorNext, MakeRelation, Negotiate, StartTransfers, CopyChunk,
         NextBit, Finish, sectorVars, MarksTight
    <2> QED
      BY <2>2, <2>3
  <1> QED
    BY <1>1, <1>2, InitSectorInv, StepSectorInv, PTL DEF SectorSpec
=============================================================================
