-------------------------- MODULE WinClient_proof --------------------------
(***************************************************************************)
(* What a resync of the Windows client has copied, proved for every bitmap,*)
(* number of threads, commands and faults.                                 *)
(*                                                                         *)
(* CopyInv is inductive together with TypeOK.  It speaks of a client that  *)
(* nothing has taken out of step, and a step that leaves it in step found  *)
(* it in step (StillInStep), so a step is looked at with all three parts   *)
(* of the invariant at hand.                                               *)
(***************************************************************************)
EXTENDS WinClient, FiniteSetTheorems, SequenceTheorems, WellFoundedInduction, TLAPS

-----------------------------------------------------------------------------
(* Positions, rows and loops.                                              *)

LEMMA Positions ==
  /\ N \in Nat \ {0} /\ N \in 0..N /\ MaxThreads \in Nat /\ Pos \subseteq Nat /\ 0 \in Pos
  /\ \A p \in Pos : p < N /\ p \in 0..N /\ p + 1 \in 0..N
  /\ \A p \in 0..N : p \in Nat /\ (p < N => p \in Pos)
  /\ 0 \in LoopIds /\ Threads \subseteq LoopIds
  /\ \A D \in Bitmaps : D \subseteq Pos
  BY WCAssumption DEF Pos, LoopIds, Threads

\* A set of row numbers has a least one.
LEMMA LeastRow ==
  ASSUME NEW S, S \subseteq Nat, S # {} PROVE \E x \in S : \A y \in S : x <= y
<1> DEFINE R == OpToRel(<, Nat)
<1>1. IsWellFoundedOn(R, Nat)
  BY NatLessThanWellFounded
<1>2. PICK x \in S : \A y \in S : ~(<<y, x>> \in R)
  <2> HIDE DEF R
  <2> QED BY <1>1, WFMin
<1>3. ASSUME NEW y \in S PROVE x <= y
  <2>1. x \in Nat /\ y \in Nat
    OBVIOUS
  <2>2. y < x => <<y, x>> \in R
    BY <2>1 DEF OpToRel
  <2> HIDE DEF R
  <2> QED BY <1>2, <2>1, <2>2
<1> QED BY <1>3

LEMMA RowIn ==
  ASSUME NEW rows \in Seq(Row), NEW i \in Open(rows)
  PROVE  i \in DOMAIN rows /\ rows[i] \in Row /\ rows[i].last \in Pos
<1>1. i \in DOMAIN rows
  BY DEF Open
<1>2. rows[i] \in Row
  BY <1>1
<1> QED BY <1>1, <1>2 DEF Row

\* A restart goes on where some open row says.
LEMMA RestartRow ==
  ASSUME NEW rows \in Seq(Row), Open(rows) # {}
  PROVE  \E i \in Open(rows) : /\ i = CHOOSE k \in Open(rows) : \A j \in Open(rows) : k <= j
                               /\ RestartLast(rows) = rows[i].last
<1>1. Open(rows) \subseteq Nat
  BY DEF Open
<1>2. \E k \in Open(rows) : \A j \in Open(rows) : k <= j
  BY <1>1, LeastRow
<1>3. (CHOOSE k \in Open(rows) : \A j \in Open(rows) : k <= j) \in Open(rows)
  BY <1>2
<1> QED BY <1>3 DEF RestartLast

\* The rows keep their number, whatever is stored in them.
LEMMA RowsStored ==
  ASSUME NEW rows \in Seq(Row), NEW new, DOMAIN new = DOMAIN rows,
         new = [i \in DOMAIN rows |-> new[i]], \A i \in DOMAIN rows : new[i] \in Row
  PROVE  new \in Seq(Row)
<1>1. Len(rows) \in Nat /\ DOMAIN rows = 1 .. Len(rows)
  OBVIOUS
<1>2. new \in [1 .. Len(rows) -> Row]
  BY <1>1
<1> QED BY <1>1, <1>2, SeqDef

\* update_resync_state: completed rows are opened, open ones keep their place.
LEMMA StateStored ==
  ASSUME NEW rows \in Seq(Row), NEW s \in States
  PROVE  /\ SetState(rows, s) \in Seq(Row)
         /\ DOMAIN SetState(rows, s) = DOMAIN rows
         /\ \A i \in DOMAIN rows : /\ SetState(rows, s)[i].state = s
                                   /\ SetState(rows, s)[i].last = rows[i].last
<1> DEFINE new == SetState(rows, s)
<1>1. \A i \in DOMAIN rows : rows[i] \in Row
  OBVIOUS
<1>2. DOMAIN new = DOMAIN rows /\ new = [i \in DOMAIN rows |-> new[i]]
  BY DEF SetState
<1>3. \A i \in DOMAIN rows : /\ new[i] \in Row /\ new[i].state = s
                             /\ new[i].last = rows[i].last
  BY <1>1 DEF SetState, Row
<1>4. new \in Seq(Row)
  <2> HIDE DEF new
  <2> QED BY <1>2, <1>3, RowsStored
<1> QED BY <1>2, <1>3, <1>4

\* update_into_resync: no row is opened, and a row keeps its position or gets p.
LEMMA LastStored ==
  ASSUME NEW rows \in Seq(Row), NEW p \in Pos
  PROVE  /\ SetLast(rows, p) \in Seq(Row)
         /\ Open(SetLast(rows, p)) = Open(rows)
         /\ \A i \in DOMAIN rows : SetLast(rows, p)[i].last \in {p, rows[i].last}
<1> DEFINE new == SetLast(rows, p)
<1>1. \A i \in DOMAIN rows : rows[i] \in Row
  OBVIOUS
<1>2. DOMAIN new = DOMAIN rows /\ new = [i \in DOMAIN rows |-> new[i]]
  BY DEF SetLast
<1>3. \A i \in DOMAIN rows : /\ new[i] \in Row /\ new[i].state = rows[i].state
                             /\ new[i].last \in {p, rows[i].last}
  BY <1>1 DEF SetLast, Row
<1>4. new \in Seq(Row)
  <2> HIDE DEF new
  <2> QED BY <1>2, <1>3, RowsStored
<1>5. Open(new) = Open(rows)
  <2> HIDE DEF new
  <2> QED BY <1>2, <1>3 DEF Open
<1> QED BY <1>3, <1>4, <1>5

\* insert_into_resync: one more row, that says 0.
LEMMA RowInserted ==
  ASSUME NEW rows \in Seq(Row)
  PROVE  /\ Insert(rows) \in Seq(Row)
         /\ \A i \in Open(Insert(rows)) :
              \/ Insert(rows)[i].last = 0
              \/ i \in Open(rows) /\ Insert(rows)[i] = rows[i]
<1>1. [last |-> 0, state |-> "progress"] \in Row
  BY Positions DEF Row, States
<1>2. /\ Insert(rows) \in Seq(Row) /\ DOMAIN Insert(rows) = 1 .. (Len(rows) + 1)
      /\ Insert(rows)[Len(rows) + 1] = [last |-> 0, state |-> "progress"]
      /\ \A i \in 1 .. Len(rows) : Insert(rows)[i] = rows[i]
  BY <1>1, AppendProperties DEF Insert
<1>3. \A i \in 1 .. (Len(rows) + 1) : i = Len(rows) + 1 \/ i \in 1 .. Len(rows)
  OBVIOUS
<1> QED BY <1>2, <1>3 DEF Open

-----------------------------------------------------------------------------
(* Types.                                                                  *)

LEMMA Typed ==
  ASSUME TypeOK
  PROVE  /\ loops \in [LoopIds -> Loop] /\ db.rows \in Seq(Row)
         /\ \A l \in LoopIds : /\ loops[l].pos \in 0..N /\ loops[l].buf \in 0..N
                               /\ loops[l].full \in BOOLEAN /\ loops[l].pc \in Pcs
                               /\ loops[l] \in Loop
  BY DEF TypeOK, Loop

LEMMA IdleLoop ==
  Idle \in Loop /\ Idle.pc = "idle" /\ Idle.pos = 0
  BY Positions DEF Idle, Loop, Pcs

\* A loop goes to another place in the code.
LEMMA LoopGoes ==
  ASSUME TypeOK, NEW l \in LoopIds, NEW to \in Pcs, Goto(l, to)
  PROVE  /\ loops' \in [LoopIds -> Loop]
         /\ \A m \in LoopIds : m # l => loops'[m] = loops[m]
         /\ loops'[l].pc = to /\ loops'[l].pos = loops[l].pos
         /\ loops'[l].buf = loops[l].buf /\ loops'[l].full = loops[l].full
  BY Typed DEF Goto, Loop

\* The process ends with no loop, no socket and no request.
LEMMA DeadTypes ==
  ASSUME Dies
  PROVE  /\ daemon' = "dead" /\ partner' = "none" /\ rep' = "progress" /\ last' = 0
         /\ io' = "none" /\ recovery' = FALSE
         /\ area' \in [bits : SUBSET Pos, live : BOOLEAN] /\ area'.live = FALSE
         /\ loops' \in [LoopIds -> Loop]
         /\ \A l \in LoopIds : loops'[l].pc = "idle"
         /\ sock' = "none" /\ asked' = <<>> /\ skew' = FALSE
  BY IdleLoop DEF Dies, NoArea

-----------------------------------------------------------------------------
(* Types, step by step.                                                    *)

LEMMA TypeInit == Init => TypeOK
<1> SUFFICES ASSUME Init PROVE TypeOK
  OBVIOUS
<1>1. loops \in [LoopIds -> Loop] /\ \A l \in LoopIds : loops[l].pc = "idle"
  BY IdleLoop DEF Init
<1>2. NoFile \in SUBSET (0..N)
  BY Positions DEF NoFile
<1>3. db.rows \in Seq(Row) /\ asked \in Seq(Pos)
  BY DEF Init
<1>4. db \in [rows : Seq(Row), partner : {"inuse", "released", "pause", "resume"},
              file : SUBSET (0..N)]
  BY <1>2, <1>3 DEF Init
<1>5. area \in [bits : SUBSET Pos, live : BOOLEAN]
  BY DEF Init, NoArea
<1>6. count \in [command : Nat, fault : Nat]
  BY DEF Init
<1> QED BY <1>1, <1>3, <1>4, <1>5, <1>6, Positions DEF Init, TypeOK, States

\* What an event adds to the counters.
LEMMA FaultTyped ==
  ASSUME TypeOK, NEW e, Fault(e) PROVE count' \in [command : Nat, fault : Nat]
  BY DEF Fault, TypeOK
LEMMA CommandTyped ==
  ASSUME TypeOK, Command PROVE count' \in [command : Nat, fault : Nat]
  BY DEF Command, TypeOK

\* resync_init starts one thread more.
LEMMA ThreadStarts ==
  ASSUME TypeOK, NEW p \in 0..N, ResyncInit(p)
  PROVE  /\ loops' \in [LoopIds -> Loop] /\ io' = "inuse"
         /\ \E l \in LoopIds : /\ ~Running(l) /\ loops'[l].pc = "start"
                               /\ loops'[l].pos = p
                               /\ \A m \in LoopIds : m # l => loops'[m] = loops[m]
<1>1. PICK l \in Threads : loops' = [loops EXCEPT ![l] = [pc |-> "start", pos |-> p,
                                           full |-> FALSE, buf |-> N]] /\ ~Running(l)
  BY DEF ResyncInit
<1>2. [pc |-> "start", pos |-> p, full |-> FALSE, buf |-> N] \in Loop
  BY Positions DEF Loop, Pcs
<1>3. l \in LoopIds
  BY Positions
<1> QED BY <1>1, <1>2, <1>3, Typed DEF ResyncInit

LEMMA TypeRequest ==
  ASSUME TypeOK, RequestMetadata PROVE TypeOK'
<1>1. PICK D \in Bitmaps, short \in BOOLEAN :
        LET got == IF skew THEN {} ELSE IF short THEN D \cap {0} ELSE D
        IN /\ want' = D
           /\ area' = [bits |-> got, live |-> TRUE]
           /\ db' = [db EXCEPT !.file = Stored(got),
                               !.partner = IF partner = "released" THEN "inuse" ELSE @]
           /\ skew' = (skew \/ short)
           /\ count' = [count EXCEPT !.command = @ + 1,
                                     !.fault = IF short THEN @ + 1 ELSE @]
  BY DEF RequestMetadata
<1> DEFINE got == IF skew THEN {} ELSE IF short THEN D \cap {0} ELSE D
<1>2. D \subseteq Pos /\ got \subseteq Pos
  BY Positions
<1>3. area' \in [bits : SUBSET Pos, live : BOOLEAN]
  BY <1>1, <1>2
<1>4. Stored(got) \in SUBSET (0..N)
  BY <1>2, Positions DEF Stored, TypeOK
<1>5. db' \in [rows : Seq(Row), partner : {"inuse", "released", "pause", "resume"},
               file : SUBSET (0..N)]
  <2> HIDE DEF got
  <2>1. db' = [db EXCEPT !.file = Stored(got),
                         !.partner = IF partner = "released" THEN "inuse" ELSE @]
    BY <1>1 DEF got
  <2> QED BY <1>4, <2>1 DEF TypeOK
<1>6. count' \in [command : Nat, fault : Nat]
  <2>1. count \in [command : Nat, fault : Nat]
    BY DEF TypeOK
  <2>2. count' = [count EXCEPT !.command = count.command + 1,
                               !.fault = IF short THEN count.fault + 1 ELSE count.fault]
    BY <1>1
  <2>3. ASSUME NEW c \in Nat, NEW f \in Nat
        PROVE  [count EXCEPT !.command = c, !.fault = f] \in [command : Nat, fault : Nat]
    BY <2>1
  <2>4. /\ count.command + 1 \in Nat
        /\ (IF short THEN count.fault + 1 ELSE count.fault) \in Nat
    BY <2>1
  <2> QED BY <2>2, <2>3, <2>4
<1>7. skew' \in BOOLEAN
  BY <1>1 DEF TypeOK
<1> QED BY <1>1, <1>2, <1>3, <1>5, <1>6, <1>7 DEF RequestMetadata, TypeOK

\* The end of the process leaves the tables alone.
LEMMA TypeDies ==
  ASSUME TypeOK, Dies, db'.rows \in Seq(Row), UNCHANGED <<want, good, round>>,
         db' \in [rows : Seq(Row), partner : {"inuse", "released", "pause", "resume"},
                  file : SUBSET (0..N)],
         count' \in [command : Nat, fault : Nat]
  PROVE  TypeOK'
  BY DeadTypes, Positions DEF TypeOK, States

LEMMA TypeCommands ==
  ASSUME TypeOK, Resync \/ Pause \/ Resume \/ FullResync PROVE TypeOK'
<1>1. CASE Resync
  <2>1. ResyncInit(0) /\ Command
    BY <1>1 DEF Resync
  <2>2. loops' \in [LoopIds -> Loop] /\ io' = "inuse"
    BY <2>1, ThreadStarts, Positions
  <2>3. \A l \in LoopIds : loops'[l].pc = "start" \/ loops'[l] = loops[l]
    BY <2>1, ThreadStarts, Positions
  <2> QED BY <1>1, <2>1, <2>2, <2>3, CommandTyped DEF Resync, TypeOK, netVars
<1>2. CASE Pause
  <2>1. Command
    BY <1>2 DEF Pause
  <2>2. SetState(db.rows, "pause") \in Seq(Row)
    BY StateStored, Typed DEF States
  <2>3. db' \in [rows : Seq(Row), partner : {"inuse", "released", "pause", "resume"},
                 file : SUBSET (0..N)]
    BY <1>2, <2>2 DEF Pause, TypeOK
  <2> QED BY <1>2, <2>1, <2>3, CommandTyped DEF Pause, TypeOK, netVars, States
<1>3. CASE Resume
  <2>1. ResyncInit(last) /\ Command /\ last \in 0..N
    BY <1>3, Positions DEF Resume, TypeOK
  <2>2. loops' \in [LoopIds -> Loop] /\ io' = "inuse"
    BY <2>1, ThreadStarts
  <2>3. \A l \in LoopIds : loops'[l].pc = "start" \/ loops'[l] = loops[l]
    BY <2>1, ThreadStarts
  <2>4. SetState(db.rows, "resume") \in Seq(Row)
    BY StateStored, Typed DEF States
  <2>5. db' \in [rows : Seq(Row), partner : {"inuse", "released", "pause", "resume"},
                 file : SUBSET (0..N)]
    BY <1>3, <2>4 DEF Resume, TypeOK
  <2> QED BY <1>3, <2>1, <2>2, <2>3, <2>5, CommandTyped DEF Resume, TypeOK, netVars, States
<1>4. CASE FullResync
  <2>1. [pc |-> "start", pos |-> 0, full |-> TRUE, buf |-> N] \in Loop
    BY Positions DEF Loop, Pcs
  <2>2. /\ loops' \in [LoopIds -> Loop]
        /\ \A l \in LoopIds : loops'[l].pc = "start" \/ loops'[l] = loops[l]
    BY <1>4, <2>1, Positions, Typed DEF FullResync
  <2>3. Command
    BY <1>4 DEF FullResync
  <2> QED BY <1>4, <2>2, <2>3, CommandTyped DEF FullResync, TypeOK, objVars, netVars
<1> QED BY <1>1, <1>2, <1>3, <1>4

\* The loop only goes elsewhere in the code.
LEMMA TypeGoes ==
  ASSUME TypeOK, NEW l \in LoopIds, NEW to \in Pcs, Goto(l, to),
         to \in {"ask", "recv", "write"} => loops[l].pos < N,
         UNCHANGED <<daemon, objVars, area, db, want, good, round>>,
         sock' \in {"open", "lost", "none"}, asked' \in Seq(Pos), skew' \in BOOLEAN,
         count' \in [command : Nat, fault : Nat]
  PROVE  TypeOK'
<1>1. /\ loops' \in [LoopIds -> Loop]
      /\ \A m \in LoopIds : loops'[m].pc \in {"ask", "recv", "write"} => loops'[m].pos < N
  BY SMTT(60), LoopGoes DEF TypeOK
<1> QED BY <1>1 DEF TypeOK, objVars

LEMMA TypeStart ==
  ASSUME TypeOK, NEW l \in LoopIds, Start(l) PROVE TypeOK'
<1>1. /\ loops' \in [LoopIds -> Loop]
      /\ \A m \in LoopIds : loops'[m].pc \in {"ask", "recv", "write"} => loops'[m].pos < N
  BY LoopGoes DEF TypeOK, Start, Pcs
<1>2. Insert(db.rows) \in Seq(Row)
  BY Typed, RowInserted
<1>3. /\ db' \in [rows : Seq(Row), partner : {"inuse", "released", "pause", "resume"},
                  file : SUBSET (0..N)]
      /\ rep' \in States
  BY <1>2 DEF Start, TypeOK, States
<1> QED BY ZenonT(60), <1>1, <1>3 DEF Start, TypeOK, netVars

\* ... or to the next bit.
LEMMA LoopMoves ==
  ASSUME TypeOK, NEW l \in LoopIds, loops[l].pos < N,
         loops' = [loops EXCEPT ![l].pos = @ + 1] \/
         loops' = [loops EXCEPT ![l].pc = "test", ![l].pos = @ + 1, ![l].buf = N]
  PROVE  /\ loops' \in [LoopIds -> Loop]
         /\ \A m \in LoopIds : m # l => loops'[m] = loops[m]
         /\ loops'[l].pc \in {loops[l].pc, "test"} /\ loops'[l].pos = loops[l].pos + 1
<1>1. loops[l] \in Loop /\ loops[l].pos + 1 \in 0..N
  BY Typed, Positions
<1>2. CASE loops' = [loops EXCEPT ![l].pos = @ + 1]
  BY <1>1, <1>2, Typed DEF Loop
<1>3. CASE loops' = [loops EXCEPT ![l].pc = "test", ![l].pos = @ + 1, ![l].buf = N]
  <2> DEFINE next == [loops[l] EXCEPT !.pc = "test", !.pos = loops[l].pos + 1, !.buf = N]
  <2>1. loops' = [loops EXCEPT ![l] = next]
    BY <1>3
  <2>2. next \in Loop /\ next.pc = "test" /\ next.pos = loops[l].pos + 1
    <3>1. N \in 0..N
      BY Positions
    <3> QED BY <1>1, <3>1 DEF Loop, Pcs
  <2> HIDE DEF next
  <2> QED BY <2>1, <2>2, Typed
<1> QED BY <1>2, <1>3

LEMMA TypeSkip ==
  ASSUME TypeOK, NEW l \in LoopIds, Skip(l) PROVE TypeOK'
<1>1. loops[l].pc = "test" /\ loops[l].pos < N
  BY DEF Skip, At
<1>2. /\ loops' \in [LoopIds -> Loop] /\ loops'[l].pc = "test"
      /\ \A m \in LoopIds : m # l => loops'[m] = loops[m]
  BY <1>1, LoopMoves DEF Skip
<1>3. last' \in Pos
  BY <1>1, Typed, Positions DEF Skip
<1> QED BY <1>2, <1>3 DEF Skip, TypeOK, netVars

LEMMA TypeWrite ==
  ASSUME TypeOK, NEW l \in LoopIds, Write(l) PROVE TypeOK'
<1>1. loops[l].pc = "write" /\ loops[l].pos < N /\ loops[l].pos \in Pos
  BY Positions, Typed DEF Write, At, TypeOK
<1>2. loops' = [loops EXCEPT ![l].pc = "test", ![l].pos = @ + 1, ![l].buf = N]
  BY DEF Write
<1>3. /\ loops' \in [LoopIds -> Loop]
      /\ \A m \in LoopIds : m # l => loops'[m] = loops[m]
  BY <1>1, <1>2, LoopMoves
<1>4. loops'[l].pc = "test"
  BY <1>2, Typed
<1>5. SetLast(db.rows, loops[l].pos) \in Seq(Row)
  BY <1>1, Typed, LastStored
<1>6. db' \in [rows : Seq(Row), partner : {"inuse", "released", "pause", "resume"},
               file : SUBSET (0..N)]
  BY <1>5 DEF Write, TypeOK
<1>7. good' \subseteq Pos /\ last' \in Pos
  BY <1>1 DEF Write, TypeOK
<1> QED BY ZenonT(60), <1>3, <1>4, <1>6, <1>7 DEF Write, TypeOK, netVars

LEMMA TypeMoves ==
  ASSUME TypeOK, NEW l \in LoopIds,
         Copies(l) \/ Ask(l) \/ Released(l) \/ GiveUp(l) \/ RecvEof(l) \/ LoopEnd(l)
  PROVE  TypeOK'
<1>1. count' \in [command : Nat, fault : Nat]
  BY FaultTyped DEF Copies, Ask, Released, GiveUp, RecvEof, LoopEnd, TypeOK
<1>2. CASE Copies(l)
  BY <1>1, <1>2, TypeGoes DEF Copies, TypeOK, netVars, Pcs
<1>3. CASE Ask(l)
  <2>1. asked' \in Seq(Pos)
    <3>1. PICK m \in LoopIds : /\ loops[m].pos < N
             /\ asked' = IF sock = "open" THEN Append(asked, loops[m].pos) ELSE asked
      BY <1>3 DEF Ask
    <3>2. loops[m].pos \in Pos
      BY <3>1, Typed, Positions
    <3> QED BY <3>1, <3>2, AppendProperties DEF TypeOK
  <2> QED BY <1>1, <1>3, <2>1, TypeGoes DEF Ask, At, TypeOK, Pcs
<1>4. CASE Released(l)
  BY <1>1, <1>4, TypeGoes DEF Released, TypeOK, netVars, Pcs
<1>5. CASE GiveUp(l)
  <2>1. asked' \in Seq(Pos)
    BY <1>5 DEF GiveUp
  <2> QED BY <1>1, <1>5, <2>1, TypeGoes DEF GiveUp, TypeOK, Pcs
<1>6. CASE RecvEof(l)
  BY <1>1, <1>6, TypeGoes DEF RecvEof, At, TypeOK, netVars, Pcs
<1>7. CASE LoopEnd(l)
  BY <1>1, <1>7, TypeGoes DEF LoopEnd, TypeOK, netVars, Pcs
<1> QED BY <1>2, <1>3, <1>4, <1>5, <1>6, <1>7

\* A reply is received: the buffer holds some chunk, or a part of one.
LEMMA TypeRecv ==
  ASSUME TypeOK, NEW l \in LoopIds, Recv(l)
  PROVE  /\ TypeOK' /\ asked \in Seq(Pos) /\ Head(asked) \in Pos
         /\ \A m \in LoopIds : m # l => loops'[m] = loops[m]
         /\ loops'[l].pc = "write" /\ loops'[l].pos = loops[l].pos
         /\ "short" \notin ev' /\ ~skew => loops'[l].buf = Head(asked) /\ ~skew'
<1>1. asked \in Seq(Pos) /\ asked # <<>> /\ loops[l].pc = "recv" /\ loops[l].pos < N
  BY DEF Recv, At, TypeOK
<1>2. Head(asked) \in Pos /\ Tail(asked) \in Seq(Pos)
  BY <1>1, HeadTailProperties
<1>3. PICK whole \in BOOLEAN :
       /\ IF whole THEN UNCHANGED <<count, ev>> ELSE Fault("short")
       /\ skew' = (skew \/ ~whole)
       /\ loops' = [loops EXCEPT ![l].pc = "write",
                                 ![l].buf = IF whole /\ ~skew THEN Head(asked) ELSE N]
  BY DEF Recv
<1>4. count' \in [command : Nat, fault : Nat] /\ skew' \in BOOLEAN
  BY <1>3, FaultTyped DEF TypeOK
<1> DEFINE buf == IF whole /\ ~skew THEN Head(asked) ELSE N
<1>5. buf \in 0..N
  <2>1. Head(asked) \in 0..N /\ N \in 0..N
    BY <1>2, Positions
  <2> QED BY <2>1
<1>6. /\ loops' \in [LoopIds -> Loop]
      /\ \A m \in LoopIds : m # l => loops'[m] = loops[m]
      /\ loops'[l].pc = "write" /\ loops'[l].pos = loops[l].pos /\ loops'[l].buf = buf
  <2>1. loops' = [loops EXCEPT ![l].pc = "write", ![l].buf = buf]
    BY <1>3
  <2> HIDE DEF buf
  <2>2. [loops[l] EXCEPT !.pc = "write", !.buf = buf] \in Loop
    BY <1>5, Typed DEF Loop, Pcs
  <2> QED BY <2>1, <2>2, Typed DEF Loop
<1>7. "short" \notin ev' => whole
  BY <1>3 DEF Fault
<1>8. TypeOK'
  BY <1>1, <1>2, <1>4, <1>6 DEF Recv, TypeOK, objVars
<1> QED BY <1>1, <1>2, <1>3, <1>6, <1>7, <1>8

LEMMA TypeExits ==
  ASSUME TypeOK, NEW l \in LoopIds, PauseExit(l) \/ PauseBreak(l) \/ WriteError(l)
  PROVE  TypeOK'
<1>1. count' \in [command : Nat, fault : Nat]
  BY FaultTyped DEF PauseExit, PauseBreak, WriteError, TypeOK
<1>2. CASE PauseBreak(l)
  <2>1. loops[l].pos \in Pos
    BY <1>2, Typed, Positions DEF PauseBreak, At, TypeOK
  <2>2. SetLast(db.rows, loops[l].pos) \in Seq(Row)
    BY <2>1, Typed, LastStored
  <2>3. db' \in [rows : Seq(Row), partner : {"inuse", "released", "pause", "resume"},
                 file : SUBSET (0..N)]
    BY <1>2, <2>2 DEF PauseBreak, TypeOK
  <2>4. db'.rows \in Seq(Row)
    BY <2>3
  <2>5. CASE Dies
    BY <1>1, <1>2, <2>3, <2>4, <2>5, TypeDies DEF PauseBreak
  <2>6. CASE ~Dies
    <3>1. /\ Goto(l, "idle") /\ last' = loops[l].pos
          /\ UNCHANGED <<daemon, partner, rep, io, recovery, area, netVars>>
      BY <1>2, <2>6 DEF PauseBreak, ExitThread
    <3>2. /\ loops' \in [LoopIds -> Loop]
          /\ \A m \in LoopIds : loops'[m].pc = "idle" \/ loops'[m] = loops[m]
      BY <3>1, LoopGoes DEF Pcs
    <3> QED BY <1>1, <1>2, <2>1, <2>3, <3>1, <3>2 DEF PauseBreak, TypeOK, netVars
  <2> QED BY <2>5, <2>6
<1>3. CASE PauseExit(l) \/ WriteError(l)
  <2>1. UNCHANGED <<db, want, good, round>>
    BY <1>3 DEF PauseExit, WriteError
  <2>2. CASE Dies
    BY <1>1, <2>1, <2>2, TypeDies, Typed DEF TypeOK
  <2>3. CASE ~Dies
    <3>1. /\ Goto(l, "idle")
          /\ UNCHANGED <<daemon, objVars, area, netVars>>
      BY <1>3, <2>3 DEF PauseExit, WriteError, ExitThread, objVars
    <3> QED BY <1>1, <2>1, <3>1, TypeGoes DEF TypeOK, netVars, Pcs
  <2> QED BY <2>2, <2>3
<1> QED BY <1>2, <1>3

LEMMA TypeEnds ==
  ASSUME TypeOK, NEW l \in LoopIds, Terminate(l) \/ CompleteRows(l) PROVE TypeOK'
<1>1. CASE Terminate(l) /\ rep = "completed"
  <2>1. Goto(l, "idle") /\ UNCHANGED <<objVars, area, db, round>>
    BY <1>1 DEF Terminate
  <2> QED BY <1>1, <2>1, TypeGoes DEF Terminate, TypeOK, netVars, Pcs
<1>2. CASE Terminate(l) /\ rep # "completed"
  <2>1. Goto(l, "rows")
    BY <1>2 DEF Terminate
  <2>2. /\ loops' \in [LoopIds -> Loop]
        /\ \A m \in LoopIds : loops'[m].pc = "rows" \/ loops'[m] = loops[m]
    BY <2>1, LoopGoes DEF Pcs
  <2>3. db' \in [rows : Seq(Row), partner : {"inuse", "released", "pause", "resume"},
                 file : SUBSET (0..N)]
    BY <1>2 DEF Terminate, TypeOK
  <2>4. area' \in [bits : SUBSET Pos, live : BOOLEAN]
    BY ZenonT(60), <1>2 DEF Terminate, TypeOK
  <2>5. last' \in Pos /\ rep' \in States
    BY <1>2, Positions DEF Terminate, TypeOK, States
  <2> QED BY <1>2, <2>2, <2>3, <2>4, <2>5 DEF Terminate, TypeOK, netVars
<1>3. CASE CompleteRows(l)
  <2>1. SetState(db.rows, "completed") \in Seq(Row)
    BY StateStored, Typed DEF States
  <2>2. db' \in [rows : Seq(Row), partner : {"inuse", "released", "pause", "resume"},
                 file : SUBSET (0..N)]
    BY <1>3, <2>1 DEF CompleteRows, TypeOK
  <2>3. Goto(l, "idle")
    BY <1>3 DEF CompleteRows
  <2>4. /\ loops' \in [LoopIds -> Loop]
        /\ \A m \in LoopIds : loops'[m].pc = "idle" \/ loops'[m] = loops[m]
    BY <2>3, LoopGoes DEF Pcs
  <2> QED BY SMTT(60), <1>3, <2>2, <2>4 DEF CompleteRows, TypeOK, objVars, netVars
<1> QED BY <1>1, <1>2, <1>3

LEMMA TypeOutside ==
  ASSUME TypeOK, MetadataFails \/ LoseConnection \/ Crash PROVE TypeOK'
<1>1. count' \in [command : Nat, fault : Nat]
  BY FaultTyped DEF MetadataFails, LoseConnection, Crash
<1>2. CASE LoseConnection
  <2>1. asked' \in Seq(Pos)
    BY <1>2 DEF LoseConnection
  <2> QED BY <1>1, <1>2, <2>1 DEF LoseConnection, TypeOK, objVars
<1>3. CASE MetadataFails \/ Crash
  BY <1>1, <1>3, TypeDies, Typed DEF MetadataFails, Crash, TypeOK
<1> QED BY <1>2, <1>3

\* What a restart makes of the loops.
LEMMA LoopsRestarted ==
  ASSUME TypeOK, NEW n \in Nat, NEW p \in Pos,
         loops' = [l \in LoopIds |->
                     IF l \in 1..n THEN [pc |-> "start", pos |-> p, full |-> FALSE,
                                         buf |-> N]
                     ELSE Idle]
  PROVE  /\ loops' \in [LoopIds -> Loop]
         /\ \A l \in LoopIds : IF l \in 1..n THEN loops'[l].pc = "start" /\ loops'[l].pos = p
                                             ELSE loops'[l].pc = "idle"
<1>1. [pc |-> "start", pos |-> p, full |-> FALSE, buf |-> N] \in Loop
  BY Positions DEF Loop, Pcs
<1> QED BY <1>1, IdleLoop

LEMMA TypeRestart ==
  ASSUME TypeOK, Restart PROVE TypeOK'
<1> DEFINE n == Cardinality(Open(db.rows))
<1>1. partner' \in {"none", "inuse", "released", "pause", "resume"}
  BY DEF Restart, TypeOK
<1>2. recovery' \in BOOLEAN /\ daemon' \in {"up", "dead"}
  BY DEF Restart
<1>3. CASE n = 0
  BY <1>1, <1>2, <1>3 DEF Restart, TypeOK
<1>4. CASE n # 0
  <2>1. Open(db.rows) # {}
    BY <1>4, FS_EmptySet
  <2>2. PICK i \in Open(db.rows) :
          /\ i = CHOOSE k \in Open(db.rows) : \A j \in Open(db.rows) : k <= j
          /\ RestartLast(db.rows) = db.rows[i].last
    BY <2>1, Typed, RestartRow
  <2>3. db.rows[i] \in Row
    BY <2>2, Typed, RowIn
  <2>4. RestartLast(db.rows) \in Pos /\ db.rows[i].state \in States
    BY <2>2, <2>3 DEF Row
  <2>5. n \in Nat
    <3>1. IsFiniteSet(DOMAIN db.rows)
      BY Typed, FS_Interval
    <3>2. Open(db.rows) \in SUBSET DOMAIN db.rows
      BY DEF Open
    <3> QED BY <3>1, <3>2, FS_Subset, FS_CardinalityType
  <2>6. loops' = [l \in LoopIds |->
                   IF l \in 1..n
                     THEN [pc |-> "start", pos |-> RestartLast(db.rows),
                           full |-> FALSE, buf |-> N]
                     ELSE Idle]
    BY <1>4 DEF Restart
  <2>7. /\ loops' \in [LoopIds -> Loop]
        /\ \A l \in LoopIds : loops'[l].pc \in {"start", "idle"}
    <3> HIDE DEF n
    <3> QED BY <2>4, <2>5, <2>6, LoopsRestarted
  <2>8. last' \in Pos /\ rep' \in States
    BY <1>4, <2>2, <2>4 DEF Restart
  <2>9. area' \in [bits : SUBSET Pos, live : BOOLEAN]
    <3>1. PICK b \in SUBSET Pos : area' = [bits |-> b, live |-> TRUE]
      BY <1>4 DEF Restart
    <3> QED BY <3>1
  <2> QED BY <1>1, <1>2, <1>4, <2>7, <2>8, <2>9 DEF Restart, TypeOK
<1> QED BY <1>3, <1>4

LEMMA TypeStep == TypeOK /\ [Next]_vars => TypeOK'
<1> SUFFICES ASSUME TypeOK, [Next]_vars PROVE TypeOK'
  OBVIOUS
<1>1. CASE UNCHANGED vars
  BY <1>1 DEF vars, objVars, netVars, TypeOK
<1>2. ASSUME NEW l \in LoopIds, LoopStep(l) PROVE TypeOK'
  BY <1>2, TypeStart, TypeSkip, TypeMoves, TypeRecv, TypeWrite, TypeExits, TypeEnds
     DEF LoopStep
<1> QED BY <1>1, <1>2, TypeRequest, TypeCommands, TypeOutside, TypeRestart DEF Next

-----------------------------------------------------------------------------
(* What was copied, step by step.                                          *)

\* No step takes back an event that puts the client out of step.
LEMMA EventsKept == [Next]_vars => ev \ {"late"} \subseteq ev'
<1> SUFFICES ASSUME [Next]_vars PROVE ev \ {"late"} \subseteq ev'
  OBVIOUS
<1>1. ASSUME NEW e, Fault(e) PROVE ev \subseteq ev'
  BY <1>1 DEF Fault
<1>2. CASE UNCHANGED vars
  BY <1>2 DEF vars
<1>3. CASE RequestMetadata
  BY <1>3 DEF RequestMetadata
<1>4. CASE Resync \/ Pause \/ Resume \/ FullResync
  BY <1>4 DEF Resync, Pause, Resume, FullResync
<1>5. CASE MetadataFails \/ LoseConnection \/ Crash
  BY <1>1, <1>5 DEF MetadataFails, LoseConnection, Crash
<1>6. CASE Restart
  BY <1>6 DEF Restart
<1>7. ASSUME NEW l \in LoopIds, LoopStep(l) PROVE ev \subseteq ev'
  <2>1. CASE Start(l) \/ Skip(l) \/ Copies(l) \/ Ask(l) \/ Released(l)
    BY <2>1 DEF Start, Skip, Copies, Ask, Released
  <2>2. CASE GiveUp(l) \/ Recv(l) \/ RecvEof(l) \/ WriteError(l)
    BY <1>1, <2>2 DEF GiveUp, Recv, RecvEof, WriteError
  <2>3. CASE Write(l) \/ PauseExit(l) \/ PauseBreak(l) \/ LoopEnd(l)
    BY <2>3 DEF Write, PauseExit, PauseBreak, LoopEnd
  <2>4. CASE Terminate(l) \/ CompleteRows(l)
    BY <2>4 DEF Terminate, CompleteRows
  <2> QED BY <1>7, <2>1, <2>2, <2>3, <2>4 DEF LoopStep
<1> QED BY <1>2, <1>3, <1>4, <1>5, <1>6, <1>7 DEF Next

LEMMA StillInStep ==
  ASSUME [Next]_vars, ~Excused' PROVE ~Excused
<1>1. ev \ {"late"} \subseteq ev'
  BY EventsKept
<1> QED BY <1>1 DEF Excused

\* A request is on its way only for a loop that waits for it.
LEMMA NoneAsked ==
  ASSUME RoundKept, NEW l \in LoopIds, Running(l), loops[l].pc # "recv"
  PROVE  asked = <<>>
<1>1. ASSUME NEW m \in LoopIds, loops[m].pc = "recv" PROVE FALSE
  <2>1. Running(m)
    BY <1>1 DEF Running
  <2> QED BY <1>1, <2>1 DEF RoundKept, OneLoop
<1> QED BY <1>1 DEF RoundKept, InStep

\* A loop that only goes elsewhere in the code.
LEMMA LoopGoesOn ==
  ASSUME TypeOK, RoundKept, NEW l \in LoopIds, NEW to \in Pcs, Running(l), Goto(l, to),
         to # "write", to = "end" => loops[l].pos = N,
         UNCHANGED <<area, last, db, want, good, round>>, ~skew',
         asked' # <<>> => to = "recv" /\ asked' = <<loops[l].pos>>
  PROVE  RoundKept'
<1>1. /\ \A m \in LoopIds : m # l => loops'[m] = loops[m]
      /\ loops'[l].pc = to /\ loops'[l].pos = loops[l].pos
  BY LoopGoes
<1>2. \A m \in LoopIds : (Running(m))' => Running(m)
  BY <1>1 DEF Running
<1>3. OneLoop'
  BY <1>2 DEF OneLoop, RoundKept
<1>4. InStep'
  BY <1>1 DEF InStep, RoundKept
<1>5. NothingMissed'
  <2>1. \A m \in LoopIds : (Running(m))' => \A p \in want : p < loops'[m].pos => p \in good
    BY <1>1, <1>2 DEF RoundKept, NothingMissed, Copied
  <2>2. \A m \in LoopIds : loops'[m].pc = "end" => loops'[m].pos = N
    BY <1>1 DEF RoundKept, NothingMissed
  <2> QED BY <2>1, <2>2 DEF RoundKept, NothingMissed, Copied
<1> QED BY <1>3, <1>4, <1>5 DEF RoundKept

\* The process ends: memory and requests are gone, the target is as it was.
LEMMA DeadKeeps ==
  ASSUME TypeOK, RoundKept, Dies, UNCHANGED <<want, good, round>>,
         \A i \in Open(db'.rows) : Copied(db'.rows[i].last)
  PROVE  RoundKept'
<1>1. /\ \A l \in LoopIds : loops'[l].pc = "idle"
      /\ asked' = <<>> /\ skew' = FALSE /\ area'.live = FALSE /\ last' = 0
  BY DeadTypes
<1>2. \A p \in want : ~(p < 0)
  BY Positions DEF TypeOK
<1>3. OneLoop' /\ InStep'
  BY <1>1 DEF OneLoop, InStep, Running
<1>4. NothingMissed'
  BY <1>1, <1>2 DEF NothingMissed, Running, Copied, RoundKept
<1> QED BY <1>3, <1>4 DEF RoundKept

\* The positions that are stored with what was copied before them.
LEMMA PositionKept ==
  ASSUME TypeOK, RoundKept, NEW p \in Pos, Copied(p)
  PROVE  \A i \in Open(SetLast(db.rows, p)) : Copied(SetLast(db.rows, p)[i].last)
<1>1. /\ Open(SetLast(db.rows, p)) = Open(db.rows)
      /\ \A i \in DOMAIN db.rows : SetLast(db.rows, p)[i].last \in {p, db.rows[i].last}
  BY Typed, LastStored
<1>2. \A i \in Open(db.rows) : i \in DOMAIN db.rows /\ Copied(db.rows[i].last)
  BY DEF RoundKept, NothingMissed, Open
<1> QED BY <1>1, <1>2

\* request_server_for_metadata starts a round in step: whole, with no loop, no
\* open row and last_resynced_bit at 0.
LEMMA RequestKeeps ==
  ASSUME TypeOK, RoundKept, ~Excused', RequestMetadata PROVE RoundKept'
<1>1. PICK D \in Bitmaps, short \in BOOLEAN :
        LET got == IF skew THEN {} ELSE IF short THEN D \cap {0} ELSE D
        IN /\ want' = D
           /\ area' = [bits |-> got, live |-> TRUE]
           /\ db' = [db EXCEPT !.file = Stored(got),
                               !.partner = IF partner = "released" THEN "inuse" ELSE @]
           /\ skew' = (skew \/ short)
           /\ ev' = (ev \ {"late"}) \cup (IF short THEN {"short"} ELSE {})
                       \cup (IF last # 0 \/ Open(db.rows) # {} \/ Overlap # {}
                               THEN {"remeta"} ELSE {})
  BY DEF RequestMetadata
<1>2. "short" \notin ev' /\ "remeta" \notin ev'
  BY DEF Excused
<1>3. ~short /\ last = 0 /\ Open(db.rows) = {} /\ Overlap = {}
  BY <1>1, <1>2
<1>4. \A l \in LoopIds : ~Running(l)
  BY <1>3 DEF Overlap
<1>5. ~skew
  BY DEF RoundKept, InStep
<1>6. area' = [bits |-> want', live |-> TRUE] /\ ~skew' /\ db'.rows = db.rows
  BY <1>1, <1>3, <1>5 DEF TypeOK
<1>7. loops' = loops /\ last' = 0 /\ asked' = <<>> /\ round' = "open"
  BY <1>3 DEF RequestMetadata
<1>8. \A l \in LoopIds : loops'[l].pc = "idle"
  BY <1>4, <1>7 DEF Running
<1>9. OneLoop' /\ InStep'
  BY <1>6, <1>7, <1>8 DEF OneLoop, InStep, Running
<1>10. NothingMissed'
  <2>1. \A p \in want' : ~(p < 0)
    BY <1>1, Positions
  <2>2. Open(db'.rows) = {}
    BY <1>3, <1>6
  <2> QED BY <1>7, <1>8, <2>1, <2>2 DEF NothingMissed, Running, Copied
<1> QED BY <1>9, <1>10 DEF RoundKept

\* A loop is started when none runs, where nothing before it is missing.
LEMMA LoopStarts ==
  ASSUME TypeOK, RoundKept, Overlap = {}, NEW l \in LoopIds, loops'[l].pc = "start",
         Copied(loops'[l].pos),
         \A m \in LoopIds : m # l => loops'[m] = loops[m],
         UNCHANGED <<area, netVars, last, want, good, round>>,
         \A i \in Open(db'.rows) : Copied(db'.rows[i].last)
  PROVE  RoundKept'
<1>1. \A m \in LoopIds : loops[m].pc = "idle"
  BY DEF Overlap, Running
<1>2. \A m \in LoopIds : m # l => loops'[m].pc = "idle"
  BY <1>1
<1>3. asked' = <<>>
  BY <1>1 DEF RoundKept, InStep, netVars
<1>4. OneLoop'
  BY <1>2 DEF OneLoop, Running
<1>5. InStep'
  BY <1>2, <1>3 DEF RoundKept, InStep, netVars
<1>6. NothingMissed'
  BY <1>2 DEF RoundKept, NothingMissed, Running, Copied
<1> QED BY <1>4, <1>5, <1>6 DEF RoundKept

\* update_resync_state, when no row of an earlier round is opened by it.
LEMMA StatesKeep ==
  ASSUME TypeOK, RoundKept, NEW s \in States, Reopened = {}
  PROVE  \A i \in Open(SetState(db.rows, s)) : Copied(SetState(db.rows, s)[i].last)
<1>1. \A i \in DOMAIN db.rows : i \in Open(db.rows)
  BY DEF Reopened
<1>2. /\ DOMAIN SetState(db.rows, s) = DOMAIN db.rows
      /\ \A i \in DOMAIN db.rows : SetState(db.rows, s)[i].last = db.rows[i].last
  BY Typed, StateStored
<1>3. \A i \in Open(SetState(db.rows, s)) : i \in DOMAIN db.rows
  BY <1>2 DEF Open
<1> QED BY <1>1, <1>2, <1>3 DEF RoundKept, NothingMissed

LEMMA CommandsKeep ==
  ASSUME TypeOK, RoundKept, ~Excused', Resync \/ Pause \/ Resume \/ FullResync
  PROVE  RoundKept'
<1>0. Copied(0)
  BY Positions DEF TypeOK, Copied
<1>1. "overlap" \notin ev' /\ "reopened" \notin ev'
  BY DEF Excused
<1>2. \A i \in Open(db.rows) : Copied(db.rows[i].last)
  BY DEF RoundKept, NothingMissed
<1>3. CASE Resync
  <2>1. Overlap = {}
    BY <1>1, <1>3 DEF Resync, Overlap
  <2>2. ResyncInit(0) /\ db' = db
    BY <1>3 DEF Resync
  <2>3. PICK l \in LoopIds : /\ loops'[l].pc = "start" /\ loops'[l].pos = 0
                             /\ \A m \in LoopIds : m # l => loops'[m] = loops[m]
    BY <2>2, ThreadStarts, Positions
  <2>4. Copied(loops'[l].pos)
    BY <1>0, <2>3
  <2> QED BY <1>2, <1>3, <2>1, <2>2, <2>3, <2>4, LoopStarts DEF Resync
<1>4. CASE Pause
  <2>1. Reopened = {}
    BY <1>1, <1>4 DEF Pause, Reopened
  <2>2. db'.rows = SetState(db.rows, "pause")
    BY <1>4 DEF Pause, TypeOK
  <2>3. \A i \in Open(db'.rows) : Copied(db'.rows[i].last)
    BY <2>1, <2>2, StatesKeep DEF States
  <2>4. OneLoop' /\ InStep'
    BY <1>4 DEF Pause, RoundKept, OneLoop, Running, InStep, netVars
  <2>5. NothingMissed'
    BY <1>4, <2>3 DEF Pause, RoundKept, NothingMissed, Running, Copied
  <2> QED BY <2>4, <2>5 DEF RoundKept
<1>5. CASE Resume
  <2>1. Overlap = {} /\ Reopened = {}
    BY <1>1, <1>5 DEF Resume, Overlap, Reopened
  <2>2. db'.rows = SetState(db.rows, "resume")
    BY <1>5 DEF Resume, TypeOK
  <2>3. \A i \in Open(db'.rows) : Copied(db'.rows[i].last)
    BY <2>1, <2>2, StatesKeep DEF States
  <2>4. ResyncInit(last) /\ last \in 0..N
    BY <1>5, Positions DEF Resume, TypeOK
  <2>5. PICK l \in LoopIds : /\ loops'[l].pc = "start" /\ loops'[l].pos = last
                             /\ \A m \in LoopIds : m # l => loops'[m] = loops[m]
    BY <2>4, ThreadStarts
  <2>6. Copied(loops'[l].pos)
    BY <2>5 DEF RoundKept, NothingMissed
  <2> QED BY <1>5, <2>1, <2>3, <2>5, <2>6, LoopStarts DEF Resume
<1>6. CASE FullResync
  <2>1. Overlap = {} /\ db' = db
    BY <1>1, <1>6 DEF FullResync, Overlap
  <2>2. /\ loops'[0].pc = "start" /\ loops'[0].pos = 0
        /\ \A m \in LoopIds : m # 0 => loops'[m] = loops[m]
    BY <1>6, Typed, Positions DEF FullResync
  <2>3. Copied(loops'[0].pos)
    BY <1>0, <2>2
  <2> QED BY <1>2, <1>6, <2>1, <2>2, <2>3, LoopStarts, Positions DEF FullResync, objVars
<1> QED BY <1>3, <1>4, <1>5, <1>6

\* A row is inserted at 0.
LEMMA StartKeeps ==
  ASSUME TypeOK, RoundKept, NEW l \in LoopIds, Start(l) PROVE RoundKept'
<1>1. /\ loops[l].pc = "start" /\ Goto(l, "test")
      /\ UNCHANGED <<area, netVars, last, want, good, round>>
  BY DEF Start, At
<1>2. Running(l) /\ asked = <<>>
  BY <1>1, NoneAsked DEF Running
<1>3. /\ \A m \in LoopIds : m # l => loops'[m] = loops[m]
      /\ loops'[l].pc = "test" /\ loops'[l].pos = loops[l].pos
  BY <1>1, LoopGoes DEF Pcs
<1>4. \A m \in LoopIds : (Running(m))' => Running(m)
  BY <1>2, <1>3 DEF Running
<1>5. \A i \in Open(db'.rows) : Copied(db'.rows[i].last)
  <2>1. \A i \in Open(db.rows) : Copied(db.rows[i].last)
    BY DEF RoundKept, NothingMissed
  <2>2. Copied(0)
    BY Positions DEF TypeOK, Copied
  <2>3. db'.rows = db.rows \/ db'.rows = Insert(db.rows)
    BY DEF Start, TypeOK
  <2>4. \A i \in Open(Insert(db.rows)) :
          \/ Insert(db.rows)[i].last = 0
          \/ i \in Open(db.rows) /\ Insert(db.rows)[i] = db.rows[i]
    BY Typed, RowInserted
  <2>5. ASSUME NEW i \in Open(Insert(db.rows)) PROVE Copied(Insert(db.rows)[i].last)
    BY <2>1, <2>2, <2>4
  <2> QED BY <2>1, <2>3, <2>5
<1>6. OneLoop'
  BY <1>4 DEF OneLoop, RoundKept
<1>7. InStep'
  BY <1>1, <1>2, <1>3 DEF InStep, RoundKept, netVars
<1>8. NothingMissed'
  <2>1. \A m \in LoopIds : (Running(m))' => \A p \in want : p < loops'[m].pos => p \in good
    BY <1>3, <1>4 DEF RoundKept, NothingMissed, Copied
  <2>2. \A m \in LoopIds : loops'[m].pc = "end" => loops'[m].pos = N
    BY <1>3 DEF RoundKept, NothingMissed
  <2> QED BY <1>1, <1>5, <2>1, <2>2 DEF RoundKept, NothingMissed, Copied
<1> QED BY <1>6, <1>7, <1>8 DEF RoundKept

\* A loop goes to the next bit: the one it leaves needs no copy or has it.
LEMMA NextBit ==
  ASSUME TypeOK, RoundKept, NEW l \in LoopIds, Running(l), loops[l].pc # "recv",
         loops[l].pos < N, UNCHANGED <<area, netVars, want, round>>,
         good \subseteq good', loops[l].pos \in want => loops[l].pos \in good',
         \A m \in LoopIds : m # l => loops'[m] = loops[m],
         loops'[l].pc = "test", loops'[l].pos = loops[l].pos + 1,
         last' = loops[l].pos, \A i \in Open(db'.rows) : Copied(db'.rows[i].last)
  PROVE  RoundKept'
<1>1. asked = <<>> /\ Copied(loops[l].pos)
  BY NoneAsked DEF RoundKept, NothingMissed
<1>2. \A m \in LoopIds : (Running(m))' => m = l
  BY DEF Running, RoundKept, OneLoop
<1>3. OneLoop'
  BY <1>2 DEF OneLoop
<1>4. InStep'
  BY <1>1 DEF InStep, RoundKept, netVars
<1>5. \A p \in want' : p < loops[l].pos + 1 => p \in good'
  <2>1. ASSUME NEW p \in want, p < loops[l].pos + 1
        PROVE  p < loops[l].pos \/ p = loops[l].pos
    <3>1. p \in Nat /\ loops[l].pos \in Nat
      BY Typed, Positions DEF TypeOK
    <3> QED BY <2>1, <3>1
  <2> QED BY <1>1, <2>1 DEF Copied
<1>6. NothingMissed'
  <2>1. \A m \in LoopIds : (Running(m))' => Copied(loops[m].pos)'
    BY <1>2, <1>5 DEF Copied
  <2>2. \A m \in LoopIds : loops'[m].pc = "end" => loops'[m].pos = N
    BY DEF RoundKept, NothingMissed
  <2>3. Copied(last)'
    BY <1>1 DEF Copied
  <2>4. \A i \in Open(db'.rows) : (\A p \in want' : p < db'.rows[i].last => p \in good')
    BY DEF Copied
  <2>5. round' = "done" => want' \subseteq good'
    BY DEF RoundKept, NothingMissed
  <2> QED BY <2>1, <2>2, <2>3, <2>4, <2>5 DEF NothingMissed, Copied
<1> QED BY <1>3, <1>4, <1>6 DEF RoundKept

LEMMA SkipKeeps ==
  ASSUME TypeOK, RoundKept, ~Excused', NEW l \in LoopIds, Skip(l) PROVE RoundKept'
<1>1. /\ loops[l].pc = "test" /\ loops[l].pos < N /\ Running(l)
      /\ loops' = [loops EXCEPT ![l].pos = @ + 1]
  BY DEF Skip, At, Running
<1>2. area.live /\ loops[l].pos \notin want
  <2>1. "freed" \notin ev'
    BY DEF Excused
  <2>2. area.live
    BY <2>1 DEF Skip
  <2> QED BY <2>2 DEF Skip, BitSet, RoundKept, InStep
<1>3. /\ \A m \in LoopIds : m # l => loops'[m] = loops[m]
      /\ loops'[l].pc = "test" /\ loops'[l].pos = loops[l].pos + 1
  BY <1>1, LoopMoves
<1>4. \A i \in Open(db'.rows) : Copied(db'.rows[i].last)
  BY DEF Skip, RoundKept, NothingMissed
<1>5. /\ UNCHANGED <<area, netVars, want, round>> /\ good \subseteq good'
      /\ last' = loops[l].pos /\ loops[l].pc # "recv"
  BY <1>1 DEF Skip
<1> QED BY <1>1, <1>2, <1>3, <1>4, <1>5, NextBit

\* The buffer is that of the position, so the target has the data.
LEMMA WriteKeeps ==
  ASSUME TypeOK, RoundKept, NEW l \in LoopIds, Write(l) PROVE RoundKept'
<1>1. /\ loops[l].pc = "write" /\ loops[l].pos < N /\ Running(l)
      /\ loops[l].pos \in Pos
      /\ loops' = [loops EXCEPT ![l].pc = "test", ![l].pos = @ + 1, ![l].buf = N]
  BY Typed, Positions DEF Write, At, Running, TypeOK
<1>2. good' = good \cup {loops[l].pos}
  BY <1>1 DEF Write, RoundKept, InStep
<1>3. /\ \A m \in LoopIds : m # l => loops'[m] = loops[m]
      /\ loops'[l].pos = loops[l].pos + 1
  BY <1>1, LoopMoves
<1>4. loops'[l].pc = "test"
  BY <1>1, Typed
<1>5. \A i \in Open(db'.rows) : Copied(db'.rows[i].last)
  <2>1. db'.rows = SetLast(db.rows, loops[l].pos)
    BY DEF Write, TypeOK
  <2>2. Copied(loops[l].pos)
    BY <1>1 DEF RoundKept, NothingMissed
  <2> QED BY <1>1, <2>1, <2>2, PositionKept
<1>6. /\ UNCHANGED <<area, netVars, want, round>> /\ last' = loops[l].pos
      /\ good \subseteq good' /\ loops[l].pos \in good' /\ loops[l].pc # "recv"
  BY <1>1, <1>2 DEF Write
<1> QED BY <1>1, <1>3, <1>4, <1>5, <1>6, NextBit

\* The steps that change nothing but the loop and the wire.
LEMMA MovesKeep ==
  ASSUME TypeOK, RoundKept, ~Excused', NEW l \in LoopIds,
         Copies(l) \/ Ask(l) \/ Released(l) \/ GiveUp(l) \/ RecvEof(l) \/ LoopEnd(l)
  PROVE  RoundKept'
<1>1. Running(l) /\ UNCHANGED <<area, last, db, want, good, round>>
  BY DEF Copies, Ask, Released, GiveUp, RecvEof, LoopEnd, At, Running, objVars
<1>2. ~skew
  BY DEF RoundKept, InStep
<1>3. CASE Copies(l)
  <2>1. Goto(l, "ask") /\ asked' = <<>> /\ ~skew'
    BY <1>1, <1>2, <1>3, NoneAsked DEF Copies, At, netVars
  <2> QED BY <1>1, <2>1, LoopGoesOn DEF Pcs
<1>4. CASE Ask(l)
  <2>1. asked = <<>> /\ Goto(l, "recv") /\ ~skew'
    BY <1>1, <1>2, <1>4, NoneAsked DEF Ask, At
  <2>2. PICK m \in LoopIds :
          /\ Running(m)
          /\ asked' = IF sock = "open" THEN Append(asked, loops[m].pos) ELSE asked
    BY <1>4 DEF Ask
  <2>3. m = l
    BY <1>1, <2>2 DEF RoundKept, OneLoop
  <2>4. Append(<<>>, loops[l].pos) = <<loops[l].pos>>
    OBVIOUS
  <2>5. asked' # <<>> => asked' = <<loops[l].pos>>
    BY <2>1, <2>2, <2>3, <2>4
  <2> QED BY <1>1, <2>1, <2>5, LoopGoesOn DEF Pcs
<1>5. CASE Released(l)
  <2>1. Goto(l, "idle") /\ asked' = <<>> /\ ~skew'
    BY <1>1, <1>2, <1>5, NoneAsked DEF Released, At, netVars
  <2> QED BY <1>1, <2>1, LoopGoesOn DEF Pcs
<1>6. CASE GiveUp(l)
  <2>1. Goto(l, "idle") /\ asked' = <<>> /\ ~skew'
    BY <1>6 DEF GiveUp
  <2> QED BY <1>1, <2>1, LoopGoesOn DEF Pcs
<1>7. CASE RecvEof(l)
  BY <1>7 DEF RecvEof, Excused
<1>8. CASE LoopEnd(l)
  <2>1. Goto(l, "end") /\ asked' = <<>> /\ ~skew'
    BY <1>1, <1>2, <1>8, NoneAsked DEF LoopEnd, At, netVars
  <2>2. loops[l].pos = N
    BY <1>8, Typed, Positions DEF LoopEnd
  <2> QED BY <1>1, <2>1, <2>2, LoopGoesOn DEF Pcs
<1> QED BY <1>3, <1>4, <1>5, <1>6, <1>7, <1>8

\* A whole reply to the only request is the chunk of the position.
LEMMA RecvKeeps ==
  ASSUME TypeOK, RoundKept, ~Excused', NEW l \in LoopIds, Recv(l) PROVE RoundKept'
<1>1. /\ loops[l].pc = "recv" /\ Running(l) /\ asked # <<>>
      /\ UNCHANGED <<area, last, db, want, good, round>> /\ asked' = Tail(asked)
  BY DEF Recv, At, Running, objVars
<1>2. "short" \notin ev' /\ ~skew
  BY DEF Excused, RoundKept, InStep
<1>3. /\ \A m \in LoopIds : m # l => loops'[m] = loops[m]
      /\ loops'[l].pc = "write" /\ loops'[l].pos = loops[l].pos
      /\ loops'[l].buf = Head(asked) /\ ~skew'
  BY <1>2, TypeRecv
<1>4. asked = <<loops[l].pos>>
  <2>1. PICK m \in LoopIds : loops[m].pc = "recv" /\ asked = <<loops[m].pos>>
    BY <1>1 DEF RoundKept, InStep
  <2>2. m = l
    BY <1>1, <2>1 DEF RoundKept, OneLoop, Running
  <2> QED BY <2>1, <2>2
<1>5. Head(asked) = loops[l].pos /\ asked' = <<>>
  BY <1>1, <1>4
<1>6. \A m \in LoopIds : (Running(m))' => Running(m)
  BY <1>1, <1>3 DEF Running
<1>7. OneLoop'
  BY <1>6 DEF OneLoop, RoundKept
<1>8. InStep'
  BY <1>1, <1>3, <1>5 DEF InStep, RoundKept
<1>9. NothingMissed'
  <2>1. \A m \in LoopIds : (Running(m))' => \A p \in want : p < loops'[m].pos => p \in good
    BY <1>3, <1>6 DEF RoundKept, NothingMissed, Copied
  <2>2. \A m \in LoopIds : loops'[m].pc = "end" => loops'[m].pos = N
    BY <1>3 DEF RoundKept, NothingMissed
  <2> QED BY <1>1, <2>1, <2>2 DEF RoundKept, NothingMissed, Copied
<1> QED BY <1>7, <1>8, <1>9 DEF RoundKept

LEMMA ExitsKeep ==
  ASSUME TypeOK, RoundKept, NEW l \in LoopIds,
         PauseExit(l) \/ PauseBreak(l) \/ WriteError(l)
  PROVE  RoundKept'
<1>1. /\ Running(l) /\ loops[l].pc # "recv" /\ UNCHANGED <<want, good, round>>
  BY DEF PauseExit, PauseBreak, WriteError, At, Running
<1>2. asked = <<>> /\ Copied(loops[l].pos) /\ ~skew
  BY <1>1, NoneAsked DEF RoundKept, NothingMissed, InStep
<1>3. \A i \in Open(db.rows) : Copied(db.rows[i].last)
  BY DEF RoundKept, NothingMissed
<1>4. CASE PauseBreak(l)
  <2>1. loops[l].pos \in Pos
    BY <1>4, Typed, Positions DEF PauseBreak, At, TypeOK
  <2>2. db'.rows = SetLast(db.rows, loops[l].pos)
    BY <1>4 DEF PauseBreak, TypeOK
  <2>3. \A i \in Open(db'.rows) : Copied(db'.rows[i].last)
    BY <1>2, <2>1, <2>2, PositionKept
  <2>4. CASE Dies
    BY <1>1, <2>3, <2>4, DeadKeeps
  <2>5. CASE ~Dies
    <3>1. /\ Goto(l, "idle") /\ last' = loops[l].pos
          /\ UNCHANGED <<area, netVars>>
      BY <1>4, <2>5 DEF PauseBreak, ExitThread
    <3>2. /\ \A m \in LoopIds : m # l => loops'[m] = loops[m]
          /\ loops'[l].pc = "idle"
      BY <3>1, LoopGoes DEF Pcs
    <3>3. \A m \in LoopIds : (Running(m))' => Running(m) /\ loops'[m] = loops[m]
      BY <3>2 DEF Running
    <3>4. OneLoop'
      BY <3>3 DEF OneLoop, RoundKept
    <3>5. InStep'
      BY <1>1, <1>2, <3>1, <3>2 DEF InStep, RoundKept, netVars
    <3>6. NothingMissed'
      <4>1. \A m \in LoopIds : (Running(m))' => \A p \in want : p < loops'[m].pos => p \in good
        BY <3>3 DEF RoundKept, NothingMissed, Copied
      <4>2. \A m \in LoopIds : loops'[m].pc = "end" => loops'[m].pos = N
        BY <3>2 DEF RoundKept, NothingMissed
      <4> QED BY <1>1, <1>2, <2>3, <3>1, <4>1, <4>2 DEF RoundKept, NothingMissed, Copied
    <3> QED BY <3>4, <3>5, <3>6 DEF RoundKept
  <2> QED BY <2>4, <2>5
<1>5. CASE PauseExit(l) \/ WriteError(l)
  <2>1. db' = db
    BY <1>5 DEF PauseExit, WriteError
  <2>2. CASE Dies
    BY <1>1, <1>3, <2>1, <2>2, DeadKeeps
  <2>3. CASE ~Dies
    <3>1. Goto(l, "idle") /\ UNCHANGED <<last, area, netVars>>
      BY <1>5, <2>3 DEF PauseExit, WriteError, ExitThread, objVars
    <3>2. asked' = <<>> /\ ~skew'
      BY <1>2, <3>1 DEF netVars
    <3> QED BY <1>1, <2>1, <3>1, <3>2, LoopGoesOn DEF Pcs
  <2> QED BY <2>2, <2>3
<1> QED BY <1>4, <1>5

\* replication_terminate: the loop is behind the last bit.
LEMMA TerminateKeeps ==
  ASSUME TypeOK, RoundKept, NEW l \in LoopIds, Terminate(l) PROVE RoundKept'
<1>1. /\ loops[l].pc = "end" /\ Running(l) /\ UNCHANGED <<netVars, want, good>>
  BY DEF Terminate, At, Running
<1>2. asked' = <<>> /\ ~skew'
  BY <1>1, NoneAsked DEF RoundKept, InStep, netVars
<1>3. want \subseteq good
  <2>1. loops[l].pos = N /\ Copied(N)
    BY <1>1 DEF RoundKept, NothingMissed
  <2> QED BY <2>1, Positions DEF Copied, TypeOK
<1>4. CASE rep = "completed"
  <2>1. Goto(l, "idle") /\ UNCHANGED <<last, area, db, round>>
    BY <1>4 DEF Terminate, objVars
  <2> QED BY <1>1, <1>2, <2>1, LoopGoesOn DEF Pcs
<1>5. CASE rep # "completed"
  <2>1. Goto(l, "rows") /\ area' = [area EXCEPT !.live = FALSE]
    BY <1>5 DEF Terminate
  <2>2. area'.live = FALSE
    BY <2>1 DEF TypeOK
  <2>3. /\ \A m \in LoopIds : m # l => loops'[m] = loops[m]
        /\ loops'[l].pc = "rows"
    BY <2>1, LoopGoes DEF Pcs
  <2>4. \A m \in LoopIds : (Running(m))' => Running(m)
    BY <1>1, <2>3 DEF Running
  <2>5. OneLoop'
    BY <2>4 DEF OneLoop, RoundKept
  <2>6. InStep'
    BY <1>2, <2>2, <2>3 DEF InStep, RoundKept
  <2>7. NothingMissed'
    <3>1. \A m \in LoopIds : loops'[m].pc = "end" => loops'[m].pos = N
      BY <2>3 DEF RoundKept, NothingMissed
    <3> QED BY <1>1, <1>3, <3>1 DEF NothingMissed, Copied
  <2> QED BY <2>5, <2>6, <2>7 DEF RoundKept
<1> QED BY <1>4, <1>5

LEMMA CompleteKeeps ==
  ASSUME TypeOK, RoundKept, NEW l \in LoopIds, CompleteRows(l) PROVE RoundKept'
<1>1. /\ loops[l].pc = "rows" /\ Running(l) /\ Goto(l, "idle")
      /\ UNCHANGED <<last, area, netVars, want, good, round>>
  BY DEF CompleteRows, At, Running, objVars
<1>2. asked' = <<>> /\ ~skew'
  BY <1>1, NoneAsked DEF RoundKept, InStep, netVars
<1>3. Open(db'.rows) = {}
  <2>1. db'.rows = SetState(db.rows, "completed")
    BY DEF CompleteRows, TypeOK
  <2>2. \A i \in DOMAIN SetState(db.rows, "completed") :
          SetState(db.rows, "completed")[i].state = "completed"
    BY Typed, StateStored DEF States
  <2> QED BY <2>1, <2>2 DEF Open
<1>4. /\ \A m \in LoopIds : m # l => loops'[m] = loops[m]
      /\ loops'[l].pc = "idle"
  BY <1>1, LoopGoes DEF Pcs
<1>5. \A m \in LoopIds : (Running(m))' => Running(m) /\ loops'[m] = loops[m]
  BY <1>4 DEF Running
<1>6. OneLoop'
  BY <1>5 DEF OneLoop, RoundKept
<1>7. InStep'
  BY <1>1, <1>2, <1>4 DEF InStep, RoundKept
<1>8. NothingMissed'
  <2>1. \A m \in LoopIds : (Running(m))' => \A p \in want : p < loops'[m].pos => p \in good
    BY <1>5 DEF RoundKept, NothingMissed, Copied
  <2>2. \A m \in LoopIds : loops'[m].pc = "end" => loops'[m].pos = N
    BY <1>4 DEF RoundKept, NothingMissed
  <2> QED BY <1>1, <1>3, <2>1, <2>2 DEF RoundKept, NothingMissed, Copied
<1> QED BY <1>6, <1>7, <1>8 DEF RoundKept

LEMMA OutsideKeeps ==
  ASSUME TypeOK, RoundKept, MetadataFails \/ LoseConnection \/ Crash PROVE RoundKept'
<1>1. CASE LoseConnection
  <2>1. OneLoop'
    BY <1>1 DEF LoseConnection, RoundKept, OneLoop, Running
  <2>2. InStep'
    BY <1>1 DEF LoseConnection, RoundKept, InStep
  <2>3. NothingMissed'
    BY <1>1 DEF LoseConnection, RoundKept, NothingMissed, Running, Copied, objVars
  <2> QED BY <2>1, <2>2, <2>3 DEF RoundKept
<1>2. CASE MetadataFails \/ Crash
  <2>1. Dies /\ UNCHANGED <<db, want, good, round>>
    BY <1>2 DEF MetadataFails, Crash
  <2>2. \A i \in Open(db'.rows) : Copied(db'.rows[i].last)
    BY <2>1 DEF RoundKept, NothingMissed
  <2> QED BY <2>1, <2>2, DeadKeeps
<1> QED BY <1>1, <1>2

\* db_init: one row is open, its bitmap is the one of the round, and the thread
\* starts where the row says.
LEMMA RestartKeeps ==
  ASSUME TypeOK, RoundKept, asked = <<>>, ~Excused', Restart PROVE RoundKept'
<1> DEFINE n == Cardinality(Open(db.rows))
<1>1. UNCHANGED <<asked, skew, db, want, good, round>>
  BY DEF Restart
<1>2. CASE n = 0
  <2>1. UNCHANGED <<loops, last, area>>
    BY <1>2 DEF Restart
  <2>2. OneLoop' /\ InStep'
    BY <1>1, <2>1 DEF RoundKept, OneLoop, Running, InStep
  <2>3. NothingMissed'
    BY <1>1, <2>1 DEF RoundKept, NothingMissed, Running, Copied
  <2> QED BY <2>2, <2>3 DEF RoundKept
<1>3. CASE n # 0
  <2>1. Open(db.rows) # {}
    BY <1>3, FS_EmptySet
  <2>2. n \in Nat
    <3>1. IsFiniteSet(DOMAIN db.rows)
      BY Typed, FS_Interval
    <3>2. Open(db.rows) \in SUBSET DOMAIN db.rows
      BY DEF Open
    <3> QED BY <3>1, <3>2, FS_Subset, FS_CardinalityType
  <2>3. PICK b \in SUBSET Pos :
          /\ area' = [bits |-> b, live |-> TRUE]
          /\ ev' = ev \cup (IF n > 1 THEN {"overlap"} ELSE {})
                      \cup (IF db.file # want THEN {"stale"} ELSE {})
                      \cup (IF b # db.file THEN {"text"} ELSE {})
    BY <1>3 DEF Restart
  <2>4. "overlap" \notin ev' /\ "stale" \notin ev' /\ "text" \notin ev'
    BY DEF Excused
  <2>5. n = 1 /\ b = want
    <3>1. ~(n > 1) /\ b = want
      <4> HIDE DEF n
      <4> QED BY <2>3, <2>4
    <3> HIDE DEF n
    <3> QED BY <1>3, <2>2, <3>1
  <2>6. PICK i \in Open(db.rows) : RestartLast(db.rows) = db.rows[i].last
    BY <2>1, Typed, RestartRow
  <2>7. /\ RestartLast(db.rows) \in Pos /\ Copied(RestartLast(db.rows))
    BY <2>6, Typed, RowIn DEF RoundKept, NothingMissed
  <2>8. /\ last' = RestartLast(db.rows)
        /\ loops' = [l \in LoopIds |->
                       IF l \in 1..1
                         THEN [pc |-> "start", pos |-> RestartLast(db.rows),
                               full |-> FALSE, buf |-> N]
                         ELSE Idle]
    BY <1>3, <2>5 DEF Restart
  <2>9. \A l \in LoopIds : IF l \in 1..1 THEN /\ loops'[l].pc = "start"
                                             /\ loops'[l].pos = RestartLast(db.rows)
                                        ELSE loops'[l].pc = "idle"
    BY <2>7, <2>8, LoopsRestarted
  <2>10. OneLoop'
    <3>1. \A l \in LoopIds : (Running(l))' => l = 1
      BY <2>9 DEF Running
    <3> QED BY <3>1 DEF OneLoop
  <2>11. InStep'
    <3>1. area'.bits = want' /\ ~skew' /\ asked' = <<>>
      BY <1>1, <2>3, <2>5 DEF RoundKept, InStep
    <3> QED BY <2>9, <3>1 DEF InStep
  <2>12. NothingMissed'
    <3>1. \A l \in LoopIds : (Running(l))' => loops'[l].pos = RestartLast(db.rows)
      BY <2>9 DEF Running
    <3>2. \A l \in LoopIds : loops'[l].pc # "end"
      BY <2>9
    <3> QED BY <1>1, <2>7, <2>8, <3>1, <3>2 DEF RoundKept, NothingMissed, Copied
  <2> QED BY <2>10, <2>11, <2>12 DEF RoundKept
<1> QED BY <1>2, <1>3

\* A process that has ended waits for nothing.
LEMMA NoneAskedDead ==
  ASSUME daemon = "dead" => asked = <<>>, [Next]_vars
  PROVE  daemon' = "dead" => asked' = <<>>
<1>1. CASE Dies
  BY <1>1 DEF Dies
<1>2. CASE UNCHANGED vars
  BY <1>2 DEF vars, netVars
<1>3. CASE ~Dies /\ Next
  <2>1. CASE Restart
    BY <2>1 DEF Restart
  <2>2. CASE RequestMetadata \/ Resync \/ Pause \/ Resume \/ FullResync \/ LoseConnection
    BY <2>2 DEF RequestMetadata, Resync, Pause, Resume, FullResync, LoseConnection, Command
  <2>3. ASSUME NEW l \in LoopIds, LoopStep(l) PROVE daemon = "up" /\ daemon' = daemon
    <3>1. CASE Start(l) \/ Skip(l) \/ Copies(l) \/ Ask(l) \/ Released(l) \/ GiveUp(l)
      BY <3>1 DEF Start, Skip, Copies, Ask, Released, GiveUp, At
    <3>2. CASE Recv(l) \/ RecvEof(l) \/ Write(l) \/ LoopEnd(l)
      BY <3>2 DEF Recv, RecvEof, Write, LoopEnd, At
    <3>3. CASE WriteError(l) \/ PauseExit(l) \/ PauseBreak(l)
      BY <1>3, <3>3 DEF WriteError, PauseExit, PauseBreak, ExitThread, At
    <3>4. CASE Terminate(l) \/ CompleteRows(l)
      BY <3>4 DEF Terminate, CompleteRows, At
    <3> QED BY <2>3, <3>1, <3>2, <3>3, <3>4 DEF LoopStep
  <2>4. CASE MetadataFails \/ Crash
    BY <1>3, <2>4 DEF MetadataFails, Crash
  <2> QED BY <1>3, <2>1, <2>2, <2>3, <2>4 DEF Next
<1> QED BY <1>1, <1>2, <1>3

LEMMA CopyInit == Init => CopyInv
<1> SUFFICES ASSUME Init PROVE CopyInv
  OBVIOUS
<1>1. \A l \in LoopIds : loops[l].pc = "idle"
  BY IdleLoop DEF Init
<1>2. OneLoop /\ InStep
  BY <1>1 DEF Init, OneLoop, Running, InStep, NoArea
<1>3. Open(db.rows) = {}
  BY DEF Init, Open
<1>4. NothingMissed
  BY <1>1, <1>3 DEF Init, NothingMissed, Running, Copied
<1> QED BY <1>2, <1>4 DEF Init, CopyInv, RoundKept

LEMMA CopyStep == TypeOK /\ CopyInv /\ [Next]_vars => CopyInv'
<1> SUFFICES ASSUME TypeOK, CopyInv, [Next]_vars PROVE CopyInv'
  OBVIOUS
<1>1. daemon' = "dead" => asked' = <<>>
  BY NoneAskedDead DEF CopyInv
<1>2. ASSUME ~Excused' PROVE RoundKept'
  <2>1. RoundKept
    BY <1>2, StillInStep DEF CopyInv
  <2>2. CASE UNCHANGED vars
    <3>1. OneLoop' /\ InStep'
      BY <2>1, <2>2 DEF vars, netVars, RoundKept, OneLoop, Running, InStep
    <3>2. NothingMissed'
      BY <2>1, <2>2 DEF vars, objVars, RoundKept, NothingMissed, Running, Copied
    <3> QED BY <3>1, <3>2 DEF RoundKept
  <2>3. CASE Restart
    <3>1. asked = <<>>
      BY <2>3 DEF Restart, CopyInv
    <3> QED BY <1>2, <2>1, <2>3, <3>1, RestartKeeps
  <2>4. ASSUME NEW l \in LoopIds, LoopStep(l) PROVE RoundKept'
    BY <1>2, <2>1, <2>4, StartKeeps, SkipKeeps, MovesKeep, RecvKeeps, WriteKeeps,
       ExitsKeep, TerminateKeeps, CompleteKeeps DEF LoopStep
  <2> QED BY <1>2, <2>1, <2>2, <2>3, <2>4, RequestKeeps, CommandsKeep, OutsideKeeps DEF Next
<1> QED BY <1>1, <1>2 DEF CopyInv

-----------------------------------------------------------------------------
(* The control thread.                                                     *)

\* A step that leaves the process running, keeps the loop of the control thread
\* where it was, if any, and pauses the partner only when there is none.
LEMMA ControlStays ==
  ASSUME ControlThreadInv, daemon' = "up", ev \ {"late"} \subseteq ev',
         (Running(0))' => Running(0),
         (Running(0))' /\ partner' = "pause" => partner = "pause"
  PROVE  ControlThreadInv'
  BY DEF ControlThreadInv, EndsOnlyIf

LEMMA ControlStep == TypeOK /\ ControlThreadInv /\ [Next]_vars => ControlThreadInv'
<1> SUFFICES ASSUME TypeOK, ControlThreadInv, [Next]_vars PROVE ControlThreadInv'
  OBVIOUS
<1>1. ev \ {"late"} \subseteq ev' /\ 0 \in LoopIds
  BY EventsKept, Positions
<1>2. ASSUME Dies, ev' \cap {"crash", "disk", "metadata", "fullpaused"} # {}
      PROVE  ControlThreadInv'
  BY <1>1, <1>2, DeadTypes DEF ControlThreadInv, EndsOnlyIf, Running
<1>3. CASE UNCHANGED vars
  BY <1>3 DEF vars, objVars, ControlThreadInv, EndsOnlyIf, Running
<1>4. CASE RequestMetadata
  <2>1. partner' = "pause" => partner = "pause"
    BY <1>4 DEF RequestMetadata
  <2> QED BY <1>1, <1>4, <2>1, ControlStays DEF RequestMetadata, Running
<1>5. CASE MetadataFails \/ Crash
  BY <1>2, <1>5 DEF MetadataFails, Crash, Fault
<1>6. CASE LoseConnection
  BY <1>1, <1>6, ControlStays DEF LoseConnection, objVars, Running
<1>7. CASE Pause
  BY <1>1, <1>7, ControlStays DEF Pause, Command, Running
<1>8. CASE Resync \/ Resume
  <2>1. \E q \in 0..N : ResyncInit(q)
    BY <1>8, Positions DEF Resync, Resume, TypeOK
  <2>2. loops'[0] = loops[0]
    BY <2>1, Typed, Positions DEF ResyncInit, Threads
  <2> QED BY <1>1, <1>8, <2>2, ControlStays DEF Resync, Resume, Command, Running
<1>9. CASE FullResync
  <2>1. daemon' = "up" /\ partner' = partner /\ (partner = "pause" => "fullpaused" \in ev')
    BY <1>9 DEF FullResync, Command, objVars
  <2> QED BY <2>1 DEF ControlThreadInv, EndsOnlyIf
<1>10. CASE Restart
  <2>1. daemon' = "up"
    BY <1>10 DEF Restart
  <2>2. ~(Running(0))'
    BY <1>1, <1>10 DEF Restart, Idle, ControlThreadInv, Running
  <2> QED BY <2>1, <2>2 DEF ControlThreadInv, EndsOnlyIf
<1>11. ASSUME NEW l \in LoopIds, LoopStep(l) PROVE ControlThreadInv'
  <2>1. ASSUME NEW to, Goto(l, to), Running(l) PROVE (Running(0))' => Running(0)
    BY <1>1, <2>1, Typed DEF Goto, Running
  <2>2. CASE Start(l) \/ Copies(l) \/ Ask(l) \/ Released(l) \/ GiveUp(l)
             \/ RecvEof(l) \/ LoopEnd(l) \/ CompleteRows(l) \/ Terminate(l)
    <3>1. daemon' = "up" /\ Running(l) /\ \E to \in Pcs : Goto(l, to)
      BY <2>2 DEF Start, Copies, Ask, Released, GiveUp, RecvEof, LoopEnd, CompleteRows,
                  Terminate, At, Running, Pcs
    <3>2. partner' = "pause" => partner = "pause"
      BY <2>2 DEF Start, Copies, Ask, Released, GiveUp, RecvEof, LoopEnd, CompleteRows,
                  Terminate, objVars
    <3> QED BY <1>1, <2>1, <3>1, <3>2, ControlStays
  <2>3. CASE Skip(l) \/ Recv(l) \/ Write(l)
    <3>1. /\ daemon' = "up" /\ partner' = partner /\ Running(l)
          /\ \A m \in LoopIds : m # l => loops'[m] = loops[m]
      BY <2>3, Typed DEF Skip, Recv, Write, At, Running, objVars
    <3>2. (Running(0))' => Running(0)
      BY <1>1, <3>1 DEF Running
    <3> QED BY <1>1, <3>1, <3>2, ControlStays
  <2>4. CASE WriteError(l)
    <3>1. CASE Dies
      BY <1>2, <2>4, <3>1 DEF WriteError, Fault
    <3>2. CASE ~Dies
      <4>1. Goto(l, "idle") /\ daemon' = "up" /\ partner' = partner /\ Running(l)
        BY <2>4, <3>2 DEF WriteError, At, Running, objVars
      <4> QED BY <1>1, <2>1, <4>1, ControlStays
    <3> QED BY <3>1, <3>2
  <2>5. CASE PauseExit(l) \/ PauseBreak(l)
    <3>1. Running(l) /\ partner = "pause" /\ ev' = ev /\ ExitThread(l) /\ daemon = "up"
      BY <2>5 DEF PauseExit, PauseBreak, At, Running
    <3>2. CASE l = 0
      BY <1>2, <3>1, <3>2 DEF ControlThreadInv, ExitThread
    <3>3. CASE l # 0
      BY <1>1, <2>1, <3>1, <3>3, ControlStays DEF ExitThread
    <3> QED BY <3>2, <3>3
  <2> QED BY <1>11, <2>2, <2>3, <2>4, <2>5 DEF LoopStep
<1> QED BY <1>3, <1>4, <1>5, <1>6, <1>7, <1>8, <1>9, <1>10, <1>11 DEF Next

-----------------------------------------------------------------------------
(* Theorems.                                                               *)

\* The state of the client keeps its types through commands, threads, faults
\* and restarts, for every bitmap and number of threads.
THEOREM TypeCorrect == Spec => []TypeOK
<1> QED BY TypeInit, TypeStep, PTL DEF Spec

\* As long as nothing took the client out of step, one loop runs at a time, its
\* request and its buffer are its own, and nothing to copy is missing before
\* the loop, last_resynced_bit or an open row.
THEOREM CopyInvariant == Spec => []CopyInv
<1> QED BY TypeCorrect, CopyInit, CopyStep, PTL DEF Spec

\* A round that replication_terminate has declared complete has copied every
\* bit the server had set, for every bitmap and any number of pauses, resumes,
\* lost connections, late answers, crashes and restarts.
THEOREM CompletionIsSafe == Spec => []CompletedMeansCopied
<1>1. CopyInv => CompletedMeansCopied
  BY DEF CopyInv, RoundKept, NothingMissed, CompletedMeansCopied
<1> QED BY <1>1, CopyInvariant, PTL

\* Where --resume would go on (last_resynced_bit), nothing before it is left.
THEOREM ResumeIsSafe == Spec => []ResumePointSafe
<1>1. CopyInv => ResumePointSafe
  BY DEF CopyInv, RoundKept, NothingMissed, Copied, ResumePointSafe
<1> QED BY <1>1, CopyInvariant, PTL

\* Where a restart would go on, the position of the first open row of the
\* resync table, nothing before it is left, at any point where a crash can come.
THEOREM RestartIsSafe == Spec => []RestartPointSafe
<1>1. TypeOK /\ CopyInv => RestartPointSafe
  <2> SUFFICES ASSUME TypeOK, CopyInv, ~Excused, Open(db.rows) # {}
               PROVE  Copied(RestartLast(db.rows))
    BY DEF RestartPointSafe, Copied
  <2>1. PICK i \in Open(db.rows) : RestartLast(db.rows) = db.rows[i].last
    BY Typed, RestartRow
  <2> QED BY <2>1 DEF CopyInv, RoundKept, NothingMissed
<1> QED BY <1>1, TypeCorrect, CopyInvariant, PTL

\* The daemon ends by a crash, a disk error, a lost answer to the request for
\* the bitmap, or a --fullresync of a paused partner in the control thread;
\* never by a pause that a resync thread finds.
THEOREM EndsForAReason == Spec => []EndsOnlyIf
<1>1. Init => ControlThreadInv
  BY IdleLoop, Positions DEF Init, ControlThreadInv, EndsOnlyIf, Running
<1>2. ControlThreadInv => EndsOnlyIf
  BY DEF ControlThreadInv
<1> QED BY <1>1, <1>2, TypeCorrect, ControlStep, PTL DEF Spec
=============================================================================
