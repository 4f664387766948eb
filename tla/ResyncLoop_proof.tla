------------------------- MODULE ResyncLoop_proof -------------------------
(***************************************************************************)
(* Proofs about the resync loop: the inductive invariant LoopInv of        *)
(* ResyncLoop, for any bitmap, any number of threads and any bounds, and   *)
(* what follows from it for a patient operator.                            *)
(*                                                                         *)
(* The invariant has three layers, proved one after the other: TypeOK;     *)
(* ControlInv, which says who is running and what is on the connection;    *)
(* DataInv and PositionInv, which say what is on the target.  The proof of *)
(* a layer has one lemma per action, and uses the layers before it.        *)
(***************************************************************************)
EXTENDS ResyncLoop, SequenceTheorems, TLAPS

-----------------------------------------------------------------------------
(* Facts about the operators of the model.                                 *)

\* What the sizes say of grains, chunks and addresses.
LEMMA Sizes ==
  /\ NumBits \in Nat /\ NumBits > 0 /\ NumChunks \in Nat /\ NumChunks > 0
  /\ 0 \in Grains /\ 0 \in ChunkIds /\ <<0, 0>> \in Addresses
  /\ \A g : g \in Grains <=> g \in Nat /\ g < NumBits
  /\ \A c : c \in ChunkIds <=> c \in Nat /\ c < NumChunks
BY SizeAssumption DEF Grains, ChunkIds, Addresses

\* The fields of a thread, and the address it is at.
LEMMA ThreadTypes ==
  ASSUME TypeOK, NEW t \in Threads
  PROVE  /\ th[t].pc \in Pcs /\ th[t].bit \in Nat /\ th[t].bit <= NumBits
         /\ th[t].chunk \in Nat /\ th[t].chunk <= NumChunks
         /\ th[t].buff \in Addresses \cup {Stale}
         /\ th[t].cancel \in {"no", "yes"}
         /\ th[t].bit < NumBits => th[t].bit \in Grains
         /\ th[t].chunk < NumChunks => th[t].chunk \in ChunkIds
         /\ th[t].bit < NumBits /\ th[t].chunk < NumChunks =>
              <<th[t].bit, th[t].chunk>> \in Addresses
<1>1. /\ th[t].pc \in Pcs /\ th[t].bit \in 0 .. NumBits
      /\ th[t].chunk \in 0 .. NumChunks
      /\ th[t].buff \in Addresses \cup {Stale}
      /\ th[t].cancel \in {"no", "yes"}
  BY DEF TypeOK, States
<1>2. /\ th[t].bit \in Nat /\ th[t].bit <= NumBits
      /\ th[t].chunk \in Nat /\ th[t].chunk <= NumChunks
  BY <1>1, Sizes
<1> QED
  BY <1>1, <1>2, Sizes DEF Addresses

\* The numbers of a thread, for arithmetic.
LEMMA ThreadNumbers ==
  ASSUME TypeOK, NEW t \in Threads
  PROVE  /\ th[t].bit >= NumBits \/ th[t].bit < NumBits
         /\ th[t].bit < NumBits => /\ ~(th[t].bit >= NumBits)
                                  /\ th[t].bit + 1 \in 0 .. NumBits
         /\ th[t].chunk >= NumChunks \/ th[t].chunk < NumChunks
         /\ th[t].chunk < NumChunks => /\ ~(th[t].chunk >= NumChunks)
                                      /\ th[t].chunk + 1 \in 0 .. NumChunks
<1>1. th[t].bit \in Nat /\ th[t].chunk \in Nat
  BY ThreadTypes
<1>2. NumBits \in Nat /\ NumChunks \in Nat
  BY Sizes
<1> QED
  BY <1>1, <1>2

\* Thread t goes on with these fields; the others stay as they are.
Moves(t, p, b, c, f, k) ==
  /\ th' \in [Threads -> States]
  /\ th'[t].pc = p /\ th'[t].bit = b /\ th'[t].chunk = c
  /\ th'[t].buff = f /\ th'[t].cancel = k
  /\ \A x \in Threads : x # t => th'[x] = th[x]

\* The same with only the control point changed.
Goes(t, p) == Moves(t, p, th[t].bit, th[t].chunk, th[t].buff, th[t].cancel)
Leaves(t)  == Moves(t, "idle", 0, 0, Stale, "no")

\* GoTo changes the control point and nothing else of a thread.
LEMMA GoToMoves ==
  ASSUME TypeOK, NEW t \in Threads, NEW p \in Pcs, GoTo(t, p) PROVE Goes(t, p)
BY DEF GoTo, TypeOK, States, Moves, Goes

\* A thread that returns is idle and keeps nothing.
LEMMA ExitMoves ==
  ASSUME TypeOK, NEW t \in Threads, Exit(t) PROVE Leaves(t)
BY Sizes DEF Exit, Idle, TypeOK, States, Moves, Leaves, Pcs

\* resync_init starts one idle thread and puts it into resync_tid.
LEMMA SpawnMoves ==
  ASSUME TypeOK, NEW from, ResyncInit(from)
  PROVE  \E t \in Threads : th[t].pc = "idle" /\ tid' = t /\ Goes(t, "new")
<1>1. PICK t \in Threads : /\ th[t].pc = "idle" /\ tid' = t
                           /\ th' = [th EXCEPT ![t].pc = "new"]
  BY DEF ResyncInit
<1>2. Goes(t, "new")
  BY <1>1 DEF TypeOK, States, Moves, Goes, Pcs
<1> QED
  BY <1>1, <1>2

\* The new thread takes its first bit from thread_params.
LEMMA StartMoves ==
  ASSUME TypeOK, NEW t \in Threads, Start(t)
  PROVE  /\ th[t].pc = "new"
         /\ Moves(t, "loop", params, th[t].chunk, th[t].buff, th[t].cancel)
<1>1. params \in 0 .. NumBits
  BY Sizes DEF TypeOK
<1> QED
  BY ZenonT(60), <1>1 DEF Start, At, TypeOK, States, Moves, Pcs

\* The three outcomes of the loop condition and of is_bit_set.
LEMMA LoopTestMoves ==
  ASSUME TypeOK, NEW t \in Threads, LoopTest(t)
  PROVE  /\ th[t].pc = "loop"
         /\ \/ /\ th[t].bit >= NumBits \/ partner = "PAUSE"
               /\ Goes(t, "after") /\ last' = last
            \/ /\ th[t].bit < NumBits /\ partner # "PAUSE"
               /\ area = "held" => th[t].bit \in bits
               /\ Moves(t, "chunk", th[t].bit, 0, th[t].buff, th[t].cancel)
               /\ last' = last
            \/ /\ th[t].bit < NumBits /\ partner # "PAUSE"
               /\ area = "held" => th[t].bit \notin bits
               /\ Moves(t, "loop", th[t].bit + 1, th[t].chunk, th[t].buff,
                        th[t].cancel)
               /\ last' = th[t].bit
<1>1. CASE /\ th[t].bit >= NumBits \/ partner = "PAUSE"
           /\ GoTo(t, "after") /\ UNCHANGED last
  BY <1>1, GoToMoves DEF LoopTest, At, Pcs
<1>2. ASSUME th[t].bit < NumBits, partner # "PAUSE",
             NEW set \in BitSet(t), set,
             th' = [th EXCEPT ![t].pc = "chunk", ![t].chunk = 0], last' = last
      PROVE  /\ area = "held" => th[t].bit \in bits
             /\ Moves(t, "chunk", th[t].bit, 0, th[t].buff, th[t].cancel)
  <2>1. 0 \in 0 .. NumChunks
    BY Sizes
  <2> QED
    BY ZenonT(60), <1>2, <2>1 DEF BitSet, TypeOK, States, Moves, Pcs
<1>3. ASSUME th[t].bit < NumBits, partner # "PAUSE",
             NEW set \in BitSet(t), ~set,
             th' = [th EXCEPT ![t].bit = @ + 1], last' = th[t].bit, At(t, "loop")
      PROVE  /\ area = "held" => th[t].bit \notin bits
             /\ Moves(t, "loop", th[t].bit + 1, th[t].chunk, th[t].buff,
                      th[t].cancel)
  <2>1. th[t].bit + 1 \in 0 .. NumBits
    BY <1>3, ThreadNumbers
  <2> QED
    BY <1>3, <2>1 DEF BitSet, TypeOK, States, Moves, Pcs, At
<1> QED
  BY <1>1, <1>2, <1>3 DEF LoopTest, At

\* The outcomes at the head of the chunk loop.
LEMMA NextChunkMoves ==
  ASSUME TypeOK, NEW t \in Threads, NextChunk(t)
  PROVE  /\ th[t].pc = "chunk"
         /\ \/ /\ th[t].chunk >= NumChunks
               /\ Goes(t, "grain") /\ hdr' = hdr
            \/ /\ th[t].chunk < NumChunks
               /\ hdr' = [op |-> "DATA", pos |-> Here(t)]
               /\ \/ partner = "PAUSE" /\ Goes(t, "grain")
                  \/ Leaves(t)
                  \/ partner # "PAUSE" /\ Goes(t, "send")
<1>1. th[t].chunk >= NumChunks \/ th[t].chunk < NumChunks
  BY ThreadNumbers
<1>2. CASE th[t].chunk >= NumChunks
  BY <1>2, GoToMoves DEF NextChunk, At, Pcs
<1>3. CASE th[t].chunk < NumChunks
  <2>1. ~(th[t].chunk >= NumChunks)
    BY <1>3, ThreadNumbers
  <2>2. /\ hdr' = [op |-> "DATA", pos |-> Here(t)]
        /\ \/ partner = "PAUSE" /\ GoTo(t, "grain")
           \/ Exit(t)
           \/ partner # "PAUSE" /\ GoTo(t, "send")
    BY <2>1 DEF NextChunk, Here
  <2> QED
    BY <1>3, <2>2, GoToMoves, ExitMoves DEF NextChunk, At, Pcs
<1> QED
  BY <1>1, <1>2, <1>3

\* The outcomes of chunk_read_client.
LEMMA RecvChunkMoves ==
  ASSUME TypeOK, NEW t \in Threads, RecvChunk(t)
  PROVE  /\ th[t].pc = "recv" /\ th[t].cancel = "no"
         /\ \/ /\ sock \in {"up", "fin"} /\ resps # <<>>
               /\ Moves(t, "write", th[t].bit, th[t].chunk, resps[1], "no")
               /\ resps' = Tail(resps) /\ sock' = sock
            \/ /\ sock \in {"fin", "closed"} /\ resps = <<>>
               /\ Goes(t, "write") /\ sock' = sock /\ resps' = resps
            \/ /\ sock \in {"reset", "closed"}
               /\ Goes(t, "sleep") /\ sock' = "closed" /\ resps' = <<>>
<1>1. CASE /\ sock \in {"up", "fin"} /\ resps # <<>>
           /\ th' = [th EXCEPT ![t].pc = "write", ![t].buff = Head(resps)]
           /\ resps' = Tail(resps)
           /\ UNCHANGED sock
  <2>1. resps[1] \in Addresses /\ Head(resps) = resps[1]
    BY <1>1 DEF TypeOK
  <2>2. Moves(t, "write", th[t].bit, th[t].chunk, resps[1], th[t].cancel)
    BY ZenonT(60), <1>1, <2>1 DEF TypeOK, States, Moves, Pcs
  <2> QED
    BY <1>1, <2>2 DEF RecvChunk, At
<1>2. CASE \/ /\ sock \in {"fin", "closed"} /\ resps = <<>>
              /\ GoTo(t, "write")
              /\ UNCHANGED <<sock, resps>>
           \/ /\ sock \in {"reset", "closed"}
              /\ sock' = "closed" /\ resps' = <<>>
              /\ GoTo(t, "sleep")
  BY <1>2, GoToMoves DEF RecvChunk, At, Pcs
<1> QED
  BY <1>1, <1>2 DEF RecvChunk

\* chunk_write_client goes on with the next chunk.
LEMMA WriteChunkMoves ==
  ASSUME TypeOK, NEW t \in Threads, WriteChunk(t)
  PROVE  /\ th[t].pc = "write"
         /\ Moves(t, "chunk", th[t].bit, th[t].chunk + 1, th[t].buff, th[t].cancel)
<1>1. th[t].chunk + 1 \in 0 .. NumChunks
  BY ThreadNumbers DEF TypeOK, InBounds, WriteChunk, At
<1> QED
  BY SMTT(60), <1>1 DEF WriteChunk, At, TypeOK, States, Moves, Pcs

\* The end of an iteration goes on with the next bit.
LEMMA GrainDoneMoves ==
  ASSUME TypeOK, NEW t \in Threads, GrainDone(t)
  PROVE  /\ th[t].pc = "grain" /\ th[t].cancel = "no"
         /\ Moves(t, "loop", th[t].bit + 1, th[t].chunk, th[t].buff, "no")
<1>1. th[t].bit + 1 \in 0 .. NumBits
  BY ThreadNumbers DEF TypeOK, InBounds, GrainDone, At
<1> QED
  BY ZenonT(60), <1>1 DEF GrainDone, At, TypeOK, States, Moves, Pcs

\* What the two steps do that may cancel the thread in resync_tid.
Cancels(t, p, c, when) ==
  /\ th' \in [Threads -> States]
  /\ th'[t].pc = p /\ th'[t].bit = th[t].bit /\ th'[t].chunk = c
  /\ th'[t].buff = th[t].buff
  /\ th'[t].cancel = IF when /\ t = tid THEN "yes" ELSE th[t].cancel
  /\ \A x \in Threads : x # t =>
       /\ th'[x].pc = th[x].pc /\ th'[x].bit = th[x].bit
       /\ th'[x].chunk = th[x].chunk /\ th'[x].buff = th[x].buff
       /\ th'[x].cancel = IF when /\ x = tid /\ th[x].pc # "idle"
                            THEN "yes" ELSE th[x].cancel

\* A failed write goes on too, and cancels resync_tid.
LEMMA WriteErrorMoves ==
  ASSUME TypeOK, NEW t \in Threads, WriteError(t)
  PROVE  th[t].pc = "write" /\ Cancels(t, "chunk", th[t].chunk + 1, TRUE)
<1>1. th[t].chunk + 1 \in 0 .. NumChunks
  BY ThreadNumbers DEF TypeOK, InBounds, WriteError, At
<1> DEFINE N(x) == IF x # t THEN th[x]
                   ELSE [th[x] EXCEPT !.pc = "chunk", !.chunk = @ + 1]
<1>2. th' = [x \in Threads |-> IF x = tid /\ N(x).pc # "idle"
                                 THEN [N(x) EXCEPT !.cancel = "yes"] ELSE N(x)]
  BY DEF WriteError
<1>3. /\ \A x \in Threads : N(x) \in States
      /\ N(t).pc = "chunk" /\ N(t).bit = th[t].bit /\ N(t).buff = th[t].buff
      /\ N(t).chunk = th[t].chunk + 1 /\ N(t).cancel = th[t].cancel
      /\ \A x \in Threads : x # t => N(x) = th[x]
  BY ZenonT(60), <1>1 DEF TypeOK, States, Pcs
<1> HIDE DEF N
<1>4. th' \in [Threads -> States]
  BY <1>2, <1>3 DEF States
<1>5. /\ th'[t].pc = "chunk" /\ th'[t].bit = th[t].bit
      /\ th'[t].chunk = th[t].chunk + 1 /\ th'[t].buff = th[t].buff
      /\ th'[t].cancel = IF t = tid THEN "yes" ELSE th[t].cancel
  BY <1>2, <1>3 DEF States
<1>6. ASSUME NEW x \in Threads, x # t
      PROVE  /\ th'[x].pc = th[x].pc /\ th'[x].bit = th[x].bit
             /\ th'[x].chunk = th[x].chunk /\ th'[x].buff = th[x].buff
             /\ th'[x].cancel = IF x = tid /\ th[x].pc # "idle"
                                  THEN "yes" ELSE th[x].cancel
  BY <1>2, <1>3, <1>6 DEF States
<1>7. th[t].pc = "write"
  BY DEF WriteError, At
<1> QED
  BY <1>4, <1>5, <1>6, <1>7 DEF Cancels

\* Behind the loop resync_tid is cancelled if the partner is paused.
LEMMA AfterLoopMoves ==
  ASSUME TypeOK, NEW t \in Threads, AfterLoop(t)
  PROVE  th[t].pc = "after" /\ Cancels(t, "term", th[t].chunk, partner = "PAUSE")
<1> DEFINE N(x) == IF x = t THEN [th[x] EXCEPT !.pc = "term"] ELSE th[x]
<1>2. th' = [x \in Threads |-> IF x = tid /\ partner = "PAUSE" /\ N(x).pc # "idle"
                                 THEN [N(x) EXCEPT !.cancel = "yes"] ELSE N(x)]
  BY DEF AfterLoop
<1>3. /\ \A x \in Threads : N(x) \in States
      /\ N(t).pc = "term" /\ N(t).bit = th[t].bit /\ N(t).buff = th[t].buff
      /\ N(t).chunk = th[t].chunk /\ N(t).cancel = th[t].cancel
      /\ \A x \in Threads : x # t => N(x) = th[x]
  BY ZenonT(60) DEF TypeOK, States, Pcs
<1> HIDE DEF N
<1> QED
  BY <1>2, <1>3 DEF Cancels, States, AfterLoop, At

-----------------------------------------------------------------------------
(* Type correctness.                                                       *)

Counters == [starts : Nat, pauses : Nat, resumes : Nat,
             reset : Nat, eof : Nat, disk : Nat]

\* Queues keep the type of what is put into them.
LEMMA QueueTypes ==
  ASSUME TypeOK
  PROVE  /\ <<>> \in Seq(Headers) /\ <<>> \in Seq(Addresses)
         /\ Append(reqs, hdr) \in Seq(Headers)
         /\ reqs # <<>> => /\ Tail(reqs) \in Seq(Headers)
                          /\ Head(reqs) = reqs[1] /\ reqs[1] \in Headers
                          /\ Append(resps, Head(reqs).pos) \in Seq(Addresses)
         /\ resps # <<>> => /\ Tail(resps) \in Seq(Addresses)
                           /\ Head(resps) = resps[1] /\ resps[1] \in Addresses
<1>1. hdr \in Headers /\ reqs \in Seq(Headers) /\ resps \in Seq(Addresses)
  BY DEF TypeOK
<1>2. \A h \in Headers : h.pos \in Addresses
  BY DEF Headers
<1>3. reqs # <<>> => Head(reqs) = reqs[1] /\ reqs[1] \in Headers
  BY <1>1
<1>4. Append(reqs, hdr) \in Seq(Headers)
  BY <1>1
<1> QED
  BY <1>1, <1>2, <1>3, <1>4

\* A command or a failure is counted.
LEMMA UseCounts ==
  ASSUME TypeOK,
         NEW k \in {"starts", "pauses", "resumes", "reset", "eof", "disk"},
         used' = [used EXCEPT ![k] = @ + 1]
  PROVE  /\ used' \in Counters
         /\ used'[k] = used[k] + 1
         /\ \A j \in {"starts", "pauses", "resumes", "reset", "eof", "disk"} :
              used[j] \in Nat /\ (j # k => used'[j] = used[j])
BY SMTT(60) DEF TypeOK, Counters

\* A thread that moves inside the bitmap and the grain keeps the bounds.
LEMMA BoundsMove ==
  ASSUME TypeOK, NEW t \in Threads, NEW p, NEW b, NEW c, NEW f, NEW k,
         Moves(t, p, b, c, f, k),
         p \in {"chunk", "send", "recv", "write", "grain"} => b < NumBits,
         p \in {"send", "recv", "write"} => c < NumChunks
  PROVE  InBounds'
BY DEF TypeOK, InBounds, Moves

\* Types: --resync.
LEMMA TypeResync == ASSUME TypeOK, Resync PROVE TypeOK'
<1>1. PICK t \in Threads : th[t].pc = "idle" /\ tid' = t /\ Goes(t, "new")
  BY SpawnMoves DEF Resync
<1>2. th' \in [Threads -> States] /\ InBounds'
  BY <1>1, BoundsMove DEF Goes, Moves
<1>3. used' \in Counters
  BY UseCounts DEF Resync, Use
<1>4. params' \in Grains
  BY Sizes DEF Resync, ResyncInit
<1> QED
  BY <1>1, <1>2, <1>3, <1>4 DEF TypeOK, Resync, ResyncInit, netVars, Counters

\* Types: --pause.
LEMMA TypePause == ASSUME TypeOK, Pause PROVE TypeOK'
<1>1. used' \in Counters
  BY UseCounts DEF Pause, Use
<1> QED
  BY <1>1 DEF TypeOK, Pause, InBounds, netVars, Counters

\* Types: --resume.
LEMMA TypeResume == ASSUME TypeOK, Resume PROVE TypeOK'
<1>1. PICK t \in Threads : th[t].pc = "idle" /\ tid' = t /\ Goes(t, "new")
  BY SpawnMoves DEF Resume
<1>2. th' \in [Threads -> States] /\ InBounds'
  BY <1>1, BoundsMove DEF Goes, Moves
<1>3. used' \in Counters
  BY UseCounts DEF Resume, Use
<1> QED
  BY <1>1, <1>2, <1>3 DEF TypeOK, Resume, ResyncInit, netVars, Counters

\* Types: the recovery thread.
LEMMA TypeRecover == ASSUME TypeOK, RecoverConn \/ RecoverDisk PROVE TypeOK'
<1>1. PICK t \in Threads : th[t].pc = "idle" /\ tid' = t /\ Goes(t, "new")
  BY SpawnMoves DEF RecoverConn, RecoverDisk
<1>2. th' \in [Threads -> States] /\ InBounds'
  BY <1>1, BoundsMove DEF Goes, Moves
<1> QED
  BY <1>1, <1>2, QueueTypes
     DEF TypeOK, RecoverConn, RecoverDisk, ResyncInit, netVars

\* Types: the start of a thread.
LEMMA TypeStart == ASSUME TypeOK, NEW t \in Threads, Start(t) PROVE TypeOK'
<1>1. th' \in [Threads -> States] /\ InBounds'
  BY StartMoves, BoundsMove DEF Moves
<1>2. hdr' \in Headers
  BY DEF TypeOK, Start, Headers
<1> QED
  BY <1>1, <1>2 DEF TypeOK, Start, netVars

\* Types: the loop condition.
LEMMA TypeLoopTest == ASSUME TypeOK, NEW t \in Threads, LoopTest(t) PROVE TypeOK'
<1>1. th' \in [Threads -> States] /\ InBounds'
  BY LoopTestMoves, BoundsMove DEF Goes, Moves
<1>2. last' \in Grains
  BY LoopTestMoves, ThreadTypes DEF TypeOK
<1> QED
  BY <1>1, <1>2 DEF TypeOK, LoopTest, objVars, netVars

\* Types: the head of the chunk loop.
LEMMA TypeNextChunk == ASSUME TypeOK, NEW t \in Threads, NextChunk(t) PROVE TypeOK'
<1>1. th[t].bit < NumBits
  BY NextChunkMoves DEF TypeOK, InBounds
<1>2. th' \in [Threads -> States] /\ InBounds'
  BY <1>1, NextChunkMoves, BoundsMove DEF Goes, Leaves, Moves
<1>3. hdr' \in Headers
  <2>1. th[t].chunk < NumChunks => Here(t) \in Addresses
    BY <1>1, ThreadTypes DEF Here
  <2> QED
    BY <2>1, NextChunkMoves DEF TypeOK, Headers
<1> QED
  BY <1>2, <1>3 DEF TypeOK, NextChunk, objVars, netVars

\* Types: the request.
LEMMA TypeSendRequest ==
  ASSUME TypeOK, NEW t \in Threads, SendRequest(t) PROVE TypeOK'
<1>1. th[t].bit < NumBits /\ th[t].chunk < NumChunks
  BY DEF TypeOK, InBounds, SendRequest, At
<1>2. Goes(t, "recv") \/ Goes(t, "sleep")
  BY GoToMoves DEF SendRequest, Pcs
<1>3. th' \in [Threads -> States] /\ InBounds'
  BY <1>1, <1>2, BoundsMove DEF Goes, Moves
<1>4. /\ reqs' \in Seq(Headers) /\ resps' \in Seq(Addresses)
      /\ sock' \in {"up", "reset", "fin", "closed"}
  BY QueueTypes DEF TypeOK, SendRequest
<1> QED
  BY <1>3, <1>4 DEF TypeOK, SendRequest, objVars

\* Types: chunk_read_client.
LEMMA TypeRecvChunk ==
  ASSUME TypeOK, NEW t \in Threads, RecvChunk(t) PROVE TypeOK'
<1>1. th[t].bit < NumBits /\ th[t].chunk < NumChunks
  BY DEF TypeOK, InBounds, RecvChunk, At
<1>2. th' \in [Threads -> States] /\ InBounds'
  BY <1>1, RecvChunkMoves, BoundsMove DEF Goes, Moves
<1>3. resps' \in Seq(Addresses) /\ sock' \in {"up", "reset", "fin", "closed"}
  BY QueueTypes DEF TypeOK, RecvChunk
<1> QED
  BY <1>2, <1>3 DEF TypeOK, RecvChunk, objVars

\* Types: chunk_write_client.
LEMMA TypeWriteChunk ==
  ASSUME TypeOK, NEW t \in Threads, WriteChunk(t) PROVE TypeOK'
<1>1. th[t].bit < NumBits /\ th[t].chunk < NumChunks
  BY DEF TypeOK, InBounds, WriteChunk, At
<1>2. th' \in [Threads -> States] /\ InBounds'
  BY <1>1, WriteChunkMoves, BoundsMove DEF Moves
<1>3. good' \subseteq Addresses
  BY <1>1, ThreadTypes DEF TypeOK, WriteChunk
<1> QED
  BY <1>2, <1>3 DEF TypeOK, WriteChunk, objVars, netVars

\* Types: a failed write to the target.
LEMMA TypeWriteError ==
  ASSUME TypeOK, NEW t \in Threads, WriteError(t) PROVE TypeOK'
<1>1. th[t].bit < NumBits /\ th[t].chunk < NumChunks
  BY DEF TypeOK, InBounds, WriteError, At
<1>2. th' \in [Threads -> States] /\ InBounds'
  BY <1>1, WriteErrorMoves DEF TypeOK, InBounds, Cancels
<1>3. used' \in Counters
  BY UseCounts DEF WriteError, Fail
<1>4. /\ diskc' = "PAUSE"
      /\ UNCHANGED <<bits, good, last, area, partner, rep, io, connc, hdr, params,
                     tid, dblock, sock, reqs, resps, srv>>
  BY DEF WriteError, netVars
<1> QED
  BY <1>2, <1>3, <1>4 DEF TypeOK, Counters

\* Types: the end of an iteration.
LEMMA TypeGrainDone ==
  ASSUME TypeOK, NEW t \in Threads, GrainDone(t) PROVE TypeOK'
<1>1. th' \in [Threads -> States] /\ InBounds'
  BY GrainDoneMoves, BoundsMove DEF Moves
<1>2. last' \in Grains
  BY ThreadTypes DEF TypeOK, InBounds, GrainDone, At
<1> QED
  BY <1>1, <1>2 DEF TypeOK, GrainDone, objVars, netVars

\* Types: the test for a pause behind the loop.
LEMMA TypeAfterLoop ==
  ASSUME TypeOK, NEW t \in Threads, AfterLoop(t) PROVE TypeOK'
<1>1. th' \in [Threads -> States] /\ InBounds'
  BY AfterLoopMoves DEF TypeOK, InBounds, Cancels
<1>2. UNCHANGED <<bits, good, last, area, partner, rep, io, connc, diskc, hdr,
                  params, tid, dblock, sock, reqs, resps, srv, used>>
  BY DEF AfterLoop, objVars, netVars
<1> QED
  BY <1>1, <1>2 DEF TypeOK

\* Types: replication_terminate.
LEMMA TypeTerminateBegin ==
  ASSUME TypeOK, NEW t \in Threads, TerminateBegin(t) PROVE TypeOK'
<1>1. Leaves(t) \/ Goes(t, "bye")
  BY GoToMoves, ExitMoves DEF TerminateBegin, Pcs
<1>2. th' \in [Threads -> States] /\ InBounds'
  BY <1>1, BoundsMove DEF Goes, Leaves, Moves
<1>3. hdr' \in Headers /\ last' \in Grains
  BY Sizes DEF TypeOK, TerminateBegin, Headers
<1> QED
  BY <1>2, <1>3 DEF TypeOK, TerminateBegin, objVars, netVars

\* Types: a thread that returns.
LEMMA TypeLeaving ==
  ASSUME TypeOK, NEW t \in Threads, GiveUp(t) \/ Die(t) \/ TerminateSend(t)
  PROVE  TypeOK'
<1>1. Leaves(t)
  BY ExitMoves DEF GiveUp, Die, TerminateSend
<1>2. th' \in [Threads -> States] /\ InBounds'
  BY <1>1, BoundsMove DEF Leaves, Moves
<1>3. reqs' \in Seq(Headers)
  BY QueueTypes DEF TypeOK, GiveUp, Die, TerminateSend, netVars
<1> QED
  BY <1>2, <1>3 DEF TypeOK, GiveUp, Die, TerminateSend, objVars, netVars

\* Types: the server and the connection.
LEMMA TypeServer ==
  ASSUME TypeOK, Serve \/ ConnReset \/ SourceReadError PROVE TypeOK'
<1>1. used' \in Counters
  BY UseCounts DEF TypeOK, Serve, ConnReset, SourceReadError, Fail, Counters
<1>2. reqs' \in Seq(Headers) /\ resps' \in Seq(Addresses)
  BY QueueTypes DEF TypeOK, Serve, ConnReset, SourceReadError
<1> QED
  BY SMTT(60), <1>1, <1>2 DEF TypeOK, Serve, ConnReset, SourceReadError, InBounds,
                    objVars, Counters

\* TypeOK is preserved by every step.
LEMMA TypeStep == ASSUME TypeOK, [Next]_vars PROVE TypeOK'
<1>1. CASE UNCHANGED vars
  BY <1>1 DEF TypeOK, InBounds, vars, objVars, netVars
<1>2. ASSUME NEW t \in Threads, Thread(t) PROVE TypeOK'
  BY <1>2, TypeStart, TypeLoopTest, TypeNextChunk, TypeSendRequest,
     TypeRecvChunk, TypeLeaving, TypeWriteChunk, TypeWriteError,
     TypeGrainDone, TypeAfterLoop, TypeTerminateBegin DEF Thread
<1> QED
  BY <1>1, <1>2, TypeResync, TypePause, TypeResume, TypeRecover, TypeServer
     DEF Next

\* The first state is well typed.
LEMMA TypeInit == Init => TypeOK
<1> SUFFICES ASSUME Init PROVE TypeOK
  OBVIOUS
<1>1. Idle \in States
  BY Sizes DEF Idle, States, Pcs
<1>2. th \in [Threads -> States] /\ InBounds
  BY <1>1 DEF Init, InBounds, Idle
<1>3. hdr \in Headers
  BY Sizes DEF Init, Headers
<1> QED
  BY <1>2, <1>3, Sizes DEF Init, TypeOK

\* Every variable keeps its type: whatever threads run at the same time, the
\* positions the resync loop reads and writes stay inside bitmap and grain.
THEOREM TypeCorrect == Spec => []TypeOK
BY TypeInit, TypeStep, PTL DEF Spec

-----------------------------------------------------------------------------
(* Control.                                                                *)

\* A round that a step leaves disturbed in one way only was so before.
LEMMA Disturbed ==
  ASSUME TypeOK, [Next]_vars, OneDisturbance' PROVE OneDisturbance
<1>1. CASE used' = used
  BY <1>1 DEF OneDisturbance
<1>2. ASSUME NEW k, Use(k, MaxPauses) \/ Use(k, 1) \/ Fail(k)
      PROVE  OneDisturbance
  BY <1>2 DEF Use, Fail
<1> QED
  BY ZenonT(60), <1>1, <1>2 DEF Next, Thread, Resync, Pause, Resume, RecoverConn,
     RecoverDisk, Start, LoopTest, NextChunk, SendRequest, RecvChunk, GiveUp,
     WriteChunk, WriteError, GrainDone, Die, AfterLoop, TerminateBegin,
     TerminateSend, Serve, ConnReset, SourceReadError, vars

\* The counters as numbers, and what they say of the disturbances.
LEMMA Counts ==
  ASSUME TypeOK
  PROVE  /\ used.starts \in Nat /\ used.pauses \in Nat /\ used.resumes \in Nat
         /\ used.reset \in Nat /\ used.eof \in Nat /\ used.disk \in Nat
         /\ Failures \in Nat
         /\ used.pauses > 0 \/ used.pauses = 0
         /\ Failures = 0 <=> ~(Failures > 0)
         /\ used.disk > 0 <=> ~(used.disk = 0)
         /\ used.disk > 0 => Failures > 0
         /\ used.eof > 0 => Failures > 0
         /\ OneDisturbance /\ used.pauses > 0 => Failures = 0
         /\ OneDisturbance /\ Failures > 0 => used.pauses = 0
BY DEF TypeOK, Failures, OneDisturbance

\* A step of thread t that touches nothing the threads share but the header,
\* and neither starts nor ends a wait for a chunk.
Quiet(t, p, k) ==
  /\ UNCHANGED <<area, partner, connc, diskc, tid, sock, reqs, resps, srv, used>>
  /\ th[t].pc \notin {"idle", "recv", "sleep"}
  /\ p \notin {"new", "recv", "write", "sleep"}
  /\ \/ p = "idle" /\ k = "no"
     \/ k = th[t].cancel /\ (k = "yes" => p \in {"chunk", "send", "grain", "bye"})
     \/ k = "yes" /\ th[t].cancel = "no" /\ p = "term" /\ partner = "PAUSE"
  /\ \/ hdr' = hdr /\ p \notin {"send", "bye"}
     \/ th[t].pc \in {"new", "chunk"} /\ hdr'.op = "DATA" /\ p # "bye"
     \/ th[t].pc = "term" /\ hdr'.op = "TERMINATION" /\ p = "bye"

\* Such a step keeps every part of ControlInv.
LEMMA QuietStep ==
  ASSUME TypeOK, OneDisturbance, ControlInv, NEW t \in Threads,
         NEW p, NEW b, NEW c, NEW f, NEW k,
         Moves(t, p, b, c, f, k), Quiet(t, p, k),
         th[t].cancel = "yes" /\ p # "idle" =>
           (p = "bye" <=> th[t].pc \in {"term", "bye"})
  PROVE  ControlInv'
<1>0. /\ UNCHANGED <<area, partner, connc, diskc, tid, sock, reqs, resps, srv,
                     used, Failures>>
      /\ th[t].pc \notin {"idle", "recv", "sleep"} /\ th[t].cancel \in {"no", "yes"}
      /\ \A x \in Threads : th[x].cancel \in {"no", "yes"}
      /\ p \notin {"new", "recv", "write", "sleep"}
  BY ThreadTypes DEF Quiet, Failures
<1>1. StartInv'
  BY <1>0 DEF ControlInv, StartInv, Running
<1>2. OneThread'
  <2>1. \A x \in Threads : Live(x)' => Live(x)
    BY <1>0 DEF Live, At, Moves, Quiet
  <2> QED
    BY <2>1, <1>0 DEF ControlInv, OneThread
<1>3. CancelInv'
  <2>1. k = "yes" => \/ used.disk > 0 /\ p \in {"chunk", "send", "grain"}
                     \/ /\ used.pauses > 0 /\ partner = "PAUSE" /\ tid = t
                        /\ p \in {"term", "bye"}
    BY <1>0 DEF ControlInv, CancelInv, OneThread, Quiet, Live, At
  <2> QED
    BY <2>1, <1>0 DEF ControlInv, CancelInv, Moves
<1>4. SocketInv'
  BY <1>0 DEF ControlInv, SocketInv, Live, At, Moves, Quiet
<1>5. PipeInv'
  <2>1. \A x \in Threads : At(x, "recv")' <=> At(x, "recv")
    BY <1>0 DEF At, Moves
  <2>2. \A x \in Threads : (Live(x) /\ At(x, "send"))' => hdr'.op = "DATA"
    BY <1>0 DEF ControlInv, PipeInv, OneThread, CancelInv, Live, At, Moves, Quiet
  <2>3. used.disk = 0 => \A x \in Threads :
          (Live(x) /\ At(x, "bye"))' => hdr'.op = "TERMINATION"
    BY <1>0, Counts DEF ControlInv, PipeInv, OneThread, CancelInv, Live, At,
       Moves, Quiet
  <2> QED
    BY <2>1, <2>2, <2>3, <1>0 DEF ControlInv, PipeInv
<1>6. OverInv'
  BY <1>0 DEF ControlInv, OverInv, Live, At, Moves, Quiet
<1> QED
  BY <1>1, <1>2, <1>3, <1>4, <1>5, <1>6 DEF ControlInv

\* A cancelled thread is nowhere else.
LEMMA NotCancelled ==
  ASSUME TypeOK, ControlInv, NEW t \in Threads,
         th[t].pc \notin {"chunk", "send", "grain", "term", "bye"}
  PROVE  th[t].cancel = "no"
BY ThreadTypes DEF ControlInv, CancelInv

\* Control: the start of a thread.
LEMMA ControlStart ==
  ASSUME TypeOK, OneDisturbance, ControlInv, NEW t \in Threads, Start(t)
  PROVE  ControlInv'
<1>1. /\ th[t].pc = "new" /\ th[t].cancel = "no"
      /\ Moves(t, "loop", params, th[t].chunk, th[t].buff, "no")
  BY StartMoves, NotCancelled
<1>2. hdr'.op = "DATA"
  BY DEF Start, TypeOK, Headers
<1>3. Quiet(t, "loop", "no")
  BY <1>1, <1>2 DEF Start, Quiet, netVars
<1> QED
  BY <1>1, <1>3, QuietStep

\* Control: the loop condition.
LEMMA ControlLoopTest ==
  ASSUME TypeOK, OneDisturbance, ControlInv, NEW t \in Threads, LoopTest(t)
  PROVE  ControlInv'
<1>1. th[t].pc = "loop" /\ th[t].cancel = "no"
  BY LoopTestMoves, NotCancelled
<1>2. PICK p \in {"after", "chunk", "loop"} : \E b, c :
        Moves(t, p, b, c, th[t].buff, "no")
  BY <1>1, LoopTestMoves DEF Goes
<1>3. Quiet(t, p, "no")
  BY <1>1 DEF LoopTest, Quiet, objVars, netVars
<1> QED
  BY <1>1, <1>2, <1>3, QuietStep

\* Control: the head of the chunk loop.
LEMMA ControlNextChunk ==
  ASSUME TypeOK, OneDisturbance, ControlInv, NEW t \in Threads, NextChunk(t)
  PROVE  ControlInv'
<1>1. /\ th[t].pc = "chunk" /\ th[t].cancel \in {"no", "yes"}
      /\ UNCHANGED <<area, partner, connc, diskc, tid, sock, reqs, resps, srv,
                     used>>
  BY NextChunkMoves, ThreadTypes DEF NextChunk, objVars, netVars
<1>2. CASE Leaves(t)
  <2>1. Quiet(t, "idle", "no")
    BY <1>1, NextChunkMoves DEF Quiet
  <2> QED
    BY <1>2, <2>1, QuietStep DEF Leaves
<1>3. ASSUME NEW p \in {"grain", "send"}, Goes(t, p), p = "grain" \/ hdr'.op = "DATA"
      PROVE  ControlInv'
  <2>1. Quiet(t, p, th[t].cancel)
    BY <1>1, <1>3, NextChunkMoves DEF Quiet
  <2> QED
    BY <1>1, <1>3, <2>1, QuietStep DEF Goes
<1> QED
  BY <1>2, <1>3, NextChunkMoves

\* Control: chunk_write_client.
LEMMA ControlWriteChunk ==
  ASSUME TypeOK, OneDisturbance, ControlInv, NEW t \in Threads, WriteChunk(t)
  PROVE  ControlInv'
<1>1. /\ th[t].pc = "write" /\ th[t].cancel = "no"
      /\ Moves(t, "chunk", th[t].bit, th[t].chunk + 1, th[t].buff, "no")
  BY WriteChunkMoves, NotCancelled
<1>2. Quiet(t, "chunk", "no")
  BY <1>1 DEF WriteChunk, Quiet, objVars, netVars
<1> QED
  BY <1>1, <1>2, QuietStep

\* Control: the end of an iteration.
LEMMA ControlGrainDone ==
  ASSUME TypeOK, OneDisturbance, ControlInv, NEW t \in Threads, GrainDone(t)
  PROVE  ControlInv'
<1>1. /\ th[t].pc = "grain" /\ th[t].cancel = "no"
      /\ Moves(t, "loop", th[t].bit + 1, th[t].chunk, th[t].buff, "no")
  BY GrainDoneMoves
<1>2. Quiet(t, "loop", "no")
  BY <1>1 DEF GrainDone, Quiet, objVars, netVars
<1> QED
  BY <1>1, <1>2, QuietStep

\* Control: a delivered cancel.
LEMMA ControlDie ==
  ASSUME TypeOK, OneDisturbance, ControlInv, NEW t \in Threads, Die(t)
  PROVE  ControlInv'
<1>1. /\ th[t].pc \in {"chunk", "send", "grain", "term", "bye"}
      /\ Moves(t, "idle", 0, 0, Stale, "no")
  BY ExitMoves DEF ControlInv, CancelInv, Die, Leaves
<1>2. Quiet(t, "idle", "no")
  BY <1>1 DEF Die, Quiet, objVars, netVars
<1> QED
  BY <1>1, <1>2, QuietStep

\* Control: replication_terminate.
LEMMA ControlTerminateBegin ==
  ASSUME TypeOK, OneDisturbance, ControlInv, NEW t \in Threads, TerminateBegin(t)
  PROVE  ControlInv'
<1>1. /\ th[t].pc = "term" /\ th[t].cancel \in {"no", "yes"}
      /\ UNCHANGED <<area, partner, connc, diskc, tid, sock, reqs, resps, srv,
                     used>>
  BY ThreadTypes DEF TerminateBegin, At, objVars, netVars
<1>2. CASE Leaves(t) /\ hdr' = hdr
  <2>1. Quiet(t, "idle", "no")
    BY <1>1, <1>2 DEF Quiet
  <2> QED
    BY <1>2, <2>1, QuietStep DEF Leaves
<1>3. CASE Goes(t, "bye") /\ hdr' = [hdr EXCEPT !.op = "TERMINATION"]
  <2>1. hdr'.op = "TERMINATION"
    BY <1>3 DEF TypeOK, Headers
  <2>2. Quiet(t, "bye", th[t].cancel)
    BY <1>1, <2>1 DEF Quiet
  <2> QED
    BY <1>1, <1>3, <2>2, QuietStep DEF Goes
<1> QED
  BY <1>2, <1>3, ExitMoves, GoToMoves DEF TerminateBegin, Pcs

\* A thread that is not cancelled is the one in resync_tid, so a step of it
\* that cancels resync_tid cancels nothing but itself.
LEMMA CancelsItself ==
  ASSUME TypeOK, ControlInv, NEW t \in Threads, Live(t), NEW p, NEW c, NEW when,
         Cancels(t, p, c, when)
  PROVE  /\ tid = t
         /\ Moves(t, p, th[t].bit, c, th[t].buff, IF when THEN "yes" ELSE "no")
<1>1. tid = t /\ th[t].cancel = "no"
  BY DEF ControlInv, OneThread, Live
<1>2. ASSUME NEW x \in Threads, x # t PROVE th'[x] = th[x]
  <2>1. /\ th'[x].pc = th[x].pc /\ th'[x].bit = th[x].bit
        /\ th'[x].chunk = th[x].chunk /\ th'[x].buff = th[x].buff
        /\ th'[x].cancel = th[x].cancel
    BY <1>1, <1>2 DEF Cancels
  <2>2. th'[x] \in States /\ th[x] \in States
    BY DEF Cancels, TypeOK
  <2> QED
    BY <2>1, <2>2 DEF States
<1> QED
  BY <1>1, <1>2 DEF Cancels, Moves

\* Control: the test for a pause behind the loop.
LEMMA ControlAfterLoop ==
  ASSUME TypeOK, OneDisturbance, ControlInv, NEW t \in Threads, AfterLoop(t)
  PROVE  ControlInv'
<1> DEFINE k == IF partner = "PAUSE" THEN "yes" ELSE "no"
<1>1. th[t].pc = "after" /\ th[t].cancel = "no"
  BY AfterLoopMoves, NotCancelled
<1>2. Moves(t, "term", th[t].bit, th[t].chunk, th[t].buff, k)
  BY <1>1, AfterLoopMoves, CancelsItself DEF Live, At
<1>3. Quiet(t, "term", k)
  BY <1>1 DEF AfterLoop, Quiet, objVars, netVars
<1> QED
  BY <1>1, <1>2, <1>3, QuietStep

\* resync_init while no thread is live: the new thread is the only one.
Spawned(t) ==
  /\ tid' = t /\ Goes(t, "new") /\ th[t].pc = "idle" /\ th[t].cancel = "no"
  /\ \A x \in Threads : ~Live(x)
  /\ \A x \in Threads :
       /\ Live(x)' => x = t
       /\ x # t => th'[x] = th[x]
       /\ th'[x].pc \notin {"recv", "write", "sleep"}
       /\ th[x].pc \notin {"recv", "write", "sleep"}
       /\ th'[x].cancel = "yes" => x # t /\ th[x].cancel = "yes"
  /\ th'[t].pc = "new"

\* resync_init while nothing is live gives such a thread.
LEMMA Spawns ==
  ASSUME TypeOK, ControlInv, NEW from, ResyncInit(from), \A x \in Threads : ~Live(x)
  PROVE  \E t \in Threads : Spawned(t)
<1>1. PICK t \in Threads : th[t].pc = "idle" /\ tid' = t /\ Goes(t, "new")
  BY SpawnMoves
<1>2. \A x \in Threads : th[x].pc \notin {"recv", "write", "sleep"}
  BY NotCancelled DEF Live, At
<1>3. th[t].cancel = "no"
  BY <1>1, NotCancelled
<1>4. /\ th'[t].pc = "new" /\ th'[t].cancel = "no"
      /\ \A x \in Threads : x # t => th'[x] = th[x]
  BY <1>1, <1>3 DEF Goes, Moves
<1>5. \A x \in Threads : Live(x)' => x = t
  BY <1>4 DEF Live, At
<1> QED
  BY <1>1, <1>2, <1>3, <1>4, <1>5 DEF Spawned

\* Control: --resync.
LEMMA ControlResync ==
  ASSUME TypeOK, OneDisturbance, ControlInv, Resync PROVE ControlInv'
<1>1. /\ UNCHANGED <<area, partner, connc, diskc, hdr, sock, reqs, resps, srv>>
      /\ ResyncInit(0)
  BY DEF Resync, netVars
<1>2. /\ used.starts = 0 /\ used'.starts > 0
      /\ UNCHANGED <<used.pauses, used.reset, used.eof, used.disk, Failures>>
  BY UseCounts, Counts DEF Resync, Use, Failures
<1>3. /\ ~Running /\ area = "held" /\ sock = "up" /\ partner = "IN_USE"
      /\ connc = "IN_USE" /\ diskc = "IN_USE"
  BY <1>2 DEF ControlInv, StartInv
<1>4. PICK t \in Threads : Spawned(t)
  BY <1>1, <1>3, Spawns DEF Running, Live, At
<1>5. StartInv'
  BY <1>2, Counts, TypeResync DEF StartInv, TypeOK
<1>6. OneThread'
  BY <1>1, <1>3, <1>4 DEF OneThread, Spawned
<1>7. CancelInv'
  BY <1>3, <1>4 DEF ControlInv, CancelInv, Spawned, Running
<1>8. SocketInv'
  BY <1>1, <1>2, <1>3, <1>4 DEF ControlInv, SocketInv, Spawned, At
<1>9. PipeInv'
  BY <1>1, <1>2, <1>3, <1>4 DEF ControlInv, PipeInv, Spawned, At
<1>10. OverInv'
  BY <1>1, <1>3 DEF OverInv
<1> QED
  BY <1>5, <1>6, <1>7, <1>8, <1>9, <1>10 DEF ControlInv

\* Control: --resume.
LEMMA ControlResume ==
  ASSUME Operator = "patient", TypeOK, OneDisturbance, ControlInv, Resume
  PROVE  ControlInv'
<1>1. /\ UNCHANGED <<area, connc, diskc, hdr, sock, reqs, resps, srv>>
      /\ ResyncInit(last) /\ ~Running /\ partner = "PAUSE" /\ partner' = "RESUME"
  BY DEF Resume, netVars
<1>2. UNCHANGED <<used.starts, used.pauses, used.reset, used.eof, used.disk,
                  Failures>>
  BY UseCounts, Counts DEF Resume, Use, Failures
<1>3. used.pauses > 0 /\ Failures = 0 /\ sock = "up" /\ used.disk = 0
      /\ connc # "PAUSE" /\ diskc # "PAUSE"
  BY <1>1, Counts DEF ControlInv, OneThread, SocketInv
<1>4. PICK t \in Threads : Spawned(t)
  BY <1>1, Spawns DEF Running, Live, At
<1>5. StartInv'
  BY <1>1, <1>2, <1>3 DEF ControlInv, StartInv
<1>6. OneThread'
  BY <1>1, <1>2, <1>3, <1>4 DEF ControlInv, OneThread, Spawned
<1>7. CancelInv'
  BY <1>1, <1>4 DEF ControlInv, CancelInv, Spawned, Running
<1>8. SocketInv'
  BY <1>1, <1>2, <1>3, <1>4 DEF ControlInv, SocketInv, Spawned, At
<1>9. PipeInv'
  BY <1>1, <1>2, <1>3, <1>4 DEF ControlInv, PipeInv, Spawned, At
<1>10. OverInv'
  BY <1>1, <1>2, <1>3, <1>4 DEF ControlInv, OverInv, Spawned, At
<1> QED
  BY <1>5, <1>6, <1>7, <1>8, <1>9, <1>10 DEF ControlInv

\* Control: the recovery thread.
LEMMA ControlRecover ==
  ASSUME TypeOK, OneDisturbance, ControlInv, RecoverConn \/ RecoverDisk
  PROVE  ControlInv'
<1>1. /\ UNCHANGED <<area, partner, hdr, srv, used, Failures>>
      /\ ResyncInit(last)
      /\ connc = "PAUSE" \/ diskc = "PAUSE"
      /\ \/ connc = "PAUSE" /\ connc' = "RESUME" /\ diskc' = diskc
            /\ sock' = "up" /\ reqs' = <<>> /\ resps' = <<>>
         \/ diskc = "PAUSE" /\ diskc' = "RESUME" /\ connc' = connc
            /\ UNCHANGED <<sock, reqs, resps>>
  BY DEF RecoverConn, RecoverDisk, netVars, Failures
<1>2. /\ Failures > 0 /\ used.pauses = 0 /\ ~(connc = "PAUSE" /\ diskc = "PAUSE")
      /\ used.starts # 0 /\ area = "held"
  BY <1>1, Counts DEF ControlInv, OneThread, StartInv, OverInv, TypeOK
<1>3. connc' # "PAUSE" /\ diskc' # "PAUSE"
  BY <1>1, <1>2
<1>4. PICK t \in Threads : Spawned(t)
  BY <1>1, Spawns DEF ControlInv, OneThread
<1>5. StartInv'
  BY <1>1, <1>2 DEF StartInv
<1>6. OneThread'
  BY <1>1, <1>2, <1>3, <1>4 DEF ControlInv, OneThread, Spawned
<1>7. CancelInv'
  BY <1>1, <1>2, <1>4, Counts DEF ControlInv, CancelInv, Spawned
<1>8. SocketInv'
  BY <1>1, <1>2, <1>3, <1>4, Counts DEF ControlInv, SocketInv, Spawned, At
<1>9. PipeInv'
  <2>1. srv = "active" /\ reqs = <<>> /\ resps = <<>>
    BY <1>2, <1>4 DEF ControlInv, PipeInv, Spawned, At
  <2> QED
    BY <2>1, <1>1, <1>2, <1>4 DEF PipeInv, Spawned, At
<1>10. OverInv'
  BY <1>1, <1>2 DEF OverInv
<1> QED
  BY <1>5, <1>6, <1>7, <1>8, <1>9, <1>10 DEF ControlInv

\* Control: --pause.
LEMMA ControlPause ==
  ASSUME TypeOK, OneDisturbance', OneDisturbance, ControlInv, Pause
  PROVE  ControlInv'
<1>1. /\ UNCHANGED <<area, last, connc, diskc, hdr, th, tid, sock, reqs, resps, srv>>
      /\ partner' = "PAUSE" /\ last # 0
  BY DEF Pause, netVars
<1>2. /\ used'.pauses > 0
      /\ UNCHANGED <<used.starts, used.reset, used.eof, used.disk, Failures>>
  BY UseCounts, Counts DEF Pause, Use, Failures
<1>3. Failures = 0 /\ used.disk = 0
  <2>1. Failures' = 0
    BY <1>2, Counts, TypePause DEF OneDisturbance, Failures
  <2> QED
    BY <2>1, <1>2, Counts
<1>4. used.starts # 0
  BY <1>1 DEF ControlInv, StartInv
<1>5. StartInv'
  BY <1>2, <1>4 DEF StartInv
<1>6. OneThread'
  BY <1>1, <1>2 DEF ControlInv, OneThread, Live, At
<1>7. CancelInv'
  BY <1>1, <1>2, <1>3, Counts DEF ControlInv, CancelInv
<1>8. SocketInv'
  BY <1>1, <1>2 DEF ControlInv, SocketInv, Live, At
<1>9. PipeInv'
  BY <1>1, <1>2 DEF ControlInv, PipeInv, Live, At
<1>10. OverInv'
  BY <1>1, <1>2 DEF ControlInv, OverInv, Live, At
<1> QED
  BY <1>5, <1>6, <1>7, <1>8, <1>9, <1>10 DEF ControlInv

\* What a live thread excludes.
LEMMA Alone ==
  ASSUME TypeOK, OneDisturbance, ControlInv, NEW t \in Threads, Live(t)
  PROVE  /\ tid = t /\ connc # "PAUSE" /\ diskc # "PAUSE" /\ used.starts # 0
         /\ \A x \in Threads : x # t =>
              ~Live(x) /\ th[x].pc \notin {"recv", "write", "sleep"}
         /\ area = "freed" =>
              /\ used.pauses > 0 /\ Failures = 0 /\ used.disk = 0
              /\ sock = "up" /\ resps = <<>>
              /\ th[t].pc \notin {"write", "sleep"}
         /\ area = "held" /\ th[t].pc # "recv" => reqs = <<>> /\ resps = <<>>
<1>1. tid = t /\ connc # "PAUSE" /\ diskc # "PAUSE"
  BY DEF ControlInv, OneThread
<1>2. used.starts # 0
  BY DEF ControlInv, StartInv, Running, Live, At
<1>3. \A x \in Threads : x # t =>
        ~Live(x) /\ th[x].pc \notin {"recv", "write", "sleep"}
  BY <1>1, NotCancelled DEF ControlInv, OneThread, Live, At
<1>4. area = "freed" =>
        /\ used.pauses > 0 /\ Failures = 0 /\ used.disk = 0
        /\ sock = "up" /\ resps = <<>> /\ th[t].pc \notin {"write", "sleep"}
  BY Counts DEF ControlInv, OverInv, SocketInv, At
<1>5. area = "held" /\ th[t].pc # "recv" => reqs = <<>> /\ resps = <<>>
  BY <1>3 DEF ControlInv, PipeInv, At
<1> QED
  BY <1>1, <1>2, <1>3, <1>4, <1>5

\* Queues of at most one element.
LEMMA QueueSteps ==
  ASSUME TypeOK
  PROVE  /\ reqs = <<>> => /\ Len(Append(reqs, hdr)) = 1
                          /\ Append(reqs, hdr)[1] = hdr
         /\ reqs # <<>> => Append(reqs, hdr)[1] = reqs[1]
         /\ Append(reqs, hdr) # <<>>
         /\ Len(reqs) = 1 => Tail(reqs) = <<>>
         /\ Len(resps) = 1 => Tail(resps) = <<>>
         /\ reqs # <<>> /\ resps = <<>> =>
              /\ Len(Append(resps, Head(reqs).pos)) = 1
              /\ Append(resps, Head(reqs).pos)[1] = reqs[1].pos
<1>1. reqs \in Seq(Headers) /\ resps \in Seq(Addresses) /\ hdr \in Headers
  BY DEF TypeOK
<1>2. reqs # <<>> => Append(reqs, hdr)[1] = reqs[1]
  BY <1>1
<1>3. Append(reqs, hdr) # <<>>
  BY <1>1
<1>4. reqs = <<>> => Len(Append(reqs, hdr)) = 1 /\ Append(reqs, hdr)[1] = hdr
  BY <1>1
<1>5. Len(reqs) = 1 => Tail(reqs) = <<>>
  <2>1. SUFFICES ASSUME Len(reqs) = 1 PROVE Tail(reqs) = <<>>
    OBVIOUS
  <2>2. reqs = <<>> => Len(reqs) = 0
    BY <1>1
  <2>3. Tail(reqs) \in Seq(Headers) /\ Len(Tail(reqs)) = 0
    BY <1>1, <2>1, <2>2
  <2> QED
    BY <2>3, EmptySeq
<1>6. Len(resps) = 1 => Tail(resps) = <<>>
  <2>1. SUFFICES ASSUME Len(resps) = 1 PROVE Tail(resps) = <<>>
    OBVIOUS
  <2>2. resps = <<>> => Len(resps) = 0
    BY <1>1
  <2>3. Tail(resps) \in Seq(Addresses) /\ Len(Tail(resps)) = 0
    BY <1>1, <2>1, <2>2
  <2> QED
    BY <2>3, EmptySeq
<1>7. reqs # <<>> /\ resps = <<>> =>
        /\ Len(Append(resps, Head(reqs).pos)) = 1
        /\ Append(resps, Head(reqs).pos)[1] = reqs[1].pos
  BY <1>1
<1> QED
  BY <1>2, <1>3, <1>4, <1>5, <1>6, <1>7

\* Control: the request.
LEMMA ControlSendRequest ==
  ASSUME TypeOK, OneDisturbance, ControlInv, NEW t \in Threads, SendRequest(t)
  PROVE  ControlInv'
<1>1. /\ UNCHANGED <<area, partner, connc, diskc, hdr, tid, srv, used, Failures>>
      /\ th[t].pc = "send" /\ th[t].cancel = "no" /\ Live(t)
      /\ sock \in {"up", "fin", "reset", "closed"}
  BY DEF SendRequest, At, Live, objVars, Failures, TypeOK
<1>2. \/ /\ sock = "up" /\ sock' = sock /\ resps' = resps
         /\ reqs' = Append(reqs, hdr) /\ Goes(t, "recv")
      \/ /\ sock = "fin" /\ sock' = "reset" /\ resps' = <<>> /\ reqs' = reqs
         /\ Goes(t, "recv")
      \/ /\ sock \in {"reset", "closed"} /\ sock' = "closed"
         /\ UNCHANGED <<reqs, resps>> /\ Goes(t, "sleep")
  BY <1>1, GoToMoves DEF SendRequest, Pcs
<1>3. PICK p \in {"recv", "sleep"} :
        /\ Goes(t, p)
        /\ p = "recv" => sock # "closed" /\ sock' # "closed" /\ sock' # "fin"
        /\ p = "sleep" => sock # "up" /\ sock' = "closed"
  BY <1>1, <1>2 DEF ControlInv, SocketInv, At
<1>4. /\ th'[t].pc = p /\ th'[t].cancel = "no"
      /\ \A x \in Threads : x # t => th'[x] = th[x]
      /\ \A x \in Threads : Live(x)' => x = t
  BY <1>1, <1>3, Alone DEF Goes, Moves, Live, At
<1>5. StartInv'
  BY <1>1, Alone DEF StartInv
<1>6. OneThread'
  BY <1>1, <1>4, Alone DEF ControlInv, OneThread
<1>7. CancelInv'
  BY <1>1, <1>4 DEF ControlInv, CancelInv
<1>8. SocketInv'
  BY <1>1, <1>2, <1>3, <1>4, Alone, Counts DEF ControlInv, SocketInv, At
<1>9. PipeInv'
  <2>1. area = "held" => reqs = <<>> /\ resps = <<>> /\ srv = "active"
    BY <1>1, Alone DEF ControlInv, PipeInv
  <2>2. hdr.op = "DATA"
    BY <1>1 DEF ControlInv, PipeInv, At
  <2>3. sock' # "up" => UNCHANGED reqs /\ resps' \in {resps, <<>>}
    BY <1>2
  <2>4. area = "held" /\ sock' = "up" =>
          /\ Len(reqs') = 1 /\ reqs'[1] = hdr /\ resps' = <<>> /\ At(t, "recv")'
    BY <1>2, <1>4, <2>1, QueueSteps DEF At, Goes, Moves
  <2>5. ~At(t, "send")' /\ ~At(t, "bye")'
    BY <1>4 DEF At
  <2> QED
    BY <1>1, <1>4, <2>1, <2>2, <2>3, <2>4, <2>5 DEF PipeInv
<1>10. OverInv'
  <2>1. SUFFICES ASSUME area = "freed" PROVE OverInv'
    BY <1>1 DEF OverInv
  <2>2. sock = "up" /\ used.pauses > 0 /\ resps = <<>>
    BY <1>1, <2>1, Alone
  <2>3. reqs # <<>> => reqs' # <<>> /\ reqs'[1] = reqs[1]
    BY <1>2, <2>2, QueueSteps
  <2>4. resps' = <<>> /\ sock' = sock
    BY <1>2, <2>2
  <2> QED
    BY <1>1, <1>3, <1>4, <2>2, <2>3, <2>4 DEF ControlInv, OverInv, At
<1> QED
  BY <1>5, <1>6, <1>7, <1>8, <1>9, <1>10 DEF ControlInv

\* Control: chunk_read_client.
LEMMA ControlRecvChunk ==
  ASSUME TypeOK, OneDisturbance, ControlInv, NEW t \in Threads, RecvChunk(t)
  PROVE  ControlInv'
<1>1. /\ UNCHANGED <<area, partner, connc, diskc, hdr, tid, reqs, srv, used,
                     Failures>>
      /\ th[t].pc = "recv" /\ th[t].cancel = "no" /\ Live(t)
  BY DEF RecvChunk, At, Live, objVars, Failures
<1>2. sock # "closed"
  BY <1>1 DEF ControlInv, SocketInv, At
<1>3. PICK p \in {"write", "sleep"} : \E f :
        /\ Moves(t, p, th[t].bit, th[t].chunk, f, "no")
        /\ p = "write" => sock' = sock /\ (sock = "fin" \/ resps # <<>>)
        /\ p = "sleep" => sock # "up" /\ sock' = "closed"
  BY <1>1, <1>2, RecvChunkMoves DEF Goes
<1>4. /\ th'[t].pc = p /\ th'[t].cancel = "no"
      /\ \A x \in Threads : x # t => th'[x] = th[x]
      /\ \A x \in Threads : Live(x)' => x = t
      /\ \A x \in Threads : ~At(x, "recv")'
  BY <1>1, <1>3, Alone DEF Moves, Live, At
<1>5. StartInv'
  BY <1>1, Alone DEF StartInv
<1>6. OneThread'
  BY <1>1, <1>4, Alone DEF ControlInv, OneThread
<1>7. CancelInv'
  BY <1>1, <1>4 DEF ControlInv, CancelInv
<1>8. SocketInv'
  BY <1>1, <1>2, <1>3, <1>4, Alone, Counts DEF ControlInv, SocketInv, At
<1>9. area = "held"
  BY <1>1, <1>3, Alone DEF ControlInv, SocketInv, TypeOK
<1>10. PipeInv'
  <2>1. reqs' = <<>> /\ resps' = <<>> /\ srv' = "active"
    BY <1>1, <1>9, RecvChunkMoves, QueueSteps DEF ControlInv, PipeInv, At, TypeOK
  <2>2. ~At(t, "send")' /\ ~At(t, "bye")'
    BY <1>4 DEF At
  <2> QED
    BY <1>4, <2>1, <2>2 DEF PipeInv
<1>11. OverInv'
  BY <1>1, <1>9 DEF OverInv
<1> QED
  BY <1>5, <1>6, <1>7, <1>8, <1>10, <1>11 DEF ControlInv

\* Control: a thread that gives its connection up.
LEMMA ControlGiveUp ==
  ASSUME TypeOK, OneDisturbance, ControlInv, NEW t \in Threads, GiveUp(t)
  PROVE  ControlInv'
<1>1. /\ UNCHANGED <<area, partner, diskc, hdr, tid, sock, reqs, resps, srv, used,
                     Failures>>
      /\ connc' = "PAUSE" /\ th[t].pc = "sleep" /\ th[t].cancel = "no" /\ Live(t)
  BY DEF GiveUp, At, Live, netVars, Failures
<1>2. /\ th'[t].pc = "idle" /\ th'[t].cancel = "no"
      /\ \A x \in Threads : x # t => th'[x] = th[x]
  BY ExitMoves DEF GiveUp, Leaves, Moves
<1>3. \A x \in Threads : ~Live(x)' /\ th'[x].pc \notin {"recv", "write", "sleep"}
  BY <1>1, <1>2, Alone DEF Live, At
<1>4. area = "held" /\ Failures > 0 /\ diskc # "PAUSE" /\ used.starts # 0
  BY <1>1, Alone DEF ControlInv, SocketInv, At, TypeOK
<1>5. StartInv'
  BY <1>1, <1>4 DEF StartInv
<1>6. OneThread'
  BY <1>1, <1>3, <1>4 DEF ControlInv, OneThread
<1>7. CancelInv'
  BY <1>1, <1>2 DEF ControlInv, CancelInv
<1>8. SocketInv'
  BY <1>1, <1>3, <1>4 DEF ControlInv, SocketInv, At
<1>9. PipeInv'
  <2>1. reqs = <<>> /\ resps = <<>> /\ srv = "active"
    BY <1>1, <1>4, Alone DEF ControlInv, PipeInv
  <2> QED
    BY <1>1, <1>3, <2>1 DEF PipeInv, At
<1>10. OverInv'
  BY <1>1, <1>4 DEF OverInv
<1> QED
  BY <1>5, <1>6, <1>7, <1>8, <1>9, <1>10 DEF ControlInv

\* What a counted failure changes.
LEMMA FailCounts ==
  ASSUME TypeOK, NEW k \in {"reset", "eof", "disk"}, Fail(k), OneDisturbance'
  PROVE  /\ Failures' > 0 /\ used.pauses = 0 /\ used'[k] > 0
         /\ UNCHANGED <<used.starts, used.pauses>>
         /\ \A j \in {"reset", "eof", "disk"} : j # k => UNCHANGED used[j]
<1>1. used' = [used EXCEPT ![k] = @ + 1]
  BY DEF Fail
<1>2. /\ used'[k] = used[k] + 1
      /\ \A j \in {"starts", "pauses", "resumes", "reset", "eof", "disk"} :
              used[j] \in Nat /\ (j # k => used'[j] = used[j])
  BY <1>1, UseCounts
<1>3. Failures' > 0
  BY <1>2 DEF Failures
<1>4. used.pauses = 0
  BY <1>2, <1>3 DEF OneDisturbance, Failures
<1> QED
  BY <1>2, <1>3, <1>4

\* Control: a failed write to the target.
LEMMA ControlWriteError ==
  ASSUME TypeOK, OneDisturbance, OneDisturbance', ControlInv,
         NEW t \in Threads, WriteError(t)
  PROVE  ControlInv'
<1>1. /\ UNCHANGED <<area, partner, connc, hdr, tid, sock, reqs, resps, srv>>
      /\ diskc' = "PAUSE" /\ Fail("disk")
  BY DEF WriteError, netVars
<1>2. /\ Failures' > 0 /\ used'.disk > 0
      /\ UNCHANGED <<used.starts, used.pauses, used.eof>>
  BY <1>1, FailCounts
<1>3. th[t].pc = "write" /\ th[t].cancel = "no" /\ Live(t)
  BY WriteErrorMoves, NotCancelled DEF Live, At
<1>4. Moves(t, "chunk", th[t].bit, th[t].chunk + 1, th[t].buff, "yes")
  BY <1>3, WriteErrorMoves, CancelsItself
<1>5. /\ th'[t].pc = "chunk" /\ th'[t].cancel = "yes"
      /\ \A x \in Threads : x # t => th'[x] = th[x]
  BY <1>4 DEF Moves
<1>6. \A x \in Threads : ~Live(x)' /\ th'[x].pc \notin {"recv", "write", "sleep"}
  BY <1>3, <1>5, Alone DEF Live, At
<1>7. /\ area = "held" /\ connc # "PAUSE" /\ used.starts # 0 /\ sock # "closed"
      /\ reqs = <<>> /\ resps = <<>> /\ srv = "active"
  BY <1>3, Alone DEF ControlInv, SocketInv, PipeInv, At, TypeOK
<1>8. StartInv'
  BY <1>2, <1>7 DEF StartInv
<1>9. OneThread'
  BY <1>1, <1>2, <1>6, <1>7 DEF ControlInv, OneThread
<1>10. CancelInv'
  BY <1>1, <1>2, <1>5, Alone, <1>3 DEF ControlInv, CancelInv
<1>11. SocketInv'
  BY <1>1, <1>2, <1>6, <1>7 DEF ControlInv, SocketInv, At
<1>12. PipeInv'
  BY <1>1, <1>2, <1>6, <1>7 DEF PipeInv, At
<1>13. OverInv'
  BY <1>1, <1>7 DEF OverInv
<1> QED
  BY <1>8, <1>9, <1>10, <1>11, <1>12, <1>13 DEF ControlInv

\* Control: the message that ends the round.
LEMMA ControlTerminateSend ==
  ASSUME TypeOK, OneDisturbance, ControlInv, NEW t \in Threads, TerminateSend(t)
  PROVE  ControlInv'
<1>1. /\ UNCHANGED <<connc, hdr, tid, sock, resps, srv, used, Failures>>
      /\ area' = "freed" /\ partner' = "RELEASED" /\ diskc' = "RELEASED"
      /\ reqs' = IF sock = "up" THEN Append(reqs, hdr) ELSE reqs
      /\ th[t].pc = "bye" /\ th[t].cancel = "no" /\ Live(t)
  BY DEF TerminateSend, At, Live, Failures
<1>2. /\ th'[t].pc = "idle" /\ th'[t].cancel = "no"
      /\ \A x \in Threads : x # t => th'[x] = th[x]
  BY ExitMoves DEF TerminateSend, Leaves, Moves
<1>3. \A x \in Threads : ~Live(x)' /\ th'[x].pc \notin {"recv", "write", "sleep"}
  BY <1>1, <1>2, Alone DEF Live, At
<1>4. tid = t /\ connc # "PAUSE" /\ used.starts # 0 /\ resps = <<>>
  BY <1>1, Alone DEF TypeOK
<1>5. StartInv'
  BY <1>1, <1>4 DEF StartInv
<1>6. OneThread'
  BY <1>1, <1>3, <1>4 DEF ControlInv, OneThread
<1>7. CancelInv'
  BY <1>1, <1>2, <1>4 DEF ControlInv, CancelInv
<1>8. SocketInv'
  BY <1>1, <1>3 DEF ControlInv, SocketInv, At
<1>9. PipeInv'
  BY <1>1, <1>3 DEF PipeInv
<1>10. OverInv'
  <2>1. ASSUME used.disk = 0, srv = "active", sock = "up"
        PROVE  reqs' # <<>> /\ reqs'[1].op = "TERMINATION"
    <3>1. hdr.op = "TERMINATION"
      BY <1>1, <2>1 DEF ControlInv, PipeInv, At
    <3>2. reqs = <<>> \/ reqs[1].op = "TERMINATION"
      BY <1>1, <2>1, Alone DEF ControlInv, OverInv, TypeOK
    <3> QED
      BY <1>1, <2>1, <3>1, <3>2, QueueSteps
  <2> QED
    BY <1>1, <1>3, <1>4, <2>1 DEF OverInv, At
<1> QED
  BY <1>5, <1>6, <1>7, <1>8, <1>9, <1>10 DEF ControlInv

\* Control: the server's answers.
LEMMA ControlServe ==
  ASSUME TypeOK, OneDisturbance, ControlInv, Serve PROVE ControlInv'
<1>1. /\ UNCHANGED <<last, area, partner, connc, diskc, hdr, tid, th, sock, used,
                     Failures>>
      /\ sock = "up" /\ reqs # <<>> /\ reqs' = Tail(reqs) /\ Head(reqs) = reqs[1]
  BY QueueTypes DEF Serve, objVars, Failures
<1>2. \/ /\ reqs[1].op = "DATA" /\ srv = "active" /\ srv' = srv
         /\ resps' = Append(resps, Head(reqs).pos)
      \/ reqs[1].op = "TERMINATION" /\ srv' = "released" /\ resps' = resps
      \/ /\ UNCHANGED <<resps, srv>> /\ reqs[1].op # "TERMINATION"
         /\ ~(reqs[1].op = "DATA" /\ srv = "active")
  BY <1>1 DEF Serve
<1>3. StartInv' /\ OneThread' /\ CancelInv' /\ SocketInv'
  BY <1>1 DEF ControlInv, StartInv, OneThread, CancelInv, SocketInv, Running,
     Live, At
<1>4. PipeInv'
  <2>1. CASE area = "held"
    <3>1. PICK t \in Threads : At(t, "recv")
      BY <1>1, <2>1 DEF ControlInv, PipeInv
    <3>2. Len(reqs) = 1 /\ reqs[1].op = "DATA" /\ resps = <<>> /\ srv = "active"
      BY <1>1, <2>1, <3>1 DEF ControlInv, PipeInv
    <3>3. reqs' = <<>> /\ Len(resps') = 1 /\ srv' = "active"
      BY <1>1, <1>2, <3>2, QueueSteps
    <3> QED
      BY <1>1, <2>1, <3>1, <3>3 DEF ControlInv, PipeInv, Live, At
  <2>2. CASE area # "held"
    BY <1>1, <2>2 DEF ControlInv, PipeInv, Live, At
  <2> QED
    BY <2>1, <2>2
<1>5. OverInv'
  BY <1>1, <1>2 DEF ControlInv, OverInv, Live, At
<1> QED
  BY <1>3, <1>4, <1>5 DEF ControlInv

\* Control: a broken connection.
LEMMA ControlConnReset ==
  ASSUME TypeOK, OneDisturbance, OneDisturbance', ControlInv, ConnReset
  PROVE  ControlInv'
<1>1. /\ UNCHANGED <<area, partner, connc, diskc, hdr, tid, th, srv>>
      /\ Fail("reset") /\ Running
      /\ sock' = "reset" /\ reqs' = <<>> /\ resps' = <<>>
  BY DEF ConnReset, objVars
<1>2. /\ Failures' > 0 /\ Failures' # 0
      /\ UNCHANGED <<used.starts, used.pauses, used.eof, used.disk>>
  BY <1>1, FailCounts
<1>3. StartInv' /\ OneThread' /\ CancelInv'
  BY <1>1, <1>2 DEF ControlInv, StartInv, OneThread, CancelInv, Live, At
<1>4. SocketInv'
  BY <1>1, <1>2 DEF SocketInv
<1>5. PipeInv'
  BY <1>1, <1>2 DEF ControlInv, PipeInv, Live, At
<1>6. OverInv'
  BY <1>1, <1>2 DEF ControlInv, OverInv, Live, At
<1> QED
  BY <1>3, <1>4, <1>5, <1>6 DEF ControlInv

\* Control: a failed read at the source.
LEMMA ControlSourceReadError ==
  ASSUME TypeOK, OneDisturbance, OneDisturbance', ControlInv, SourceReadError
  PROVE  ControlInv'
<1>1. /\ UNCHANGED <<area, partner, connc, diskc, hdr, tid, th, srv, resps>>
      /\ Fail("eof") /\ sock = "up" /\ srv = "active" /\ reqs # <<>>
      /\ reqs[1].op = "DATA" /\ sock' = "fin" /\ reqs' = <<>>
  BY QueueTypes DEF SourceReadError, objVars
<1>2. /\ Failures' > 0 /\ Failures' # 0 /\ used'.eof > 0 /\ used'.eof # 0
      /\ UNCHANGED <<used.starts, used.pauses, used.disk>>
  BY <1>1, FailCounts
<1>3. area = "held" => Running /\ resps = <<>>
  BY <1>1 DEF ControlInv, PipeInv, Running, At
<1>4. StartInv'
  BY <1>1, <1>2, <1>3 DEF ControlInv, StartInv
<1>5. OneThread' /\ CancelInv'
  BY <1>1, <1>2 DEF ControlInv, OneThread, CancelInv, Live, At
<1>6. SocketInv'
  BY <1>1, <1>2 DEF SocketInv
<1>7. PipeInv'
  BY <1>1, <1>2, <1>3 DEF ControlInv, PipeInv, Live, At
<1>8. OverInv'
  BY <1>1, <1>2 DEF ControlInv, OverInv, Live, At
<1> QED
  BY <1>4, <1>5, <1>6, <1>7, <1>8 DEF ControlInv

\* Control, in the first state.
LEMMA ControlInit == Init => ControlInv
<1> SUFFICES ASSUME Init PROVE ControlInv
  OBVIOUS
<1>1. \A t \in Threads : th[t].pc = "idle" /\ th[t].cancel = "no"
  BY DEF Init, Idle
<1>2. /\ area = "held" /\ last = 0 /\ partner = "IN_USE" /\ connc = "IN_USE"
      /\ diskc = "IN_USE" /\ sock = "up" /\ reqs = <<>> /\ resps = <<>>
      /\ srv = "active"
  BY DEF Init
<1> QED
  BY <1>1, <1>2 DEF ControlInv, StartInv, OneThread, CancelInv, SocketInv, PipeInv,
     OverInv, Running, Live, At

\* Control, along every step of a patient operator.
LEMMA ControlStep ==
  ASSUME Operator = "patient", TypeOK, OneDisturbance, OneDisturbance',
         ControlInv, [Next]_vars
  PROVE  ControlInv'
<1>1. CASE UNCHANGED vars
  BY <1>1 DEF ControlInv, StartInv, OneThread, CancelInv, SocketInv, PipeInv,
     OverInv, Running, Live, At, Failures, vars, objVars, netVars
<1>2. ASSUME NEW t \in Threads, Thread(t) PROVE ControlInv'
  BY <1>2, ControlStart, ControlLoopTest, ControlNextChunk, ControlSendRequest,
     ControlRecvChunk, ControlGiveUp, ControlWriteChunk, ControlWriteError,
     ControlGrainDone, ControlDie, ControlAfterLoop, ControlTerminateBegin,
     ControlTerminateSend DEF Thread
<1> QED
  BY <1>1, <1>2, ControlResync, ControlPause, ControlResume, ControlRecover,
     ControlServe, ControlConnReset, ControlSourceReadError DEF Next

-----------------------------------------------------------------------------
(* Data.                                                                   *)

Steady == TypeOK /\ OneDisturbance /\ Intact /\ ControlInv /\ DataInv

\* In an undisturbed round the target only gains chunks: what a step has to
\* show is the part of DataInv about the one live thread.
LEMMA DataFrame ==
  ASSUME Steady, bits' = bits, good \subseteq good',
         NEW t \in Threads, \A x \in Threads : Live(x)' => x = t,
         last' = last \/ CopiedUpTo(last'),
         area' = area \/ (area' = "freed" /\ AllCopied),
         area' = "held" /\ Live(t)' => ThreadData(t)'
  PROVE  DataInv'
<1>1. CopiedUpTo(last)'
  BY DEF Steady, DataInv, CopiedUpTo, Copied
<1>2. (area = "freed" => AllCopied)'
  BY DEF Steady, DataInv, AllCopied, Copied
<1> QED
  BY <1>1, <1>2 DEF DataInv

\* Nothing is left to copy where everything is copied.
LEMMA CopiedFacts ==
  ASSUME Steady
  PROVE  /\ CopiedUpTo(0) /\ CopiedUpTo(last)
         /\ AllCopied => \A b : CopiedUpTo(b)
         /\ \A b \in Nat : b >= NumBits /\ CopiedUpTo(b) => AllCopied
         /\ \A b \in Nat : CopiedUpTo(b) /\ (b \notin bits \/ Copied(b)) =>
              CopiedUpTo(b + 1)
         /\ area = "freed" => AllCopied
<1>1. \A g \in bits : g \in Nat /\ g < NumBits
  BY Sizes DEF Steady, TypeOK
<1>2. CopiedUpTo(0)
  BY <1>1 DEF CopiedUpTo
<1>3. AllCopied => \A b : CopiedUpTo(b)
  BY DEF CopiedUpTo, AllCopied
<1>4. ASSUME NEW b \in Nat, b >= NumBits, CopiedUpTo(b) PROVE AllCopied
  BY <1>1, <1>4, SizeAssumption DEF CopiedUpTo, AllCopied
<1>5. ASSUME NEW b \in Nat, CopiedUpTo(b), b \notin bits \/ Copied(b)
      PROVE  CopiedUpTo(b + 1)
  <2>1. \A g \in bits : g < b + 1 => g < b \/ g = b
    BY <1>1
  <2> QED
    BY <1>5, <2>1 DEF CopiedUpTo
<1> QED
  BY <1>2, <1>3, <1>4, <1>5 DEF Steady, DataInv

\* A thread that takes a step here is live, unless it is behind the loop of a
\* paused resync, and then no thread is live.
LEMMA DataThread ==
  ASSUME Steady, NEW t \in Threads, th[t].pc # "idle"
  PROVE  /\ \A x \in Threads : x # t => ~Live(x)
         /\ th[t].cancel \in {"no", "yes"}
         /\ th[t].cancel = "no" => Live(t) /\ (area = "held" => ThreadData(t))
         /\ th[t].cancel = "yes" => /\ th[t].pc \in {"term", "bye"}
                                   /\ partner = "PAUSE"
<1>1. th[t].cancel \in {"no", "yes"} /\ ~(used.disk > 0)
  BY ThreadTypes, Counts DEF Steady, Intact
<1>2. CASE th[t].cancel = "no"
  BY <1>1, <1>2, Alone DEF Steady, Live, At, DataInv
<1>3. CASE th[t].cancel = "yes"
  BY <1>1, <1>3 DEF Steady, ControlInv, CancelInv, OneThread, Live, At
<1> QED
  BY <1>1, <1>2, <1>3

\* Data: the start of a thread.
LEMMA DataStart ==
  ASSUME Steady, NEW t \in Threads, Start(t) PROVE DataInv'
<1>1. /\ th[t].pc = "new" /\ th[t].cancel = "no"
      /\ Moves(t, "loop", params, th[t].chunk, th[t].buff, "no")
  BY StartMoves, NotCancelled DEF Steady
<1>2. UNCHANGED <<bits, good, last, area, partner>>
  BY DEF Start
<1>3. \A x \in Threads : Live(x)' => x = t
  BY <1>1, DataThread DEF Moves, Live, At
<1>4. area = "held" => CopiedUpTo(params)
  BY <1>1, DataThread DEF ThreadData, At
<1>5. area' = "held" => ThreadData(t)'
  BY <1>1, <1>2, <1>4 DEF ThreadData, At, Moves, CopiedUpTo, Copied
<1> QED
  BY <1>2, <1>3, <1>5, DataFrame

\* Data: the loop condition.
LEMMA DataLoopTest ==
  ASSUME Steady, NEW t \in Threads, LoopTest(t) PROVE DataInv'
<1>1. /\ th[t].pc = "loop" /\ th[t].cancel = "no" /\ th[t].bit \in Nat
      /\ UNCHANGED <<bits, good, area, partner>>
  BY LoopTestMoves, NotCancelled, ThreadTypes DEF Steady, LoopTest, objVars
<1>2. PICK p \in {"after", "chunk", "loop"} : \E b, c :
        Moves(t, p, b, c, th[t].buff, "no")
  BY <1>1, LoopTestMoves DEF Goes, Steady
<1>3. \A x \in Threads : Live(x)' => x = t
  BY <1>1, <1>2, DataThread DEF Moves, Live, At
<1>4. partner # "PAUSE" => CopiedUpTo(th[t].bit)
  <2>1. CASE area = "held"
    BY <1>1, <2>1, DataThread DEF ThreadData
  <2> QED
    BY <2>1, CopiedFacts DEF Steady, TypeOK
<1>5. CASE /\ th[t].bit >= NumBits \/ partner = "PAUSE"
           /\ Goes(t, "after") /\ last' = last
  <2>1. ThreadData(t)'
    BY <1>1, <1>4, <1>5 DEF ThreadData, At, Goes, Moves, CopiedUpTo, Copied
  <2> QED
    BY <1>1, <1>3, <1>5, <2>1, DataFrame
<1>6. CASE /\ th[t].bit < NumBits /\ partner # "PAUSE"
           /\ Moves(t, "chunk", th[t].bit, 0, th[t].buff, th[t].cancel)
           /\ last' = last
  <2>1. \A c \in ChunkIds : ~(c < 0)
    BY Sizes
  <2>2. ThreadData(t)'
    BY <1>1, <1>4, <1>6, <2>1 DEF ThreadData, At, Moves, CopiedUpTo, Copied
  <2> QED
    BY <1>1, <1>3, <1>6, <2>2, DataFrame
<1>7. CASE /\ th[t].bit < NumBits /\ partner # "PAUSE"
           /\ area = "held" => th[t].bit \notin bits
           /\ Moves(t, "loop", th[t].bit + 1, th[t].chunk, th[t].buff,
                    th[t].cancel)
           /\ last' = th[t].bit
  <2>1. area = "held" => CopiedUpTo(th[t].bit + 1)
    BY <1>1, <1>4, <1>7, CopiedFacts
  <2>2. area' = "held" => ThreadData(t)'
    BY <1>1, <1>7, <2>1 DEF ThreadData, At, Moves, CopiedUpTo, Copied
  <2> QED
    BY <1>1, <1>3, <1>4, <1>7, <2>2, DataFrame
<1> QED
  BY <1>5, <1>6, <1>7, LoopTestMoves DEF Steady

\* Data: the head of the chunk loop.
LEMMA DataNextChunk ==
  ASSUME Steady, NEW t \in Threads, NextChunk(t) PROVE DataInv'
<1>1. /\ th[t].pc = "chunk" /\ UNCHANGED <<bits, good, last, area, partner>>
  BY NextChunkMoves DEF Steady, NextChunk, objVars
<1>2. th[t].cancel = "no" /\ (area = "held" => ThreadData(t))
  BY <1>1, DataThread
<1>3. CASE Leaves(t)
  <2>1. \A x \in Threads : ~Live(x)'
    BY <1>1, <1>3, DataThread DEF Leaves, Moves, Live, At
  <2> QED
    BY <1>1, <2>1, DataFrame
<1>4. ASSUME NEW p \in {"grain", "send"}, Goes(t, p),
             \/ p = "send" /\ hdr' = [op |-> "DATA", pos |-> Here(t)]
             \/ p = "grain" /\ (partner = "PAUSE" \/ th[t].chunk >= NumChunks)
      PROVE  DataInv'
  <2>1. \A x \in Threads : Live(x)' => x = t
    BY <1>1, <1>4, DataThread DEF Goes, Moves, Live, At
  <2>2. /\ th'[t].pc = p /\ th'[t].bit = th[t].bit /\ th'[t].chunk = th[t].chunk
    BY <1>4 DEF Goes, Moves
  <2>3. area = "held" => CopiedUpTo(th[t].bit) /\ CopiedUpTo(th[t].bit)'
    BY <1>1, <1>2, <2>2 DEF ThreadData, CopiedUpTo, Copied
  <2>4. CASE p = "send"
    <3>1. hdr'.pos = Here(t)'
      BY <1>4, <2>2, <2>4 DEF Here
    <3>2. area' = "held" => ThreadData(t)'
      BY <1>1, <1>2, <2>2, <2>3, <2>4, <3>1 DEF ThreadData, At
    <3> QED
      BY <1>1, <2>1, <3>2, DataFrame
  <2>5. CASE p = "grain"
    <3>1. area = "held" /\ partner # "PAUSE" => Copied(th[t].bit)
      <4>1. th[t].chunk \in Nat /\ \A c \in ChunkIds : c \in Nat /\ c < NumChunks
        BY ThreadTypes, Sizes DEF Steady
      <4>2. th[t].chunk >= NumChunks => \A c \in ChunkIds : c < th[t].chunk
        BY <4>1, SizeAssumption
      <4> QED
        BY <1>1, <1>2, <1>4, <2>5, <4>2 DEF ThreadData, Copied
    <3>2. area' = "held" => ThreadData(t)'
      BY <1>1, <2>2, <2>3, <2>5, <3>1 DEF ThreadData, At, Copied
    <3> QED
      BY <1>1, <2>1, <3>2, DataFrame
  <2> QED
    BY <2>4, <2>5
<1> QED
  BY <1>3, <1>4, NextChunkMoves DEF Steady

\* Data: the request.
LEMMA DataSendRequest ==
  ASSUME Steady, NEW t \in Threads, SendRequest(t) PROVE DataInv'
<1>1. /\ UNCHANGED <<bits, good, last, area, partner, hdr>>
      /\ th[t].pc = "send" /\ th[t].cancel = "no"
  BY DEF SendRequest, At, objVars
<1>2. Live(t) /\ (area = "held" => ThreadData(t))
  BY <1>1, DataThread
<1>3. sock # "fin"
  BY DEF Steady, Intact, ControlInv, SocketInv
<1>4. \/ /\ sock = "up" /\ reqs' = Append(reqs, hdr) /\ resps' = resps
         /\ Goes(t, "recv")
      \/ Goes(t, "sleep")
  BY <1>1, <1>3, GoToMoves DEF Steady, TypeOK, SendRequest, Pcs
<1>5. PICK p \in {"recv", "sleep"} : Goes(t, p)
  BY <1>4
<1>6. \A x \in Threads : Live(x)' => x = t
  BY <1>1, <1>5, DataThread DEF Goes, Moves, Live, At
<1>7. CASE Goes(t, "sleep")
  <2>1. ThreadData(t)'
    BY <1>7 DEF Goes, Moves, ThreadData, At
  <2> QED
    BY <1>1, <1>6, <2>1, DataFrame
<1>8. CASE /\ sock = "up" /\ reqs' = Append(reqs, hdr) /\ resps' = resps
           /\ Goes(t, "recv")
  <2>1. SUFFICES ASSUME area = "held" PROVE ThreadData(t)'
    BY <1>1, <1>6, DataFrame
  <2>2. th'[t].pc = "recv" /\ th'[t].bit = th[t].bit /\ th'[t].chunk = th[t].chunk
    BY <1>8 DEF Goes, Moves
  <2>3. reqs = <<>> /\ resps = <<>>
    BY <1>1, <1>2, <2>1, Alone DEF Steady
  <2>4. reqs'[1] = hdr /\ resps' = <<>>
    BY <1>8, <2>3, QueueSteps DEF Steady
  <2>5. hdr.pos = Here(t)' /\ CopiedUpTo(th[t].bit)'
    BY <1>1, <1>2, <2>1, <2>2 DEF ThreadData, At, Here, CopiedUpTo, Copied
  <2> QED
    BY <1>1, <1>2, <2>1, <2>2, <2>4, <2>5 DEF ThreadData, At
<1> QED
  BY <1>4, <1>7, <1>8

\* Data: chunk_read_client.
LEMMA DataRecvChunk ==
  ASSUME Steady, NEW t \in Threads, RecvChunk(t) PROVE DataInv'
<1>1. /\ UNCHANGED <<bits, good, last, area, partner>>
      /\ th[t].pc = "recv" /\ th[t].cancel = "no"
  BY DEF RecvChunk, At, objVars
<1>2. Live(t) /\ (area = "held" => ThreadData(t))
  BY <1>1, DataThread
<1>3. sock # "fin" /\ sock # "closed"
  BY <1>1, <1>2 DEF Steady, Intact, ControlInv, SocketInv, At
<1>4. \/ resps # <<>> /\ Moves(t, "write", th[t].bit, th[t].chunk, resps[1], "no")
      \/ Goes(t, "sleep")
  BY <1>3, RecvChunkMoves DEF Steady
<1>5. PICK p \in {"write", "sleep"} : \E f :
        Moves(t, p, th[t].bit, th[t].chunk, f, "no")
  BY <1>1, <1>4 DEF Goes
<1>6. \A x \in Threads : Live(x)' => x = t
  BY <1>1, <1>5, DataThread DEF Moves, Live, At
<1>7. CASE Goes(t, "sleep")
  <2>1. ThreadData(t)'
    BY <1>7 DEF Goes, Moves, ThreadData, At
  <2> QED
    BY <1>1, <1>6, <2>1, DataFrame
<1>8. CASE /\ resps # <<>>
           /\ Moves(t, "write", th[t].bit, th[t].chunk, resps[1], "no")
  <2>1. SUFFICES ASSUME area = "held" PROVE ThreadData(t)'
    BY <1>1, <1>6, DataFrame
  <2>2. /\ th'[t].pc = "write" /\ th'[t].bit = th[t].bit
        /\ th'[t].chunk = th[t].chunk /\ th'[t].buff = resps[1]
    BY <1>8 DEF Moves
  <2>3. resps[1] = Here(t)' /\ CopiedUpTo(th[t].bit)'
    BY <1>1, <1>2, <1>8, <2>1, <2>2 DEF ThreadData, At, Here, CopiedUpTo, Copied
  <2> QED
    BY <1>1, <1>2, <2>1, <2>2, <2>3 DEF ThreadData, At
<1> QED
  BY <1>4, <1>7, <1>8

\* Data: chunk_write_client.
LEMMA DataWriteChunk ==
  ASSUME Steady, NEW t \in Threads, WriteChunk(t) PROVE DataInv'
<1>1. /\ UNCHANGED <<bits, last, area, partner>>
      /\ th[t].pc = "write" /\ th[t].cancel = "no"
      /\ good' = IF th[t].buff = Here(t) THEN good \cup {Here(t)}
                                         ELSE good \ {Here(t)}
      /\ Moves(t, "chunk", th[t].bit, th[t].chunk + 1, th[t].buff, "no")
  BY WriteChunkMoves, NotCancelled DEF Steady, WriteChunk, objVars, At, Here
<1>2. /\ area = "held" /\ ThreadData(t)
  BY <1>1, DataThread DEF Steady, ControlInv, OverInv, At, TypeOK
<1>3. good' = good \cup {Here(t)}
  BY <1>1, <1>2 DEF ThreadData, At
<1>4. \A x \in Threads : Live(x)' => x = t
  BY <1>1, DataThread DEF Moves, Live, At
<1>5. /\ th'[t].pc = "chunk" /\ th'[t].bit = th[t].bit
      /\ th'[t].chunk = th[t].chunk + 1
  BY <1>1 DEF Moves
<1>6. CopiedUpTo(th[t].bit)'
  BY <1>1, <1>2, <1>3, <1>5 DEF ThreadData, CopiedUpTo, Copied
<1>7. ASSUME NEW c \in ChunkIds, c < th[t].chunk + 1 PROVE <<th[t].bit, c>> \in good'
  <2>1. c \in Nat /\ th[t].chunk \in Nat
    BY ThreadTypes, Sizes DEF Steady
  <2>2. c < th[t].chunk \/ c = th[t].chunk
    BY <1>7, <2>1
  <2> QED
    BY <1>1, <1>2, <1>3, <2>2 DEF ThreadData, Here
<1>8. ThreadData(t)'
  BY <1>5, <1>6, <1>7 DEF ThreadData, At
<1> QED
  BY <1>1, <1>3, <1>4, <1>8, DataFrame

\* Data: the end of an iteration.
LEMMA DataGrainDone ==
  ASSUME Steady, NEW t \in Threads, GrainDone(t) PROVE DataInv'
<1>1. /\ UNCHANGED <<bits, good, area, partner>> /\ last' = th[t].bit
      /\ th[t].pc = "grain" /\ th[t].cancel = "no" /\ th[t].bit \in Nat
      /\ Moves(t, "loop", th[t].bit + 1, th[t].chunk, th[t].buff, "no")
  BY GrainDoneMoves, ThreadTypes DEF Steady, GrainDone, objVars
<1>2. area = "held" => ThreadData(t)
  BY <1>1, DataThread
<1>3. CopiedUpTo(th[t].bit)
  <2>1. CASE area = "held"
    BY <1>1, <1>2, <2>1 DEF ThreadData
  <2> QED
    BY <2>1, CopiedFacts DEF Steady, TypeOK
<1>4. \A x \in Threads : Live(x)' => x = t
  BY <1>1, DataThread DEF Moves, Live, At
<1>5. area = "held" /\ partner # "PAUSE" => CopiedUpTo(th[t].bit + 1)
  BY <1>1, <1>2, <1>3, CopiedFacts DEF ThreadData, At
<1>6. area' = "held" => ThreadData(t)'
  BY <1>1, <1>5 DEF ThreadData, At, Moves, CopiedUpTo, Copied
<1> QED
  BY <1>1, <1>3, <1>4, <1>6, DataFrame

\* Data: the test for a pause behind the loop.
LEMMA DataAfterLoop ==
  ASSUME Steady, NEW t \in Threads, AfterLoop(t) PROVE DataInv'
<1> DEFINE k == IF partner = "PAUSE" THEN "yes" ELSE "no"
<1>1. /\ th[t].pc = "after" /\ th[t].cancel = "no" /\ th[t].bit \in Nat
      /\ UNCHANGED <<bits, good, last, area, partner>>
  BY AfterLoopMoves, NotCancelled, ThreadTypes DEF Steady, AfterLoop, objVars
<1>2. Live(t) /\ (area = "held" => ThreadData(t))
  BY <1>1, DataThread
<1>3. Moves(t, "term", th[t].bit, th[t].chunk, th[t].buff, k)
  BY <1>2, AfterLoopMoves, CancelsItself DEF Steady
<1>4. \A x \in Threads : Live(x)' => x = t
  BY <1>1, <1>3, DataThread DEF Moves, Live, At
<1>5. area = "held" /\ partner # "PAUSE" => AllCopied
  BY <1>1, <1>2, CopiedFacts DEF ThreadData, At
<1>6. area' = "held" /\ Live(t)' => ThreadData(t)'
  BY <1>1, <1>3, <1>5 DEF Live, ThreadData, At, Moves, AllCopied, Copied
<1> QED
  BY <1>1, <1>4, <1>6, DataFrame

\* Data: replication_terminate.
LEMMA DataTerminateBegin ==
  ASSUME Steady, NEW t \in Threads, TerminateBegin(t) PROVE DataInv'
<1>1. /\ UNCHANGED <<bits, good, area, partner>> /\ th[t].pc = "term"
      /\ last' = last \/ last' = 0
      /\ Leaves(t) \/ Goes(t, "bye")
  BY GoToMoves, ExitMoves DEF TerminateBegin, At, objVars, Steady, Pcs
<1>2. \A x \in Threads : Live(x)' => x = t
  BY <1>1, DataThread DEF Goes, Leaves, Moves, Live, At
<1>3. Live(t)' => Goes(t, "bye") /\ Live(t)
  BY <1>1, DataThread DEF Goes, Leaves, Moves, Live, At
<1>4. area' = "held" /\ Live(t)' => ThreadData(t)'
  BY <1>1, <1>3, DataThread DEF ThreadData, At, Goes, Moves, AllCopied, Copied, Live
<1> QED
  BY <1>1, <1>2, <1>4, CopiedFacts, DataFrame

\* Data: a thread that returns.
LEMMA DataLeaving ==
  ASSUME Steady, NEW t \in Threads, GiveUp(t) \/ Die(t) \/ TerminateSend(t)
  PROVE  DataInv'
<1>1. /\ UNCHANGED <<bits, good, last>> /\ th[t].pc # "idle" /\ Leaves(t)
      /\ area' = area \/ (area' = "freed" /\ th[t].pc = "bye" /\ th[t].cancel = "no")
  BY ExitMoves DEF GiveUp, Die, TerminateSend, At, objVars, Steady, ControlInv,
     CancelInv
<1>2. \A x \in Threads : ~Live(x)'
  BY <1>1, DataThread DEF Leaves, Moves, Live, At
<1>3. th[t].pc = "bye" /\ th[t].cancel = "no" => AllCopied
  <2>1. area = "held" \/ area = "freed"
    BY DEF Steady, TypeOK
  <2> QED
    BY <1>1, <2>1, DataThread, CopiedFacts DEF ThreadData
<1> QED
  BY <1>1, <1>2, <1>3, DataFrame

\* Data: resync_init.
LEMMA DataSpawn ==
  ASSUME Operator = "patient", Steady,
         Resync \/ Resume \/ RecoverConn \/ RecoverDisk
  PROVE  DataInv'
<1>1. /\ UNCHANGED <<bits, good, last, area>>
      /\ ResyncInit(0) \/ ResyncInit(last)
      /\ used.starts = 0 \/ ~Running \/ connc = "PAUSE" \/ diskc = "PAUSE"
  BY Counts DEF Steady, Resync, Resume, RecoverConn, RecoverDisk, Use
<1>2. \A x \in Threads : ~Live(x)
  BY <1>1 DEF Steady, ControlInv, StartInv, OneThread, Running, Live, At
<1>3. PICK t \in Threads : Spawned(t)
  BY <1>1, <1>2, Spawns DEF Steady
<1>4. CopiedUpTo(params')
  BY <1>1, CopiedFacts DEF ResyncInit
<1>5. ThreadData(t)'
  BY <1>1, <1>3, <1>4 DEF Spawned, ThreadData, At, CopiedUpTo, Copied
<1> QED
  BY <1>1, <1>3, <1>5, DataFrame DEF Spawned

\* Data: --pause.
LEMMA DataPause == ASSUME Steady, Pause PROVE DataInv'
<1>1. UNCHANGED <<bits, good, last, area, th, params, hdr, reqs, resps>>
      /\ partner' = "PAUSE"
  BY DEF Pause, netVars
<1>2. \A t \in Threads : ThreadData(t) => ThreadData(t)'
  BY <1>1 DEF ThreadData, At, Here, CopiedUpTo, AllCopied, Copied
<1> QED
  BY <1>1, <1>2 DEF Steady, DataInv, Live, At, CopiedUpTo, AllCopied, Copied

\* Data: the server's answers.
LEMMA DataServe == ASSUME Steady, Serve PROVE DataInv'
<1>1. /\ UNCHANGED <<bits, good, last, area, th, params, hdr, partner>>
      /\ sock = "up" /\ reqs # <<>> /\ reqs' = Tail(reqs) /\ Head(reqs) = reqs[1]
  BY QueueTypes DEF Steady, Serve, objVars
<1>2. ASSUME NEW t \in Threads, area = "held", At(t, "recv")
      PROVE  reqs' = <<>> /\ resps' # <<>> /\ resps'[1] = reqs[1].pos
  <2>1. Len(reqs) = 1 /\ reqs[1].op = "DATA" /\ resps = <<>> /\ srv = "active"
    BY <1>1, <1>2 DEF Steady, ControlInv, PipeInv
  <2>2. resps' = Append(resps, Head(reqs).pos)
    BY <1>1, <2>1 DEF Serve
  <2>3. resps' # <<>>
    BY <1>1, <2>1, <2>2, QueueTypes DEF Steady, TypeOK
  <2> QED
    BY <1>1, <2>1, <2>2, <2>3, QueueSteps DEF Steady
<1>3. \A t \in Threads : area = "held" /\ ThreadData(t) => ThreadData(t)'
  BY <1>1, <1>2 DEF ThreadData, At, Here, CopiedUpTo, AllCopied, Copied
<1> QED
  BY <1>1, <1>3 DEF Steady, DataInv, Live, At, CopiedUpTo, AllCopied, Copied

\* Data: a broken connection.
LEMMA DataConnReset == ASSUME Steady, ConnReset PROVE DataInv'
<1>1. /\ UNCHANGED <<bits, good, last, area, th, params, hdr, partner>>
      /\ reqs' = <<>> /\ resps' = <<>>
  BY DEF ConnReset, objVars
<1>2. \A t \in Threads : ThreadData(t) => ThreadData(t)'
  BY <1>1 DEF ThreadData, At, Here, CopiedUpTo, AllCopied, Copied
<1> QED
  BY <1>1, <1>2 DEF Steady, DataInv, Live, At, CopiedUpTo, AllCopied, Copied

\* A step after which the data is intact began with intact data.
LEMMA IntactBefore == ASSUME TypeOK, [Next]_vars, Intact' PROVE Intact
<1>1. CASE used' = used
  BY <1>1 DEF Intact
<1>2. ASSUME NEW k \in {"starts", "pauses", "resumes", "reset", "eof", "disk"},
             used' = [used EXCEPT ![k] = @ + 1]
      PROVE  Intact
  <2>1. /\ used.eof \in Nat /\ used.disk \in Nat
        /\ used'.eof = used.eof \/ used'.eof = used.eof + 1
        /\ used'.disk = used.disk \/ used'.disk = used.disk + 1
    BY <1>2, UseCounts
  <2> QED
    BY <2>1 DEF Intact
<1>3. \/ used' = used
      \/ \E k \in {"starts", "pauses", "resumes", "reset", "eof", "disk"} :
           used' = [used EXCEPT ![k] = @ + 1]
  BY ZenonT(60) DEF Use, Fail, Next, Thread, Resync, Pause, Resume, RecoverConn,
     RecoverDisk, Start, LoopTest, NextChunk, SendRequest, RecvChunk, GiveUp,
     WriteChunk, WriteError, GrainDone, Die, AfterLoop, TerminateBegin,
     TerminateSend, Serve, ConnReset, SourceReadError, vars
<1> QED
  BY <1>1, <1>2, <1>3

\* Data, along every step of a patient operator that leaves it intact.
LEMMA DataStep ==
  ASSUME Operator = "patient", Steady, Intact', [Next]_vars
  PROVE  DataInv'
<1>1. CASE UNCHANGED vars
  BY <1>1 DEF Steady, DataInv, ThreadData, Live, At, Here, CopiedUpTo, AllCopied,
     Copied, vars, objVars, netVars
<1>2. ASSUME NEW t \in Threads, WriteError(t) PROVE FALSE
  <2>1. used'.disk = used.disk + 1 /\ used.disk \in Nat
    BY <1>2, UseCounts, Counts DEF WriteError, Fail, Steady
  <2> QED
    BY <2>1 DEF Intact
<1>3. ASSUME SourceReadError PROVE FALSE
  <2>1. used'.eof = used.eof + 1 /\ used.eof \in Nat
    BY <1>3, UseCounts, Counts DEF SourceReadError, Fail, Steady
  <2> QED
    BY <2>1 DEF Intact
<1>4. ASSUME NEW t \in Threads, Thread(t) PROVE DataInv'
  BY <1>2, <1>4, DataStart, DataLoopTest, DataNextChunk, DataSendRequest,
     DataRecvChunk, DataWriteChunk, DataGrainDone, DataAfterLoop,
     DataTerminateBegin, DataLeaving DEF Thread
<1> QED
  BY <1>1, <1>3, <1>4, DataSpawn, DataPause, DataServe, DataConnReset DEF Next

\* Data, in the first state.
LEMMA DataInit == Init => DataInv
<1> SUFFICES ASSUME Init PROVE DataInv
  OBVIOUS
<1>1. \A t \in Threads : ~Live(t)
  BY DEF Init, Idle, Live, At
<1>2. \A g \in bits : ~(g < 0)
  BY Sizes DEF Init
<1> QED
  BY <1>1, <1>2 DEF Init, DataInv, CopiedUpTo

-----------------------------------------------------------------------------
(* The position of the thread.                                             *)

\* The part of PositionInv about the one live thread is all a step changes.
LEMMA PositionThread ==
  ASSUME TypeOK, OneDisturbance, ControlInv, PositionInv, NEW t \in Threads,
         Live(t), area = "held"
  PROVE  Ahead(t) /\ (\A x \in Threads : x # t => ~Live(x))
BY Alone DEF PositionInv

\* Positions are numbers.
LEMMA PositionNumbers ==
  ASSUME TypeOK
  PROVE  /\ last \in Nat /\ params \in Nat
         /\ \A t \in Threads : th[t].bit \in Nat
         /\ \A n \in Nat : n >= n /\ n + 1 >= n /\ n >= 0
<1>1. last \in Nat /\ params \in Nat
  BY Sizes DEF TypeOK
<1>2. \A t \in Threads : th[t].bit \in Nat
  BY ThreadTypes
<1>3. \A n \in Nat : n >= n /\ n + 1 >= n /\ n >= 0
  OBVIOUS
<1> QED
  BY <1>1, <1>2, <1>3

\* The steps of the loop move a thread forward, and the position after it.
LEMMA PositionLocal ==
  ASSUME TypeOK, OneDisturbance, ControlInv, PositionInv, NEW t \in Threads,
         \/ Start(t) \/ LoopTest(t) \/ NextChunk(t) \/ SendRequest(t)
         \/ RecvChunk(t) \/ WriteChunk(t) \/ GrainDone(t)
  PROVE  PositionInv'
<1>1. th[t].pc \in {"new", "loop", "chunk", "send", "recv", "write", "grain"}
      /\ UNCHANGED <<area, params>>
  BY DEF Start, LoopTest, NextChunk, SendRequest, RecvChunk, WriteChunk, GrainDone,
     At, objVars
<1>2. PICK p, b, c, f, k :
        /\ Moves(t, p, b, c, f, k) /\ p # "new"
        /\ p = "idle" \/ k = th[t].cancel
        /\ p \in {"loop", "chunk", "send", "recv", "write", "grain"} =>
             \/ last' = last /\ b = th[t].bit /\ th[t].pc # "new"
             \/ last' = last /\ b = params /\ th[t].pc = "new"
             \/ last' = th[t].bit /\ b = th[t].bit + 1
  <2>1. CASE Start(t)
    BY <2>1, StartMoves DEF Start
  <2>2. CASE LoopTest(t)
    BY <2>2, LoopTestMoves DEF Goes
  <2>3. CASE NextChunk(t)
    BY <2>3, NextChunkMoves DEF NextChunk, Goes, Leaves
  <2>4. CASE SendRequest(t)
    BY <2>4, GoToMoves DEF SendRequest, Goes, Pcs, At
  <2>5. CASE RecvChunk(t)
    BY <2>5, RecvChunkMoves DEF RecvChunk, Goes
  <2>6. CASE WriteChunk(t)
    BY <2>6, WriteChunkMoves DEF WriteChunk
  <2>7. CASE GrainDone(t)
    BY <2>7, GrainDoneMoves DEF GrainDone
  <2> QED
    BY <2>1, <2>2, <2>3, <2>4, <2>5, <2>6, <2>7
<1>3. /\ th'[t].pc = p /\ th'[t].bit = b /\ th'[t].cancel = k
      /\ \A x \in Threads : x # t => th'[x] = th[x]
  BY <1>2 DEF Moves
<1>4. CASE th[t].cancel = "no" /\ area = "held"
  <2>1. Ahead(t) /\ (\A x \in Threads : x # t => ~Live(x))
    BY <1>1, <1>4, PositionThread DEF Live, At
  <2>2. Ahead(t)'
    BY <1>1, <1>2, <1>3, <2>1, PositionNumbers DEF Ahead, At
  <2> QED
    BY <1>1, <1>3, <2>1, <2>2 DEF PositionInv, Live, At
<1>5. CASE th[t].cancel # "no" /\ area = "held"
  <2>1. th[t].cancel = "yes" /\ th[t].pc = "chunk" /\ NextChunk(t)
    <3>1. th[t].cancel = "yes" /\ th[t].pc \in {"chunk", "send", "grain"}
      BY <1>1, <1>5, ThreadTypes, NotCancelled
    <3>2. ~Start(t) /\ ~LoopTest(t) /\ ~RecvChunk(t) /\ ~WriteChunk(t)
      BY <3>1, StartMoves, LoopTestMoves, RecvChunkMoves, WriteChunkMoves
    <3>3. ~SendRequest(t) /\ ~GrainDone(t)
      BY <3>1 DEF SendRequest, GrainDone
    <3>4. NextChunk(t)
      BY <3>2, <3>3
    <3> QED
      BY <3>1, <3>4, NextChunkMoves
  <2>2. ~Live(t)' /\ last' = last
    BY <1>2, <1>3, <1>5, <2>1 DEF Live, At, NextChunk
  <2> QED
    BY <1>1, <1>3, <2>2 DEF PositionInv, Live, At, Ahead
<1> QED
  BY <1>1, <1>4, <1>5 DEF PositionInv

\* Position, along every step of a patient operator.
LEMMA PositionStep ==
  ASSUME Operator = "patient", TypeOK, OneDisturbance, ControlInv, PositionInv,
         [Next]_vars
  PROVE  PositionInv'
<1>1. CASE UNCHANGED <<th, last, params, area>>
  BY <1>1 DEF PositionInv, Live, At, Ahead
<1>2. CASE Resync \/ Resume \/ RecoverConn \/ RecoverDisk
  <2>1. /\ UNCHANGED <<last, area>>
        /\ (ResyncInit(0) /\ used.starts = 0) \/ ResyncInit(last)
        /\ used.starts = 0 \/ ~Running \/ connc = "PAUSE" \/ diskc = "PAUSE"
    BY <1>2, Counts DEF Resync, Resume, RecoverConn, RecoverDisk, Use
  <2>2. \A x \in Threads : ~Live(x)
    BY <2>1 DEF ControlInv, StartInv, OneThread, Running, Live, At
  <2>3. PICK t \in Threads : Spawned(t)
    BY <2>1, <2>2, Spawns
  <2>4. params' = last
    BY <2>1 DEF ResyncInit, ControlInv, StartInv
  <2> QED
    BY <2>1, <2>3, <2>4, PositionNumbers DEF PositionInv, Ahead, At, Spawned
<1>3. ASSUME NEW t \in Threads,
             TerminateBegin(t) \/ GiveUp(t) \/ Die(t) \/ TerminateSend(t)
      PROVE  PositionInv'
  <2>1. /\ area' = area \/ area' = "freed"
        /\ params' = params
        /\ last' = last \/ last' = 0
        /\ Leaves(t) \/ Goes(t, "bye")
    <3>1. CASE TerminateBegin(t)
      BY <3>1, GoToMoves, ExitMoves DEF TerminateBegin, objVars, Pcs
    <3>2. CASE GiveUp(t) \/ Die(t) \/ TerminateSend(t)
      BY <3>2, ExitMoves DEF GiveUp, Die, TerminateSend, objVars
    <3> QED
      BY <1>3, <3>1, <3>2
  <2>2. \A x \in Threads : x # t => th'[x] = th[x]
    BY <2>1 DEF Leaves, Goes, Moves
  <2>3. Ahead(t)'
    BY <2>1 DEF Ahead, At, Leaves, Goes, Moves
  <2>4. \A x \in Threads : Ahead(x) /\ x # t => Ahead(x)'
    BY <2>1, <2>2, PositionNumbers DEF Ahead, At
  <2> QED
    BY <2>1, <2>2, <2>3, <2>4 DEF PositionInv, Live, At
<1>4. ASSUME NEW t \in Threads, WriteError(t) \/ AfterLoop(t)
      PROVE  PositionInv'
  <2>1. UNCHANGED <<area, params, last>>
    BY <1>4 DEF WriteError, AfterLoop, objVars
  <2>2. th[t].pc \in {"write", "after"} /\ Live(t)
    BY <1>4, WriteErrorMoves, AfterLoopMoves, NotCancelled DEF Live, At
  <2>3. PICK p, c, k : Moves(t, p, th[t].bit, c, th[t].buff, k) /\ p # "new"
                      /\ (p = "chunk" => k = "yes") /\ p \in {"chunk", "term"}
    BY <1>4, <2>2, WriteErrorMoves, AfterLoopMoves, CancelsItself
  <2>4. \A x \in Threads : Live(x)' => x = t /\ th'[x].pc = "term"
    BY <2>2, <2>3, Alone DEF Moves, Live, At
  <2> QED
    BY <2>4 DEF PositionInv, Ahead, At
<1>5. ASSUME NEW t \in Threads, Thread(t) PROVE PositionInv'
  BY <1>3, <1>4, <1>5, PositionLocal DEF Thread
<1>6. CASE Pause \/ Serve \/ ConnReset \/ SourceReadError \/ UNCHANGED vars
  BY <1>1, <1>6 DEF Pause, Serve, ConnReset, SourceReadError, objVars, vars
<1> QED
  BY <1>2, <1>5, <1>6 DEF Next

-----------------------------------------------------------------------------
(* The theorems.                                                           *)

\* The inductive invariant holds at first ...
LEMMA LoopInit == Init => LoopInv
<1>1. Init => PositionInv
  BY DEF Init, PositionInv, Live, At, Idle
<1> QED
  BY <1>1, TypeInit, ControlInit, DataInit DEF LoopInv

\* ... and along every step.
LEMMA LoopStep ==
  ASSUME Operator = "patient", LoopInv, [Next]_vars PROVE LoopInv'
<1>1. TypeOK /\ TypeOK'
  BY TypeStep DEF LoopInv
<1>2. ASSUME OneDisturbance' PROVE OneDisturbance /\ ControlInv' /\ PositionInv'
  BY <1>1, <1>2, Disturbed, ControlStep, PositionStep DEF LoopInv
<1>3. ASSUME OneDisturbance', Intact' PROVE DataInv'
  BY <1>1, <1>2, <1>3, IntactBefore, DataStep DEF LoopInv, Steady
<1> QED
  BY <1>1, <1>2, <1>3 DEF LoopInv

\* LoopInv holds throughout: at most one thread of restart_resync is not
\* cancelled, it is the one in resync_tid, and its position, the queues of the
\* connection and the target agree.  A hasty operator breaks this: --resume while
\* the paused thread still runs starts a second one.
THEOREM LoopInvariant ==
  ASSUME Operator = "patient" PROVE Spec => []LoopInv
BY LoopInit, LoopStep, PTL DEF Spec

\* With a patient operator, in a round that is not over and was disturbed in one
\* way only, a thread in chunk_read_client on a working connection has its request
\* or its answer under way: it never waits for a chunk nobody will send.
THEOREM ReplyIsOwed == ASSUME Operator = "patient" PROVE Spec => []ReplyOwed
<1>1. LoopInv => ReplyOwed
  <2>1. Len(<<>>) = 0
    OBVIOUS
  <2> QED
    BY <2>1 DEF LoopInv, ControlInv, PipeInv, ReplyOwed
<1> QED
  BY <1>1, LoopInvariant, PTL

\* With a patient operator every marked grain before last_resynced_bit is on the
\* target, so --resume and the recovery threads skip nothing, unless an end of
\* file was taken for a chunk or a write to the target failed.
THEOREM ResumeIsSafe == ASSUME Operator = "patient" PROVE Spec => []ResumePointSafe
<1>1. LoopInv => ResumePointSafe
  BY DEF LoopInv, DataInv, CopiedUpTo, ResumePointSafe
<1> QED
  BY <1>1, LoopInvariant, PTL

\* With a patient operator a round that replication_terminate or the server's
\* terminate has ended has copied every chunk of every marked grain, under the
\* same conditions.
THEOREM CompletionIsSafe ==
  ASSUME Operator = "patient" PROVE Spec => []CompletedMeansCopied
<1>1. LoopInv => CompletedMeansCopied
  BY DEF LoopInv, TypeOK, ControlInv, PipeInv, DataInv, AllCopied,
     CompletedMeansCopied
<1> QED
  BY <1>1, LoopInvariant, PTL

\* With a patient operator no step moves last_resynced_bit back while a marked
\* grain is still to be copied: neither a resume, nor a thread that leaves a grain
\* because of a pause, loses the place.
THEOREM PositionMovesForward ==
  ASSUME Operator = "patient" PROVE Spec => LastMovesForward
<1>1. ASSUME LoopInv, Next, Intact, OneDisturbance, last' < last
      PROVE  AllCopied
  <2>1. /\ TypeOK /\ ControlInv /\ PositionInv /\ DataInv /\ Steady
    BY <1>1 DEF LoopInv, Steady
  <2>2. SUFFICES ASSUME area = "held" PROVE AllCopied
    BY <2>1 DEF DataInv, TypeOK
  <2>3. last \in Nat /\ last' # last
    BY <1>1, <2>1, PositionNumbers
  <2>4. PICK t \in Threads : LoopTest(t) \/ GrainDone(t) \/ TerminateBegin(t)
    BY <1>1, <2>3 DEF Next, Thread, Resync, Pause, Resume, RecoverConn,
       RecoverDisk, Start, NextChunk, SendRequest, RecvChunk, GiveUp, WriteChunk,
       WriteError, Die, AfterLoop, TerminateSend, Serve, ConnReset,
       SourceReadError
  <2>5. CASE LoopTest(t) \/ GrainDone(t)
    <3>1. last' = th[t].bit /\ th[t].pc \in {"loop", "grain"}
      BY <2>1, <2>3, <2>5, LoopTestMoves DEF GrainDone, At
    <3>2. th[t].cancel = "no"
      <4>1. CASE LoopTest(t)
        BY <2>1, <4>1, NotCancelled DEF LoopTest, At
      <4>2. CASE GrainDone(t)
        BY <4>2 DEF GrainDone
      <4> QED
        BY <2>5, <4>1, <4>2
    <3>3. th[t].bit >= last /\ th[t].bit \in Nat
      BY <2>1, <2>2, <3>1, <3>2, PositionNumbers DEF PositionInv, Live, At, Ahead
    <3> QED
      BY <1>1, <2>3, <3>1, <3>3
  <2>6. CASE TerminateBegin(t)
    <3>1. th[t].pc = "term" /\ partner # "PAUSE"
      BY <2>3, <2>6 DEF TerminateBegin, At
    <3>2. th[t].cancel = "no" /\ ThreadData(t)
      BY <2>1, <2>2, <3>1, DataThread
    <3> QED
      BY <3>1, <3>2 DEF ThreadData
  <2> QED
    BY <2>4, <2>5, <2>6
<1>2. ASSUME UNCHANGED vars, last' < last, LoopInv PROVE FALSE
  BY <1>2, PositionNumbers DEF vars, LoopInv
<1>3. LoopInv /\ [Next]_vars =>
        [Intact /\ OneDisturbance /\ last' < last => \A g \in bits : Copied(g)]_vars
  BY <1>1, <1>2 DEF AllCopied
<1> QED
  BY <1>3, LoopInvariant, PTL DEF Spec, LastMovesForward
=============================================================================
