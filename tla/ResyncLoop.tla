----------------------------- MODULE ResyncLoop -----------------------------
(***************************************************************************)
(* The client's side of one resync round of one partner, chunk by chunk:   *)
(* the threads that run restart_resync, the operator's --resync, --pause   *)
(* and --resume, the recovery thread, and the socket they share.           *)
(*                                                                         *)
(* user/atdr_linux/atdr_resync.c, atdr_daemon.c, atdr_recovery.c,          *)
(* atdr_io_engine_client.c, replic_client.c (client), replic_server.c      *)
(* (the server's answers).                                                 *)
(*                                                                         *)
(* Nothing stops resync_init from starting a thread while another one runs *)
(* for the same partner; then two threads share the request header, the    *)
(* socket, last_resynced_bit and resync_tid.  The data of a chunk is the   *)
(* address <<grain, chunk>> it was read from.                              *)
(***************************************************************************)
EXTENDS Integers, Sequences

CONSTANTS
  NumBits,      \* bits of the client's bitmap, one per grain
  NumChunks,    \* chunks of a grain (total_iterations)
  Threads,      \* bound: threads that may exist at a time
  MaxPauses,    \* bound: --pause and --resume commands in a behaviour
  MaxFailures,  \* bound: connection and disk failures in a behaviour
  Faults,       \* which of "reset", "eof" and "disk" may happen
  Operator      \* "patient": waits until a pause has taken effect; or "hasty"

ASSUME SizeAssumption  == NumBits \in Nat \ {0} /\ NumChunks \in Nat \ {0}
ASSUME LimitAssumption == MaxPauses \in Nat /\ MaxFailures \in Nat
ASSUME FaultAssumption == /\ Faults \subseteq {"reset", "eof", "disk"}
                          /\ Operator \in {"patient", "hasty"}

Grains    == 0 .. NumBits - 1
ChunkIds  == 0 .. NumChunks - 1
Addresses == Grains \X ChunkIds
Stale     == <<NumBits, 0>>      \* what an unwritten stack buffer holds
NoThread  == "no thread"

VARIABLES
  bits,     \* grains set in bitmap_area
  area,     \* bitmap_area: held until replication_terminate, then freed
  good,     \* chunks of the target disk that equal the image
  partner,  \* all_partner_clients[pid].obj_state
  rep,      \* replic_client_obj[pid].rep_state
  last,     \* replic_client_obj[pid].last_resynced_bit
  io,       \* io_client_obj[pid].obj_state
  connc,    \* ebdr_conn_client[pid].obj_state
  diskc,    \* ebdr_disk_target_obj[pid].obj_state
  hdr,      \* replic_hdr_client_obj[pid]: opcode, curr_pos, chunk_pos
  params,   \* thread_params[pid].bit_pos
  tid,      \* resync_tid[pid]
  th,       \* thread -> its control point and locals, cancel: cancel pending
  dblock,   \* db_lock: free, or stuck once its holder was cancelled
  sock,     \* the connection as the client's socket_fd sees it
  reqs,     \* headers on their way to the server
  resps,    \* chunks on their way to the client
  srv,      \* the server's round: active, or released by terminate
  used      \* commands and failures so far

objVars == <<area, partner, rep, io, connc, diskc>>
netVars == <<sock, reqs, resps, srv>>
vars == <<bits, good, last, objVars, hdr, params, tid, th, dblock, netVars,
          used>>

Idle    == [pc |-> "idle", bit |-> 0, chunk |-> 0, buff |-> Stale,
            cancel |-> "no"]
Running == \E t \in Threads : th[t].pc # "idle"

\* The round after --metadata: a bitmap was received, nothing is copied yet.
\* rep_state is what the last round left, or zero.
Init ==
  /\ bits \in SUBSET Grains
  /\ area = "held" /\ good = {} /\ last = 0
  /\ partner = "IN_USE" /\ rep \in {"IN_PROGRESS", "COMPLETED"}
  /\ io = "RELEASED" /\ connc = "IN_USE" /\ diskc = "IN_USE"
  /\ hdr = [op |-> "METADATA", pos |-> <<0, 0>>]
  /\ params = 0 /\ tid = NoThread
  /\ th = [t \in Threads |-> Idle]
  /\ dblock = "free"
  /\ sock = "up" /\ reqs = <<>> /\ resps = <<>> /\ srv = "active"
  /\ used = [starts |-> 0, pauses |-> 0, resumes |-> 0,
             reset |-> 0, eof |-> 0, disk |-> 0]

\* A round was disturbed in one way only, by pauses or by failures: after both,
\* the operator and the recovery thread may each have started a thread.
OneDisturbance == used.pauses = 0 \/ used.reset + used.eof + used.disk = 0

\* Bounds; after pauses and failures both, neither happens again.
Use(what, bound) ==
  OneDisturbance /\ used[what] < bound /\ used' = [used EXCEPT ![what] = @ + 1]
Fail(kind) ==
  /\ kind \in Faults /\ OneDisturbance
  /\ used.reset + used.eof + used.disk < MaxFailures
  /\ used' = [used EXCEPT ![kind] = @ + 1]

-----------------------------------------------------------------------------
(* Starting a thread: resync_init, from the operator or from recovery.     *)

\* The thread id is overwritten whether or not the old thread still runs.
ResyncInit(from) ==
  \E t \in Threads :
    /\ th[t].pc = "idle"
    /\ th' = [th EXCEPT ![t].pc = "new"]
    /\ tid' = t
    /\ params' = from
    /\ io' = "IN_USE"

\* --resync: resync_init(pid, 0).
Resync ==
  /\ Use("starts", 1)
  /\ ResyncInit(0)
  /\ UNCHANGED <<bits, good, last, area, partner, rep, connc, diskc, hdr,
                 dblock, netVars>>

\* --pause: refused while last_resynced_bit is 0.
Pause ==
  /\ last # 0
  /\ Use("pauses", MaxPauses)
  /\ dblock = "free"
  /\ partner' = "PAUSE" /\ rep' = "PAUSE"
  /\ UNCHANGED <<bits, good, last, area, io, connc, diskc, hdr, params, tid,
                 th, dblock, netVars>>

\* --resume: refused only when the resync is over.  The operator gives it
\* after a --pause, as HowtoRun does; a patient one when no thread is left.
Resume ==
  /\ rep # "COMPLETED"
  /\ partner = "PAUSE" /\ (Operator = "patient" => ~Running)
  /\ Use("resumes", MaxPauses)
  /\ dblock = "free"
  /\ partner' = "RESUME" /\ rep' = "RESUME"
  /\ ResyncInit(last)
  /\ UNCHANGED <<bits, good, last, area, connc, diskc, hdr, dblock, netVars>>

\* Fault: the connection is restored and resync_init is not called.
RecoverConnOnly ==
  /\ connc = "PAUSE"
  /\ connc' = "RESUME"
  /\ sock' = "up" /\ reqs' = <<>> /\ resps' = <<>>
  /\ UNCHANGED <<bits, good, last, area, partner, rep, io, diskc, hdr, params,
                 tid, th, dblock, srv, used>>

\* recovery_conn_client and restart_conn_client: a new connection and a new
\* thread; the server takes the paused partner up again (ServerConn).
RecoverConn ==
  /\ connc = "PAUSE"
  /\ connc' = "RESUME"
  /\ sock' = "up" /\ reqs' = <<>> /\ resps' = <<>>
  /\ ResyncInit(last)
  /\ UNCHANGED <<bits, good, last, area, partner, rep, diskc, hdr, dblock,
                 srv, used>>

\* recovery_disk_client and restart_disk.
RecoverDisk ==
  /\ diskc = "PAUSE"
  /\ diskc' = "RESUME"
  /\ ResyncInit(last)
  /\ UNCHANGED <<bits, good, last, area, partner, rep, connc, hdr, dblock,
                 netVars, used>>

-----------------------------------------------------------------------------
(* One thread in restart_resync.                                           *)

At(t, pc)   == th[t].pc = pc
GoTo(t, pc) == th' = [th EXCEPT ![t].pc = pc]
Exit(t)     == th' = [th EXCEPT ![t] = Idle]

\* Up to the loop.  A thread that starts at bit 0 inserts the resync row.
Start(t) ==
  /\ At(t, "new")
  /\ th' = [th EXCEPT ![t].pc = "loop", ![t].bit = params]
  /\ hdr' = [hdr EXCEPT !.op = "DATA"]
  /\ IF params = 0 THEN dblock = "free" /\ rep' = "IN_PROGRESS"
                   ELSE UNCHANGED rep
  /\ UNCHANGED <<bits, good, last, area, partner, io, connc, diskc, params,
                 tid, dblock, netVars, used>>

\* is_bit_set on the bitmap, or on memory that was freed.
BitSet(t) == IF area = "held" THEN {th[t].bit \in bits} ELSE BOOLEAN

\* The loop condition, and the iteration of a bit that is not set.
LoopTest(t) ==
  /\ At(t, "loop")
  /\ \/ /\ th[t].bit >= NumBits \/ partner = "PAUSE"
        /\ GoTo(t, "after")
        /\ UNCHANGED last
     \/ /\ th[t].bit < NumBits /\ partner # "PAUSE"
        /\ \E set \in BitSet(t) :
             IF set THEN /\ th' = [th EXCEPT ![t].pc = "chunk", ![t].chunk = 0]
                         /\ UNCHANGED last
                    ELSE /\ last' = th[t].bit
                         /\ th' = [th EXCEPT ![t].bit = @ + 1]
  /\ UNCHANGED <<bits, good, objVars, hdr, params, tid, dblock, netVars, used>>

\* The head of the chunk loop: fill the shared header, leave on a pause, give
\* up when the I/O object was released.
NextChunk(t) ==
  /\ At(t, "chunk")
  /\ IF th[t].chunk >= NumChunks
       THEN GoTo(t, "grain") /\ UNCHANGED hdr
       ELSE /\ hdr' = [op |-> "DATA", pos |-> <<th[t].bit, th[t].chunk>>]
            /\ CASE partner = "PAUSE" -> GoTo(t, "grain")
                 [] partner # "PAUSE" /\ io = "RELEASED" -> Exit(t)
                 [] OTHER -> GoTo(t, "send")
  /\ UNCHANGED <<bits, good, last, objVars, params, tid, dblock, netVars,
                 used>>

\* send and recv are cancellation points.  A first send to a peer that has
\* closed succeeds and provokes a reset.
SendRequest(t) ==
  /\ At(t, "send") /\ th[t].cancel = "no"
  /\ CASE sock = "up"  -> /\ reqs' = Append(reqs, hdr) /\ GoTo(t, "recv")
                          /\ UNCHANGED <<sock, resps>>
       [] sock = "fin" -> /\ sock' = "reset" /\ resps' = <<>>
                          /\ GoTo(t, "recv") /\ UNCHANGED reqs
       [] OTHER        -> /\ sock' = "closed" /\ GoTo(t, "sleep")
                          /\ UNCHANGED <<reqs, resps>>
  /\ UNCHANGED <<bits, good, last, objVars, hdr, params, tid, dblock, srv,
                 used>>

\* Fault: a failed recv is not looked at.
RecvChunkUnchecked(t) ==
  /\ At(t, "recv") /\ th[t].cancel = "no"
  /\ IF resps = <<>>
       THEN sock # "up" /\ GoTo(t, "write") /\ UNCHANGED resps
       ELSE /\ th' = [th EXCEPT ![t].pc = "write", ![t].buff = Head(resps)]
            /\ resps' = Tail(resps)
  /\ UNCHANGED <<bits, good, last, objVars, hdr, params, tid, dblock, sock,
                 reqs, srv, used>>

\* chunk_read_client.  End of file counts as success and leaves the buffer as
\* it was; so does a shutdown of the socket by another thread.
RecvChunk(t) ==
  /\ At(t, "recv") /\ th[t].cancel = "no"
  /\ \/ /\ sock \in {"up", "fin"} /\ resps # <<>>
        /\ th' = [th EXCEPT ![t].pc = "write", ![t].buff = Head(resps)]
        /\ resps' = Tail(resps)
        /\ UNCHANGED sock
     \/ /\ sock \in {"fin", "closed"} /\ resps = <<>>
        /\ GoTo(t, "write")
        /\ UNCHANGED <<sock, resps>>
     \/ /\ sock \in {"reset", "closed"}
        /\ sock' = "closed" /\ resps' = <<>>
        /\ GoTo(t, "sleep")
  /\ UNCHANGED <<bits, good, last, objVars, hdr, params, tid, dblock, reqs,
                 srv, used>>

\* After the error: sleep, then pause the connection object and return.
GiveUp(t) ==
  /\ At(t, "sleep") /\ th[t].cancel = "no"
  /\ connc' = "PAUSE"
  /\ Exit(t)
  /\ UNCHANGED <<bits, good, last, area, partner, rep, io, diskc, hdr, params,
                 tid, dblock, netVars, used>>

\* chunk_write_client: the buffer goes where the LOCALS say.
WriteChunk(t) ==
  LET here == <<th[t].bit, th[t].chunk>>
  IN /\ At(t, "write")
     /\ good' = IF th[t].buff = here THEN good \cup {here} ELSE good \ {here}
     /\ th' = [th EXCEPT ![t].pc = "chunk", ![t].chunk = @ + 1]
     /\ UNCHANGED <<bits, last, objVars, hdr, params, tid, dblock, netVars,
                    used>>

\* A write error: pause the disk object, cancel resync_tid and go on.
WriteError(t) ==
  /\ At(t, "write") /\ Fail("disk")
  /\ diskc' = "PAUSE"
  /\ th' = [x \in Threads |->
              LET now == IF x # t THEN th[x]
                         ELSE [th[x] EXCEPT !.pc = "chunk", !.chunk = @ + 1]
              IN IF x = tid /\ now.pc # "idle"
                   THEN [now EXCEPT !.cancel = "yes"] ELSE now]
  /\ UNCHANGED <<bits, good, last, area, partner, rep, io, connc, hdr, params,
                 tid, dblock, netVars>>

\* The end of an iteration, with the row updated under db_lock.
GrainDone(t) ==
  /\ At(t, "grain") /\ th[t].cancel = "no" /\ dblock = "free"
  /\ last' = th[t].bit
  /\ th' = [th EXCEPT ![t].pc = "loop", ![t].bit = @ + 1]
  /\ UNCHANGED <<bits, good, objVars, hdr, params, tid, dblock, netVars, used>>

\* A pending cancel takes effect at a cancellation point, which most library
\* calls may be; in the database calls the thread dies with db_lock held.
Die(t) ==
  /\ th[t].cancel = "yes"
  /\ dblock' = IF At(t, "grain") /\ dblock = "free" THEN "stuck" ELSE dblock
  /\ Exit(t)
  /\ UNCHANGED <<bits, good, last, objVars, hdr, params, tid, netVars, used>>

\* After the loop: a paused resync cancels the thread in resync_tid.
AfterLoop(t) ==
  /\ At(t, "after")
  /\ th' = [x \in Threads |->
              LET now == IF x = t THEN [th[x] EXCEPT !.pc = "term"] ELSE th[x]
              IN IF x = tid /\ partner = "PAUSE" /\ now.pc # "idle"
                   THEN [now EXCEPT !.cancel = "yes"] ELSE now]
  /\ UNCHANGED <<bits, good, last, objVars, hdr, params, tid, dblock, netVars,
                 used>>

\* replication_terminate up to the message.
TerminateBegin(t) ==
  /\ At(t, "term")
  /\ IF rep = "COMPLETED"
       THEN Exit(t) /\ UNCHANGED <<hdr, last>>
       ELSE /\ hdr' = [hdr EXCEPT !.op = "TERMINATION"]
            /\ last' = IF partner # "PAUSE" THEN 0 ELSE last
            /\ GoTo(t, "bye")
  /\ UNCHANGED <<bits, good, objVars, params, tid, dblock, netVars, used>>

\* Fault: the cancel is not delivered before the message is sent.
TerminateSendUncancelled(t) ==
  /\ At(t, "bye") /\ dblock = "free"
  /\ reqs' = IF sock = "up" THEN Append(reqs, hdr) ELSE reqs
  /\ partner' = "RELEASED" /\ diskc' = "RELEASED" /\ io' = "RELEASED"
  /\ rep' = "COMPLETED"
  /\ area' = "freed"
  /\ Exit(t)
  /\ UNCHANGED <<bits, good, last, connc, hdr, params, tid, dblock, sock,
                 resps, srv, used>>

\* The message (a failure to send it is not looked at), and the release.
TerminateSend(t) ==
  /\ At(t, "bye") /\ th[t].cancel = "no" /\ dblock = "free"
  /\ reqs' = IF sock = "up" THEN Append(reqs, hdr) ELSE reqs
  /\ partner' = "RELEASED" /\ diskc' = "RELEASED" /\ io' = "RELEASED"
  /\ rep' = "COMPLETED"
  /\ area' = "freed"
  /\ Exit(t)
  /\ UNCHANGED <<bits, good, last, connc, hdr, params, tid, dblock, sock,
                 resps, srv, used>>

-----------------------------------------------------------------------------
(* The server's answers and the failures of the connection.                *)

\* Fault: the test of the I/O object is inverted.
ServeInverted ==
  /\ sock = "up" /\ reqs # <<>>
  /\ reqs' = Tail(reqs)
  /\ CASE Head(reqs).op = "DATA" /\ srv = "released" ->
            resps' = Append(resps, Head(reqs).pos) /\ UNCHANGED srv
       [] Head(reqs).op = "TERMINATION" -> srv' = "released" /\ UNCHANGED resps
       [] OTHER -> UNCHANGED <<resps, srv>>
  /\ UNCHANGED <<bits, good, last, objVars, hdr, params, tid, th, dblock, sock,
                 used>>

\* get_data answers with the chunk the header names, unless the round is over;
\* terminate ends the round.
Serve ==
  /\ sock = "up" /\ reqs # <<>>
  /\ reqs' = Tail(reqs)
  /\ CASE Head(reqs).op = "DATA" /\ srv = "active" ->
            resps' = Append(resps, Head(reqs).pos) /\ UNCHANGED srv
       [] Head(reqs).op = "TERMINATION" -> srv' = "released" /\ UNCHANGED resps
       [] OTHER -> UNCHANGED <<resps, srv>>
  /\ UNCHANGED <<bits, good, last, objVars, hdr, params, tid, th, dblock, sock,
                 used>>

\* The connection breaks, or the receive timeout expires.
ConnReset ==
  /\ Fail("reset") /\ sock = "up" /\ Running
  /\ sock' = "reset" /\ reqs' = <<>> /\ resps' = <<>>
  /\ UNCHANGED <<bits, good, last, objVars, hdr, params, tid, th, dblock, srv>>

\* get_data cannot read the source disk: the server closes the connection
\* instead of answering.
SourceReadError ==
  /\ Fail("eof") /\ sock = "up" /\ srv = "active"
  /\ reqs # <<>> /\ Head(reqs).op = "DATA"
  /\ sock' = "fin" /\ reqs' = <<>>
  /\ UNCHANGED <<bits, good, last, objVars, hdr, params, tid, th, dblock,
                 resps, srv>>

-----------------------------------------------------------------------------
Thread(t) ==
  \/ Start(t) \/ LoopTest(t) \/ NextChunk(t) \/ SendRequest(t) \/ RecvChunk(t)
  \/ GiveUp(t) \/ WriteChunk(t) \/ WriteError(t) \/ GrainDone(t) \/ Die(t)
  \/ AfterLoop(t) \/ TerminateBegin(t) \/ TerminateSend(t)

Next ==
  \/ Resync \/ Pause \/ Resume \/ RecoverConn \/ RecoverDisk
  \/ \E t \in Threads : Thread(t)
  \/ Serve \/ ConnReset \/ SourceReadError

\* Threads are scheduled, the server answers, the recovery thread polls; the
\* operator need not do anything.
Fairness ==
  /\ \A t \in Threads : WF_vars(Thread(t))
  /\ WF_vars(Serve) /\ WF_vars(RecoverConn) /\ WF_vars(RecoverDisk)

Spec == Init /\ [][Next]_vars /\ Fairness

-----------------------------------------------------------------------------
(* Properties.                                                             *)

Pcs     == {"idle", "new", "loop", "chunk", "send", "recv", "write", "grain",
            "sleep", "after", "term", "bye"}
States  == [pc : Pcs, bit : 0 .. NumBits, chunk : 0 .. NumChunks,
            buff : Addresses \cup {Stale}, cancel : {"no", "yes"}]
Headers == [op : {"METADATA", "DATA", "TERMINATION"}, pos : Addresses]

\* A thread inside an iteration is at a bit of the bitmap, and between the head
\* of the chunk loop and its end at a chunk of the grain.
InBounds ==
  \A t \in Threads :
    /\ th[t].pc \in {"chunk", "send", "recv", "write", "grain"} =>
         th[t].bit < NumBits
    /\ th[t].pc \in {"send", "recv", "write"} => th[t].chunk < NumChunks

TypeOK ==
  /\ bits \subseteq Grains /\ area \in {"held", "freed"}
  /\ good \subseteq Addresses /\ last \in Grains
  /\ partner \in {"IN_USE", "PAUSE", "RESUME", "RELEASED"}
  /\ rep \in {"IN_PROGRESS", "PAUSE", "RESUME", "COMPLETED"}
  /\ io \in {"IN_USE", "RELEASED"}
  /\ connc \in {"IN_USE", "PAUSE", "RESUME"}
  /\ diskc \in {"IN_USE", "PAUSE", "RESUME", "RELEASED"}
  /\ hdr \in Headers
  /\ params \in Grains /\ tid \in Threads \cup {NoThread}
  /\ th \in [Threads -> States] /\ InBounds
  /\ dblock \in {"free", "stuck"}
  /\ sock \in {"up", "reset", "fin", "closed"}
  /\ srv \in {"active", "released"}
  /\ reqs \in Seq(Headers) /\ resps \in Seq(Addresses)
  /\ used \in [starts : Nat, pauses : Nat, resumes : Nat,
               reset : Nat, eof : Nat, disk : Nat]

Copied(g) == \A c \in ChunkIds : <<g, c>> \in good

\* The data that arrives is right: no end of file was taken for a chunk, and no
\* write to the target failed.
Intact == used.eof = 0 /\ used.disk = 0

\* A round that is over, on either side, has copied every chunk of every grain
\* of the bitmap: the server clears its marks only for grains that arrived.
CompletedMeansCopied ==
  Intact /\ OneDisturbance =>
    (srv = "released" \/ area = "freed" => \A g \in bits : Copied(g))

\* Wherever a resync is resumed, the grains it skips are on the target: every
\* marked grain before last_resynced_bit is copied.
ResumePointSafe ==
  Intact /\ OneDisturbance => \A g \in bits : g < last => Copied(g)

\* last_resynced_bit moves back only when the whole bitmap is copied.
LastMovesForward ==
  [][Intact /\ OneDisturbance /\ last' < last => \A g \in bits : Copied(g)]_vars

\* A completed resync has forgotten its position, so that nothing can be
\* paused or resumed until the next one.
PositionForgotten == area = "freed" => last = 0

\* A resync that was started completes or stays paused: a lost connection is
\* restored and the resync goes on.
ResyncEnds ==
  Running ~> (area = "freed" \/ partner = "PAUSE" \/ ~Intact \/ ~OneDisturbance)

\* In a round that is not over a thread that waits for a chunk on a working
\* connection is owed one: its request or the answer is on the way, so it will
\* not wait forever.
ReplyOwed ==
  sock = "up" /\ area = "held" /\ OneDisturbance =>
    \A t \in Threads : At(t, "recv") => reqs # <<>> \/ resps # <<>>

\* A pause takes effect: no thread is left running unless it is resumed.
PauseStops ==
  partner = "PAUSE" ~> (~Running \/ partner # "PAUSE" \/ ~Intact \/ ~OneDisturbance)

-----------------------------------------------------------------------------
(* The inductive invariant behind ReplyOwed, ResumePointSafe,              *)
(* CompletedMeansCopied and LastMovesForward, for a patient operator.      *)

Live(t)  == ~At(t, "idle") /\ th[t].cancel = "no"
Failures == used.reset + used.eof + used.disk

\* Before --resync nothing has happened.
StartInv ==
  used.starts = 0 =>
    /\ ~Running /\ last = 0 /\ area = "held" /\ sock = "up"
    /\ partner = "IN_USE" /\ connc = "IN_USE" /\ diskc = "IN_USE"

\* There is one thread that is not cancelled, the one in resync_tid, and none
\* while recovery has still to start one.
OneThread ==
  /\ \A t \in Threads : Live(t) => tid = t /\ connc # "PAUSE" /\ diskc # "PAUSE"
  /\ ~(connc = "PAUSE" /\ diskc = "PAUSE")
  /\ connc = "PAUSE" \/ diskc = "PAUSE" => Failures > 0
  /\ partner = "PAUSE" => used.pauses > 0

\* Where a cancelled thread can be: behind a failed write, or behind the loop
\* of a paused resync.
CancelInv ==
  \A t \in Threads : th[t].cancel = "yes" =>
    \/ used.disk > 0 /\ th[t].pc \in {"chunk", "send", "grain"}
    \/ /\ used.pauses > 0 /\ partner = "PAUSE" /\ tid = t
       /\ th[t].pc \in {"term", "bye"}

\* What the socket says about the thread.
SocketInv ==
  /\ Failures = 0 => sock = "up"
  /\ used.eof = 0 => sock # "fin"
  /\ diskc = "PAUSE" => sock # "closed"
  /\ \A t \in Threads :
       /\ Live(t) /\ ~At(t, "sleep") => sock # "closed"
       /\ At(t, "sleep") => Failures > 0

\* The requests and answers under way: one while a thread waits, else none.
PipeInv ==
  /\ area = "held" =>
       /\ srv = "active"
       /\ sock # "up" => reqs = <<>> /\ resps = <<>>
       /\ reqs # <<>> \/ resps # <<>> => \E t \in Threads : At(t, "recv")
       /\ sock = "up" => \A t \in Threads : At(t, "recv") =>
            \/ Len(reqs) = 1 /\ reqs[1].op = "DATA" /\ resps = <<>>
            \/ reqs = <<>> /\ Len(resps) = 1
  /\ \A t \in Threads : Live(t) /\ At(t, "send") => hdr.op = "DATA"
  /\ used.disk = 0 =>
       \A t \in Threads : Live(t) /\ At(t, "bye") => hdr.op = "TERMINATION"

\* After the end of the round no thread gets a chunk any more: the message that
\* ends it is the first the server will see.  (A cancelled thread that has not
\* died yet may change that message, after a failed write.)
OverInv ==
  area = "freed" =>
    /\ connc # "PAUSE" /\ diskc # "PAUSE"
    /\ \A t \in Threads : ~At(t, "write") /\ (Live(t) => used.pauses > 0)
    /\ used.disk = 0 =>
         /\ resps = <<>>
         /\ srv = "active" /\ sock = "up" =>
              reqs # <<>> /\ reqs[1].op = "TERMINATION"

ControlInv == /\ StartInv /\ OneThread /\ CancelInv /\ SocketInv
              /\ PipeInv /\ OverInv

\* Every marked grain before bit b is copied.
CopiedUpTo(b) == \A g \in bits : g < b => Copied(g)
AllCopied     == \A g \in bits : Copied(g)
Here(t)       == <<th[t].bit, th[t].chunk>>

\* What is on the target, by the control point of the thread.  A pause lets the
\* thread leave a grain it has not finished.
ThreadData(t) ==
  /\ At(t, "new") => CopiedUpTo(params)
  /\ th[t].pc \in {"chunk", "send", "recv", "write", "grain"} =>
       CopiedUpTo(th[t].bit)
  /\ th[t].pc \in {"loop", "after"} /\ partner # "PAUSE" => CopiedUpTo(th[t].bit)
  /\ At(t, "after") /\ partner # "PAUSE" => th[t].bit >= NumBits
  /\ th[t].pc \in {"chunk", "send", "recv", "write"} =>
       \A c \in ChunkIds : c < th[t].chunk => <<th[t].bit, c>> \in good
  /\ At(t, "grain") /\ partner # "PAUSE" => Copied(th[t].bit)
  /\ th[t].pc \in {"term", "bye"} => AllCopied
  /\ At(t, "send") => hdr.pos = Here(t)
  /\ At(t, "recv") =>
       /\ reqs # <<>> => reqs[1].pos = Here(t)
       /\ resps # <<>> => resps[1] = Here(t)
  /\ At(t, "write") => th[t].buff = Here(t)

DataInv ==
  /\ CopiedUpTo(last)
  /\ area = "freed" => AllCopied
  /\ area = "held" => \A t \in Threads : Live(t) => ThreadData(t)

\* A thread is never behind the position it would report.
Ahead(t) ==
  /\ At(t, "new") => params >= last
  /\ th[t].pc \in {"loop", "chunk", "send", "recv", "write", "grain"} =>
       th[t].bit >= last

PositionInv == area = "held" => \A t \in Threads : Live(t) => Ahead(t)

LoopInv == /\ TypeOK
           /\ OneDisturbance => ControlInv /\ PositionInv
           /\ OneDisturbance /\ Intact => DataInv
=============================================================================
