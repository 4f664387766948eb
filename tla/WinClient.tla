----------------------------- MODULE WinClient -----------------------------
(***************************************************************************)
(* The Windows client: the commands of its control thread, the resync       *)
(* threads, what it keeps in the database and the bitmap file, and what a   *)
(* restart makes of it.  It differs from the Linux client where the model   *)
(* puts its weight: a reply is read with a plain recv, so a part of one may *)
(* be taken for the whole; the receive timeout of 30 is in milliseconds;    *)
(* the full resync runs in the control thread; a thread ends itself with    *)
(* ExitThread; no recovery thread restarts what was abandoned; the bitmap   *)
(* file is written and read in text mode.                                   *)
(*                                                                         *)
(*   user/atdr_windows/windows_client/atdr_resync.c, atdr_daemon.c,         *)
(*   atdr_db.c, atdr_bitmap_client.c, atdr_io_engine_client.c,              *)
(*   replic_client.c, atdr_conn_client.c, atdr_disk_target.c                *)
(*                                                                         *)
(* One partner, one chunk per grain, a server that answers every request.  *)
(***************************************************************************)
EXTENDS Integers, Sequences, FiniteSets

CONSTANTS
  N,            \* bits of the bitmap
  Bitmaps,      \* the bitmaps the server may send: sets of bits
  MaxCommands,  \* bound: requests for the bitmap and commands
  MaxThreads,   \* bound: resync threads at a time
  MaxFaults     \* bound: short reads, lost connections, disk errors, crashes

ASSUME WCAssumption ==
  /\ N \in Nat \ {0} /\ Bitmaps \subseteq SUBSET (0..(N - 1))
  /\ {MaxCommands, MaxFaults, MaxThreads} \subseteq Nat

VARIABLES
  daemon,    \* "up" | "dead"
  partner,   \* all_partner_clients[0].obj_state
  rep,       \* replic_client_obj[0].rep_state
  last,      \* last_resynced_bit
  io,        \* io_client_obj[0].obj_state: "none" | "inuse" | "released"
  area,      \* the bits received, and whether the memory is allocated
  recovery,  \* recovery_mode[0]
  loops,     \* runs of restart_resync: 0 in the control thread, others in threads
  sock,      \* "open" | "lost" (the peer is gone) | "none" (socket_fd is -1)
  asked,     \* positions asked for and not answered
  skew,      \* a piece of an earlier reply is still unread
  db,        \* resync rows, state of the partner row, bitmap file
  want,      \* the bits the server has set in this round
  good,      \* positions of the target that hold the data of this round
  round,     \* this round: "none" | "open" | "done"
  count, ev  \* counters against the bounds; events so far

objVars == <<partner, rep, last, io, recovery>>
netVars == <<sock, asked, skew>>
vars == <<daemon, objVars, area, loops, netVars, db, want, good, round, count, ev>>

-----------------------------------------------------------------------------
Pos == 0..(N - 1)
LoopIds == 0..MaxThreads
Threads == 1..MaxThreads
Idle == [pc |-> "idle", pos |-> 0, full |-> FALSE, buf |-> N]
NoFile == {N}                        \* the bitmap file does not exist
NoArea == [bits |-> {}, live |-> FALSE]

Fault(e) ==
  /\ count.fault < MaxFaults
  /\ count' = [count EXCEPT !.fault = @ + 1]
  /\ ev' = ev \cup {e}
Running(l) == loops[l].pc # "idle"
Overlap == IF \E m \in LoopIds : Running(m) THEN {"overlap"} ELSE {}
\* The process ends, and its memory with it.
Dies ==
  /\ daemon' = "dead"
  /\ partner' = "none" /\ rep' = "progress" /\ last' = 0 /\ io' = "none"
  /\ recovery' = FALSE /\ area' = NoArea /\ loops' = [l \in LoopIds |-> Idle]
  /\ sock' = "none" /\ asked' = <<>> /\ skew' = FALSE
At(l, pc) == daemon = "up" /\ loops[l].pc = pc
Goto(l, pc) == loops' = [loops EXCEPT ![l].pc = pc]

\* A daemon that has made its partner and its relation.
Init ==
  /\ daemon = "up"
  /\ partner = "inuse" /\ rep = "progress" /\ last = 0 /\ io = "none"
  /\ recovery = FALSE
  /\ area = NoArea
  /\ loops = [l \in LoopIds |-> Idle]
  /\ sock = "open" /\ asked = <<>> /\ skew = FALSE
  /\ db = [rows |-> <<>>, partner |-> "inuse", file |-> NoFile]
  /\ want = {} /\ good = {} /\ round = "none"
  /\ count = [command |-> 0, fault |-> 0]
  /\ ev = {}

-----------------------------------------------------------------------------
(* The database *)

\* update_resync_state: every row of the partner, those of old rounds too.
SetState(rows, s) == [i \in DOMAIN rows |-> [rows[i] EXCEPT !.state = s]]

\* update_into_resync: the rows that are in the state of the resync.
SetLast(rows, p) ==
  [i \in DOMAIN rows |-> IF rows[i].state = rep
                           THEN [rows[i] EXCEPT !.last = p] ELSE rows[i]]

\* insert_into_resync
Insert(rows) == Append(rows, [last |-> 0, state |-> "progress"])

\* retrieve_from_resync
Open(rows) == {i \in DOMAIN rows : rows[i].state # "completed"}

-----------------------------------------------------------------------------
(* Commands *)

\* The control thread takes the next command: not while it is in a resync.
Command ==
  /\ daemon = "up" /\ ~Running(0) /\ count.command < MaxCommands
  /\ count' = [count EXCEPT !.command = @ + 1]

\* store_bitmap_to_disk, of a bitmap whose first word is not zero.
Stored(b) == IF 0 \in b THEN b ELSE db.file

\* request_server_for_metadata: new memory, a released partner is taken into
\* use again, and the bitmap is read with one recv, which may return a part.
RequestMetadata ==
  /\ daemon = "up" /\ ~Running(0) /\ sock = "open" /\ count.command < MaxCommands
  /\ asked = <<>>
  /\ partner' = IF partner = "released" THEN "inuse" ELSE partner
  /\ \E D \in Bitmaps, short \in BOOLEAN :
       LET got == IF skew THEN {} ELSE IF short THEN D \cap {0} ELSE D
       IN /\ want' = D
          /\ area' = [bits |-> got, live |-> TRUE]
          /\ db' = [db EXCEPT !.file = Stored(got),
                              !.partner = IF partner = "released" THEN "inuse" ELSE @]
          /\ skew' = (skew \/ short)
          /\ count' = [count EXCEPT !.command = @ + 1,
                                    !.fault = IF short THEN @ + 1 ELSE @]
          /\ short => count.fault < MaxFaults
          /\ ev' = (ev \ {"late"}) \cup (IF short THEN {"short"} ELSE {})
                      \cup (IF last # 0 \/ Open(db.rows) # {} \/ Overlap # {}
                              THEN {"remeta"} ELSE {})
  /\ good' = {} /\ round' = "open"
  /\ UNCHANGED <<daemon, rep, last, io, recovery, loops, sock, asked>>

\* recv_data fails, also when the answer takes more than 30 milliseconds.
MetadataFails ==
  /\ daemon = "up" /\ ~Running(0) /\ Fault("metadata") /\ Dies
  /\ UNCHANGED <<db, want, good, round>>

\* resync_init: the io object is in use again, a thread starts at bit_pos.
ResyncInit(pos) ==
  /\ io' = "inuse"
  /\ \E l \in Threads :
       /\ ~Running(l) /\ \A m \in Threads : ~Running(m) => l <= m
       /\ loops' = [loops EXCEPT ![l] = [pc |-> "start", pos |-> pos, full |-> FALSE,
                                         buf |-> N]]

\* --resync.  Without a bitmap the thread would follow a null pointer.
Resync ==
  /\ Command /\ area # NoArea
  /\ ResyncInit(0) /\ ev' = ev \cup Overlap
  /\ UNCHANGED <<daemon, partner, rep, last, recovery, area, netVars, db, want,
                 good, round>>

\* Rows that an earlier round has completed are open again.
Reopened == IF \E i \in DOMAIN db.rows : i \notin Open(db.rows) THEN {"reopened"} ELSE {}

\* --pause: nothing if the resync has not got past the first bit.
Pause ==
  /\ Command /\ last # 0
  /\ partner' = "pause" /\ rep' = "pause"
  /\ db' = [db EXCEPT !.partner = "pause", !.rows = SetState(@, "pause")]
  /\ ev' = ev \cup Reopened
  /\ UNCHANGED <<daemon, last, io, recovery, area, loops, netVars, want, good,
                 round>>

\* --resume: from last_resynced_bit, unless the resync is complete.
Resume ==
  /\ Command /\ rep # "completed" /\ area # NoArea
  /\ partner' = "resume" /\ rep' = "resume"
  /\ db' = [db EXCEPT !.partner = "resume", !.rows = SetState(@, "resume")]
  /\ ResyncInit(last) /\ ev' = ev \cup Overlap \cup Reopened
  /\ UNCHANGED <<daemon, last, recovery, area, netVars, want, good, round>>

\* --fullresync: restart_resync in the control thread, and no io object made.
FullResync ==
  /\ Command /\ area # NoArea
  /\ loops' = [loops EXCEPT ![0] = [pc |-> "start", pos |-> 0, full |-> TRUE, buf |-> N]]
  /\ ev' = ev \cup Overlap \cup (IF partner = "pause" THEN {"fullpaused"} ELSE {})
  /\ UNCHANGED <<daemon, objVars, area, netVars, db, want, good, round>>

-----------------------------------------------------------------------------
(* restart_resync *)

\* A recovered resync has its row.  Others insert one if they start at 0.
Start(l) ==
  /\ At(l, "start")
  /\ Goto(l, "test")
  /\ recovery' = FALSE
  /\ IF ~recovery /\ loops[l].pos = 0
       THEN /\ db' = [db EXCEPT !.rows = Insert(@)]
            /\ rep' = "progress"
       ELSE UNCHANGED <<db, rep>>
  /\ UNCHANGED <<daemon, partner, last, io, area, netVars, want, good, round,
                 count, ev>>

\* is_bit_set: memory that was freed holds anything.
BitSet(p, b) == b = (p \in area.bits) \/ ~area.live

\* The head of the loop, for a bit that is not to be copied.
Skip(l) ==
  /\ At(l, "test") /\ loops[l].pos < N /\ partner # "pause"
  /\ BitSet(loops[l].pos, FALSE) /\ ~loops[l].full
  /\ last' = loops[l].pos
  /\ loops' = [loops EXCEPT ![l].pos = @ + 1]
  /\ ev' = IF area.live THEN ev ELSE ev \cup {"freed"}
  /\ UNCHANGED <<daemon, partner, rep, io, recovery, area, netVars, db, want,
                 good, round, count>>

\* ... and for one that is.
Copies(l) ==
  /\ At(l, "test") /\ loops[l].pos < N /\ partner # "pause"
  /\ BitSet(loops[l].pos, TRUE) \/ loops[l].full
  /\ Goto(l, "ask")
  /\ ev' = IF area.live \/ loops[l].full THEN ev ELSE ev \cup {"freed"}
  /\ UNCHANGED <<daemon, objVars, area, netVars, db, want, good, round, count>>

\* The header is shared: what goes out is the position of the loop that
\* wrote it last.
Ask(l) ==
  /\ At(l, "ask") /\ partner # "pause" /\ io # "released" /\ sock # "none"
  /\ \E m \in LoopIds :
       /\ Running(m) /\ loops[m].pos < N
       /\ asked' = IF sock = "open" THEN Append(asked, loops[m].pos) ELSE asked
  /\ Goto(l, "recv")
  /\ UNCHANGED <<daemon, objVars, area, sock, skew, db, want, good, round, count, ev>>

\* The io object is released: another loop has completed the resync.
Released(l) ==
  /\ At(l, "ask") /\ partner # "pause" /\ io = "released"
  /\ Goto(l, "idle")
  /\ ev' = ev \cup {"stranded"}
  /\ UNCHANGED <<daemon, objVars, area, netVars, db, want, good, round, count>>

\* send or recv fails: the socket is closed, the resync abandoned.
GiveUp(l) ==
  /\ \/ /\ At(l, "ask") /\ partner # "pause" /\ io # "released" /\ sock # "open"
        /\ UNCHANGED <<count, ev>>
     \/ At(l, "recv") /\ sock # "open" /\ UNCHANGED <<count, ev>>
     \/ At(l, "recv") /\ sock = "open" /\ Fault("late")   \* 30 milliseconds
  /\ sock' = "none" /\ asked' = <<>> /\ skew' = FALSE
  /\ Goto(l, "idle")
  /\ UNCHANGED <<daemon, objVars, area, db, want, good, round>>

\* chunk_read: all of the reply, or what has arrived of it.
Recv(l) ==
  /\ At(l, "recv") /\ sock = "open" /\ asked # <<>>
  /\ \E whole \in BOOLEAN :
       /\ IF whole THEN UNCHANGED <<count, ev>> ELSE Fault("short")
       /\ skew' = (skew \/ ~whole)
       /\ loops' = [loops EXCEPT ![l].pc = "write",
                                 ![l].buf = IF whole /\ ~skew THEN Head(asked) ELSE N]
  /\ asked' = Tail(asked)
  /\ UNCHANGED <<daemon, objVars, area, sock, db, want, good, round>>

\* The end of the stream is no error: the buffer of the last chunk is written.
RecvEof(l) ==
  /\ At(l, "recv") /\ sock = "lost"
  /\ Goto(l, "write")
  /\ ev' = ev \cup {"eof"}
  /\ UNCHANGED <<daemon, objVars, area, netVars, db, want, good, round, count>>

\* Fault: a chunk that was written does not move the loop on.
WriteStays(l) ==
  /\ At(l, "write")
  /\ good' = IF loops[l].buf = loops[l].pos THEN good \cup {loops[l].pos}
                                            ELSE good \ {loops[l].pos}
  /\ db' = [db EXCEPT !.rows = SetLast(@, loops[l].pos)]
  /\ last' = loops[l].pos
  /\ loops' = [loops EXCEPT ![l].pc = "test", ![l].buf = N]
  /\ UNCHANGED <<daemon, partner, rep, io, recovery, area, netVars, want, round,
                 count, ev>>

\* chunk_write, update_into_resync and the step to the next bit.
Write(l) ==
  /\ At(l, "write")
  /\ good' = IF loops[l].buf = loops[l].pos THEN good \cup {loops[l].pos}
                                            ELSE good \ {loops[l].pos}
  /\ db' = [db EXCEPT !.rows = SetLast(@, loops[l].pos)]
  /\ last' = loops[l].pos
  /\ loops' = [loops EXCEPT ![l].pc = "test", ![l].pos = @ + 1, ![l].buf = N]
  /\ UNCHANGED <<daemon, partner, rep, io, recovery, area, netVars, want, round,
                 count, ev>>

\* SetFilePointer fails: the disk is paused and the thread, which may be the
\* control thread, ends.  WriteFile fails: the process ends.
WriteError(l) ==
  /\ At(l, "write") /\ Fault("disk")
  /\ \/ Dies
     \/ l # 0 /\ Goto(l, "idle") /\ UNCHANGED <<daemon, objVars, area, netVars>>
  /\ UNCHANGED <<db, want, good, round>>

\* ExitThread.  In the control thread that lets main return.
ExitThread(l) ==
  IF l = 0 THEN Dies ELSE /\ Goto(l, "idle")
                          /\ UNCHANGED <<daemon, partner, rep, io, recovery, area, netVars>>

\* Paused.
PauseExit(l) ==
  /\ At(l, "test") /\ partner = "pause" /\ ExitThread(l)
  /\ l # 0 => UNCHANGED last
  /\ UNCHANGED <<db, want, good, round, count, ev>>

\* The pause is seen before the chunk is asked for: the position is noted, as
\* after a chunk that was written, and the loop left.
PauseBreak(l) ==
  /\ At(l, "ask") /\ partner = "pause"
  /\ db' = [db EXCEPT !.rows = SetLast(@, loops[l].pos)]
  /\ ExitThread(l)
  /\ l # 0 => last' = loops[l].pos
  /\ UNCHANGED <<want, good, round, count, ev>>

\* Fault: a loop that a pause has ended is taken for the end of the resync.
LoopEndPaused(l) ==
  /\ At(l, "test") /\ (loops[l].pos >= N \/ partner = "pause")
  /\ Goto(l, "end")
  /\ UNCHANGED <<daemon, objVars, area, netVars, db, want, good, round, count, ev>>

\* The loop ends behind the last bit and finds no pause.
LoopEnd(l) ==
  /\ At(l, "test") /\ loops[l].pos >= N /\ partner # "pause"
  /\ Goto(l, "end")
  /\ UNCHANGED <<daemon, objVars, area, netVars, db, want, good, round, count, ev>>

\* replication_terminate: everything is released and the bitmap freed.  The
\* result of sending TERMINATE is not looked at.  A resync that another loop
\* has completed is left alone, and a pause that came after the end of the
\* loop is forgotten, except that last_resynced_bit is kept.
Terminate(l) ==
  /\ At(l, "end")
  /\ IF rep = "completed"
       THEN Goto(l, "idle") /\ UNCHANGED <<objVars, area, db, round>>
       ELSE /\ last' = IF partner = "pause" THEN last ELSE 0
            /\ partner' = "released" /\ io' = "released" /\ rep' = "completed"
            /\ area' = [area EXCEPT !.live = FALSE]
            /\ db' = [db EXCEPT !.partner = "released"]
            /\ round' = "done"
            /\ Goto(l, "rows")
            /\ UNCHANGED recovery
  /\ UNCHANGED <<daemon, netVars, want, good, count, ev>>

\* ... and the rows of the partner are completed.
CompleteRows(l) ==
  /\ At(l, "rows")
  /\ db' = [db EXCEPT !.rows = SetState(@, "completed")]
  /\ Goto(l, "idle")
  /\ UNCHANGED <<daemon, objVars, area, netVars, want, good, round, count, ev>>

-----------------------------------------------------------------------------
(* Faults and restart *)

\* The server's side of the connection goes away.
LoseConnection ==
  /\ daemon = "up" /\ sock = "open" /\ Fault("lost")
  /\ sock' = "lost" /\ asked' = <<>>
  /\ UNCHANGED <<daemon, objVars, area, loops, skew, db, want, good, round>>

Crash ==
  /\ daemon = "up" /\ Fault("crash") /\ Dies
  /\ UNCHANGED <<db, want, good, round>>

\* load_bitmap_from_disk, in text mode: the byte 26 is the end of the file, and
\* what follows it is not read.
Loads(b) == \E k \in 1..N : b = {p \in db.file : p < k}

\* Fault: the resync is restarted at the bit behind the one noted.
RestartLastNext(rows) ==
  rows[CHOOSE i \in Open(rows) : \A j \in Open(rows) : i <= j].last + 1

\* Every resync that is restarted starts where the first open row says.
RestartLast(rows) ==
  rows[CHOOSE i \in Open(rows) : \A j \in Open(rows) : i <= j].last

\* db_init.  For each row that is not completed the connection is made and a
\* thread started, always for partner 0.  A partner whose row is released has
\* no address to connect to, a bitmap that was never stored cannot be loaded:
\* the daemon stops.
Restart ==
  /\ daemon = "dead"
  /\ LET n == Cardinality(Open(db.rows))
     IN /\ n <= MaxThreads
        /\ partner' = IF db.partner = "released" THEN "none" ELSE db.partner
        /\ recovery' = (db.partner # "released")
        /\ IF n = 0
             THEN /\ daemon' = "up"
                  /\ UNCHANGED <<sock, io, loops, last, rep, area, count, ev>>
             ELSE /\ db.partner # "released" /\ db.file # NoFile
                  /\ daemon' = "up" /\ sock' = "open" /\ io' = "inuse"
                  /\ last' = RestartLast(db.rows)
                  /\ rep' = db.rows[CHOOSE i \in Open(db.rows) :
                                      \A j \in Open(db.rows) : i <= j].state
                  /\ loops' = [l \in LoopIds |->
                                 IF l \in 1..n
                                   THEN [pc |-> "start", pos |-> RestartLast(db.rows),
                                         full |-> FALSE, buf |-> N]
                                   ELSE Idle]
                  /\ \E b \in SUBSET Pos :
                       /\ Loads(b)
                       /\ area' = [bits |-> b, live |-> TRUE]
                       /\ UNCHANGED count
                       /\ ev' = ev \cup (IF n > 1 THEN {"overlap"} ELSE {})
                                   \cup (IF db.file # want THEN {"stale"} ELSE {})
                                   \cup (IF b # db.file THEN {"text"} ELSE {})
  /\ UNCHANGED <<asked, skew, db, want, good, round>>

-----------------------------------------------------------------------------
LoopStep(l) ==
  \/ Start(l) \/ Skip(l) \/ Copies(l) \/ Ask(l) \/ Released(l) \/ GiveUp(l)
  \/ Recv(l) \/ RecvEof(l) \/ Write(l) \/ WriteError(l) \/ PauseExit(l)
  \/ PauseBreak(l) \/ LoopEnd(l)
  \/ Terminate(l) \/ CompleteRows(l)
Next ==
  \/ RequestMetadata \/ MetadataFails \/ Resync \/ Pause \/ Resume \/ FullResync
  \/ \E l \in LoopIds : LoopStep(l)
  \/ LoseConnection \/ Crash \/ Restart

\* The threads are scheduled, and a receive ends with the reply or the timeout.
Fairness == \A l \in LoopIds : WF_vars(LoopStep(l))
Spec == Init /\ [][Next]_vars /\ Fairness

-----------------------------------------------------------------------------
(* Properties *)

Pcs == {"idle", "start", "test", "ask", "recv", "write", "end", "rows"}
States == {"progress", "pause", "resume", "completed"}
Loop == [pc : Pcs, pos : 0..N, full : BOOLEAN, buf : 0..N]
Row == [last : Pos, state : States]
TypeOK ==
  /\ daemon \in {"up", "dead"}
  /\ partner \in {"none", "inuse", "released", "pause", "resume"}
  /\ rep \in States
  /\ last \in Pos /\ io \in {"none", "inuse", "released"} /\ recovery \in BOOLEAN
  /\ area \in [bits : SUBSET Pos, live : BOOLEAN]
  /\ loops \in [LoopIds -> Loop]
  /\ \A l \in LoopIds : loops[l].pc \in {"ask", "recv", "write"} => loops[l].pos < N
  /\ sock \in {"open", "lost", "none"} /\ asked \in Seq(Pos) /\ skew \in BOOLEAN
  /\ db \in [rows : Seq(Row), partner : {"inuse", "released", "pause", "resume"},
             file : SUBSET (0..N)]
  /\ want \subseteq Pos /\ good \subseteq Pos
  /\ round \in {"none", "open", "done"}
  /\ count \in [command : Nat, fault : Nat]

\* What takes the client out of step with the server: part of a reply taken
\* for the whole, the end of the stream, two loops over one header, a bitmap
\* of another round, freed memory, rows of a completed round opened again by
\* --pause and --resume.
Excused == ev \cap {"short", "eof", "overlap", "stale", "text", "remeta", "freed",
                   "reopened"} # {}

\* A round that replication_terminate has declared complete has copied every
\* bit the server had set, whatever pauses, resumes, lost connections, late
\* answers, crashes and restarts there were (restart_resync).
CompletedMeansCopied == round = "done" /\ ~Excused => want \subseteq good

\* Where --resume would go on, nothing before it is left to copy.
ResumePointSafe ==
  round = "open" /\ ~Excused => \A p \in want : p < last => p \in good

\* Where a restart would go on, nothing before it is left to copy.
RestartPointSafe ==
  round = "open" /\ ~Excused /\ Open(db.rows) # {} =>
     \A p \in want : p < RestartLast(db.rows) => p \in good

\* Why the three hold.  Unless something took the client out of step, one loop
\* runs at a time, the bitmap in memory is the one of this round, what is asked
\* for and what was received is what the loop is at, and nothing that is to be
\* copied is missing before the loop, before last_resynced_bit or before the
\* position in a row that is not completed.
Copied(k) == \A p \in want : p < k => p \in good
OneLoop == \A l, m \in LoopIds : Running(l) /\ Running(m) => l = m
InStep ==
  /\ ~skew
  /\ area.live => area.bits = want
  /\ asked # <<>> =>
       \E l \in LoopIds : loops[l].pc = "recv" /\ asked = <<loops[l].pos>>
  /\ \A l \in LoopIds : loops[l].pc = "write" => loops[l].buf = loops[l].pos
NothingMissed ==
  /\ \A l \in LoopIds : Running(l) => Copied(loops[l].pos)
  /\ \A l \in LoopIds : loops[l].pc = "end" => loops[l].pos = N
  /\ Copied(last)
  /\ \A i \in Open(db.rows) : Copied(db.rows[i].last)
  /\ round = "done" => want \subseteq good
RoundKept == OneLoop /\ InStep /\ NothingMissed
CopyInv ==
  /\ daemon = "dead" => asked = <<>>
  /\ ~Excused => RoundKept

\* The daemon ends by a crash, a disk error, a lost answer to the request for
\* the bitmap, or a --fullresync of a paused partner, which ends the control
\* thread by ExitThread; never by a pause that a resync thread finds.
EndsOnlyIf == daemon = "dead" => ev \cap {"crash", "disk", "metadata", "fullpaused"} # {}

\* Why: only --fullresync puts a loop into the control thread, no command is
\* taken while it runs there, and a restart starts none there.
ControlThreadInv ==
  /\ EndsOnlyIf
  /\ daemon = "dead" => ~Running(0)
  /\ Running(0) /\ partner = "pause" => "fullpaused" \in ev

\* A row that is not completed belongs to a loop, to a pause the operator can
\* lift, or to a resync given up for its connection or its disk; or a
\* --fullresync of a completed partner has found its io object released.
OpenRowHasLoop ==
  daemon = "up" /\ Open(db.rows) # {} =>
    \/ \E l \in LoopIds : Running(l)
    \/ {partner, rep} \cap {"pause", "resume"} # {}
    \/ ev \cap {"lost", "late", "disk", "stranded", "crash", "metadata", "fullpaused"} # {}

\* Every resync comes to an end, the one in the control thread too, so that
\* the next command is taken: no wait of a loop is without a bound.
LoopEnds ==
  \A l \in LoopIds : Running(l) /\ daemon = "up" ~> ~Running(l) \/ daemon = "dead"
=============================================================================
