----------------------------- MODULE WinServer -----------------------------
(***************************************************************************)
(* The Windows server: the accept loop, the thread made for each            *)
(* connection, the handlers of the requests, the commands --create and      *)
(* --snapdisk, and a restart.  It differs from the Linux server where the   *)
(* model puts its weight: every thread is handed the first entry of the     *)
(* table of sockets, a failed read of the disk is taken for a read, no      *)
(* thread is ever cancelled, and a restart restores no disk and listens     *)
(* only after the next --create.                                            *)
(*                                                                         *)
(*   user/atdr_windows/windows_client/atdr_conn_server.c, replic_server.c,  *)
(*   atdr_io_engine_server.c, atdr_partner_server.c, atdr_disk_source.c,    *)
(*   atdr_daemon.c, atdr_db.c                                               *)
(*                                                                         *)
(* A socket number is never used twice, and a header arrives whole.         *)
(***************************************************************************)
EXTENDS Integers, Sequences, FiniteSets

CONSTANTS
  MaxPid,     \* the largest partner id of the clients
  MaxConns,   \* bound: connections
  MaxAsks,    \* bound: requests
  MaxRows,    \* bound: rows of the partner table
  MaxServerFaults \* bound: lost connections, read errors, crashes of the server

ASSUME WSAssumption ==
  /\ {MaxPid, MaxConns, MaxAsks, MaxRows, MaxServerFaults} \subseteq Nat
  /\ MaxPid <= MaxRows

VARIABLES
  up,        \* the daemon runs
  listens,   \* it has been told to listen ("once")
  disk,      \* atdr_disk_src_obj: "none" | "whole" | "unsized" (no bitmap size)
  snap,      \* pids whose snapshot is open
  partner,   \* all_partner_servers: id, obj_state, socket_fd
  conn,      \* atdr_conn_server: conn_fd, obj_state
  newest,    \* atdr_conn_server[MAX_CONN + 1].conn_fd
  created,   \* partner_created
  lost,      \* sock_recovery
  total,     \* total_conn
  recovery_mode, \* pids with recovery_mode
  entry,     \* sockfd_pid_var[0].sockfd
  rep,       \* pids whose replic_server_obj has its connection
  io,        \* io_server_obj: "none" | "inuse" | "released"; "mapped" if
             \* only the bitmap object was made
  thr,       \* thread of each connection: pc, sock, last header
  db,        \* rows of the partner table: pid, state
  cl,        \* the connections, seen from the client
  asks,      \* requests so far
  faults,    \* faults so far
  ev         \* events so far

tableVars == <<partner, conn, created, lost, total, recovery_mode>>
diskVars == <<listens, disk, snap>>
serverVars ==
  <<up, diskVars, tableVars, newest, entry, rep, io, thr, db, cl, asks, faults, ev>>

-----------------------------------------------------------------------------
Conns == 1..MaxConns
Pids == 0..MaxPid
Slots == 0..MaxRows
NoHdr == [op |-> "none", pid |-> 0, n |-> 0]
NoThread == [pc |-> "none", sock |-> 0, hdr |-> NoHdr]
NoConn == [pid |-> 0, st |-> "none", stage |-> "new", want |-> NoHdr,
           inq |-> <<>>, out |-> <<>>]

Fault == faults < MaxServerFaults /\ faults' = faults + 1

\* The memory of a daemon that starts.
Fresh ==
  /\ listens' = FALSE /\ disk' = [p \in Slots |-> "none"] /\ snap' = {}
  /\ conn' = [p \in Slots |-> [fd |-> 0, state |-> "inuse"]]
  /\ newest' = 0 /\ created' = [p \in Slots |-> FALSE] /\ lost' = {} /\ total' = 0
  /\ entry' = 0 /\ rep' = {} /\ io' = [p \in Slots |-> "none"]
  /\ thr' = [c \in Conns |-> NoThread]

ServerInit ==
  /\ up = TRUE
  /\ listens = FALSE /\ disk = [p \in Slots |-> "none"] /\ snap = {}
  /\ partner = [p \in Slots |-> [id |-> 0, state |-> "none", sock |-> 0]]
  /\ conn = [p \in Slots |-> [fd |-> 0, state |-> "inuse"]]
  /\ newest = 0 /\ created = [p \in Slots |-> FALSE] /\ lost = {} /\ total = 0
  /\ recovery_mode = {} /\ entry = 0 /\ rep = {} /\ io = [p \in Slots |-> "none"]
  /\ thr = [c \in Conns |-> NoThread]
  /\ db = <<>> /\ cl = [c \in Conns |-> NoConn]
  /\ asks = 0 /\ faults = 0 /\ ev = {}

-----------------------------------------------------------------------------
(* Tables *)

\* retrieve_from_partner: the rows in use, by row number and not by id.
InUse == SelectSeq(db, LAMBDA r : r.state # "released")
Reread ==
  [p \in Slots |-> IF p < Len(InUse)
                     THEN [id |-> InUse[p + 1].pid, state |-> InUse[p + 1].state,
                           sock |-> partner[p].sock]
                     ELSE partner[p]]

\* update_into_partner
SetState(p, s) == [i \in DOMAIN db |-> IF db[i].pid = p THEN [db[i] EXCEPT !.state = s]
                                                        ELSE db[i]]

\* The partner was made at some time.
HasRow(p) == \E i \in DOMAIN db : db[i].pid = p

\* is_server_partner_id_valid: a cleared entry makes 0 valid.
Valid(p) == \E q \in Slots : partner[q].id = p

\* closesocket
Closed(s) == IF s \in Conns /\ cl[s].st \in {"open", "fin"}
               THEN [cl EXCEPT ![s] = [@ EXCEPT !.st = "shut", !.want = NoHdr,
                                       !.inq = <<>>, !.out = <<>>]] ELSE cl

\* Fault: the newest connection is closed.
VictimNewest(p) == newest

\* The connection that is closed when one of partner p fails.
Victim(p) == conn[p].fd
Hurts(p) ==
  IF \E c \in Conns : c = Victim(p) /\ cl[c].st = "open" /\ cl[c].pid # p
    THEN {"hurt"} ELSE {}

-----------------------------------------------------------------------------
(* Commands of the server *)

\* atdr_conn_server_setup, and the thread that accepts.
Listen == listens' = TRUE

\* --create: the next slot in use; the daemon listens from the first one on.
\* In recovery mode the object is left without its bitmap size.
CreateDisk ==
  /\ up
  /\ \E p \in Pids :
       /\ disk[p] = "none" /\ \A q \in 0..(p - 1) : disk[q] # "none"
       /\ disk' = [disk EXCEPT ![p] = IF p \in recovery_mode THEN "unsized" ELSE "whole"]
  /\ Listen
  /\ UNCHANGED <<up, snap, tableVars, newest, entry, rep, io, thr, db, cl, asks, faults, ev>>

\* --snapdisk: without a disk there are no operations to call.
SnapDisk(p) ==
  /\ up /\ Valid(p) /\ p \notin snap
  /\ IF disk[p] = "none"
       THEN up' = FALSE /\ ev' = ev \cup {"nodisk"} /\ UNCHANGED snap
       ELSE snap' = snap \cup {p} /\ UNCHANGED <<up, ev>>
  /\ UNCHANGED <<listens, disk, tableVars, newest, entry, rep, io, thr, db, cl, asks, faults>>

-----------------------------------------------------------------------------
(* replic_thread_init *)

WantsSocket(p, tab) ==
  \/ conn[p].state = "pause" /\ p \in lost
  \/ p \in recovery_mode /\ tab[p].state = "inuse"
Stops(p, tab) ==
  WantsSocket(p, tab) \/ total >= Len(InUse) \/ ~created[p]

\* The first slot for which the loop over the rows is left.
Chosen(tab) ==
  IF InUse = <<>> THEN 0
  ELSE IF \E p \in 0..Len(InUse) : Stops(p, tab)
         THEN CHOOSE p \in 0..Len(InUse) :
                Stops(p, tab) /\ \A q \in 0..(p - 1) : ~Stops(q, tab)
         ELSE Len(InUse) + 1

\* A partner that waits for a socket gets this one, whoever connected.
GiveSocket(p, c, tab) ==
  /\ partner' = [tab EXCEPT ![p].sock = c,
                            ![p].state = IF p \in lost /\ conn[p].state = "pause"
                                           THEN @ ELSE "recovery"]
  /\ conn' = [conn EXCEPT ![p] = [fd |-> c,
                  state |-> IF p \in lost /\ conn[p].state = "pause" THEN "resume"
                                                                   ELSE "inuse"]]
  /\ lost' = IF conn[p].state = "pause" THEN lost \ {p} ELSE lost
  /\ total' = total + 1
  /\ UNCHANGED created

\* The entry of the table the thread will read is that of slot 0.
Entry(p, c) == IF p = 0 THEN c ELSE entry

\* Where a thread has a request it may still answer.
Answering == {"exec", "send", "unread", "sleep0", "send0"}

\* A request partner p made on an earlier connection is being answered, or was
\* not read yet, or is the one the end of the stream will execute again.
Late(p) ==
  \/ \E d \in Conns : thr[d].pc \in Answering /\ thr[d].hdr.pid = p
  \/ \E d \in Conns : /\ cl[d].st = "fin" /\ cl[d].pid = p
                      /\ cl[d].inq # <<>> \/ thr[d].hdr # NoHdr

\* A client connects, for a new partner or to go on with a resync.
Accept(c, p, stage) ==
  /\ up /\ listens /\ cl[c].st = "none" /\ \A d \in 1..(c - 1) : cl[d].st # "none"
  /\ stage \in {"new", "mapped"}
  /\ \A d \in Conns : cl[d].pid = p => cl[d].st # "open"
  /\ LET before == {d \in Conns : cl[d].st # "none" /\ cl[d].pid = p}
     IN stage = IF before = {} THEN "new"
                ELSE cl[CHOOSE d \in before : \A e \in before : e <= d].stage
  /\ cl' = [cl EXCEPT ![c] = [NoConn EXCEPT !.pid = p, !.st = "open", !.stage = stage]]
  /\ newest' = c
  /\ LET tab == Reread
         s == Chosen(tab)
     IN /\ entry' = Entry(s, c)
        /\ IF InUse # <<>> /\ s \in Slots /\ WantsSocket(s, tab)
             THEN GiveSocket(s, c, tab)
             ELSE /\ partner' = tab
                  /\ IF InUse = <<>> \/ (total < Len(InUse) /\ s <= Len(InUse))
                       THEN created' = [created EXCEPT ![s] = TRUE]
                       ELSE UNCHANGED created
                  /\ total' = IF total < Len(InUse) /\ s <= Len(InUse)
                                THEN total + 1 ELSE total
                  /\ UNCHANGED <<conn, lost>>
        /\ ev' = ev \cup (IF s # 0 THEN {"slot"} ELSE {})
                    \cup (IF \E d \in Conns : thr[d].pc = "new" THEN {"slot"} ELSE {})
                    \cup (IF InUse # <<>> /\ s \in Slots /\ WantsSocket(s, tab) /\ s # p
                            THEN {"given"} ELSE {})
                    \cup (IF Late(p) THEN {"late"} ELSE {})
  /\ thr' = [thr EXCEPT ![c] = [NoThread EXCEPT !.pc = "new"]]
  /\ UNCHANGED <<up, diskVars, recovery_mode, rep, io, db, asks, faults>>

\* send_recv_handler: the thread reads the first entry when it runs, and makes
\* it the connection of partner 0, whoever connected.
ThreadStart(c) ==
  /\ up /\ thr[c].pc = "new"
  /\ thr' = [thr EXCEPT ![c].pc = "recv", ![c].sock = entry]
  /\ conn' = [conn EXCEPT ![0].fd = entry]
  /\ ev' = ev \cup (IF /\ partner[0].state # "none" \/ HasRow(0)
                       /\ entry \in Conns => cl[entry].pid # 0
                      THEN {"given"} ELSE {})
  /\ UNCHANGED <<up, diskVars, partner, created, lost, total, recovery_mode, newest, entry,
                 rep, io, db, cl, asks, faults>>

-----------------------------------------------------------------------------
(* The clients *)

\* A request is sent; all but these two are answered.
ClientSend(c, op) ==
  /\ cl[c].st = "open" /\ cl[c].want = NoHdr /\ asks < MaxAsks
  /\ cl[c].stage = CASE op = "make" -> "new" [] op = "syn" -> "made"
                     [] op = "meta" -> "related" [] OTHER -> "mapped"
  /\ asks' = asks + 1
  /\ LET h == [op |-> op, pid |-> cl[c].pid, n |-> asks]
     IN cl' = [cl EXCEPT ![c].inq = Append(@, h),
                         ![c].want = IF op \in {"make", "term"} THEN NoHdr ELSE h,
                         ![c].stage = CASE op = "make" -> "made"
                                        [] op = "term" -> "related" [] OTHER -> @]
  /\ UNCHANGED <<up, diskVars, tableVars, newest, entry, rep, io, thr, db, faults, ev>>

\* What comes first is taken for the answer.
ClientTake(c) ==
  /\ cl[c].want # NoHdr /\ cl[c].out # <<>>
  /\ cl' = [cl EXCEPT ![c].out = Tail(@), ![c].want = NoHdr,
                      ![c].stage = CASE cl[c].want.op = "syn" -> "related"
                                     [] OTHER -> "mapped"]
  /\ UNCHANGED <<up, diskVars, tableVars, newest, entry, rep, io, thr, db, asks, faults, ev>>

\* The client gives up after its timeout, or ends.
ClientLeaves(c) ==
  /\ cl[c].st = "open" /\ Fault
  /\ \E how \in {"fin", "rst"} :
       cl' = [cl EXCEPT ![c].st = how, ![c].want = NoHdr, ![c].out = <<>>,
                        ![c].inq = IF how = "rst" THEN <<>> ELSE @]
  /\ UNCHANGED <<up, diskVars, tableVars, newest, entry, rep, io, thr, db, asks, ev>>

-----------------------------------------------------------------------------
(* The handlers *)

MaxOut == 2   \* bound: answers a client has not taken

\* send: to a connection the client has closed it may still succeed.
Delivers(s, h, what) ==
  /\ s \in Conns /\ cl[s].st = "open" /\ Len(cl[s].out) < MaxOut
  /\ cl' = [cl EXCEPT ![s].out = Append(@, [h EXCEPT !.op = what])]
SendFails(s) == s \in Conns => cl[s].st \in {"fin", "rst", "shut"}

\* insert_into_partner
Inserted(p) == Append(db, [pid |-> p, state |-> "inuse"])

\* make_partner_server
ServerEntry(p) == [id |-> p, state |-> "inuse", sock |-> newest]

\* make_partner: the socket is that of the newest connection.
MakePartner(t, h) ==
  /\ h.op = "make" /\ Len(db) < MaxRows
  /\ conn' = [conn EXCEPT ![h.pid] = [fd |-> newest, state |-> "inuse"]]
  /\ partner' = [partner EXCEPT ![h.pid] = ServerEntry(h.pid)]
  /\ db' = Inserted(h.pid)
  /\ rep' = rep \cup {h.pid}
  /\ ev' = IF newest # thr[t].sock THEN ev \cup {"raced"} ELSE ev
  /\ UNCHANGED <<up, cl, created, lost, total, recovery_mode, io>>

\* Fault: the answer goes to the newest connection.
AnswersNewest(h, what) ==
  IF h.pid \notin rep
    THEN up' = FALSE /\ ev' = ev \cup {"norep"} /\ UNCHANGED cl
    ELSE /\ \/ Delivers(newest, h, what)
            \/ SendFails(newest) /\ UNCHANGED cl
         /\ UNCHANGED <<up, ev>>

\* Answers by replic_server_obj, which a restart has not made.
Answers(h, what) ==
  IF h.pid \notin rep
    THEN up' = FALSE /\ ev' = ev \cup {"norep"} /\ UNCHANGED cl
    ELSE /\ \/ Delivers(partner[h.pid].sock, h, what)
            \/ SendFails(partner[h.pid].sock) /\ UNCHANGED cl
         /\ UNCHANGED <<up, ev>>

SynReceived(t, h) ==
  /\ h.op = "syn" /\ Answers(h, "syn")
  /\ UNCHANGED <<tableVars, db, rep, io>>

\* get_bitmap.  Without the disk the ioctl fails and the daemon ends; a disk
\* without its bitmap size sends nothing.
GetBitmap(t, h) ==
  /\ h.op = "meta"
  /\ LET back == partner[h.pid].state = "released"
     IN /\ partner' = IF back THEN [partner EXCEPT ![h.pid].state = "inuse"] ELSE partner
        /\ db' = IF back THEN SetState(h.pid, "inuse") ELSE db
  /\ IF disk[h.pid] = "none"
       THEN up' = FALSE /\ ev' = ev \cup {"nodisk"} /\ UNCHANGED <<cl, io, conn>>
       ELSE /\ IF disk[h.pid] = "unsized" /\ h.pid \in rep
                 THEN UNCHANGED <<cl, up, ev>> ELSE Answers(h, "meta")
            /\ io' = [io EXCEPT ![h.pid] = IF cl' = cl /\ disk[h.pid] = "whole"
                                            THEN IF @ = "none" THEN "mapped" ELSE @
                                            ELSE "inuse"]
            /\ conn' = [conn EXCEPT ![h.pid].state = IF @ = "resume" THEN "inuse" ELSE @]
  /\ UNCHANGED <<created, lost, total, recovery_mode, rep>>

\* Fault: a request that cannot be read yet is forgotten.
GetDataForgets(t, h) ==
  /\ h.op = "data"
  /\ thr' = [thr EXCEPT ![t].pc = IF h.pid \in snap /\ io[h.pid] = "inuse"
                                    THEN "send" ELSE "recv"]
  /\ UNCHANGED <<up, cl, tableVars, db, rep, io, ev>>

\* get_data, up to the answer.  A handle that was never opened is refused; a
\* read that fails otherwise is taken for one that succeeded.
GetData(t, h) ==
  /\ h.op = "data"
  /\ thr' = [thr EXCEPT ![t].pc = IF io[h.pid] = "released" THEN "recv"
                                  ELSE IF h.pid \in snap THEN "send" ELSE "unread"]
  /\ UNCHANGED <<up, cl, tableVars, db, rep, io, ev>>

\* terminate.  The bitmap object of a daemon that has sent no bitmap has no
\* operations.
TerminateRound(t, h) ==
  /\ h.op = "term"
  /\ IF partner[h.pid].state = "released"
       THEN UNCHANGED <<up, ev, partner, recovery_mode, io, db, snap>>
     ELSE IF io[h.pid] = "none"
       THEN /\ up' = FALSE /\ ev' = ev \cup {"norep"}
            /\ UNCHANGED <<partner, recovery_mode, io, db, snap>>
       ELSE /\ partner' = [partner EXCEPT ![h.pid].state = "released"]
            /\ recovery_mode' = recovery_mode \ {h.pid}
            /\ io' = [io EXCEPT ![h.pid] = "released"]
            /\ db' = SetState(h.pid, "released")
            /\ snap' = snap \ {h.pid}
            /\ UNCHANGED <<up, ev>>
  /\ UNCHANGED <<cl, conn, created, lost, total, rep>>

-----------------------------------------------------------------------------
(* atdr_conn_server_recv *)

Recv(t) ==
  LET s == thr[t].sock
  IN /\ up /\ thr[t].pc = "recv" /\ s \in Conns /\ cl[s].inq # <<>>
     /\ cl[s].st \in {"open", "fin"}
     /\ thr' = [thr EXCEPT ![t].pc = "exec", ![t].hdr = Head(cl[s].inq)]
     /\ cl' = [cl EXCEPT ![s].inq = Tail(@)]
     /\ UNCHANGED <<up, diskVars, tableVars, newest, entry, rep, io, db, asks, faults, ev>>

\* The end of the stream is no error: the last header is executed once more.
RecvEof(t) ==
  LET s == thr[t].sock
  IN /\ up /\ thr[t].pc = "recv" /\ s \in Conns /\ cl[s].inq = <<>> /\ cl[s].st = "fin"
     /\ thr[t].hdr # NoHdr
     /\ thr' = [thr EXCEPT ![t].pc = "exec"]
     /\ ev' = ev \cup {"eof"}
     /\ UNCHANGED <<up, diskVars, tableVars, newest, entry, rep, io, db, cl, asks, faults>>

\* recv fails: after a DATA request the partner's connection is closed.
RecvError(t) ==
  LET s == thr[t].sock  h == thr[t].hdr
  IN /\ up /\ thr[t].pc = "recv" /\ (s \in Conns => cl[s].st \in {"rst", "shut"})
     /\ IF h.op = "data"
          THEN /\ created' = [created EXCEPT ![h.pid] = FALSE]
               /\ cl' = Closed(Victim(h.pid))
               /\ conn' = [conn EXCEPT ![h.pid].fd = 0]
               /\ thr' = [thr EXCEPT ![t].pc = "pause"]
               /\ ev' = ev \cup Hurts(h.pid)
          ELSE /\ thr' = [thr EXCEPT ![t].pc = "done"]
               /\ UNCHANGED <<created, cl, conn, ev>>
     /\ UNCHANGED <<up, diskVars, partner, lost, total, recovery_mode, newest, entry, rep, io,
                    db, asks, faults>>

\* ... and after a sleep it is marked as paused, and the thread ends.
RecvPause(t) ==
  LET p == thr[t].hdr.pid
  IN /\ up /\ thr[t].pc = "pause"
     /\ conn' = [conn EXCEPT ![p].state = "pause"]
     /\ lost' = lost \cup {p}
     /\ created' = [created EXCEPT ![p] = FALSE]
     /\ thr' = [thr EXCEPT ![t].pc = "done"]
     /\ UNCHANGED <<up, diskVars, partner, total, recovery_mode, newest, entry, rep, io, db, cl,
                    asks, faults, ev>>

\* A header is executed.
Execute(t) ==
  /\ up /\ thr[t].pc = "exec"
  /\ LET h == thr[t].hdr
     IN \/ /\ MakePartner(t, h) \/ SynReceived(t, h) \/ GetBitmap(t, h)
           /\ thr' = [thr EXCEPT ![t].pc = "recv"] /\ UNCHANGED snap
        \/ GetData(t, h) /\ UNCHANGED snap
        \/ TerminateRound(t, h) /\ thr' = [thr EXCEPT ![t].pc = "recv"]
  /\ UNCHANGED <<listens, disk, newest, entry, asks, faults>>

-----------------------------------------------------------------------------
(* get_data, from the read on *)

\* The connection of the partner is paused and closed.
PauseConn(p, why) ==
  /\ conn' = [conn EXCEPT ![p].state = "pause"]
  /\ lost' = lost \cup {p}
  /\ cl' = Closed(Victim(p))
  /\ ev' = ev \cup Hurts(p) \cup why

\* The read is refused: the answer is sent after all, behind a sleep.
Unread(t) ==
  /\ up /\ thr[t].pc = "unread"
  /\ PauseConn(thr[t].hdr.pid, {"readerror"})
  /\ thr' = [thr EXCEPT ![t].pc = "sleep0"]
  /\ UNCHANGED <<up, diskVars, partner, created, total, recovery_mode, newest, entry, rep, io,
                 db, asks, faults>>

\* The chunk goes to the socket of the partner; a buffer that was not filled
\* holds zeros.
SendChunk(t) ==
  LET h == thr[t].hdr
  IN /\ up /\ thr[t].pc \in {"send", "send0"}
     /\ \/ /\ thr[t].pc = "send" /\ Delivers(partner[h.pid].sock, h, "data")
           /\ UNCHANGED <<faults, ev>>
        \/ /\ thr[t].pc = "send" /\ Delivers(partner[h.pid].sock, h, "zeros")
           /\ Fault /\ ev' = ev \cup {"readerror"}
        \/ /\ thr[t].pc = "send0" /\ Delivers(partner[h.pid].sock, h, "zeros")
           /\ UNCHANGED <<faults, ev>>
     /\ thr' = [thr EXCEPT ![t].pc = "recv"]
     /\ UNCHANGED <<up, diskVars, tableVars, newest, entry, rep, io, db, asks>>

\* The chunk cannot be sent.
SendError(t) ==
  LET p == thr[t].hdr.pid
  IN /\ up /\ thr[t].pc \in {"send", "send0"} /\ SendFails(partner[p].sock)
     /\ created' = [created EXCEPT ![p] = FALSE] /\ total' = 0
     /\ PauseConn(p, {})
     /\ thr' = [thr EXCEPT ![t].pc = "sleep"]
     /\ UNCHANGED <<up, diskVars, partner, recovery_mode, newest, entry, rep, io, db, asks,
                    faults>>

\* After the sleep: whoever has the connection by now loses its descriptor.
Wake(t) ==
  LET p == thr[t].hdr.pid
  IN /\ up /\ thr[t].pc \in {"sleep", "sleep0"}
     /\ conn' = [conn EXCEPT ![p].fd = 0]
     /\ created' = [created EXCEPT ![p] = FALSE]
     /\ thr' = [thr EXCEPT ![t].pc = IF @ = "sleep" THEN "recv" ELSE "send0"]
     /\ UNCHANGED <<up, diskVars, partner, lost, total, recovery_mode, newest, entry, rep, io,
                    db, cl, asks, faults, ev>>

-----------------------------------------------------------------------------
(* Faults and restart *)

ServerCrash ==
  /\ up /\ Fault /\ up' = FALSE /\ ev' = ev \cup {"crash"}
  /\ UNCHANGED <<diskVars, tableVars, newest, entry, rep, io, thr, db, cl, asks>>

\* The partners to recover.
Recovering == {db[i].pid : i \in {j \in DOMAIN db : db[j].state # "released"}}

\* db_init: the partners and the recovery flags, and no disk.  Bound: one.
ServerRestart ==
  /\ ~up /\ "restart" \notin ev /\ up' = TRUE /\ Fresh
  /\ partner' = [p \in Slots |->
       IF p < Len(InUse) THEN [id |-> InUse[p + 1].pid, state |-> InUse[p + 1].state,
                               sock |-> 0]
       ELSE [id |-> 0, state |-> "none", sock |-> 0]]
  /\ recovery_mode' = Recovering
  /\ cl' = [c \in Conns |-> IF cl[c].st = "none" THEN cl[c]
                             ELSE [cl[c] EXCEPT !.st = "shut", !.want = NoHdr,
                                                !.inq = <<>>, !.out = <<>>]]
  /\ ev' = ev \cup {"restart"}
  /\ UNCHANGED <<db, asks, faults>>

-----------------------------------------------------------------------------
ThreadStep(t) ==
  \/ ThreadStart(t) \/ Recv(t) \/ RecvEof(t) \/ RecvError(t) \/ RecvPause(t)
  \/ Execute(t) \/ Unread(t) \/ SendChunk(t) \/ SendError(t) \/ Wake(t)
ClientStep(c) ==
  \/ \E op \in {"make", "syn", "meta", "data", "term"} : ClientSend(c, op)
  \/ ClientTake(c) \/ ClientLeaves(c)
  \/ \E p \in Pids, stage \in {"new", "mapped"} : Accept(c, p, stage)
ServerNext ==
  \/ CreateDisk \/ \E p \in Pids : SnapDisk(p)
  \/ \E c \in Conns : ClientStep(c) \/ ThreadStep(c)
  \/ ServerCrash \/ ServerRestart

\* The threads are scheduled.
Fairness == \A t \in Conns : WF_serverVars(ThreadStep(t))
ServerSpec == ServerInit /\ [][ServerNext]_serverVars /\ Fairness

-----------------------------------------------------------------------------
(* Properties *)

Silent == {"make", "term"}
Ops == Silent \cup {"syn", "meta", "data"}
Hdr == [op : Ops \cup {"none", "zeros"}, pid : Pids, n : Nat]
Client == [pid : Pids, st : {"none", "open", "fin", "rst", "shut"},
           stage : {"new", "made", "related", "mapped"}, want : Hdr,
           inq : Seq(Hdr), out : Seq(Hdr)]
PartnerRow == [pid : Pids, state : {"inuse", "released"}]
Thread == [pc : Answering \cup {"none", "new", "recv", "pause", "sleep", "done"},
           sock : 0..MaxConns, hdr : Hdr]

ServerEvents == {"slot", "given", "late", "raced", "hurt", "readerror", "eof", "nodisk",
                 "norep", "crash", "restart"}

ServerTypeOK ==
  /\ up \in BOOLEAN /\ listens \in BOOLEAN
  /\ disk \in [Slots -> {"none", "whole", "unsized"}] /\ snap \subseteq Pids
  /\ partner = [p \in Slots |-> partner[p]]
  /\ \A p \in Slots : /\ DOMAIN partner[p] = {"id", "state", "sock"}
                      /\ partner[p].sock \in 0..MaxConns
  /\ conn \in [Slots -> [fd : 0..MaxConns, state : {"inuse", "pause", "resume"}]]
  /\ newest \in 0..MaxConns /\ entry \in 0..MaxConns
  /\ created \in [Slots -> BOOLEAN] /\ lost \subseteq Slots /\ total \in Nat
  /\ recovery_mode \subseteq Pids /\ rep \subseteq Pids
  /\ io \in [Slots -> {"none", "mapped", "inuse", "released"}]
  /\ thr \in [Conns -> Thread] /\ cl \in [Conns -> Client]
  /\ db \in Seq(PartnerRow)
  /\ asks \in Nat /\ faults \in Nat /\ ev \subseteq ServerEvents

\* What a client takes for an answer is the answer to what it asked, with the
\* data of its own disk, unless a read of the disk failed, a socket went to the
\* wrong partner or thread, or the client connected again while a request it
\* made on its earlier connection was still to be answered, be it once more.
Undisturbed == ev \cap {"raced", "given", "slot", "late", "readerror"} = {}
AnswersMatch ==
  Undisturbed => \A c \in Conns : cl[c].out # <<>> =>
                   Len(cl[c].out) = 1 /\ cl[c].out[1] = cl[c].want

\* The thread made for a connection receives on that connection, unless a
\* slot other than the first was chosen for one, or the first was overwritten
\* before the thread had read it.
ReadsOwn ==
  "slot" \notin ev =>
    \A c \in Conns : thr[c].pc \notin {"none", "new"} => thr[c].sock = c

\* A failed request of one partner closes the connection of another only if a
\* socket was given to the wrong one.
ClosesOwn == "hurt" \in ev => ev \cap {"raced", "given"} # {}

\* What the daemon holds for a connection is one that was accepted, a thread
\* has the headers of one client, and it is at the answer to a DATA request
\* where it says so.
Accepted(s) == s = 0 \/ (s \in Conns /\ cl[s].st # "none")
SockInv ==
  /\ Accepted(newest) /\ Accepted(entry)
  /\ \A p \in Slots : Accepted(conn[p].fd) /\ Accepted(partner[p].sock)
  /\ \A t \in Conns : Accepted(thr[t].sock) /\ (thr[t].pc # "none" => cl[t].st # "none")
HeaderInv ==
  /\ \A c \in Conns : \A i \in DOMAIN cl[c].inq : /\ cl[c].inq[i].op \in Ops
                                                  /\ cl[c].inq[i].pid = cl[c].pid
  /\ \A t \in Conns :
       LET h == thr[t].hdr
       IN /\ thr[t].pc \in {"none", "new"} => h = NoHdr
          /\ h # NoHdr => /\ thr[t].sock \in Conns /\ h.op \in Ops
                          /\ h.pid = cl[thr[t].sock].pid
          /\ thr[t].pc = "exec" => h # NoHdr
          /\ thr[t].pc \in {"send", "send0", "unread", "sleep0", "sleep", "pause"} =>
               h.op = "data"
          /\ thr[t].pc \in {"sleep0", "send0"} => "readerror" \in ev

\* As long as no socket was given to the wrong partner, a partner that was made
\* has a connection of its own client, and what only a made partner can have
\* (an answer, a request for the bitmap or for data) belongs to one.
MadeInv ==
  ev \cap {"raced", "given"} = {} =>
    /\ \A p \in Slots : /\ HasRow(p) /\ conn[p].fd \in Conns => cl[conn[p].fd].pid = p
                        /\ partner[p].sock \in Conns => cl[partner[p].sock].pid = p
    /\ \A p \in rep : HasRow(p)
    /\ \A c \in Conns :
         /\ cl[c].out # <<>> \/ cl[c].stage \in {"related", "mapped"} => HasRow(cl[c].pid)
         /\ \A i \in DOMAIN cl[c].inq :
              cl[c].inq[i].op \in {"meta", "data", "term"} => HasRow(cl[c].pid)
    /\ \A t \in Conns : thr[t].hdr.op \in {"meta", "data", "term"} => HasRow(thr[t].hdr.pid)
    /\ "hurt" \notin ev

\* A thread that has not read the entry yet will find its own connection.
ReadInv ==
  "slot" \notin ev =>
    \A c \in Conns : /\ thr[c].pc = "new" => entry = c
                     /\ thr[c].pc \notin {"none", "new"} => thr[c].sock = c

\* While nothing disturbs the answers, the earlier connections of a client that
\* is connected have nothing left to answer, and of a request that is to be
\* answered there is one trace at most: in the stream, in the thread or in the
\* answer.
Busy(c) == thr[c].pc \in Answering /\ thr[c].hdr.op \notin Silent
LateInv ==
  Undisturbed =>
    \A c, d \in Conns :
      c # d /\ cl[c].st = "open" /\ cl[d].st # "none" /\ cl[d].pid = cl[c].pid =>
        /\ cl[d].st # "open" /\ thr[d].pc \notin Answering
        /\ cl[d].st = "fin" => cl[d].inq = <<>> /\ thr[d].hdr = NoHdr
TraceInv ==
  Undisturbed =>
    \A c \in Conns :
      /\ cl[c].st # "open" => cl[c].out = <<>> /\ cl[c].want = NoHdr
      /\ cl[c].st = "open" =>
           /\ \A i \in DOMAIN cl[c].inq :
                \/ cl[c].inq[i].op \in Silent
                \/ /\ i = Len(cl[c].inq) /\ cl[c].inq[i] = cl[c].want
                   /\ cl[c].out = <<>> /\ ~Busy(c)
           /\ Busy(c) => thr[c].hdr = cl[c].want /\ cl[c].out = <<>>
           /\ cl[c].out # <<>> => /\ cl[c].want # NoHdr /\ Len(cl[c].out) = 1
                                  /\ cl[c].out[1] = cl[c].want

ServerSideInv ==
  ServerTypeOK /\ SockInv /\ HeaderInv /\ MadeInv /\ ReadInv /\ LateInv /\ TraceInv

\* The daemon ends by a crash, by a request or a command for a disk that was
\* not made, or by a request to a partner that was only read from the table.
EndsOnlyIf == ~up => ev \cap {"crash", "nodisk", "norep"} # {}

\* A client that waits for an answer gets one, or gives up, or the daemon
\* ends, as long as no socket went to the wrong partner or thread, no read
\* failed, no header was executed again at the end of a stream (MAKE_PARTNER
\* would add rows for ever) and the daemon was not restarted (the restarted
\* one holds its partners by row number and has lost their sockets).
Served == Undisturbed /\ ev \cap {"eof", "restart"} = {}
Answered ==
  \A c \in Conns : cl[c].want # NoHdr /\ Served
                     ~> cl[c].want = NoHdr \/ cl[c].out # <<>> \/ ~up \/ ~Served
=============================================================================
