----------------------------- MODULE OlderTree -----------------------------
(***************************************************************************)
(* The older build: one program for client and server, compiled twice.      *)
(* One client and one server that replicate one disk, with everything       *)
(* between the administrator's commands and the kernel's bitmap halves:     *)
(* partnership, the bitmap request, the resync thread, pause and resume,    *)
(* the recovery threads, link events, and crash and restart of both ends.   *)
(*                                                                         *)
(*   user/common/atdr_daemon.c, atdr_resync.c, atdr_recovery.c,             *)
(*   atdr_conn_server.c, replic_server.c, replic_client.c,                  *)
(*   atdr_bitmap_server.c, atdr_db.c, atdr_disk_source.c, and the objects   *)
(*   they use                                                               *)
(*                                                                         *)
(* A grain is one chunk, messages arrive whole, and a handler of the server *)
(* is one step (loading the bitmap two).  The administrator asks for a      *)
(* bitmap once there is a relation and for a copy once there is a bitmap:   *)
(* before that the client dereferences objects nobody made.                 *)
(***************************************************************************)
EXTENDS Integers, Sequences, FiniteSets

CONSTANTS
  N,            \* bits of the bitmap
  Word,         \* bits in its first word
  MaxConns,     \* bound: connections
  MaxThreads,   \* bound: resync threads of one life of the client
  MaxCommands,  \* bound: commands about rounds
  MaxWrites,    \* bound: writes to the source disk
  MaxFaults     \* bound: crashes, lost connections, errors, link events

ASSUME OTAssumption ==
  /\ {N, Word, MaxConns, MaxThreads, MaxCommands, MaxWrites, MaxFaults} \subseteq Nat
  /\ N > 0 /\ Word <= N

VARIABLES
  srv,     \* memory of the server's daemon
  work,    \* its thread of each connection: pc, sock, hdr
  kern,    \* the kernel's bitmap: user, active, backup
  sdb,     \* the server's tables: disk, snap, partner
  cl,      \* memory of the client's daemon
  thr,     \* its resync threads: pc, pos, cancelled, got, sock
  cdb,     \* the client's tables: partner, rows (last_resynced_bit of each row)
  net,     \* the connections: st, out (to the server), in (to the client)
  stale,   \* bits where the target disk differs from the source disk
  after,   \* bits written since the snapshot was made
  cmds, writes, faults,   \* what has been used of the bounds
  ev       \* events so far

srvVars == <<srv, work, sdb>>
clVars == <<cl, thr, cdb>>
diskVars == <<stale, after>>
countVars == <<cmds, writes, faults>>
vars == <<srvVars, kern, clVars, net, diskVars, countVars, ev>>

-----------------------------------------------------------------------------
Bits == 0..(N - 1)
Conns == 1..MaxConns
Thrs == 1..MaxThreads
Listening == MaxConns + 1     \* the descriptor the server listens on
Events == {"lossy", "two", "again", "lock", "cold", "refused"}

NoHdr == [op |-> "none", pos |-> 0]
Hdr(op, pos) == [op |-> op, pos |-> pos]
Reply(kind, bits) == [kind |-> kind, bits |-> bits]
NoReply == Reply("none", {})
NoWork == [pc |-> "none", sock |-> 0, hdr |-> NoHdr]
NoThr == [pc |-> "none", pos |-> 0, cancelled |-> FALSE, got |-> NoReply, sock |-> 0]
NoNet == [st |-> "none", out |-> <<>>, in |-> <<>>]

\* A step that can leave a bit of a round uncopied, and a step that cannot.
Lossy(yes) == IF yes THEN {"lossy"} ELSE {}
\* Bounds: a behaviour is followed up to the step that loses a bit of a round,
\* and the environment is still once two threads run or the client found no
\* server.
Followed == "lossy" \notin ev
Undisturbed == ev \cap {"lossy", "two"} = {}
Busy == Undisturbed /\ "refused" \notin ev
Fault == Busy /\ faults < MaxFaults /\ faults' = faults + 1
Command == Busy /\ cmds < MaxCommands /\ cmds' = cmds + 1

SrvFresh == [up |-> "up", disk |-> FALSE, snap |-> FALSE, dstate |-> "inuse",
             cstate |-> "inuse", lost |-> FALSE, conn |-> 0, psock |-> 0,
             newest |-> 0, rec |-> FALSE, linkup |-> FALSE,
             bm |-> "none", bmuser |-> "KERNEL", copy |-> {}, arg |-> <<0, FALSE>>]
ClFresh == [up |-> TRUE, ctl |-> "idle", pstate |-> "none", dstate |-> "none",
            cstate |-> "inuse", sock |-> 0, bm |-> "none", map |-> {},
            last |-> 0, rec |-> FALSE, locked |-> FALSE, arg |-> 0, tid |-> 0]

Init ==
  /\ srv = SrvFresh /\ work = [c \in Conns |-> NoWork]
  /\ kern = [user |-> "KERNEL", active |-> {}, backup |-> {}]
  /\ sdb = [disk |-> FALSE, snap |-> FALSE, partner |-> FALSE]
  /\ cl = ClFresh /\ thr = [t \in Thrs |-> NoThr]
  /\ cdb = [partner |-> FALSE, rows |-> <<>>]
  /\ net = [c \in Conns |-> NoNet]
  /\ stale = {} /\ after = {}
  /\ cmds = 0 /\ writes = 0 /\ faults = 0
  /\ ev = {}

-----------------------------------------------------------------------------
(* The network.  A descriptor closed by the server is "shut", one closed by *)
(* the client "fin"; "rst" is a connection both ends find broken.           *)
Free == {c \in Conns : net[c].st = "none"}
New == CHOOSE c \in Free : \A d \in Free : c <= d
Open(c) == c \in Conns /\ net[c].st = "open"
Shut(n, c) == IF c \in Conns /\ n[c].st = "open" THEN [n EXCEPT ![c].st = "shut"] ELSE n
ClientCloses(n, c, how) ==
  IF c \in Conns /\ n[c].st = "open" THEN [n EXCEPT ![c].st = how] ELSE n
Sent(n, c, h) == IF c \in Conns /\ n[c].st = "open" THEN [n EXCEPT ![c].out = Append(@, h)] ELSE n

\* The server sends on descriptor c: what reaches a client that has closed
\* its end breaks the connection.
Answer(n, c, r) ==
  CASE c \in Conns /\ n[c].st = "open" -> [n EXCEPT ![c].in = Append(@, r)]
    [] c \in Conns /\ n[c].st = "fin" -> [n EXCEPT ![c].st = "rst"]
    [] OTHER -> n

Broken(n, how) == [c \in Conns |-> IF n[c].st = "open" THEN [n[c] EXCEPT !.st = how] ELSE n[c]]

LoseConnection(c) ==
  /\ Open(c) /\ Fault
  /\ net' = [net EXCEPT ![c] = [NoNet EXCEPT !.st = "rst"]]
  /\ UNCHANGED <<srvVars, kern, clVars, diskVars, cmds, writes, ev>>

-----------------------------------------------------------------------------
(* The source disk and the kernel.                                          *)
Half(user) == IF user = "KERNEL" THEN "active" ELSE "backup"
Other(user) == IF user = "KERNEL" THEN "USER" ELSE "KERNEL"

Write(b) ==
  /\ sdb.disk /\ Busy /\ writes < MaxWrites /\ writes' = writes + 1
  /\ kern' = [kern EXCEPT ![Half(kern.user)] = @ \cup {b}]
  /\ stale' = stale \cup {b}
  /\ after' = after \cup {b}
  /\ UNCHANGED <<srvVars, clVars, net, cmds, faults, ev>>

-----------------------------------------------------------------------------
(* The server: commands and start.                                          *)
SrvUp == srv.up = "up"
ServerEnds ==
  /\ srv' = [srv EXCEPT !.up = "down"]
  /\ work' = [c \in Conns |-> NoWork]
  /\ \E how \in {"shut", "rst"} : net' = Broken(net, how)

CreateDisk ==
  /\ SrvUp /\ ~srv.disk
  /\ srv' = [srv EXCEPT !.disk = TRUE]
  /\ sdb' = [sdb EXCEPT !.disk = TRUE]
  /\ UNCHANGED <<work, kern, clVars, net, diskVars, countVars, ev>>

SnapshotDisk ==
  /\ SrvUp /\ srv.disk
  /\ IF srv.snap THEN Command ELSE UNCHANGED cmds
  /\ srv' = [srv EXCEPT !.snap = TRUE]
  /\ sdb' = [sdb EXCEPT !.snap = IF srv.rec THEN @ ELSE TRUE]
  /\ after' = {}
  /\ UNCHANGED <<work, kern, clVars, net, stale, writes, faults, ev>>

ServerCrash ==
  /\ srv.up # "down" /\ Fault
  /\ ServerEnds
  /\ UNCHANGED <<kern, sdb, clVars, diskVars, cmds, writes, ev>>

\* db_init: with a disk row and no partner row insert_into_disk waits for the
\* lock that db_init holds.
Restored ==
  [SrvFresh EXCEPT !.up = IF sdb.disk /\ ~sdb.partner THEN "hung" ELSE "up",
                   !.disk = sdb.disk, !.snap = sdb.snap, !.rec = sdb.partner]

ServerStart ==
  /\ srv.up = "down" /\ Busy
  /\ srv' = Restored
  /\ ev' = ev \cup {"cold"}
  /\ UNCHANGED <<work, kern, sdb, clVars, net, diskVars, countVars>>

LinkUpServer ==
  /\ SrvUp /\ ~srv.linkup /\ Fault
  /\ srv' = [srv EXCEPT !.linkup = TRUE]
  /\ UNCHANGED <<work, kern, sdb, clVars, net, diskVars, cmds, writes, ev>>

-----------------------------------------------------------------------------
(* The server: connections and their threads.                               *)
Accepted(c) ==
  IF srv.cstate = "pause" /\ srv.lost
  THEN [srv EXCEPT !.newest = c, !.conn = c, !.psock = c, !.cstate = "resume",
                   !.lost = FALSE, !.arg = <<c, TRUE>>]
  ELSE IF srv.rec
  THEN [srv EXCEPT !.newest = c, !.conn = c, !.psock = c, !.cstate = "inuse",
                   !.arg = <<c, TRUE>>]
  ELSE [srv EXCEPT !.newest = c, !.arg = <<c, FALSE>>]

Accept(c) ==
  /\ SrvUp /\ srv.disk
  /\ net[c].st = "open" \/ (net[c].st = "fin" /\ net[c].out # <<>>)
  /\ work[c].pc = "none"
  /\ srv' = Accepted(c)
  /\ work' = [work EXCEPT ![c].pc = "start"]
  /\ UNCHANGED <<kern, sdb, clVars, net, diskVars, countVars, ev>>

\* The thread reads the shared argument when it runs.
ThreadStart(c) ==
  /\ SrvUp /\ work[c].pc = "start"
  /\ LET k == srv.arg[1] IN
       /\ srv' = [srv EXCEPT !.conn = IF srv.arg[2] THEN k ELSE @,
                             !.newest = IF srv.arg[2] THEN @ ELSE k,
                             !.psock = IF srv.arg[2] /\ srv.linkup THEN k ELSE @]
       /\ work' = [work EXCEPT ![c] = [pc |-> "recv", sock |-> k, hdr |-> NoHdr]]
       /\ ev' = ev \cup Lossy(k # c)
  /\ UNCHANGED <<kern, sdb, clVars, net, diskVars, countVars>>

\* What recv on the thread's descriptor brings: a header, the header before
\* it once more at the end of the stream, or an error.
Receives(c, h) ==
  /\ SrvUp /\ work[c].pc = "recv"
  /\ LET k == work[c].sock IN
       \/ net[k].st \in {"open", "fin"} /\ net[k].out # <<>> /\ h = Head(net[k].out)
       \/ net[k].st = "fin" /\ net[k].out = <<>> /\ h = work[c].hdr
Consumed(c) ==
  LET k == work[c].sock IN IF net[k].out = <<>> THEN net ELSE [net EXCEPT ![k].out = Tail(@)]
Got(c, h) == work' = [work EXCEPT ![c].hdr = h]

MakePartnerReceived(c) ==
  /\ Receives(c, Hdr("MAKE", 0)) /\ Got(c, Hdr("MAKE", 0))
  /\ srv' = [srv EXCEPT !.conn = srv.newest, !.psock = srv.newest, !.cstate = "inuse"]
  /\ sdb' = [sdb EXCEPT !.partner = TRUE]
  /\ net' = Consumed(c)
  /\ UNCHANGED <<kern, clVars, diskVars, countVars, ev>>

SynReceived(c) ==
  /\ Receives(c, Hdr("SYN", 0)) /\ Got(c, Hdr("SYN", 0))
  /\ srv.psock # Listening
  /\ net' = Answer(Consumed(c), srv.psock, Reply("synack", {}))
  /\ UNCHANGED <<srv, sdb, kern, clVars, diskVars, countVars, ev>>

AckReceived(c) ==
  /\ Receives(c, Hdr("ACK", 0)) /\ Got(c, Hdr("ACK", 0))
  /\ net' = Consumed(c)
  /\ UNCHANGED <<srv, sdb, kern, clVars, diskVars, countVars, ev>>

\* server_bitmap_load_from_memory: the half in use is copied, and then the
\* halves are exchanged - not after a restart of the server, nor on a connection
\* that was given back.
Flips == ~srv.rec /\ srv.cstate # "resume"
FirstWord(bits) == bits \cap 0..(Word - 1)
Loaded ==
  IF Flips THEN srv.copy
  ELSE IF FirstWord(kern.active) # {} THEN kern.active ELSE kern.backup

MetadataReceived(c) ==
  /\ Receives(c, Hdr("META", 0))
  /\ srv.psock # Listening
  /\ srv' = [srv EXCEPT !.bm = "ready", !.bmuser = Other(kern.user),
                        !.copy = kern[Half(kern.user)]]
  /\ work' = [work EXCEPT ![c].hdr = Hdr("META", 0), ![c].pc = "flip"]
  /\ net' = Consumed(c)
  /\ UNCHANGED <<kern, sdb, clVars, diskVars, countVars, ev>>

\* A write between the copy and the exchange is in neither the bitmap sent nor
\* the half of the next round.
FlipAndSend(c) ==
  /\ SrvUp /\ work[c].pc = "flip"
  /\ srv' = [srv EXCEPT !.cstate = IF Flips THEN @ ELSE "inuse", !.copy = {}]
  /\ kern' = [kern EXCEPT !.user = IF Flips THEN Other(@) ELSE @]
  /\ work' = [work EXCEPT ![c].pc = "recv"]
  /\ net' = Answer(net, srv.psock, Reply("map", Loaded))
  /\ ev' = ev \cup Lossy(~Flips \/ Loaded \cap after # {} \/ srv.copy # kern[Half(kern.user)])
  /\ UNCHANGED <<sdb, clVars, diskVars, countVars>>

\* get_data: what a closed or failing disk gives is sent as zeros.
CanSend(n, k) == k \in Conns /\ n[k].st \in {"open", "fin"}
Paused == [srv EXCEPT !.cstate = "pause", !.lost = TRUE]
DataSent(c, h, read) ==
  LET r == IF read THEN Reply("data", {h.pos}) ELSE Reply("zeros", {})
      s == IF read THEN srv ELSE [srv EXCEPT !.dstate = "pause"]
  IN IF CanSend(net, srv.psock)
     THEN /\ net' = Answer(Consumed(c), srv.psock, r)
          /\ srv' = s
          /\ Got(c, h)
     ELSE /\ net' = Shut(Consumed(c), srv.conn)
          /\ srv' = [s EXCEPT !.cstate = "pause", !.lost = TRUE]
          /\ work' = [work EXCEPT ![c].pc = "sent", ![c].hdr = h]

DataReceived(c) ==
  \E p \in Bits :
    /\ Receives(c, Hdr("DATA", p)) /\ srv.psock # Listening
    /\ srv.snap
    /\ DataSent(c, Hdr("DATA", p), TRUE)
    /\ UNCHANGED <<sdb, kern, clVars, diskVars, countVars, ev>>

\* A read that fails is followed by pthread_cancel of a thread the server
\* does not have: the daemon dies of it, or goes on.
DataUnread(c) ==
  \E p \in Bits :
    /\ Receives(c, Hdr("DATA", p)) /\ srv.psock # Listening
    /\ IF srv.snap THEN Fault ELSE UNCHANGED faults
    /\ DataSent(c, Hdr("DATA", p), FALSE) \/ ServerEnds
    /\ ev' = ev \cup {"lossy"}
    /\ UNCHANGED <<sdb, kern, clVars, diskVars, cmds, writes>>

\* restart_conn_server made the listening descriptor the partner's socket.
SendOnListening(c) ==
  /\ \E h \in {Hdr(op, p) : op \in {"SYN", "META", "DATA"}, p \in Bits} : Receives(c, h)
  /\ srv.psock = Listening
  /\ ServerEnds
  /\ UNCHANGED <<sdb, kern, clVars, diskVars, countVars, ev>>

\* Fault: the half the writes go to is cleared.
TerminateReceivedCurrent(c) ==
  /\ Receives(c, Hdr("TERM", 0))
  /\ IF srv.bm = "ready"
     THEN /\ srv' = [srv EXCEPT !.snap = FALSE, !.bm = "freed"]
          /\ kern' = [kern EXCEPT ![Half(srv.bmuser)] = {}]
          /\ net' = Consumed(c)
          /\ Got(c, Hdr("TERM", 0))
     ELSE ServerEnds /\ UNCHANGED kern
  /\ ev' = ev \cup Lossy(\E d \in Conns : work[d].pc = "flip")
  /\ UNCHANGED <<sdb, clVars, diskVars, countVars>>

\* A round's last message that comes late clears the half of a load under way.
TerminateReceived(c) ==
  /\ Receives(c, Hdr("TERM", 0))
  /\ IF srv.bm = "ready"
     THEN /\ srv' = [srv EXCEPT !.snap = FALSE, !.bm = "freed"]
          /\ kern' = [kern EXCEPT ![Half(Other(srv.bmuser))] = {}]
          /\ net' = Consumed(c)
          /\ Got(c, Hdr("TERM", 0))
     ELSE ServerEnds /\ UNCHANGED kern
  /\ ev' = ev \cup Lossy(\E d \in Conns : work[d].pc = "flip")
  /\ UNCHANGED <<sdb, clVars, diskVars, countVars>>

\* recv fails: a thread that last served data gives the connection up.
ReceiveError(c) ==
  /\ SrvUp /\ work[c].pc = "recv"
  /\ net[work[c].sock].st \in {"rst", "shut"}
  /\ IF work[c].hdr.op = "DATA"
     THEN /\ net' = Shut(net, srv.conn)
          /\ srv' = [srv EXCEPT !.conn = 0]
          /\ work' = [work EXCEPT ![c].pc = "lost"]
     ELSE /\ work' = [work EXCEPT ![c].pc = "gone"]
          /\ UNCHANGED <<net, srv>>
  /\ UNCHANGED <<sdb, kern, clVars, diskVars, countVars, ev>>

\* The steps after the 30 seconds of sleep.
Awake(c) ==
  /\ SrvUp
  /\ \/ /\ work[c].pc = "lost"
        /\ srv' = Paused
        /\ work' = [work EXCEPT ![c].pc = "gone"]
     \/ /\ work[c].pc = "sent"
        /\ srv' = [srv EXCEPT !.conn = 0]
        /\ work' = [work EXCEPT ![c].pc = "recv"]
  /\ UNCHANGED <<sdb, kern, clVars, net, diskVars, countVars, ev>>

RecoveryConnServer ==
  /\ SrvUp /\ srv.cstate = "pause" /\ srv.psock # Listening
  /\ srv' = [srv EXCEPT !.psock = Listening]
  /\ UNCHANGED <<work, sdb, kern, clVars, net, diskVars, countVars, ev>>

\* restart_disk starts a resync thread on the server, which divides by the
\* chunk size of a header the server never fills.
RecoveryDiskServer ==
  /\ SrvUp /\ srv.dstate = "pause"
  /\ ServerEnds
  /\ UNCHANGED <<sdb, kern, clVars, diskVars, countVars, ev>>

-----------------------------------------------------------------------------
(* The client: connecting and commands.                                     *)
Idle == cl.up /\ cl.ctl = "idle"
Live(t) == thr[t].pc # "none"
ClientEnds ==
  /\ cl' = [ClFresh EXCEPT !.up = FALSE]
  /\ thr' = [t \in Thrs |-> NoThr]
  /\ \E how \in {"fin", "rst"} : net' = Broken(net, how)

\* connect: the daemon stops if nobody listens.
Reachable == SrvUp /\ srv.disk
Connected(out) == [net EXCEPT ![New] = [st |-> "open", out |-> out, in |-> <<>>]]
Refused ==
  /\ ~Reachable
  /\ ClientEnds
  /\ ev' = ev \cup {"refused"}
  /\ UNCHANGED cdb

MakePartner ==
  /\ Idle /\ cl.pstate = "none" /\ Free # {}
  /\ \/ Refused
     \/ /\ Reachable
        /\ cl' = [cl EXCEPT !.pstate = "inuse", !.sock = New]
        /\ cdb' = [cdb EXCEPT !.partner = TRUE]
        /\ net' = Connected(<<Hdr("MAKE", 0)>>)
        /\ UNCHANGED <<thr, ev>>
  /\ UNCHANGED <<srvVars, kern, diskVars, countVars>>

MakeRelation ==
  /\ Idle /\ cl.sock # 0 /\ cl.dstate = "none"
  /\ cl' = [cl EXCEPT !.ctl = "synack"]
  /\ net' = Sent(net, cl.sock, Hdr("SYN", 0))
  /\ UNCHANGED <<srvVars, kern, thr, cdb, diskVars, countVars, ev>>

\* The client's recv on its socket.
CanRecv(k) == k \in Conns /\ net[k].in # <<>> /\ net[k].st # "rst"
RecvEof(k) == k \in Conns /\ net[k].st \in {"shut", "fin"} /\ net[k].in = <<>>
RecvFails(k) == k \in Conns => net[k].st \in {"shut", "rst", "fin"}

SynAckReceived ==
  /\ cl.up /\ cl.ctl = "synack"
  /\ CanRecv(cl.sock) \/ RecvEof(cl.sock)
  /\ cl' = [cl EXCEPT !.ctl = "idle", !.dstate = "inuse"]
  /\ LET n == IF CanRecv(cl.sock) THEN [net EXCEPT ![cl.sock].in = Tail(@)] ELSE net
     IN net' = Sent(n, cl.sock, Hdr("ACK", 0))
  /\ UNCHANGED <<srvVars, kern, thr, cdb, diskVars, countVars, ev>>

RequestMetadata ==
  /\ Idle /\ Command /\ cl.dstate # "none"
  /\ cl' = [cl EXCEPT !.ctl = "meta", !.bm = "held", !.map = {}]
  /\ net' = Sent(net, cl.sock, Hdr("META", 0))
  /\ ev' = ev \cup Lossy(\/ cl.last # 0 \/ cl.cstate = "pause" \/ cl.dstate = "pause"
                        \/ \E t \in Thrs : Live(t))
  /\ UNCHANGED <<srvVars, kern, thr, cdb, diskVars, writes, faults>>

\* recv of a reply the control thread waits for, which fails.
ControlRecvError ==
  /\ cl.up /\ cl.ctl \in {"synack", "meta", "boot"}
  /\ RecvFails(cl.sock)
  /\ ClientEnds
  /\ UNCHANGED <<srvVars, kern, cdb, diskVars, countVars, ev>>

\* resync_init: the argument of the thread is shared by all that were made.
Unused == {t \in Thrs : ~Live(t)}
Fresh == CHOOSE t \in Unused : \A u \in Unused : t <= u
Crowd == IF \E t \in Thrs : Live(t) THEN {"two"} ELSE {}
StartThread(c, pos) ==
  /\ Unused # {}
  /\ cl' = [c EXCEPT !.arg = pos, !.tid = Fresh]
  /\ thr' = [thr EXCEPT ![Fresh] = [NoThr EXCEPT !.pc = "start"]]

MetadataAnswered ==
  /\ cl.up /\ cl.ctl = "meta"
  /\ CanRecv(cl.sock) \/ RecvEof(cl.sock)
  /\ LET r == IF CanRecv(cl.sock) THEN Head(net[cl.sock].in) ELSE NoReply IN
       /\ cl' = [cl EXCEPT !.ctl = "idle", !.map = r.bits]
       /\ net' = IF CanRecv(cl.sock) THEN [net EXCEPT ![cl.sock].in = Tail(@)] ELSE net
       /\ ev' = ev \cup Lossy(r.kind # "map")
  /\ UNCHANGED <<srvVars, kern, thr, cdb, diskVars, countVars>>

Resync ==
  /\ Idle /\ Command /\ cl.bm # "none"
  /\ StartThread(cl, 0)
  /\ ev' = ev \cup Crowd
  /\ UNCHANGED <<srvVars, kern, cdb, net, diskVars, writes, faults>>

Pause ==
  /\ Idle /\ Command /\ cl.last # 0
  /\ cl' = [cl EXCEPT !.pstate = "pause"]
  /\ UNCHANGED <<srvVars, kern, thr, cdb, net, diskVars, writes, faults, ev>>

Resume ==
  /\ Idle /\ Command /\ cl.bm # "none" /\ cl.pstate # "released"
  /\ StartThread([cl EXCEPT !.pstate = "resume"], 0)
  /\ ev' = ev \cup Crowd
  /\ UNCHANGED <<srvVars, kern, cdb, net, diskVars, writes, faults>>

-----------------------------------------------------------------------------
(* The client: the resync thread.                                           *)
Step(t, pc) == cl.up /\ thr[t].pc = pc
Goto(t, pc) == thr' = [thr EXCEPT ![t].pc = pc]
Gone(t) == thr' = [thr EXCEPT ![t] = NoThr]

ResyncHandler(t) ==
  /\ Step(t, "start") /\ (cl.rec \/ ~cl.locked)
  /\ LET pos == IF cl.pstate = "resume" \/ cl.dstate = "pause" THEN cl.last ELSE cl.arg IN
       /\ thr' = [thr EXCEPT ![t].pc = "loop", ![t].pos = pos]
       /\ cdb' = [cdb EXCEPT !.rows = IF ~cl.rec /\ pos = 0 THEN Append(@, 0) ELSE @]
  /\ cl' = [cl EXCEPT !.rec = FALSE]
  /\ UNCHANGED <<srvVars, kern, net, diskVars, countVars, ev>>

InLoop(t) == thr[t].pos < N /\ cl.pstate # "pause"
Loop(t) ==
  /\ Step(t, "loop")
  /\ IF ~InLoop(t)
     THEN Goto(t, "end") /\ UNCHANGED cl
     ELSE IF thr[t].pos \in cl.map
     THEN Goto(t, "ask") /\ UNCHANGED cl
     ELSE /\ thr' = [thr EXCEPT ![t].pos = @ + 1]
          /\ cl' = [cl EXCEPT !.last = thr[t].pos]
  /\ ev' = ev \cup Lossy(InLoop(t) /\ cl.bm = "freed")
  /\ UNCHANGED <<srvVars, kern, cdb, net, diskVars, countVars>>

\* A send or recv that fails: the thread closes the socket and sleeps.
GiveUp(t) ==
  /\ \E how \in {"fin", "rst"} : net' = ClientCloses(net, cl.sock, how)
  /\ cl' = [cl EXCEPT !.sock = 0]
  /\ Goto(t, "asleep")

Ask(t) ==
  /\ Step(t, "ask") /\ ~thr[t].cancelled
  /\ IF cl.pstate = "pause"
     THEN Goto(t, "note") /\ UNCHANGED <<cl, net>>
     ELSE IF Open(cl.sock)
     THEN /\ net' = Sent(net, cl.sock, Hdr("DATA", thr[t].pos))
          /\ thr' = [thr EXCEPT ![t].pc = "wait", ![t].sock = cl.sock]
          /\ UNCHANGED cl
     ELSE GiveUp(t)
  /\ UNCHANGED <<srvVars, kern, cdb, diskVars, countVars, ev>>

\* Fault: a connection that breaks leaves the thread waiting.
ChunkReadWaits(t) ==
  /\ Step(t, "wait") /\ ~thr[t].cancelled
  /\ CanRecv(thr[t].sock)
  /\ thr' = [thr EXCEPT ![t].pc = "write", ![t].got = Head(net[thr[t].sock].in)]
  /\ net' = [net EXCEPT ![thr[t].sock].in = Tail(@)]
  /\ UNCHANGED <<srvVars, kern, cl, cdb, diskVars, countVars, ev>>

\* chunk_read: the end of the stream is no error, and leaves the buffer as
\* it was.
ChunkRead(t) ==
  /\ Step(t, "wait") /\ ~thr[t].cancelled
  /\ \/ /\ CanRecv(thr[t].sock)
        /\ thr' = [thr EXCEPT ![t].pc = "write", ![t].got = Head(net[thr[t].sock].in)]
        /\ net' = [net EXCEPT ![thr[t].sock].in = Tail(@)]
        /\ UNCHANGED <<cl, ev>>
     \/ /\ RecvEof(thr[t].sock)
        /\ Goto(t, "write")
        /\ ev' = ev \cup {"lossy"}
        /\ UNCHANGED <<cl, net>>
     \/ /\ RecvFails(thr[t].sock)
        /\ GiveUp(t)
        /\ UNCHANGED ev
  /\ UNCHANGED <<srvVars, kern, cdb, diskVars, countVars>>

Cancelled(t) ==
  /\ cl.up /\ thr[t].pc \in {"ask", "wait", "term"} /\ thr[t].cancelled
  /\ Gone(t)
  /\ UNCHANGED <<srvVars, kern, cl, cdb, net, diskVars, countVars, ev>>

ChunkWrite(t) ==
  /\ Step(t, "write")
  /\ LET p == thr[t].pos
         right == thr[t].got = Reply("data", {p}) IN
       /\ stale' = IF right THEN (stale \ {p}) \cup (after \cap {p}) ELSE stale \cup {p}
       /\ ev' = ev \cup Lossy(~right)
  /\ Goto(t, "note")
  /\ UNCHANGED <<srvVars, kern, cl, cdb, net, after, countVars>>

\* A write that fails pauses the disk and cancels the newest thread, which
\* dies at its next chunk or inside the update of the table.
ChunkWriteFails(t) ==
  /\ Step(t, "write") /\ Fault
  /\ cl' = [cl EXCEPT !.dstate = "pause"]
  /\ \E pc \in {"ask", "note"} :
       thr' = [[thr EXCEPT ![t].pc = pc] EXCEPT ![cl.tid].cancelled = TRUE]
  /\ UNCHANGED <<srvVars, kern, cdb, net, diskVars, cmds, writes, ev>>

\* update_into_resync writes every row of the partner; a thread cancelled in
\* it dies with the lock.
NotePosition(t) ==
  /\ Step(t, "note") /\ ~cl.locked
  /\ IF thr[t].cancelled
     THEN /\ Gone(t)
          /\ cl' = [cl EXCEPT !.locked = TRUE]
          /\ ev' = ev \cup {"lock"}
          /\ UNCHANGED cdb
     ELSE LET p == thr[t].pos IN
          /\ cdb' = [cdb EXCEPT !.rows = [i \in DOMAIN @ |-> p]]
          /\ cl' = [cl EXCEPT !.last = p]
          /\ thr' = [thr EXCEPT ![t] = [NoThr EXCEPT !.pc = "loop", !.pos = p + 1]]
          /\ UNCHANGED ev
  /\ UNCHANGED <<srvVars, kern, net, diskVars, countVars>>

\* After the loop a paused thread cancels the newest thread, itself or not.
EndOfLoop(t) ==
  /\ Step(t, "end")
  /\ thr' = [[thr EXCEPT ![t].pc = "last"] EXCEPT ![cl.tid].cancelled = @ \/ cl.pstate = "pause"]
  /\ UNCHANGED <<srvVars, kern, cl, cdb, net, diskVars, countVars, ev>>

ForgetPosition(t) ==
  /\ Step(t, "last")
  /\ cl' = [cl EXCEPT !.last = IF cl.pstate = "pause" THEN @ ELSE 0]
  /\ Goto(t, "term")
  /\ UNCHANGED <<srvVars, kern, cdb, net, diskVars, countVars, ev>>

\* Fault: the message is sent a second time.
TerminateTwice(t) ==
  /\ Step(t, "term") /\ ~thr[t].cancelled
  /\ IF cl.bm = "freed"
     THEN ClientEnds /\ UNCHANGED ev
     ELSE /\ net' = Sent(Sent(net, cl.sock, Hdr("TERM", 0)), cl.sock, Hdr("TERM", 0))
          /\ cl' = [cl EXCEPT !.bm = "freed",
                              !.pstate = IF @ = "resume" THEN "released" ELSE @]
          /\ Gone(t)
          /\ ev' = ev \cup Lossy(thr[t].pos < N \/ cl.pstate = "pause")
  /\ UNCHANGED <<srvVars, kern, cdb, diskVars, countVars>>

Terminate(t) ==
  /\ Step(t, "term") /\ ~thr[t].cancelled
  /\ IF cl.bm = "freed"
     THEN ClientEnds /\ UNCHANGED ev
     ELSE /\ net' = Sent(net, cl.sock, Hdr("TERM", 0))
          /\ cl' = [cl EXCEPT !.bm = "freed",
                              !.pstate = IF @ = "resume" THEN "released" ELSE @]
          /\ Gone(t)
          /\ ev' = ev \cup Lossy(thr[t].pos < N \/ cl.pstate = "pause")
  /\ UNCHANGED <<srvVars, kern, cdb, diskVars, countVars>>

Slept(t) ==
  /\ Step(t, "asleep")
  /\ cl' = [cl EXCEPT !.cstate = "pause"]
  /\ Gone(t)
  /\ UNCHANGED <<srvVars, kern, cdb, net, diskVars, countVars, ev>>

-----------------------------------------------------------------------------
(* The client: recovery thread, link events, crash and restart.             *)

\* The object stays paused, so the recovery thread does this again at its
\* next round.
RecoveryConnClient ==
  /\ cl.up /\ cl.cstate = "pause"
  /\ \/ Refused
     \/ /\ Reachable /\ Free # {}
        /\ StartThread([cl EXCEPT !.sock = New], cl.last)
        /\ net' = Connected(<<>>)
        /\ ev' = ev \cup Crowd \cup Lossy(cl.ctl = "meta")
                     \cup IF Open(cl.sock) THEN {"again"} ELSE {}
        /\ UNCHANGED cdb
  /\ UNCHANGED <<srvVars, kern, diskVars, countVars>>

\* The name is read at an index that was never set: the disk is opened, or
\* the daemon stops.
RecoveryDiskClient ==
  /\ cl.up /\ cl.dstate = "pause"
  /\ \/ ClientEnds /\ UNCHANGED ev
     \/ /\ StartThread([cl EXCEPT !.dstate = "resume"], 0)
        /\ ev' = ev \cup Crowd \cup Lossy(cl.ctl = "meta")
        /\ UNCHANGED net
  /\ UNCHANGED <<srvVars, kern, cdb, diskVars, countVars>>

\* g_pid is never set: the link event connects to the address before the
\* first partner's, which is none.
LinkUpClient ==
  /\ Idle /\ Fault
  /\ ClientEnds
  /\ UNCHANGED <<srvVars, kern, cdb, diskVars, cmds, writes, ev>>

ClientCrash ==
  /\ cl.up /\ Fault
  /\ ClientEnds
  /\ UNCHANGED <<srvVars, kern, cdb, diskVars, cmds, writes, ev>>

\* db_init: each row of the resync table is a partner to connect to, by its
\* number; the rows after the first have no address.
ClientStart ==
  /\ ~cl.up /\ Free # {} /\ Busy
  /\ LET base == [ClFresh EXCEPT !.rec = cdb.partner,
                                 !.pstate = IF cdb.partner THEN "inuse" ELSE "none"]
     IN \/ /\ cdb.rows = <<>>
           /\ cl' = base
           /\ UNCHANGED <<net, ev>>
        \/ /\ cdb.rows # <<>> /\ Reachable
           /\ cl' = [base EXCEPT !.sock = New, !.dstate = "inuse", !.bm = "held",
                                 !.last = cdb.rows[1], !.ctl = "boot"]
           /\ net' = Connected(<<Hdr("META", 0)>>)
           /\ UNCHANGED ev
        \/ cdb.rows # <<>> /\ ~Reachable /\ ev' = ev \cup {"refused"} /\ UNCHANGED <<cl, net>>
  /\ UNCHANGED <<srvVars, kern, thr, cdb, diskVars, countVars>>

\* The answer while the client starts.  resync_init is called without its
\* second argument.
BootAnswered ==
  /\ cl.up /\ cl.ctl = "boot" /\ CanRecv(cl.sock)
  /\ IF Len(cdb.rows) > 1
     THEN ClientEnds /\ UNCHANGED ev
     ELSE /\ \E arg \in 0..N :
               /\ StartThread([cl EXCEPT !.ctl = "idle", !.map = Head(net[cl.sock].in).bits], arg)
               /\ ev' = ev \cup Lossy(arg > 0)
          /\ net' = [net EXCEPT ![cl.sock].in = Tail(@)]
  /\ UNCHANGED <<srvVars, kern, cdb, diskVars, countVars>>

-----------------------------------------------------------------------------
ServerStep(c) == Followed /\
 (\/ Accept(c) \/ ThreadStart(c) \/ Awake(c) \/ ReceiveError(c)
  \/ MakePartnerReceived(c) \/ SynReceived(c) \/ AckReceived(c) \/ MetadataReceived(c) \/ FlipAndSend(c)
  \/ DataReceived(c) \/ DataUnread(c) \/ TerminateReceived(c) \/ SendOnListening(c))
ControlStep ==
  BootAnswered \/ (Followed /\ (SynAckReceived \/ MetadataAnswered \/ ControlRecvError))
ThreadStep(t) == Followed /\
 (\/ ResyncHandler(t) \/ Loop(t) \/ Ask(t) \/ ChunkRead(t) \/ ChunkWrite(t)
  \/ ChunkWriteFails(t) \/ NotePosition(t) \/ Cancelled(t) \/ EndOfLoop(t)
  \/ ForgetPosition(t) \/ Terminate(t) \/ Slept(t))
Recovery ==
  \/ RecoveryDiskServer
  \/ Undisturbed /\ (RecoveryConnServer \/ RecoveryConnClient \/ RecoveryDiskClient)
Commands ==
  \/ CreateDisk \/ SnapshotDisk \/ MakePartner \/ MakeRelation
  \/ RequestMetadata \/ Resync \/ Pause \/ Resume
Faults ==
  \/ ServerCrash \/ ClientCrash \/ LinkUpServer \/ LinkUpClient
  \/ \E c \in Conns : LoseConnection(c)

Next ==
  \/ \E c \in Conns : ServerStep(c)
  \/ \E t \in Thrs : ThreadStep(t)
  \/ ControlStep \/ Recovery \/ Commands \/ Faults
  \/ ServerStart \/ ClientStart
  \/ \E b \in Bits : Write(b)

\* Threads of both daemons run; nothing is assumed of the administrator, of
\* the writers, of the recovery threads' timing or of a restart.
Fairness ==
  /\ \A c \in Conns : WF_vars(ServerStep(c))
  /\ \A t \in Thrs : WF_vars(ThreadStep(t))
  /\ WF_vars(ControlStep)

Spec == Init /\ [][Next]_vars /\ Fairness

-----------------------------------------------------------------------------
(* Properties.                                                              *)

\* The state stays in its types.
TypeOK ==
  /\ srv \in [up : {"up", "down", "hung"}, disk : BOOLEAN, snap : BOOLEAN,
              dstate : {"inuse", "pause"}, cstate : {"inuse", "pause", "resume"},
              lost : BOOLEAN, conn : 0..Listening, psock : 0..Listening,
              newest : 0..MaxConns, rec : BOOLEAN, linkup : BOOLEAN,
              bm : {"none", "ready", "freed"}, bmuser : {"KERNEL", "USER"},
              copy : SUBSET Bits, arg : (0..MaxConns) \X BOOLEAN]
  /\ kern \in [user : {"KERNEL", "USER"}, active : SUBSET Bits, backup : SUBSET Bits]
  /\ cl.last \in 0..(N - 1) /\ cl.map \subseteq Bits /\ cl.arg \in 0..N
  /\ \A t \in Thrs : thr[t].pos \in 0..N
  /\ stale \subseteq Bits /\ after \subseteq Bits /\ ev \subseteq Events

Marked == kern.active \cup kern.backup

\* No bit of the target that differs from the source is unknown to the kernel:
\* replication_terminate and the server's bitmap_destroy clear a half only when
\* its round was copied, as long as no step has lost a bit and one thread runs.
NothingForgotten == Undisturbed => stale \subseteq Marked

\* last_resynced_bit, from where --resume and the recovery threads go on, never
\* passes a bit that still has to be copied: such a bit was written again and
\* is in the half for the next round (restart_resync, update_into_resync).
ResumePointSafe ==
  (Undisturbed /\ cl.bm = "held" /\ cl.ctl = "idle")
    => \A b \in cl.map : b < cl.last /\ b \in stale => b \in kern[Half(kern.user)]

\* A round paused before its last marked bit keeps its bitmap at both ends: the
\* pthread_cancel after the loop keeps the paused thread from terminating it.
PausedRoundKept ==
  (/\ ev \cap {"two", "cold"} = {} /\ SrvUp /\ cl.ctl = "idle"
   /\ cl.pstate = "pause" /\ \E b \in cl.map : b > cl.last)
    => cl.bm = "held" /\ srv.bm = "ready"

\* Neither daemon ends or hangs by itself: that takes a fault, a server nobody
\* started, a round that lost a bit, or two resync threads at once.
EndsOnlyIf ==
  /\ ~SrvUp => faults > 0 \/ ~Undisturbed
  /\ ~cl.up => faults > 0 \/ "refused" \in ev \/ ~Undisturbed

\* A resync thread ends, unless one was cancelled with the database's lock or it
\* waits for data on a connection that the server does not answer on (no recv of
\* this build has a timeout).
Served(k) == SrvUp /\ srv.psock = k /\ \E c \in Conns : work[c].pc = "recv" /\ work[c].sock = k
LoopEnds ==
  []<>(\A t \in Thrs : Live(t) =>
         \/ cl.locked \/ ~Undisturbed
         \/ thr[t].pc = "wait" /\ Open(thr[t].sock) /\ ~Served(thr[t].sock))
=============================================================================
