----------------------------- MODULE ServerConn -----------------------------
(***************************************************************************)
(* The server while connections and disks fail: the receive thread of each *)
(* connection, the data requests it answers over the partner's socket, the *)
(* accept loop that gives a new connection to a paused partner, and the    *)
(* recovery thread.                                                        *)
(*                                                                         *)
(* user/atdr_linux/atdr_conn_server.c, replic_server.c (get_data),         *)
(* atdr_io_engine_server.c, atdr_recovery.c (server side).                 *)
(*                                                                         *)
(* Two clients are partnered, resyncing, and connect again whenever their  *)
(* connection ends.  A descriptor is the connection it was opened for:     *)
(* descriptors are not reused, and a thread has its argument before the    *)
(* next accept (Partnership has both).  A send on a socket whose error was *)
(* already reported, or on the listening one, raises SIGPIPE, which the    *)
(* daemon does not handle.                                                 *)
(***************************************************************************)
EXTENDS Integers, Sequences, FiniteSets

CONSTANTS
  NumPartners, \* partners, with rows; client p is the client of partner p
  MaxConns,    \* bound: connections made in a behaviour
  MaxFaults    \* bound: connections lost and failed reads of a source disk

ASSUME ServerConnAssumption ==
  /\ NumPartners \in Nat \ {0} /\ MaxConns \in Nat /\ MaxConns >= NumPartners
  /\ MaxFaults \in Nat

Pids   == 0 .. NumPartners - 1
Slots  == 0 .. NumPartners + 1  \* the accept loop may leave one past the rows
Conns  == 1 .. MaxConns
Stdin  == 0                     \* descriptor 0: not a socket
Listen == MaxConns + 1          \* the listening socket
Shut   == -1
Sockets == {Shut, Stdin, Listen} \cup Conns

VARIABLES
  up,        \* the daemon runs
  made,      \* connections accepted so far
  owner,     \* the client of each connection
  net,       \* a connection: open, reset (error pending), dead or closed
  req,       \* requests on a connection: partner ids
  inbox,     \* replies on a connection: partner id and disk read
  cli,       \* each client: its connection (0: none), waiting for a reply
  th,        \* thread of each connection: pc, and the partner it works for
  last,      \* partner of the last header it received, -1 before any
  sock,      \* all_partner_servers.socket_fd
  conn_fd,   \* ebdr_conn_server.conn_fd
  sockFd,    \* ebdr_conn_server.sockFd
  obj,       \* ebdr_conn_server.obj_state
  sock_recovery, partner_created, total_conn,
  arg,       \* sockfd_pid_var.pid
  tid,       \* send_recv_tid: the connection whose thread it is
  disk,      \* ebdr_disk_src_obj: obj_state and the disk disk_fd is open on
  resets, readErrs, \* failures so far
  swapped,   \* history: a paused partner was given to another client
  early,     \* history: connections accepted for the slot of another client's
             \* partner, or while their client still had a thread
  cut        \* history: open connections whose thread another one cancelled

netVars  == <<made, owner, net, req, inbox, cli>>
connVars == <<sock, conn_fd, sockFd, obj, sock_recovery, partner_created,
              total_conn, arg, tid>>
boundVars == <<resets, readErrs>>
histVars == <<swapped, early, cut>>
vars == <<up, netVars, th, last, connVars, disk, boundVars, histVars>>

Fault == resets + readErrs < MaxFaults

NoThread == [pc |-> "none", pid |-> 0]

\* As NumPartners MAKE_PARTNERs one after the other leave the server: each
\* found its predecessors' rows, so from the second on the accept loop did not
\* set the thread's pid, and the thread registered as slot 0.
Init ==
  /\ up = TRUE /\ made = NumPartners
  /\ owner = [c \in 1 .. NumPartners |-> c - 1]
  /\ net = [c \in Conns |-> IF c <= NumPartners THEN "open" ELSE "none"]
  /\ req = [c \in Conns |-> <<>>] /\ inbox = [c \in Conns |-> <<>>]
  /\ cli = [p \in Pids |-> [conn |-> p + 1, asked |-> FALSE]]
  /\ th = [c \in Conns |-> IF c <= NumPartners THEN [pc |-> "recv", pid |-> 0]
                                               ELSE NoThread]
  /\ last = [c \in Conns |-> -1]
  /\ sock = [p \in Slots |-> IF p \in Pids THEN p + 1 ELSE Stdin]
  /\ conn_fd = [p \in Slots |-> IF p = 0 THEN NumPartners ELSE Stdin]
  /\ sockFd = [p \in Slots |-> Stdin]
  /\ obj = [p \in Slots |-> "IN_USE"]
  /\ sock_recovery = [p \in Slots |-> FALSE]
  /\ partner_created = [p \in Slots |-> p \in Pids]
  /\ total_conn = NumPartners - 1
  /\ arg = [p \in Slots |-> 0]
  /\ tid = [p \in Slots |-> IF p \in Pids THEN p + 1 ELSE 0]
  /\ disk = [p \in Pids |-> [state |-> "IN_USE", open |-> p]]
  /\ resets = 0 /\ readErrs = 0
  /\ swapped = FALSE /\ early = {} /\ cut = {}

-----------------------------------------------------------------------------
(* The clients.                                                            *)

\* restart_resync sends the header of a chunk and waits for the data.
Ask(p) ==
  /\ cli[p].conn # 0 /\ ~cli[p].asked
  /\ cli' = [cli EXCEPT ![p].asked = TRUE]
  /\ req' = [req EXCEPT ![cli[p].conn] = Append(@, p)]
  /\ UNCHANGED <<up, made, owner, net, inbox, th, last, connVars, disk,
                 boundVars, histVars>>

\* The data arrives, whoever it is for.
Receive(p) ==
  /\ cli[p].conn # 0 /\ cli[p].asked /\ inbox[cli[p].conn] # <<>>
  /\ cli' = [cli EXCEPT ![p].asked = FALSE]
  /\ inbox' = [inbox EXCEPT ![cli[p].conn] = Tail(@)]
  /\ UNCHANGED <<up, made, owner, net, req, th, last, connVars, disk,
                 boundVars, histVars>>

\* The link fails, or the client gives up after its timeout, and the client
\* closes its end.  SO_LINGER makes that a reset.
Reset(p) ==
  /\ cli[p].conn # 0 /\ net[cli[p].conn] = "open" /\ Fault
  /\ resets' = resets + 1
  /\ cli' = [cli EXCEPT ![p] = [conn |-> 0, asked |-> FALSE]]
  /\ net' = [net EXCEPT ![cli[p].conn] = "reset"]
  /\ UNCHANGED <<up, made, owner, req, inbox, th, last, connVars, disk,
                 readErrs, histVars>>

\* A client notices that the server has closed its connection, or is gone.
Notice(p) ==
  /\ cli[p].conn # 0 /\ inbox[cli[p].conn] = <<>>
  /\ net[cli[p].conn] = "closed" \/ ~up
  /\ cli' = [cli EXCEPT ![p] = [conn |-> 0, asked |-> FALSE]]
  /\ UNCHANGED <<up, made, owner, net, req, inbox, th, last, connVars, disk,
                 boundVars, histVars>>

-----------------------------------------------------------------------------
(* The accept loop, replic_thread_init, with one row for each partner.     *)

WantsSocket(p) == obj[p] = "PAUSE" /\ sock_recovery[p]

\* The slot at which the loop stops: a paused partner, or none while there
\* are as many connections as rows, or one without a connection.
Stops(p) == \/ WantsSocket(p)
            \/ total_conn >= NumPartners
            \/ ~partner_created[p]

AcceptSlot ==
  LET stop == {p \in 0 .. NumPartners : Stops(p)}
  IN IF stop = {} THEN NumPartners + 1
                  ELSE CHOOSE p \in stop : \A q \in stop : p <= q

\* Fault: the partner keeps its old socket.
ResumeKeepsSocket(s, c) ==
  /\ sockFd' = [sockFd EXCEPT ![s] = Listen]
  /\ obj' = [obj EXCEPT ![s] = "RESUME"]
  /\ sock_recovery' = [sock_recovery EXCEPT ![s] = FALSE]
  /\ arg' = [arg EXCEPT ![s] = s]
  /\ total_conn' = total_conn + 1
  /\ UNCHANGED <<sock, partner_created>>

\* The socket of a paused partner is replaced by the new connection.
Resume(s, c) ==
  /\ sock' = [sock EXCEPT ![s] = c]
  /\ sockFd' = [sockFd EXCEPT ![s] = Listen]
  /\ obj' = [obj EXCEPT ![s] = "RESUME"]
  /\ sock_recovery' = [sock_recovery EXCEPT ![s] = FALSE]
  /\ arg' = [arg EXCEPT ![s] = s]
  /\ total_conn' = total_conn + 1
  /\ UNCHANGED partner_created

Occupy(s) ==
  /\ partner_created' = [partner_created EXCEPT ![s] = TRUE]
  /\ total_conn' = total_conn + 1
  /\ UNCHANGED <<sock, sockFd, obj, sock_recovery, arg>>

\* Threads of earlier connections of the client.
Lingering(p) == {t \in 1 .. made : th[t].pc # "gone" /\ owner[t] = p}

Accept(p) ==
  /\ up /\ cli[p].conn = 0 /\ made < MaxConns
  /\ LET c == made + 1
         s == AcceptSlot
     IN /\ made' = c
        /\ owner' = Append(owner, p)
        /\ net' = [net EXCEPT ![c] = "open"]
        /\ cli' = [cli EXCEPT ![p].conn = c]
        /\ \/ WantsSocket(s) /\ Resume(s, c)
           \/ /\ ~WantsSocket(s) /\ total_conn < NumPartners
              /\ s <= NumPartners
              /\ Occupy(s)
           \/ /\ ~WantsSocket(s)
              /\ total_conn >= NumPartners \/ s > NumPartners
              /\ UNCHANGED <<sock, sockFd, obj, sock_recovery, arg,
                             partner_created, total_conn>>
        /\ tid' = [tid EXCEPT ![s] = c]
        /\ th' = [th EXCEPT ![c] = [pc |-> "recv", pid |-> arg'[s]]]
        /\ conn_fd' = [conn_fd EXCEPT ![arg'[s]] = c]
        /\ swapped' = (swapped \/ (WantsSocket(s) /\ s # p))
        /\ early' = IF s # p \/ Lingering(p) # {} THEN early \cup {c} ELSE early
  /\ UNCHANGED <<up, req, inbox, last, disk, boundVars, cut>>

-----------------------------------------------------------------------------
(* The receive thread of a connection.                                     *)

\* shutdown and close of a descriptor.  A thread that waits on it sees the end
\* of file once, and after that an error.
CloseFd(f, self) ==
  IF f \notin Conns THEN UNCHANGED net /\ th' = self
  ELSE /\ net' = [net EXCEPT ![f] = "closed"]
       /\ th' = [self EXCEPT ![f].pc = IF @ = "recv" THEN "eof" ELSE @]

Go(c, pc, p) == [th EXCEPT ![c] = [pc |-> pc, pid |-> p]]

\* A header arrives.
Recv(c) ==
  /\ up /\ th[c].pc = "recv" /\ req[c] # <<>> /\ net[c] # "closed"
  /\ req' = [req EXCEPT ![c] = Tail(@)]
  /\ last' = [last EXCEPT ![c] = Head(req[c])]
  /\ th' = Go(c, "read", Head(req[c]))
  /\ UNCHANGED <<up, made, owner, net, inbox, cli, connVars, disk, boundVars,
                 histVars>>

\* End of file: not an error, the last header is executed again.
RecvEof(c) ==
  /\ up /\ th[c].pc = "eof"
  /\ th' = IF last[c] = -1 THEN Go(c, "recv", th[c].pid)
                           ELSE Go(c, "read", last[c])
  /\ UNCHANGED <<up, netVars, last, connVars, disk, boundVars, histVars>>

\* An error.  If the last header was no DATA the thread just ends; otherwise
\* it closes what the partner's slot has for a connection, and sleeps.
RecvError(c) ==
  /\ up /\ th[c].pc = "recv"
  /\ net[c] = "closed" \/ (net[c] = "reset" /\ req[c] = <<>>)
                       \/ (net[c] = "dead" /\ req[c] = <<>>)
  /\ LET p == last[c]
         seen == [net EXCEPT ![c] = IF @ = "reset" THEN "dead" ELSE @]
     IN IF p = -1
        THEN /\ net' = seen
             /\ th' = Go(c, "gone", th[c].pid)
             /\ UNCHANGED <<partner_created, conn_fd>>
        ELSE /\ partner_created' = [partner_created EXCEPT ![p] = FALSE]
             /\ conn_fd' = [conn_fd EXCEPT ![p] = Shut]
             /\ IF conn_fd[p] \in Conns
                THEN /\ net' = [seen EXCEPT ![conn_fd[p]] = "closed"]
                     /\ th' = [Go(c, "sleepE", p) EXCEPT ![conn_fd[p]].pc =
                                 IF @ = "recv" THEN "eof" ELSE @]
                ELSE /\ net' = seen
                     /\ th' = Go(c, "sleepE", p)
  /\ UNCHANGED <<up, made, owner, req, inbox, cli, last, sock, sockFd, obj,
                 sock_recovery, total_conn, arg, tid, disk, boundVars,
                 histVars>>

\* Fault: the newest thread is cancelled.
VictimNewest(p) == made

\* send_recv_tid of the partner.
Victim(p) == tid[p]

\* After the minute: the partner is paused and its thread cancelled, which is
\* by now the thread of a connection that was accepted in between.
RecvErrorEnds(c) ==
  /\ up /\ th[c].pc = "sleepE"
  /\ LET p == th[c].pid
         victim == Victim(p)
     IN /\ obj' = [obj EXCEPT ![p] = "PAUSE"]
        /\ sock_recovery' = [sock_recovery EXCEPT ![p] = TRUE]
        /\ partner_created' = [partner_created EXCEPT ![p] = FALSE]
        /\ th' = [t \in Conns |->
                    IF t = c \/ (t = victim /\ th[t].pc # "none")
                    THEN [th[t] EXCEPT !.pc = "gone"] ELSE th[t]]
        /\ cut' = IF /\ victim \notin {0, c} /\ net[victim] = "open"
                     /\ th[victim].pc # "gone"
                  THEN cut \cup {victim} ELSE cut
  /\ UNCHANGED <<up, netVars, last, sock, conn_fd, sockFd, total_conn, arg,
                 tid, disk, boundVars, swapped, early>>

-----------------------------------------------------------------------------
(* get_data.                                                               *)

Paused(p) ==
  /\ obj' = [obj EXCEPT ![p] = "PAUSE"]
  /\ sock_recovery' = [sock_recovery EXCEPT ![p] = TRUE]

\* A failed read pauses disk and connection, and after a minute ...
ReadFails(c) ==
  /\ up /\ th[c].pc = "read" /\ Fault
  /\ readErrs' = readErrs + 1
  /\ LET p == th[c].pid
     IN /\ disk' = [disk EXCEPT ![p].state = "PAUSE"]
        /\ Paused(p)
        /\ CloseFd(conn_fd[p], Go(c, "sleepR", p))
  /\ UNCHANGED <<up, made, owner, req, inbox, cli, last, sock, conn_fd, sockFd,
                 partner_created, total_conn, arg, tid, resets, histVars>>

\* ... the buffer is sent all the same.
ReadFailEnds(c) ==
  /\ up /\ th[c].pc = "sleepR"
  /\ LET p == th[c].pid
     IN /\ conn_fd' = [conn_fd EXCEPT ![p] = Shut]
        /\ partner_created' = [partner_created EXCEPT ![p] = FALSE]
        /\ th' = Go(c, "send", p)
  /\ UNCHANGED <<up, netVars, last, sock, sockFd, obj, sock_recovery,
                 total_conn, arg, tid, disk, boundVars, histVars>>

\* Fault: the reply goes out over the newest connection.
ReplySocketNewest(p) == made

ReplySocket(p) == sock[p]

\* Fault: nothing is sent while the connection is marked as resumed.
DeliverUnlessResumed(p, f) ==
  IF obj[p] = "RESUME" THEN inbox
  ELSE [inbox EXCEPT ![f] = Append(@, [pid |-> p, disk |-> disk[p].open])]

Deliver(p, f) ==
  [inbox EXCEPT ![f] = Append(@, [pid |-> p, disk |-> disk[p].open])]

\* chunk_write: the data reaches the client of that connection.
SendChunk(c) ==
  /\ up /\ th[c].pc \in {"read", "send"}
  /\ LET p == th[c].pid
         f == ReplySocket(p)
     IN /\ f \in Conns /\ net[f] = "open"
        /\ inbox' = Deliver(p, f)
        /\ th' = Go(c, "recv", p)
  /\ UNCHANGED <<up, made, owner, net, req, cli, last, connVars, disk,
                 boundVars, histVars>>

\* A write error: the partner is paused, its connection closed, and a minute
\* later the slot's descriptor is reset, whatever it is by then.
SendFails(c) ==
  /\ up /\ th[c].pc \in {"read", "send"}
  /\ LET p == th[c].pid
         f == ReplySocket(p)
         g == conn_fd[p]
     IN /\ f \in {Shut, Stdin} \/ (f \in Conns /\ net[f] \in {"reset", "closed"})
        /\ partner_created' = [partner_created EXCEPT ![p] = FALSE]
        /\ total_conn' = 0
        /\ Paused(p)
        /\ net' = [n \in Conns |-> IF n = g THEN "closed"
                                   ELSE IF n = f /\ net[n] = "reset" THEN "dead"
                                   ELSE net[n]]
        /\ th' = [n \in Conns |->
                    IF n = c THEN [pc |-> "sleepW", pid |-> p]
                    ELSE IF n = g /\ th[n].pc = "recv"
                         THEN [th[n] EXCEPT !.pc = "eof"] ELSE th[n]]
  /\ UNCHANGED <<up, made, owner, req, inbox, cli, last, sock, conn_fd, sockFd,
                 arg, tid, disk, boundVars, histVars>>

SendFailEnds(c) ==
  /\ up /\ th[c].pc = "sleepW"
  /\ conn_fd' = [conn_fd EXCEPT ![th[c].pid] = Shut]
  /\ th' = Go(c, "recv", th[c].pid)
  /\ UNCHANGED <<up, netVars, last, sock, sockFd, obj, sock_recovery,
                 partner_created, total_conn, arg, tid, disk, boundVars,
                 histVars>>

\* SIGPIPE ends the daemon.
SendKills(c) ==
  /\ up /\ th[c].pc \in {"read", "send"}
  /\ LET f == ReplySocket(th[c].pid)
     IN f = Listen \/ (f \in Conns /\ net[f] = "dead")
  /\ up' = FALSE
  /\ UNCHANGED <<netVars, th, last, connVars, disk, boundVars, histVars>>

-----------------------------------------------------------------------------
(* The recovery thread.                                                    *)

\* recovery_conn_server and restart_conn_server: the partner gets the socket
\* of its slot's set-up, and as the server has no client connections the
\* state stays PAUSE.
RecoverConn(p) ==
  /\ up /\ obj[p] = "PAUSE" /\ sock[p] # sockFd[p]
  /\ sock' = [sock EXCEPT ![p] = sockFd[p]]
  /\ UNCHANGED <<up, netVars, th, last, conn_fd, sockFd, obj, sock_recovery,
                 partner_created, total_conn, arg, tid, disk, boundVars,
                 histVars>>

\* recovery_disk_server: the name it opens is that of an uninitialised index,
\* so some partner's disk, or nothing that can be opened.
RecoverDisk(p) ==
  /\ up /\ disk[p].state = "PAUSE"
  /\ \E i \in Pids :
       disk' = [disk EXCEPT ![p] = [state |-> "RESUME", open |-> i]]
  /\ UNCHANGED <<up, netVars, th, last, connVars, boundVars, histVars>>

RecoverDiskFails(p) ==
  /\ up /\ disk[p].state = "PAUSE"
  /\ up' = FALSE
  /\ UNCHANGED <<netVars, th, last, connVars, disk, boundVars, histVars>>

ThreadStep(c) ==
  \/ Recv(c) \/ RecvEof(c) \/ RecvError(c) \/ RecvErrorEnds(c)
  \/ ReadFails(c) \/ ReadFailEnds(c)
  \/ SendChunk(c) \/ SendFails(c) \/ SendFailEnds(c) \/ SendKills(c)

Next ==
  \/ \E p \in Pids : \/ Ask(p) \/ Receive(p) \/ Reset(p) \/ Notice(p)
                     \/ Accept(p)
                     \/ RecoverConn(p) \/ RecoverDisk(p) \/ RecoverDiskFails(p)
  \/ \E c \in Conns : ThreadStep(c)

\* A receive thread that can go on does, a sleep of a minute ends, and a
\* client takes the data that has arrived.
Fairness == /\ \A c \in Conns : WF_vars(ThreadStep(c))
            /\ \A p \in Pids : WF_vars(Receive(p))

Spec == Init /\ [][Next]_vars /\ Fairness

-----------------------------------------------------------------------------
(* Properties.                                                             *)

\* Types of the connections, threads and slots.
TypeOK ==
  /\ made \in 0 .. MaxConns /\ Len(owner) = made
  /\ \A c \in Conns :
       /\ net[c] \in {"none", "open", "reset", "dead", "closed"}
       /\ th[c].pc \in {"none", "recv", "eof", "read", "send", "sleepE",
                        "sleepW", "sleepR", "gone"}
       /\ last[c] \in Pids \cup {-1}
  /\ \A p \in Slots : /\ sock[p] \in Sockets /\ conn_fd[p] \in Sockets
                      /\ sockFd[p] \in {Stdin, Listen}
                      /\ obj[p] \in {"IN_USE", "PAUSE", "RESUME"}
  /\ total_conn \in Nat

\* Data of a partner reaches the client of no other one, unless the accept
\* loop gave a paused partner to whoever connected first (atdr_conn_server.c
\* 274); and it is read from the partner's disk, unless the recovery thread
\* opened it again.
DataToAsker ==
  \A c \in 1 .. made : \A i \in DOMAIN inbox[c] :
    LET r == inbox[c][i]
    IN /\ r.pid = owner[c] \/ swapped
       /\ r.disk = r.pid \/ readErrs > 0

\* A thread that gives up cancels the thread of an open connection only if
\* that one was accepted before an earlier thread of its client had given up,
\* or for another client's slot: send_recv_tid then names the new thread.
CancelsOwn == cut \subseteq early

\* No disk error, no client back before the server has let go of it, and no
\* thread that ended before its first DATA header and so left its partner
\* unpaused.
Calm == /\ readErrs = 0 /\ early = {}
        /\ \A c \in Conns : ~(th[c].pc = "gone" /\ last[c] = -1)

\* Connections lost in the middle of a resync do not end the daemon: it takes one
\* of these before something is sent where SIGPIPE is raised.
Survives == Calm => up

\* A request over the connection that is its partner's socket, with a thread
\* there to receive it, is answered, unless the connection or the socket is
\* lost, or another thread cancels this one.
OwnSocket(p) == /\ up /\ cli[p].conn # 0 /\ sock[p] = cli[p].conn
                /\ net[cli[p].conn] = "open" /\ cli[p].conn \notin cut
Attended(p) == th[cli[p].conn].pc \notin {"none", "gone"}
Answered ==
  \A p \in Pids : cli[p].asked /\ OwnSocket(p) /\ Attended(p)
                   ~> ~cli[p].asked \/ ~OwnSocket(p)

-----------------------------------------------------------------------------
(* The inductive invariant of the proofs.                                  *)

ThreadPcs == {"none", "recv", "eof", "read", "send", "sleepE", "sleepW", "sleepR", "gone"}

Types ==
  /\ up \in BOOLEAN /\ made \in NumPartners .. MaxConns
  /\ owner \in Seq(Pids) /\ Len(owner) = made
  /\ net \in [Conns -> {"none", "open", "reset", "dead", "closed"}]
  /\ req \in [Conns -> Seq(Pids)]
  /\ inbox \in [Conns -> Seq([pid : Pids, disk : Pids])]
  /\ cli \in [Pids -> [conn : 0 .. made, asked : BOOLEAN]]
  /\ th \in [Conns -> [pc : ThreadPcs, pid : Slots]]
  /\ last \in [Conns -> Pids \cup {-1}]
  /\ sock \in [Slots -> Sockets] /\ conn_fd \in [Slots -> Sockets]
  /\ sockFd \in [Slots -> {Stdin, Listen}]
  /\ obj \in [Slots -> {"IN_USE", "PAUSE", "RESUME"}]
  /\ sock_recovery \in [Slots -> BOOLEAN] /\ partner_created \in [Slots -> BOOLEAN]
  /\ total_conn \in Nat /\ arg \in [Slots -> Slots] /\ tid \in [Slots -> 0 .. made]
  /\ disk \in [Pids -> [state : {"IN_USE", "PAUSE", "RESUME"}, open : Pids]]
  /\ resets \in Nat /\ readErrs \in Nat /\ swapped \in BOOLEAN

\* A connection not made yet has nothing, and a thread at work works for a partner.
ConnInv(c) ==
  /\ c > made => th[c].pc = "none" /\ last[c] = -1 /\ req[c] = <<>> /\ inbox[c] = <<>>
  /\ c <= made => th[c].pc # "none"
  /\ th[c].pc \in {"read", "send", "sleepE", "sleepW", "sleepR"} => th[c].pid \in Pids

\* As long as no paused partner went to another client, its socket is its own.
SocketInv ==
  \A p \in Slots : sock[p] \in Conns =>
    sock[p] <= made /\ (swapped \/ owner[sock[p]] = p)

DiskInv == readErrs = 0 => \A p \in Pids : disk[p].open = p /\ disk[p].state # "PAUSE"

\* The slot of partner p while it is calm: tid is the newest connection of its
\* client, the threads of the ones before have ended, and the socket is that
\* connection's or, once paused, the one of the slot's set-up.
SlotInv(p) ==
  LET c == tid[p]
  IN /\ c \in 1 .. made /\ owner[c] = p /\ cli[p].conn \in {0, c}
     /\ \A t \in 1 .. made : owner[t] = p /\ t # c => th[t].pc = "gone"
     /\ conn_fd[p] \in Conns => /\ conn_fd[p] <= made
                                /\ owner[conn_fd[p]] = p \/ conn_fd[p] = NumPartners
     /\ c <= NumPartners => sockFd[p] = Stdin
     /\ sock[p] = c \/ (obj[p] = "PAUSE" /\ sock[p] = sockFd[p])
     /\ th[c].pc = "gone" => WantsSocket(p)

\* The thread of connection c while it is calm.
ThreadInv(c) ==
  /\ last[c] \in {-1, owner[c]} /\ \A i \in DOMAIN req[c] : req[c][i] = owner[c]
  /\ th[c].pc \in {"read", "sleepE", "sleepW"} => last[c] = owner[c] /\ th[c].pid = owner[c]
  /\ th[c].pc \notin {"send", "sleepR"}

\* The newest connection of partner p while it is calm: what is lost, and how
\* much of a request is on its way.
LineInv(p) ==
  LET c == tid[p]
      pc == th[c].pc
  IN /\ obj[p] = "PAUSE" /\ pc # "gone" => net[c] \in {"dead", "closed"}
     /\ net[c] = "dead" => pc \in {"recv", "sleepW", "sleepE", "gone"} /\ req[c] = <<>>
     /\ net[c] \in {"dead", "reset"} => cli[p].conn # c
     /\ pc = "eof" => net[c] = "closed" /\ sockFd[p] = Stdin
     /\ pc = "read" /\ obj[p] = "PAUSE" => net[c] = "closed" /\ sockFd[p] = Stdin
     /\ net[c] \in {"open", "reset"} => Len(req[c]) <= 1 /\ (pc = "read" => req[c] = <<>>)
     /\ net[c] = "open" /\ cli[p].conn = c =>
          /\ ~cli[p].asked => req[c] = <<>> /\ inbox[c] = <<>> /\ pc # "read"
          /\ inbox[c] # <<>> => Len(inbox[c]) = 1 /\ req[c] = <<>> /\ pc # "read"

CalmInv ==
  Calm => /\ up
          /\ \A p \in Pids : SlotInv(p) /\ LineInv(p)
          /\ \A c \in 1 .. made : ThreadInv(c)

ServerInv ==
  /\ Types /\ SocketInv /\ DiskInv /\ DataToAsker /\ CalmInv
  /\ \A c \in Conns : ConnInv(c)

=============================================================================
