---------------------------- MODULE Partnership ----------------------------
(***************************************************************************)
(* How partners and relations are made, negotiated and removed between     *)
(* several clients and one server, and how the server attaches a partner   *)
(* to the connection it is made over.                                      *)
(*                                                                         *)
(* user/atdr_linux/atdr_partner_{client,server}.c,                         *)
(* atdr_relation_{client,server}.c, atdr_replic_header_{client,server}.c,  *)
(* atdr_daemon.c (commands), replic_{client,server}.c, atdr_conn_server.c  *)
(* (accept loop and receive threads), atdr_db.c (rows).                    *)
(*                                                                         *)
(* Partner ids are given out by each client for itself, from 0; the server *)
(* indexes its own tables with the id in the header.  Connections do not   *)
(* fail here (ServerConn has that): they end when a client closes them or  *)
(* dies.  The server reads descriptors, which the system reuses.  A        *)
(* descriptor that one thread closes while another waits on it is taken to *)
(* fail there at once.                                                     *)
(***************************************************************************)
EXTENDS Integers, Sequences, FiniteSets, FiniteSetsExt

CONSTANTS
  Clients,     \* client daemons
  MaxPartners, \* entries in a client's tables (2048)
  MaxConns,    \* bound: connections made in a behaviour
  Sizes,       \* bitmap, grain and chunk size, as one number
  MaxCommands, \* bound: commands that do not connect
  MaxReplays,  \* bound: headers executed again at the end of file
  Fds          \* descriptors of the server, 0 is its standard input

ASSUME PartnershipAssumption ==
  /\ Clients # {} /\ IsFiniteSet(Clients) /\ IsFiniteSet(Sizes)
  /\ MaxPartners \in Nat \ {0} /\ MaxConns \in Nat /\ MaxCommands \in Nat
  /\ MaxReplays \in Nat /\ MaxPartners <= MaxReplays + MaxConns /\ Fds = 0 .. MaxConns

Pids  == 0 .. MaxPartners - 1
Slots == 0 .. MaxReplays + MaxConns + 1 \* entries of the server's tables
Conns == 1 .. MaxConns
Stdin == 0
Shut  == -1                      \* a descriptor that is not open
NoMsg == [op |-> "none", pid |-> 0, size |-> 0]

VARIABLES
  \* A client.
  cpart,     \* all_partner_clients: id, obj_state, socket (a connection or 0)
  crel,      \* all_relation_clients: obj_state and size
  chdr,      \* replic_hdr_client_obj: size
  crows,     \* its partner table: the ids, in the order of insertion
  ctl,       \* control thread: idle, waiting for a SYN_ACK, or the daemon down
  \* The network.
  owner,     \* the client of each connection made so far
  toS, toC,  \* messages on a connection
  hungUp,    \* connections closed by the client
  \* The server.
  running,        \* the daemon runs
  accepted,  \* connections accepted so far; they are accepted in order
  desc,      \* what each descriptor is open on
  latest,    \* ebdr_conn_server[MAX_CONN + 1].conn_fd
  spart,     \* all_partner_servers: id, obj_state, socket_fd, ops set
  srel,      \* all_relation_servers: obj_state, and whether a SYN was answered
  shdr,      \* replic_hdr_server_obj: size
  srows,     \* the partner table: ids
  created, total, \* partner_created, total_conn
  arg,       \* sockfd_pid_var: descriptor and pid handed to a thread
  connFd,    \* ebdr_conn_server.conn_fd
  th,        \* send_recv_handler of each connection accepted
  \* History.
  maker,     \* connection over which the server's partner was made
  overtaken, \* partners made when a later connection was accepted already
  hurried,   \* connections accepted while the thread of another was starting,
             \* or with a descriptor on which one still receives
  used,      \* commands so far
  replays    \* headers executed again so far

clientVars == <<cpart, crel, chdr, crows, ctl>>
netVars    == <<owner, toS, toC, hungUp>>
tableVars  == <<spart, srel, shdr, srows>>
connVars   == <<accepted, desc, latest, created, total, arg, connFd, th>>
histVars   == <<maker, overtaken, hurried, used, replays>>
partnersVars == <<clientVars, netVars, running, tableVars, connVars, histVars>>

FreePartner == [id |-> 0, state |-> "FREE", sock |-> 0]
NoThread    == [pc |-> "none", slot |-> 0, fd |-> 0, pid |-> 0, last |-> NoMsg]

PartnersInit ==
  /\ cpart = [c \in Clients |-> [p \in Pids |-> FreePartner]]
  /\ crel = [c \in Clients |-> [p \in Pids |-> [state |-> "FREE", size |-> 0]]]
  /\ chdr = [c \in Clients |-> [p \in Pids |-> 0]]
  /\ crows = [c \in Clients |-> <<>>]
  /\ ctl = [c \in Clients |-> [pc |-> "idle", pid |-> 0]]
  /\ owner = <<>> /\ hungUp = {}
  /\ toS = [n \in Conns |-> <<>>] /\ toC = [n \in Conns |-> <<>>]
  /\ running = TRUE /\ accepted = 0 /\ latest = Stdin
  /\ desc = [f \in Fds |-> IF f = Stdin THEN 0 ELSE Shut]
  /\ spart = [p \in Slots |-> [id |-> 0, state |-> "FREE", sock |-> 0,
                               ops |-> FALSE]]
  /\ srel = [p \in Slots |-> [state |-> "FREE", answered |-> FALSE]]
  /\ shdr = [p \in Slots |-> 0]
  /\ srows = <<>>
  /\ created = [p \in Slots |-> FALSE] /\ total = 0
  /\ arg = [p \in Slots |-> [fd |-> 0, pid |-> 0]]
  /\ connFd = [p \in Slots |-> 0]
  /\ th = [n \in Conns |-> NoThread]
  /\ maker = [p \in Slots |-> 0]
  /\ overtaken = {} /\ hurried = {} /\ used = 0
  /\ replays = 0

-----------------------------------------------------------------------------
(* Commands of a client.                                                   *)

Idle(c) == ctl[c].pc = "idle"

Use == used < MaxCommands /\ used' = used + 1

\* The system closes what a dead daemon had open.
Die(c) ==
  /\ ctl' = [ctl EXCEPT ![c].pc = "down"]
  /\ hungUp' = hungUp \union {n \in DOMAIN owner : owner[n] = c}

Send(n, m) ==
  toS' = IF n \in hungUp THEN toS ELSE [toS EXCEPT ![n] = Append(@, m)]

\* Ids that get_new_partner_client_id may return; it takes the least.
NewIds(c) == {p \in Pids : cpart[c][p].state \notin {"IN_USE", "RELEASED"}}

\* is_client_partner_id_valid: a released or unused entry has id 0.
Valid(c, p) == \E q \in Pids : cpart[c][q].id = p

\* make_partner_client and partner_client_obj_destroy.
ClientEntry(p, n) == [id |-> p, state |-> "IN_USE", sock |-> n]
ReleasedClient    == [id |-> 0, state |-> "RELEASED", sock |-> 0]

\* relation_client_obj_destroy, which keeps the rest of the entry.
ReleaseRelation(r) == [r EXCEPT !.state = "RELEASED"]

\* --mkpartner: connect, enter the partner, insert the row, send.  With no id
\* left the code goes on with -1, which is not modelled.
MkPartner(c, size) ==
  /\ Idle(c) /\ NewIds(c) # {} /\ Len(owner) < MaxConns
  /\ LET p == Min(NewIds(c))
         n == Len(owner) + 1
     IN /\ owner' = Append(owner, c)
        /\ cpart' = [cpart EXCEPT ![c][p] = ClientEntry(p, n)]
        /\ chdr' = [chdr EXCEPT ![c][p] = size]
        /\ crows' = [crows EXCEPT ![c] = Append(@, p)]
        /\ Send(n, [op |-> "MAKE_PARTNER", pid |-> p, size |-> size])
  /\ UNCHANGED <<crel, ctl, toC, hungUp, running, tableVars, connVars, histVars>>

\* make_relation_client.
ClientRelation(size) == [state |-> "IN_USE", size |-> size]

\* start_protocol_negotiation up to the receive.
StartNegotiation(c, p, size) ==
  /\ ctl' = [ctl EXCEPT ![c] = [pc |-> "syn", pid |-> p]]
  /\ Send(cpart[c][p].sock, [op |-> "SYN", pid |-> p, size |-> size])

\* --mkrelationpeer up to the SYN.  An id that passes the test but was never
\* made, or was removed, has no socket: the daemon dies on it.
MkRelation(c, p, size) ==
  /\ Idle(c) /\ Valid(c, p) /\ Use
  /\ crel' = [crel EXCEPT ![c][p] = ClientRelation(chdr[c][p])]
  /\ chdr' = [chdr EXCEPT ![c][p] = size]
  /\ IF cpart[c][p].sock = 0
       THEN Die(c) /\ UNCHANGED toS
       ELSE StartNegotiation(c, p, size) /\ UNCHANGED hungUp
  /\ UNCHANGED <<cpart, crows, owner, toC, running, tableVars, connVars, maker,
                 overtaken, hurried, replays>>

\* The SYN_ACK is received over the whole header of the partner that waits, and
\* its sizes also go where its own partner_id says.
RecvSynAck(c) ==
  /\ ctl[c].pc = "syn"
  /\ LET p == ctl[c].pid
         n == cpart[c][p].sock
         m == Head(toC[n])
     IN /\ toC[n] # <<>>
        /\ toC' = [toC EXCEPT ![n] = Tail(@)]
        /\ chdr' = [chdr EXCEPT ![c][p] = m.size, ![c][m.pid] = m.size]
        /\ crel' = [crel EXCEPT ![c][p].size = m.size]
        /\ Send(n, [op |-> "ACK", pid |-> m.pid, size |-> m.size])
  /\ ctl' = [ctl EXCEPT ![c].pc = "idle"]
  /\ UNCHANGED <<cpart, crows, owner, hungUp, running, tableVars, connVars,
                 histVars>>

\* The server has closed the connection: recv returns 0, the header is as it was
\* and the client keeps its own sizes.
RecvEof(c) ==
  /\ ctl[c].pc = "syn"
  /\ LET p == ctl[c].pid
         n == cpart[c][p].sock
     IN /\ toC[n] = <<>> /\ n <= accepted
        /\ ~running \/ \A f \in Fds : desc[f] # n
        /\ crel' = [crel EXCEPT ![c][p].size = chdr[c][p]]
  /\ ctl' = [ctl EXCEPT ![c].pc = "idle"]
  /\ UNCHANGED <<cpart, chdr, crows, netVars, running, tableVars, connVars, histVars>>

\* --rmpartner.  On a client the id is looked up in the table of the server's
\* partners, which is all zero: 0 is accepted and every other id is refused.
RmPartner(c) ==
  /\ Idle(c) /\ Use
  /\ IF cpart[c][0].sock = 0
       THEN Die(c) /\ UNCHANGED <<cpart, crel, toS>>
       ELSE /\ Send(cpart[c][0].sock,
                    [op |-> "REMOVE_PARTNER", pid |-> 0, size |-> 0])
            /\ hungUp' = hungUp \union {cpart[c][0].sock}
            /\ cpart' = [cpart EXCEPT ![c][0] = ReleasedClient]
            /\ crel' = [crel EXCEPT ![c][0] =
                          IF @.state = "IN_USE" THEN ReleaseRelation(@) ELSE @]
            /\ UNCHANGED ctl
  /\ UNCHANGED <<chdr, crows, owner, toC, running, tableVars, connVars, maker,
                 overtaken, hurried, replays>>

\* --rmrelation, without a test of the id.
RmRelation(c, r) ==
  /\ Idle(c) /\ Use
  /\ IF crel[c][r].state = "FREE"
       THEN Die(c) /\ UNCHANGED <<crel, toS>>
       ELSE /\ crel' = [crel EXCEPT ![c][r] = ReleaseRelation(@)]
            /\ IF cpart[c][r].sock = 0
                 THEN UNCHANGED toS
                 ELSE Send(cpart[c][r].sock,
                           [op |-> "RM_RELATION", pid |-> r, size |-> 0])
            /\ UNCHANGED <<ctl, hungUp>>
  /\ UNCHANGED <<cpart, chdr, crows, owner, toC, running, tableVars, connVars, maker,
                 overtaken, hurried, replays>>

\* mkpartner_from_db_on_client: rows fill the table by row number.
DbInfo(c) ==
  /\ Idle(c) /\ Use
  /\ cpart' = [cpart EXCEPT ![c] = [p \in Pids |->
                 IF p < Len(crows[c])
                   THEN [@[p] EXCEPT !.id = crows[c][p + 1], !.state = "IN_USE"]
                   ELSE @[p]]]
  /\ UNCHANGED <<crel, chdr, crows, ctl, netVars, running, tableVars, connVars, maker,
                 overtaken, hurried, replays>>

-----------------------------------------------------------------------------
(* The accept loop of the server.                                          *)

Starting == {n \in Conns : th[n].pc \in {"new", "set"}}

\* Threads that have not noticed yet that their descriptor is closed.
Holders(f) == {n \in Conns : th[n].pc = "recv" /\ th[n].fd = f}

LowestFree == Min({f \in Fds : desc[f] = Shut})

\* Fault: an entry is filled from a clean one.
RereadClean == [p \in Slots |->
  IF p < Len(srows)
    THEN [spart[p] EXCEPT !.id = srows[p + 1], !.state = "IN_USE", !.sock = 0]
    ELSE spart[p]]

\* mkpartner_from_db_on_server, at every accept, again by row number.
Reread == [p \in Slots |->
  IF p < Len(srows)
    THEN [spart[p] EXCEPT !.id = srows[p + 1], !.state = "IN_USE"]
    ELSE spart[p]]

Uncreated == {p \in 0 .. Len(srows) : ~created[p]}

\* Nothing is paused and nothing recovers here.
ChosenSlot ==
  IF Len(srows) = 0 \/ total >= Len(srows) THEN 0
  ELSE IF Uncreated = {} THEN Len(srows) + 1 ELSE Min(Uncreated)

Accept ==
  LET n    == accepted + 1
      f    == LowestFree
      s    == ChosenSlot
      rows == Len(srows)
      take == rows > 0 /\ total < rows /\ Uncreated # {}
  IN
  /\ running /\ accepted < Len(owner)
  /\ accepted' = n
  /\ desc' = [desc EXCEPT ![f] = n]
  /\ latest' = f
  /\ spart' = Reread
  /\ created' = IF rows = 0 \/ take THEN [created EXCEPT ![s] = TRUE]
                                    ELSE created
  /\ total' = IF take THEN total + 1 ELSE total
  /\ arg' = [arg EXCEPT ![s] = [fd |-> f, pid |-> IF rows = 0 THEN 0 ELSE @.pid]]
  /\ th' = [th EXCEPT ![n] = [NoThread EXCEPT !.pc = "new", !.slot = s]]
  /\ hurried' = IF Starting = {} /\ Holders(f) = {} THEN hurried
                ELSE hurried \union Starting \union Holders(f) \union {n}
  /\ UNCHANGED <<clientVars, netVars, running, srel, shdr, srows, connFd, maker,
                 overtaken, used, replays>>

-----------------------------------------------------------------------------
(* Receive threads of the server.                                          *)

\* send_recv_handler reads its argument, which the accept loop may have
\* changed, and enters the descriptor under the pid it finds there ...
ThreadStart(n) ==
  /\ running /\ th[n].pc = "new"
  /\ LET a == arg[th[n].slot]
     IN /\ th' = [th EXCEPT ![n].pc = "set", ![n].pid = a.pid]
        /\ connFd' = [connFd EXCEPT ![a.pid] = a.fd]
  /\ UNCHANGED <<clientVars, netVars, running, tableVars, accepted, desc, latest,
                 created, total, arg, histVars>>

\* Fault: the descriptor is looked up under the thread's slot.
ThreadListenSlot(n) ==
  /\ running /\ th[n].pc = "set"
  /\ th' = [th EXCEPT ![n].pc = "recv", ![n].fd = connFd[th[n].slot]]
  /\ UNCHANGED <<clientVars, netVars, running, tableVars, accepted, desc, latest,
                 created, total, arg, connFd, histVars>>

\* ... and takes it from there again to receive.
ThreadListen(n) ==
  /\ running /\ th[n].pc = "set"
  /\ th' = [th EXCEPT ![n].pc = "recv", ![n].fd = connFd[th[n].pid]]
  /\ UNCHANGED <<clientVars, netVars, running, tableVars, accepted, desc, latest,
                 created, total, arg, connFd, histVars>>

Crash == running' = FALSE

\* send on a socket_fd.  A connection the client has closed may take the daemon
\* with it (SIGPIPE is not caught); an error is ignored.
Answer(f, m) ==
  LET n == IF f \in Fds THEN desc[f] ELSE Shut
  IN IF n \in Conns /\ n \notin hungUp
       THEN toC' = [toC EXCEPT ![n] = Append(@, m)] /\ UNCHANGED running
       ELSE UNCHANGED toC /\ \/ n \in Conns /\ Crash
                             \/ UNCHANGED running

\* make_partner_server and partner_server_obj_destroy.
ServerEntry(p, f) == [id |-> p, state |-> "IN_USE", sock |-> f, ops |-> TRUE]
ReleasedServer    == [id |-> 0, state |-> "RELEASED", sock |-> 0, ops |-> FALSE]

\* INSERT INTO partner: a second row for an id is not refused.
Insert(rows, p) == Append(rows, p)

\* make_relation_with_client for an id that is valid.
RelateServer(p, size) ==
  /\ srel' = [srel EXCEPT ![p].state = "IN_USE"]
  /\ shdr' = [shdr EXCEPT ![p] = size]

\* make_partner: the connection is a copy of the one accepted last.
MakePartner(n, m) ==
  /\ spart' = [spart EXCEPT ![m.pid] = ServerEntry(m.pid, latest)]
  /\ srows' = Insert(srows, m.pid)
  /\ RelateServer(m.pid, m.size)
  /\ connFd' = [connFd EXCEPT ![m.pid] = latest]
  /\ UNCHANGED <<running, toC, desc>>

\* syn_received: the sizes of the server go to the partner's socket.
SynReceived(n, m) ==
  /\ srel' = [srel EXCEPT ![m.pid].answered = TRUE]
  /\ Answer(spart[m.pid].sock,
            [m EXCEPT !.op = "SYN_ACK", !.size = shdr[m.pid]])
  /\ UNCHANGED <<spart, srows, shdr, connFd, desc>>

\* Fault: the descriptor is not closed.
RemovePartnerLeavesOpen(n, m) ==
  LET p == m.pid IN
  IF ~spart[p].ops
    THEN Crash /\ UNCHANGED <<tableVars, desc, connFd, toC>>
    ELSE /\ srel' = [srel EXCEPT ![p].state =
                       IF @ = "IN_USE" THEN "RELEASED" ELSE @]
         /\ spart' = [spart EXCEPT ![p] = ReleasedServer]
         /\ UNCHANGED <<srows, shdr, connFd, running, toC, desc>>

\* remove_partner: the entry's operations are cleared with it, so a second
\* removal ends in a null call.  The row stays in use.
RemovePartner(n, m) ==
  LET p == m.pid IN
  IF ~spart[p].ops
    THEN Crash /\ UNCHANGED <<tableVars, desc, connFd, toC>>
    ELSE /\ srel' = [srel EXCEPT ![p].state =
                       IF @ = "IN_USE" THEN "RELEASED" ELSE @]
         /\ desc' = [desc EXCEPT ![spart[p].sock] = Shut]
         /\ spart' = [spart EXCEPT ![p] = ReleasedServer]
         /\ UNCHANGED <<srows, shdr, connFd, running, toC>>

RemoveRelation(n, m) ==
  /\ IF srel[m.pid].state = "FREE"
       THEN Crash /\ UNCHANGED srel
       ELSE srel' = [srel EXCEPT ![m.pid].state = "RELEASED"] /\ UNCHANGED running
  /\ UNCHANGED <<spart, srows, shdr, connFd, desc, toC>>

\* The table of handlers, and what history keeps of them.
Handle(n, m) ==
  /\ \/ /\ m.op = "MAKE_PARTNER" /\ MakePartner(n, m)
        /\ maker' = [maker EXCEPT ![m.pid] = desc[th[n].fd]]
        /\ overtaken' = IF desc[latest] # desc[th[n].fd]
                          THEN overtaken \union {m.pid} ELSE overtaken
     \/ m.op = "SYN" /\ SynReceived(n, m) /\ UNCHANGED <<maker, overtaken>>
     \/ /\ m.op = "REMOVE_PARTNER" /\ RemovePartner(n, m)
        /\ UNCHANGED <<maker, overtaken>>
     \/ /\ m.op = "RM_RELATION" /\ RemoveRelation(n, m)
        /\ UNCHANGED <<maker, overtaken>>
     \/ /\ m.op \in {"ACK", "none"}
        /\ UNCHANGED <<tableVars, desc, connFd, running, toC, maker, overtaken>>
  /\ UNCHANGED <<clientVars, owner, hungUp, accepted, latest, created, total, arg,
                 hurried, used>>

Open(n) == th[n].pc = "recv" /\ desc[th[n].fd] \in Conns

Recv(n) ==
  /\ running /\ Open(n)
  /\ LET k == desc[th[n].fd]
         m == Head(toS[k])
     IN /\ toS[k] # <<>>
        /\ toS' = [toS EXCEPT ![k] = Tail(@)]
        /\ th' = [th EXCEPT ![n].last = m]
        /\ Handle(n, m)
  /\ UNCHANGED replays

\* End of file is not an error: recv returns 0 and the header received last is
\* executed again.  Only replays that change something are steps.
RecvAgain(n) ==
  /\ running /\ Open(n) /\ th[n].last.op \notin {"none", "ACK"}
  /\ replays < MaxReplays /\ replays' = replays + 1
  /\ LET k == desc[th[n].fd]
     IN /\ toS[k] = <<>> /\ k \in hungUp
        /\ Handle(n, th[n].last)
  /\ UNCHANGED <<toS, th>>

\* The descriptor is closed: recv fails and the thread returns.
RecvError(n) ==
  /\ running /\ th[n].pc = "recv" /\ desc[th[n].fd] = Shut
  /\ th' = [th EXCEPT ![n].pc = "gone"]
  /\ UNCHANGED <<clientVars, netVars, running, tableVars, accepted, desc, latest,
                 created, total, arg, connFd, histVars>>

\* --mkrelation on the server; the operator does it before the client asks.
MkRelationServer(p, size) ==
  /\ running /\ Use
  /\ \E q \in Slots : spart[q].id = p
  /\ ~srel[p].answered
  /\ RelateServer(p, size)
  /\ UNCHANGED <<clientVars, netVars, running, spart, srows, connVars, maker,
                 overtaken, hurried, replays>>

\* Everything sent has been worked off.
ServerIdle ==
  \/ ~running
  \/ /\ accepted = Len(owner) /\ Starting = {}
     /\ \A n \in Conns : Open(n) => toS[desc[th[n].fd]] = <<>>

\* SO_RCVTIMEO: recv_hdr stops the daemon.  30 seconds are enough for the server
\* to do what it has to do.
SynTimeout(c) ==
  /\ ctl[c].pc = "syn" /\ ServerIdle
  /\ toC[cpart[c][ctl[c].pid].sock] = <<>>
  /\ Die(c)
  /\ UNCHANGED <<cpart, crel, chdr, crows, owner, toS, toC, running, tableVars,
                 connVars, histVars>>

-----------------------------------------------------------------------------
ClientStep(c) ==
  \/ \E s \in Sizes : MkPartner(c, s)
  \/ \E p \in Pids, s \in Sizes : MkRelation(c, p, s)
  \/ RecvSynAck(c) \/ RecvEof(c) \/ SynTimeout(c)
  \/ RmPartner(c)
  \/ \E r \in Pids : RmRelation(c, r)
  \/ DbInfo(c)

ThreadStep(n) ==
  ThreadStart(n) \/ ThreadListen(n) \/ Recv(n) \/ RecvAgain(n) \/ RecvError(n)

PartnersNext ==
  \/ \E c \in Clients : ClientStep(c)
  \/ Accept
  \/ \E n \in Conns : ThreadStep(n)
  \/ \E p \in Pids, s \in Sizes : MkRelationServer(p, s)

\* Threads are scheduled; commands are up to the operators.
PartnersFairness ==
  /\ \A c \in Clients : WF_partnersVars(RecvSynAck(c) \/ RecvEof(c) \/ SynTimeout(c))
  /\ WF_partnersVars(Accept)
  /\ \A n \in Conns : WF_partnersVars(ThreadStart(n) \/ ThreadListen(n))
                      /\ WF_partnersVars(Recv(n)) /\ WF_partnersVars(RecvError(n))

PartnersSpec == PartnersInit /\ [][PartnersNext]_partnersVars /\ PartnersFairness

-----------------------------------------------------------------------------
(* Properties.                                                             *)

\* Every table entry, descriptor, message and thread is of the kind the code
\* keeps, and the server's tables have an entry to spare for every row.
States == {"FREE", "IN_USE", "RELEASED"}
Msg == [op : {"none", "MAKE_PARTNER", "SYN", "SYN_ACK", "ACK", "REMOVE_PARTNER",
              "RM_RELATION"},
        pid : Pids, size : Sizes \union {0}]
PartnersTypeOK ==
  /\ cpart \in [Clients -> [Pids -> [id : Pids, state : States, sock : 0 .. MaxConns]]]
  /\ crows \in [Clients -> Seq(Pids)]
  /\ ctl \in [Clients -> [pc : {"idle", "syn", "down"}, pid : Pids]]
  /\ owner \in Seq(Clients) /\ Len(owner) <= MaxConns /\ hungUp \subseteq DOMAIN owner
  /\ \A c \in Clients, p \in Pids : cpart[c][p].sock <= Len(owner)
  /\ \A c \in Clients : ctl[c].pc = "syn" => cpart[c][ctl[c].pid].sock # 0
  /\ toS \in [Conns -> Seq(Msg)] /\ toC \in [Conns -> Seq(Msg)]
  /\ running \in BOOLEAN /\ accepted \in 0 .. Len(owner)
  /\ desc \in [Fds -> Conns \union {0, Shut}] /\ latest \in Fds
  /\ spart \in [Slots -> [id : Pids, state : States, sock : Fds, ops : BOOLEAN]]
  /\ srel \in [Slots -> [state : States, answered : BOOLEAN]]
  /\ shdr \in [Slots -> Sizes \union {0}]
  /\ srows \in Seq(Pids) /\ Len(srows) + 1 \in Slots
  /\ arg \in [Slots -> [fd : Fds, pid : {0}]] /\ connFd \in [Slots -> Fds]
  /\ th \in [Conns -> [pc : {"none", "new", "set", "recv", "gone"}, slot : Slots,
                       fd : Fds, pid : {0}, last : Msg]]
  /\ maker \in [Slots -> Conns \union {0}]
  /\ replays \in 0 .. MaxReplays

\* Row number and id agree: no id was entered twice, by two clients or by a
\* MAKE_PARTNER executed again at the end of file, and none was left out.
RowsInOrder == \A i \in DOMAIN srows : srows[i] = i - 1

\* No MAKE_PARTNER came after a later accept, no connection was accepted while
\* another was starting or its descriptor was still in use, and the rows that
\* accept rereads are where it looks for them.
Calm == overtaken = {} /\ hurried = {} /\ RowsInOrder

\* While it is calm the entry of a partner leads back to the connection it was
\* made over, however often accept rereads the table by row number and reuses
\* descriptors: answers for a partner go to the client that made it.
OwnSocket ==
  Calm => \A p \in Pids : spart[p].ops =>
            spart[p].id = p /\ desc[spart[p].sock] = maker[p]

\* A client that is through with the negotiation works with the sizes that the
\* server uses for the partner.
Agreed ==
  Calm => \A c \in Clients, p \in Pids :
    /\ srel[p].answered /\ owner[maker[p]] = c /\ Idle(c)
    /\ crel[c][p].state = "IN_USE" /\ cpart[c][p].sock = maker[p]
    => crel[c][p].size = shdr[p]

\* A client gets no answer to its SYN only after such a disturbance.
StarvedOnlyIfDisturbed ==
  Calm => \A c \in Clients :
    ~(ctl[c].pc = "syn" /\ ServerIdle /\ toC[cpart[c][ctl[c].pid].sock] = <<>>)

\* Commands of the clients bring the server down only after such a disturbance.
ServerSurvives == Calm => running

\* Why the types hold.  A descriptor is open on one connection that was accepted,
\* and one is free for the next; a connection carries one MAKE_PARTNER, as its
\* first message, so that rows come from connections and from replays.
DescInv ==
  /\ \A f \in Fds : desc[f] \in Conns =>
       desc[f] <= accepted /\ \A g \in Fds : desc[g] = desc[f] => g = f
  /\ \A f \in Fds : desc[f] = 0 => f = Stdin
  /\ desc[latest] \in {accepted, Shut}
Asked(k) == toS[k] # <<>> /\ toS[k][1].op = "MAKE_PARTNER"
RowsInv ==
  /\ \A k \in Conns : k > Len(owner) => toS[k] = <<>>
  /\ \A k \in Conns : \A i \in DOMAIN toS[k] : toS[k][i].op = "MAKE_PARTNER" => i = 1
  /\ Len(srows) <= replays + Cardinality({k \in 1 .. Len(owner) : ~Asked(k)})

\* Why the properties hold.  While it is calm every connection has its own
\* thread, which receives from it until the partner is removed,
ThreadInv ==
  \A k \in Conns :
    LET t == th[k]
    IN /\ t.pc = "none" <=> k > accepted
       /\ t.pc \in {"none", "new", "set"} => t.last = NoMsg
       /\ t.pc \in {"new", "set"} => k = accepted /\ desc[latest] = k
       /\ t.pc = "new" => arg[t.slot].fd = latest
       /\ t.pc = "set" => connFd[t.pid] = latest
       /\ t.pc = "recv" => desc[t.fd] = IF t.last.op = "REMOVE_PARTNER" THEN Shut ELSE k
       /\ t.pc = "gone" => t.last.op = "REMOVE_PARTNER"

\* a partner has the descriptor of the connection that made it, and no other has
\* the same,
MakerInv ==
  \A p \in Slots : spart[p].ops =>
    /\ p < Len(srows) /\ spart[p].id = p
    /\ maker[p] \in Conns /\ desc[spart[p].sock] = maker[p]
    /\ th[maker[p]].last.op # "none"
    /\ \A q \in Slots : spart[q].ops /\ maker[q] = maker[p] => q = p

\* what comes over a connection is about one partner, which is there from the
\* first message to the last,
Serves(k, p) ==
  /\ \A c \in Clients, q \in Pids : cpart[c][q].sock = k => c = owner[k] /\ q = p
  /\ \A i \in DOMAIN toS[k] : toS[k][i].op # "ACK" => toS[k][i].pid = p
  /\ th[k].last.op \notin {"none", "ACK"} => th[k].last.pid = p
  /\ th[k].last.op # "none" => p < Len(srows) /\ srel[p].state # "FREE"
  /\ th[k].last.op \notin {"none", "REMOVE_PARTNER"} => spart[p].ops /\ maker[p] = k

\* and its messages follow the commands of the client: MAKE_PARTNER first,
\* REMOVE_PARTNER last, and no other while the client waits for its SYN_ACK.
AwaitsAck(k) ==
  /\ ctl[owner[k]].pc = "syn"
  /\ cpart[owner[k]][ctl[owner[k]].pid].sock = k
Ordered(k) ==
  LET last == th[k].last.op
      n    == Len(toS[k])
  IN /\ \A i \in 1 .. n :
          /\ toS[k][i].op \notin {"none", "SYN_ACK"}
          /\ toS[k][i].op = "MAKE_PARTNER" <=> i = 1 /\ last = "none"
          /\ toS[k][i].op = "SYN" => i = n /\ AwaitsAck(k) /\ toC[k] = <<>>
          /\ toS[k][i].op = "REMOVE_PARTNER" => i = n /\ k \in hungUp
     /\ last = "none" => n > 0
     /\ last = "SYN" /\ n = 0 => AwaitsAck(k) /\ toC[k] # <<>>
     /\ last = "REMOVE_PARTNER" => n = 0 /\ k \in hungUp
     /\ AwaitsAck(k) => IF toC[k] = <<>> THEN n > 0 /\ toS[k][n].op = "SYN" ELSE n = 0
     /\ toC[k] # <<>> => AwaitsAck(k) /\ Len(toC[k]) = 1
LineInv ==
  /\ \A k \in Conns : k > Len(owner) => toC[k] = <<>>
  /\ \A k \in 1 .. Len(owner) : Ordered(k) /\ \E p \in Pids : Serves(k, p)
  /\ \A c \in Clients : ctl[c].pc # "down" =>
       \A p \in Pids : cpart[c][p].sock \notin hungUp

PartnersInv ==
  /\ PartnersTypeOK /\ DescInv /\ RowsInv
  /\ Calm => running /\ ThreadInv /\ MakerInv /\ LineInv

\* A negotiation does not keep the control thread for ever.
NegotiationEnds ==
  \A c \in Clients : ctl[c].pc = "syn" ~> ctl[c].pc # "syn"
=============================================================================
