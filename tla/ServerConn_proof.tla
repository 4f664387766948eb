-------------------------- MODULE ServerConn_proof --------------------------
(***************************************************************************)
(* ServerInv is an invariant of ServerConn; DataToAsker and Survives        *)
(* follow.                                                                 *)
(*                                                                         *)
(* DataToAsker needs only that a socket in a slot belongs to the client of *)
(* the slot's partner (SocketInv) and that a disk is open on its own until *)
(* a read fails (DiskInv).  For Survives, CalmInv follows the one thread   *)
(* that each client can have while it is calm from its first header to the *)
(* pause; each action has a lemma, and Aside says that the step of one     *)
(* partner's thread is none of another partner's.                          *)
(***************************************************************************)
EXTENDS ServerConn, SequenceTheorems, WellFoundedInduction, TLAPS

-----------------------------------------------------------------------------
(* Numbers, the slot the accept loop stops at, and sequences.              *)

\* Descriptors, connections and partner ids are kept apart.
LEMMA Numbers ==
  /\ Pids \subseteq Slots /\ Pids \subseteq Int /\ Slots \subseteq Int
  /\ 0 \in Pids /\ Conns \subseteq Int /\ Conns \subseteq Sockets
  /\ Stdin \notin Conns /\ Listen \notin Conns /\ Shut \notin Conns
  /\ {Stdin, Listen, Shut} \subseteq Sockets /\ 1 .. NumPartners \subseteq Conns
  /\ -1 \notin Pids /\ Stdin # Listen /\ 0 \notin Conns
BY ServerConnAssumption DEF Pids, Slots, Conns, Sockets, Stdin, Listen, Shut

\* A set of natural numbers has a least one.
LEMMA LeastOf ==
  ASSUME NEW S, S \subseteq Nat, S # {} PROVE \E x \in S : \A y \in S : x <= y
<1> DEFINE R == OpToRel(<, Nat)
<1>1. IsWellFoundedOn(R, Nat)
  BY NatLessThanWellFounded
<1>2. PICK x \in S : \A y \in S : ~(<<y, x>> \in R)
  <2> HIDE DEF R
  <2> QED BY <1>1, WFMin
<1>3. ASSUME NEW y \in S PROVE x <= y
  <2>1. x \in Nat /\ y \in Nat
    OBVIOUS
  <2>2. y < x => <<y, x>> \in R
    BY <2>1 DEF OpToRel
  <2> HIDE DEF R
  <2> QED BY <1>2, <2>1, <2>2
<1> QED BY <1>3

\* The accept loop stops at a slot of the array, or one past it.
LEMMA SlotInRange == AcceptSlot \in Slots
<1> DEFINE stop == {p \in 0 .. NumPartners : Stops(p)}
<1>1. CASE stop = {}
  <2>1. AcceptSlot = NumPartners + 1
    BY <1>1 DEF AcceptSlot
  <2> QED BY <2>1, ServerConnAssumption DEF Slots
<1>2. CASE stop # {}
  <2>1. \E p \in stop : \A q \in stop : p <= q
    <3>1. stop \subseteq Nat /\ stop # {}
      BY <1>2, ServerConnAssumption
    <3> HIDE DEF stop
    <3> QED BY <3>1, LeastOf
  <2>2. AcceptSlot = CHOOSE p \in stop : \A q \in stop : p <= q
    BY <1>2 DEF AcceptSlot
  <2>3. AcceptSlot \in stop
    <3> HIDE DEF stop
    <3> QED BY <2>1, <2>2
  <2> QED BY <2>3, ServerConnAssumption DEF Slots
<1> QED BY <1>1, <1>2

\* A queue without its head.
LEMMA TailOf ==
  ASSUME NEW T, NEW s \in Seq(T), s # <<>>
  PROVE  /\ Tail(s) \in Seq(T) /\ Len(Tail(s)) = Len(s) - 1 /\ Head(s) \in T /\ Head(s) = s[1]
         /\ DOMAIN Tail(s) = 1 .. (Len(s) - 1) /\ DOMAIN s = 1 .. Len(s) /\ Len(s) \in Nat /\ Len(s) > 0
         /\ \A i \in 1 .. (Len(s) - 1) : Tail(s)[i] = s[i + 1]
<1>1. Len(s) \in Nat /\ Len(s) > 0 /\ DOMAIN s = 1 .. Len(s)
  BY EmptySeq
<1>2. Tail(s) \in Seq(T) /\ Len(Tail(s)) = Len(s) - 1 /\ Head(s) = s[1] /\ Head(s) \in T
  BY <1>1
<1>3. \A i \in 1 .. (Len(s) - 1) : Tail(s)[i] = s[i + 1]
  BY <1>1
<1> QED BY <1>1, <1>2, <1>3

\* A queue with one more.
LEMMA AppendOf ==
  ASSUME NEW T, NEW s \in Seq(T), NEW x \in T
  PROVE  /\ Append(s, x) \in Seq(T) /\ Len(Append(s, x)) = Len(s) + 1 /\ Len(s) \in Nat
         /\ DOMAIN s = 1 .. Len(s) /\ DOMAIN Append(s, x) = 1 .. (Len(s) + 1)
         /\ \A i \in 1 .. Len(s) : Append(s, x)[i] = s[i]
         /\ Append(s, x)[Len(s) + 1] = x
OBVIOUS

\* A client's record with its flag set or cleared.
LEMMA ClientRecord ==
  ASSUME NEW S, NEW r \in [conn : S, asked : BOOLEAN], NEW b \in BOOLEAN
  PROVE  /\ [r EXCEPT !.asked = b] \in [conn : S, asked : BOOLEAN]
         /\ [r EXCEPT !.asked = b].conn = r.conn /\ [r EXCEPT !.asked = b].asked = b
OBVIOUS

\* The steps of clients.
LEMMA ClientTypes ==
  ASSUME Types, NEW p \in Pids, Ask(p) \/ Receive(p) \/ Reset(p) \/ Notice(p)
  PROVE  Types'
<1> USE DEF connVars, boundVars, histVars, netVars
<1>0. cli[p].conn # 0 => cli[p].conn \in Conns
  BY SMTT(60), Numbers, ServerConnAssumption DEF Types, Conns
<1>1. CASE Ask(p)
  <2>1. req' \in [Conns -> Seq(Pids)]
    BY <1>0, <1>1, AppendOf DEF Ask, Types
  <2>2. cli' \in [Pids -> [conn : 0 .. made, asked : BOOLEAN]]
    <3>1. cli' = [cli EXCEPT ![p] = [cli[p] EXCEPT !.asked = TRUE]]
      BY <1>1 DEF Ask, Types
    <3>2. cli[p] \in [conn : 0 .. made, asked : BOOLEAN]
      BY DEF Types
    <3>3. [cli[p] EXCEPT !.asked = TRUE] \in [conn : 0 .. made, asked : BOOLEAN]
      BY <3>2, ClientRecord
    <3> QED BY <3>1, <3>3 DEF Types
  <2> QED BY <1>1, <2>1, <2>2 DEF Ask, Types
<1>2. CASE Receive(p)
  <2>1. inbox' \in [Conns -> Seq([pid : Pids, disk : Pids])]
    BY <1>0, <1>2, TailOf DEF Receive, Types
  <2>2. cli' \in [Pids -> [conn : 0 .. made, asked : BOOLEAN]]
    <3>1. cli' = [cli EXCEPT ![p] = [cli[p] EXCEPT !.asked = FALSE]]
      BY <1>2 DEF Receive, Types
    <3>2. cli[p] \in [conn : 0 .. made, asked : BOOLEAN]
      BY DEF Types
    <3>3. [cli[p] EXCEPT !.asked = FALSE] \in [conn : 0 .. made, asked : BOOLEAN]
      BY <3>2, ClientRecord
    <3> QED BY <3>1, <3>3 DEF Types
  <2> QED BY <1>2, <2>1, <2>2 DEF Receive, Types
<1>3. CASE Reset(p)
  <2>1. net' \in [Conns -> {"none", "open", "reset", "dead", "closed"}]
    BY <1>3 DEF Reset, Types
  <2>2. [conn |-> 0, asked |-> FALSE] \in [conn : 0 .. made, asked : BOOLEAN]
    BY ServerConnAssumption DEF Types
  <2>3. cli' \in [Pids -> [conn : 0 .. made, asked : BOOLEAN]]
    BY <1>3, <2>2 DEF Reset, Types
  <2>4. resets' \in Nat
    BY <1>3 DEF Reset, Types
  <2> QED BY <1>3, <2>1, <2>3, <2>4 DEF Reset, Types
<1>4. CASE Notice(p)
  <2>2. [conn |-> 0, asked |-> FALSE] \in [conn : 0 .. made, asked : BOOLEAN]
    BY ServerConnAssumption DEF Types
  <2>3. cli' \in [Pids -> [conn : 0 .. made, asked : BOOLEAN]]
    BY <1>4, <2>2 DEF Notice, Types
  <2> QED BY <1>4, <2>3 DEF Notice, Types
<1> QED BY <1>1, <1>2, <1>3, <1>4

\* The accept loop.
LEMMA AcceptTypes ==
  ASSUME Types, NEW p \in Pids, Accept(p)
  PROVE  Types'
<1> DEFINE c == made + 1
<1> DEFINE s == AcceptSlot
<1>0. made \in Nat /\ c \in Conns /\ c \in NumPartners .. MaxConns /\ 0 .. made \subseteq 0 .. c
  BY ServerConnAssumption DEF Accept, Types, Conns
<1>1. s \in Slots
  BY SlotInRange
<1>2. /\ made' = c /\ owner' = Append(owner, p) /\ net' = [net EXCEPT ![c] = "open"]
      /\ cli' = [cli EXCEPT ![p].conn = c] /\ tid' = [tid EXCEPT ![s] = c]
      /\ th' = [th EXCEPT ![c] = [pc |-> "recv", pid |-> arg'[s]]]
      /\ conn_fd' = [conn_fd EXCEPT ![arg'[s]] = c]
      /\ swapped' = (swapped \/ (WantsSocket(s) /\ s # p))
      /\ UNCHANGED <<up, req, inbox, last, disk, resets, readErrs, cut>>
  BY DEF Accept, boundVars
<1>3. Resume(s, c) \/ Occupy(s) \/ UNCHANGED <<sock, sockFd, obj, sock_recovery, arg, partner_created, total_conn>>
  BY DEF Accept
<1> HIDE DEF c, s
<1>4. /\ sock' \in [Slots -> Sockets] /\ sockFd' \in [Slots -> {Stdin, Listen}]
      /\ obj' \in [Slots -> {"IN_USE", "PAUSE", "RESUME"}] /\ sock_recovery' \in [Slots -> BOOLEAN]
      /\ partner_created' \in [Slots -> BOOLEAN] /\ total_conn' \in Nat /\ arg' \in [Slots -> Slots]
  <2>1. CASE Resume(s, c)
    BY SMTT(60), <2>1, <1>0, <1>1, Numbers DEF Resume, Types
  <2>2. CASE Occupy(s)
    BY <2>2, <1>1 DEF Occupy, Types
  <2>3. CASE UNCHANGED <<sock, sockFd, obj, sock_recovery, arg, partner_created, total_conn>>
    BY <2>3 DEF Types
  <2> QED BY <1>3, <2>1, <2>2, <2>3
<1>5. arg'[s] \in Slots
  BY <1>1, <1>4
<1>6. th' \in [Conns -> [pc : ThreadPcs, pid : Slots]]
  BY <1>0, <1>2, <1>5 DEF Types, ThreadPcs
<1>7. conn_fd' \in [Slots -> Sockets]
  BY <1>0, <1>2, <1>5, Numbers DEF Types
<1>8. owner' \in Seq(Pids) /\ Len(owner') = made'
  BY <1>0, <1>2, AppendOf DEF Types, c
<1>9. tid' \in [Slots -> 0 .. made'] /\ cli' \in [Pids -> [conn : 0 .. made', asked : BOOLEAN]]
  <2>1. c \in 0 .. made' /\ 0 .. made \subseteq 0 .. made'
    BY <1>0, <1>2 DEF c
  <2>2. tid' \in [Slots -> 0 .. made']
    BY <1>1, <1>2, <2>1 DEF Types
  <2>3. \A q \in Pids : cli'[q] \in [conn : 0 .. made', asked : BOOLEAN]
    BY ZenonT(60), <1>2, <2>1 DEF Types
  <2> QED BY <1>2, <2>2, <2>3 DEF Types
<1>10. net' \in [Conns -> {"none", "open", "reset", "dead", "closed"}] /\ swapped' \in BOOLEAN
  BY <1>0, <1>2 DEF Types
<1> QED BY <1>0, <1>2, <1>4, <1>6, <1>7, <1>8, <1>9, <1>10 DEF Types

-----------------------------------------------------------------------------
(* Types.                                                                  *)

Threads == [pc : ThreadPcs, pid : Slots]
Nets == {"none", "open", "reset", "dead", "closed"}

\* What the thread of connection f becomes when its descriptor is closed.
Closed(T, f) == [T EXCEPT ![f].pc = IF @ = "recv" THEN "eof" ELSE @]

\* One thread goes on to x, for partner p.
LEMMA GoStep ==
  ASSUME Types, NEW c \in Conns, NEW x \in ThreadPcs, NEW p \in Slots
  PROVE  /\ Go(c, x, p) \in [Conns -> Threads]
         /\ Go(c, x, p)[c] = [pc |-> x, pid |-> p]
         /\ \A t \in Conns \ {c} : Go(c, x, p)[t] = th[t]
<1>1. [pc |-> x, pid |-> p] \in Threads
  BY DEF Threads
<1> QED BY <1>1 DEF Go, Types, Threads

\* A thread's record with another program counter.
LEMMA ThreadRecord ==
  ASSUME Types, NEW t \in Conns, NEW x \in ThreadPcs
  PROVE  /\ th[t] \in Threads /\ [th[t] EXCEPT !.pc = x] \in Threads
         /\ [th[t] EXCEPT !.pc = x].pc = x /\ [th[t] EXCEPT !.pc = x].pid = th[t].pid
<1>1. th[t] \in Threads
  BY DEF Types, Threads
<1> QED BY <1>1 DEF Threads

\* The thread of a closed descriptor, and every other one.
LEMMA ClosedStep ==
  ASSUME NEW T \in [Conns -> Threads], NEW f \in Conns
  PROVE  /\ Closed(T, f) \in [Conns -> Threads]
         /\ \A t \in Conns : /\ Closed(T, f)[t].pid = T[t].pid
                             /\ Closed(T, f)[t].pc =
                                  IF t = f /\ T[t].pc = "recv" THEN "eof" ELSE T[t].pc
<1>1. T[f] \in Threads
  OBVIOUS
<1>2. PICK x \in ThreadPcs : /\ x = IF T[f].pc = "recv" THEN "eof" ELSE T[f].pc
  BY <1>1 DEF Threads, ThreadPcs
<1>3. Closed(T, f) = [T EXCEPT ![f] = [T[f] EXCEPT !.pc = x]]
  BY <1>2 DEF Closed
<1>4. [T[f] EXCEPT !.pc = x] \in Threads /\ [T[f] EXCEPT !.pc = x].pid = T[f].pid
      /\ [T[f] EXCEPT !.pc = x].pc = x
  BY <1>1 DEF Threads
<1> QED BY <1>2, <1>3, <1>4

\* Receiving, and the ends of the sleeps of get_data.
LEMMA RecvTypes ==
  ASSUME Types, NEW c \in Conns, Recv(c) \/ RecvEof(c) \/ SendFailEnds(c) \/ ReadFailEnds(c)
  PROVE  Types'
<1> USE DEF connVars, boundVars, histVars, netVars
<1>0. th[c].pid \in Slots /\ last[c] \in Pids \cup {-1} /\ Pids \subseteq Slots
  BY Numbers DEF Types
<1>1. CASE Recv(c)
  <2>1. Head(req[c]) \in Pids /\ Tail(req[c]) \in Seq(Pids)
    BY <1>1, TailOf DEF Recv, Types
  <2>2. th' \in [Conns -> Threads]
    <3>1. th' = Go(c, "read", Head(req[c])) /\ Head(req[c]) \in Slots /\ "read" \in ThreadPcs
      BY <1>0, <1>1, <2>1 DEF Recv, ThreadPcs
    <3> QED BY <3>1, GoStep
  <2>3. req' \in [Conns -> Seq(Pids)] /\ last' \in [Conns -> Pids \cup {-1}]
    BY <1>1, <2>1 DEF Recv, Types
  <2> QED BY <1>1, <2>2, <2>3 DEF Recv, Types, Threads
<1>2. CASE RecvEof(c)
  <2>1. th' \in [Conns -> Threads]
    <3>1. PICK x \in ThreadPcs, p \in Slots : th' = Go(c, x, p)
      BY <1>0, <1>2 DEF RecvEof, ThreadPcs
    <3> QED BY <3>1, GoStep
  <2> QED BY <1>2, <2>1 DEF RecvEof, Types, Threads
<1>3. CASE SendFailEnds(c)
  <2>1. th' \in [Conns -> Threads]
    <3>1. th' = Go(c, "recv", th[c].pid) /\ "recv" \in ThreadPcs
      BY <1>3 DEF SendFailEnds, ThreadPcs
    <3> QED BY <3>1, <1>0, GoStep
  <2>2. conn_fd' \in [Slots -> Sockets]
    BY <1>3, Numbers DEF SendFailEnds, Types
  <2> QED BY <1>3, <2>1, <2>2 DEF SendFailEnds, Types, Threads
<1>4. CASE ReadFailEnds(c)
  <2>1. th' \in [Conns -> Threads]
    <3>1. th' = Go(c, "send", th[c].pid) /\ "send" \in ThreadPcs
      BY <1>4 DEF ReadFailEnds, ThreadPcs
    <3> QED BY <3>1, <1>0, GoStep
  <2>2. conn_fd' \in [Slots -> Sockets] /\ partner_created' \in [Slots -> BOOLEAN]
    BY <1>4, Numbers DEF ReadFailEnds, Types
  <2> QED BY <1>4, <2>1, <2>2 DEF ReadFailEnds, Types, Threads
<1> QED BY <1>1, <1>2, <1>3, <1>4

\* An error of a recv.
LEMMA RecvErrorTypes ==
  ASSUME Types, NEW c \in Conns, RecvError(c)
  PROVE  Types'
<1> DEFINE p == last[c]
<1> DEFINE seen == [net EXCEPT ![c] = IF @ = "reset" THEN "dead" ELSE @]
<1>0. th[c].pid \in Slots /\ last[c] \in Pids \cup {-1} /\ Pids \subseteq Slots
      /\ seen \in [Conns -> Nets] /\ "gone" \in ThreadPcs /\ "sleepE" \in ThreadPcs
  BY Numbers DEF Types, Nets, ThreadPcs
<1>1. UNCHANGED <<up, made, owner, req, inbox, cli, last, sock, sockFd, obj,
                 sock_recovery, total_conn, arg, tid, disk, resets, readErrs, swapped>>
  BY DEF RecvError, boundVars, histVars
<1>2. CASE p = -1
  <2>1. net' = seen /\ th' = Go(c, "gone", th[c].pid) /\ UNCHANGED <<partner_created, conn_fd>>
    BY <1>2 DEF RecvError
  <2>2. th' \in [Conns -> Threads]
    BY <1>0, <2>1, GoStep
  <2> HIDE DEF seen
  <2> QED BY <1>0, <1>1, <2>1, <2>2 DEF Types, Nets, Threads
<1>3. CASE p # -1
  <2>1. /\ partner_created' = [partner_created EXCEPT ![p] = FALSE]
        /\ conn_fd' = [conn_fd EXCEPT ![p] = Shut]
        /\ \/ /\ conn_fd[p] \in Conns
              /\ net' = [seen EXCEPT ![conn_fd[p]] = "closed"]
              /\ th' = Closed(Go(c, "sleepE", p), conn_fd[p])
           \/ net' = seen /\ th' = Go(c, "sleepE", p)
    BY <1>3 DEF RecvError, Closed
  <2>2. Go(c, "sleepE", p) \in [Conns -> Threads]
    BY <1>0, <1>3, GoStep
  <2>3. th' \in [Conns -> Threads]
    BY <2>1, <2>2, ClosedStep
  <2>4. net' \in [Conns -> Nets]
    <3> HIDE DEF seen
    <3> QED BY <1>0, <2>1 DEF Nets
  <2>5. conn_fd' \in [Slots -> Sockets] /\ partner_created' \in [Slots -> BOOLEAN]
    BY <1>0, <2>1, Numbers DEF Types
  <2> HIDE DEF seen
  <2> QED BY <1>0, <1>1, <2>3, <2>4, <2>5 DEF Types, Nets, Threads
<1> QED BY <1>2, <1>3

\* The end of its minute.
LEMMA RecvErrorEndsTypes ==
  ASSUME Types, NEW c \in Conns, RecvErrorEnds(c)
  PROVE  Types'
<1>1. th' \in [Conns -> Threads]
  <2>1. \A t \in Conns : th[t] \in Threads /\ [th[t] EXCEPT !.pc = "gone"] \in Threads
    BY ThreadRecord DEF ThreadPcs
  <2> QED BY <2>1 DEF RecvErrorEnds
<1>2. /\ obj' \in [Slots -> {"IN_USE", "PAUSE", "RESUME"}] /\ sock_recovery' \in [Slots -> BOOLEAN]
      /\ partner_created' \in [Slots -> BOOLEAN]
  BY DEF RecvErrorEnds, Types
<1> QED BY <1>1, <1>2 DEF RecvErrorEnds, Types, Threads, netVars, boundVars

\* A failed read of the source disk.
LEMMA ReadFailsTypes ==
  ASSUME Types, NEW c \in Conns, ReadFails(c), ConnInv(c)
  PROVE  Types'
<1> DEFINE p == th[c].pid
<1>0. p \in Pids /\ p \in Slots
  BY Numbers DEF ConnInv, ReadFails
<1>1. Go(c, "sleepR", p) \in [Conns -> Threads]
  BY <1>0, GoStep DEF ThreadPcs
<1>2. th' \in [Conns -> Threads] /\ net' \in [Conns -> Nets]
  <2>1. CASE conn_fd[p] \notin Conns
    BY <1>1, <2>1 DEF ReadFails, CloseFd, Types, Nets
  <2>2. CASE conn_fd[p] \in Conns
    <3>1. th' = Closed(Go(c, "sleepR", p), conn_fd[p]) /\ net' = [net EXCEPT ![conn_fd[p]] = "closed"]
      BY <2>2 DEF ReadFails, CloseFd, Closed
    <3> QED BY <1>1, <2>2, <3>1, ClosedStep DEF Types, Nets
  <2> QED BY <2>1, <2>2
<1>3. disk' \in [Pids -> [state : {"IN_USE", "PAUSE", "RESUME"}, open : Pids]]
  <2>1. disk[p] \in [state : {"IN_USE", "PAUSE", "RESUME"}, open : Pids]
    BY <1>0 DEF Types
  <2>2. [disk[p] EXCEPT !.state = "PAUSE"] \in [state : {"IN_USE", "PAUSE", "RESUME"}, open : Pids]
    BY <2>1
  <2>3. disk' = [disk EXCEPT ![p] = [disk[p] EXCEPT !.state = "PAUSE"]]
    BY DEF ReadFails
  <2> QED BY <2>2, <2>3 DEF Types
<1>4. /\ obj' \in [Slots -> {"IN_USE", "PAUSE", "RESUME"}] /\ sock_recovery' \in [Slots -> BOOLEAN]
      /\ readErrs' \in Nat
  BY DEF ReadFails, Paused, Types
<1> QED BY <1>2, <1>3, <1>4 DEF ReadFails, Types, Threads, Nets, histVars

\* The three outcomes of chunk_write.
LEMMA SendTypes ==
  ASSUME Types, NEW c \in Conns, SendChunk(c) \/ SendFails(c) \/ SendKills(c), ConnInv(c)
  PROVE  Types'
<1> USE DEF connVars, boundVars, histVars, netVars
<1> DEFINE p == th[c].pid
<1>0. p \in Pids /\ p \in Slots
  BY Numbers DEF ConnInv, SendChunk, SendFails, SendKills
<1>1. CASE SendChunk(c)
  <2>1. Go(c, "recv", p) \in [Conns -> Threads]
    BY <1>0, GoStep DEF ThreadPcs
  <2>2. inbox' \in [Conns -> Seq([pid : Pids, disk : Pids])]
    <3> DEFINE r == [pid |-> p, disk |-> disk[p].open]
    <3> DEFINE f == sock[p]
    <3>1. r \in [pid : Pids, disk : Pids]
      BY <1>0 DEF Types
    <3>2. f \in Conns /\ inbox' = [inbox EXCEPT ![f] = Append(inbox[f], r)]
      BY <1>1 DEF SendChunk, Deliver, ReplySocket
    <3>3. Append(inbox[f], r) \in Seq([pid : Pids, disk : Pids])
      BY <3>1, <3>2, AppendOf DEF Types
    <3> HIDE DEF r, f
    <3> QED BY <3>2, <3>3 DEF Types
  <2> QED BY <1>1, <2>1, <2>2 DEF SendChunk, Types, Threads
<1>2. CASE SendFails(c)
  <2>1. th' \in [Conns -> Threads]
    <3>1. \A t \in Conns : th[t] \in Threads /\ [th[t] EXCEPT !.pc = "eof"] \in Threads
      BY ThreadRecord DEF ThreadPcs
    <3>2. [pc |-> "sleepW", pid |-> p] \in Threads
      BY <1>0 DEF Threads, ThreadPcs
    <3> QED BY <1>2, <3>1, <3>2 DEF SendFails
  <2>2. net' \in [Conns -> Nets]
    BY <1>2 DEF SendFails, Types, Nets
  <2>3. /\ obj' \in [Slots -> {"IN_USE", "PAUSE", "RESUME"}] /\ sock_recovery' \in [Slots -> BOOLEAN]
        /\ partner_created' \in [Slots -> BOOLEAN] /\ total_conn' \in Nat
    BY <1>2 DEF SendFails, Paused, Types
  <2> QED BY <1>2, <2>1, <2>2, <2>3 DEF SendFails, Types, Threads, Nets
<1>3. CASE SendKills(c)
  BY <1>3 DEF SendKills, Types
<1> QED BY <1>1, <1>2, <1>3

\* The recovery thread.
LEMMA RecoverTypes ==
  ASSUME Types, NEW p \in Pids, RecoverConn(p) \/ RecoverDisk(p) \/ RecoverDiskFails(p)
  PROVE  Types'
<1> USE DEF connVars, boundVars, histVars, netVars
<1>1. CASE RecoverConn(p)
  <2>1. sock' \in [Slots -> Sockets]
    BY <1>1, Numbers DEF RecoverConn, Types
  <2> QED BY <1>1, <2>1 DEF RecoverConn, Types
<1>2. CASE RecoverDisk(p)
  <2>1. disk' \in [Pids -> [state : {"IN_USE", "PAUSE", "RESUME"}, open : Pids]]
    <3>1. PICK i \in Pids : disk' = [disk EXCEPT ![p] = [state |-> "RESUME", open |-> i]]
      BY <1>2 DEF RecoverDisk
    <3>2. [state |-> "RESUME", open |-> i] \in [state : {"IN_USE", "PAUSE", "RESUME"}, open : Pids]
      OBVIOUS
    <3> QED BY <3>1, <3>2 DEF Types
  <2> QED BY <1>2, <2>1 DEF RecoverDisk, Types
<1>3. CASE RecoverDiskFails(p)
  BY <1>3 DEF RecoverDiskFails, Types
<1> QED BY <1>1, <1>2, <1>3

\* Every step keeps the types.
LEMMA TypesKept ==
  ASSUME Types, \A c \in Conns : ConnInv(c), Next
  PROVE  Types'
<1>1. ASSUME NEW p \in Pids, \/ Ask(p) \/ Receive(p) \/ Reset(p) \/ Notice(p) \/ Accept(p)
                             \/ RecoverConn(p) \/ RecoverDisk(p) \/ RecoverDiskFails(p)
      PROVE  Types'
  BY <1>1, ClientTypes, AcceptTypes, RecoverTypes
<1>2. ASSUME NEW c \in Conns, ThreadStep(c)
      PROVE  Types'
  BY <1>2, RecvTypes, RecvErrorTypes, RecvErrorEndsTypes, ReadFailsTypes, SendTypes DEF ThreadStep
<1> QED BY <1>1, <1>2 DEF Next

-----------------------------------------------------------------------------
(* Threads and connections.                                                *)

\* Where a thread works for a partner.
Working == {"read", "send", "sleepE", "sleepW", "sleepR"}

\* What the thread of connection c sees and does on an error.
LEMMA RecvErrorStep ==
  ASSUME Types, NEW c \in Conns, RecvError(c)
  PROVE  /\ th'[c].pc = IF last[c] = -1 THEN "gone" ELSE "sleepE"
         /\ th'[c].pid = IF last[c] = -1 THEN th[c].pid ELSE last[c]
         /\ \A t \in Conns \ {c} :
              /\ th'[t].pid = th[t].pid
              /\ th'[t].pc = IF last[c] # -1 /\ t = conn_fd[last[c]] /\ th[t].pc = "recv"
                             THEN "eof" ELSE th[t].pc
         /\ \A t \in Conns :
              net'[t] = IF last[c] # -1 /\ t = conn_fd[last[c]] THEN "closed"
                        ELSE IF t = c /\ net[c] = "reset" THEN "dead" ELSE net[t]
<1> DEFINE p == last[c]
<1> DEFINE seen == [net EXCEPT ![c] = IF @ = "reset" THEN "dead" ELSE @]
<1>0. th[c].pid \in Slots /\ last[c] \in Pids \cup {-1} /\ Pids \subseteq Slots
      /\ "gone" \in ThreadPcs /\ "sleepE" \in ThreadPcs
  BY Numbers DEF Types, ThreadPcs
<1>1. seen \in [Conns -> Nets] /\ \A t \in Conns : seen[t] = IF t = c /\ net[c] = "reset" THEN "dead" ELSE net[t]
  BY DEF Types, Nets
<1>2. CASE p = -1
  <2>1. net' = seen /\ th' = Go(c, "gone", th[c].pid)
    BY <1>2 DEF RecvError
  <2>2. th'[c] = [pc |-> "gone", pid |-> th[c].pid] /\ \A t \in Conns \ {c} : th'[t] = th[t]
    BY <1>0, <2>1, GoStep
  <2> HIDE DEF seen
  <2> QED BY <1>1, <1>2, <2>1, <2>2
<1>3. CASE p # -1
  <2> DEFINE G == Go(c, "sleepE", p)
  <2>1. /\ G \in [Conns -> Threads] /\ G[c] = [pc |-> "sleepE", pid |-> p]
        /\ \A t \in Conns \ {c} : G[t] = th[t]
    BY <1>0, <1>3, GoStep
  <2>2. CASE conn_fd[p] \in Conns
    <3>1. net' = [seen EXCEPT ![conn_fd[p]] = "closed"] /\ th' = Closed(G, conn_fd[p])
      BY <1>3, <2>2 DEF RecvError, Closed
    <3>2. \A t \in Conns : /\ th'[t].pid = G[t].pid
                           /\ th'[t].pc = IF t = conn_fd[p] /\ G[t].pc = "recv" THEN "eof" ELSE G[t].pc
      <4> HIDE DEF G
      <4> QED BY <2>1, <2>2, <3>1, ClosedStep
    <3>3. \A t \in Conns : net'[t] = IF t = conn_fd[p] THEN "closed" ELSE seen[t]
      <4> HIDE DEF seen
      <4> QED BY <1>1, <3>1
    <3> HIDE DEF G, seen
    <3> QED BY <1>1, <1>3, <2>1, <3>2, <3>3
  <2>3. CASE conn_fd[p] \notin Conns
    <3>1. net' = seen /\ th' = G
      BY <1>3, <2>3 DEF RecvError
    <3> HIDE DEF G, seen
    <3> QED BY <1>1, <1>3, <2>1, <2>3, <3>1
  <2> QED BY <2>2, <2>3
<1> QED BY <1>2, <1>3

\* A thread at work changes no other one but by closing its descriptor or cancelling it.
LEMMA OtherThreads ==
  ASSUME Types, NEW c \in Conns, ThreadStep(c), ConnInv(c)
  PROVE  /\ c <= made /\ th'[c].pc # "none" /\ (th'[c].pc \in Working => th'[c].pid \in Pids)
         /\ \A t \in Conns \ {c} :
              /\ th'[t].pid = th[t].pid
              /\ \/ th'[t].pc = th[t].pc
                 \/ th[t].pc = "recv" /\ th'[t].pc = "eof"
                 \/ th[t].pc # "none" /\ th'[t].pc = "gone"
<1> DEFINE p == th[c].pid
<1>0. p \in Slots /\ last[c] \in Pids \cup {-1} /\ Pids \subseteq Slots /\ made \in Int /\ c \in Int
      /\ \A t \in Conns : th[t] \in Threads
  BY Numbers DEF Types, Threads
<1>1. th[c].pc # "none" /\ (th[c].pc \in Working => p \in Pids)
  BY DEF ThreadStep, Recv, RecvEof, RecvError, RecvErrorEnds, ReadFails, ReadFailEnds,
         SendChunk, SendFails, SendFailEnds, SendKills, ConnInv, Working
<1>2. c <= made
  BY <1>0, <1>1 DEF ConnInv
<1>3. CASE \E x \in ThreadPcs \ {"none"}, q \in Slots : th' = Go(c, x, q) /\ (x \in Working => q \in Pids)
  <2>1. PICK x \in ThreadPcs \ {"none"}, q \in Slots : th' = Go(c, x, q) /\ (x \in Working => q \in Pids)
    BY <1>3
  <2>2. th'[c] = [pc |-> x, pid |-> q] /\ \A t \in Conns \ {c} : th'[t] = th[t]
    BY <2>1, GoStep
  <2> QED BY <1>2, <2>1, <2>2
<1>4. CASE Recv(c)
  <2>1. Head(req[c]) \in Pids
    BY <1>4, TailOf DEF Recv, Types
  <2> QED BY <1>0, <1>3, <1>4, <2>1 DEF Recv, ThreadPcs
<1>5. CASE RecvEof(c) \/ SendFailEnds(c) \/ ReadFailEnds(c) \/ SendChunk(c)
  BY <1>0, <1>1, <1>3, <1>5 DEF RecvEof, SendFailEnds, ReadFailEnds, SendChunk, ThreadPcs, Working
<1>6. CASE RecvError(c)
  BY <1>0, <1>2, <1>6, RecvErrorStep DEF Working
<1>7. CASE RecvErrorEnds(c)
  <2>1. \A t \in Conns : [th[t] EXCEPT !.pc = "gone"].pc = "gone" /\ [th[t] EXCEPT !.pc = "gone"].pid = th[t].pid
    BY ThreadRecord DEF ThreadPcs
  <2>2. \A t \in Conns : th'[t] = th[t] \/ (th'[t] = [th[t] EXCEPT !.pc = "gone"] /\ th[t].pc # "none")
    BY <1>1, <1>7 DEF RecvErrorEnds
  <2>3. th'[c] = [th[c] EXCEPT !.pc = "gone"]
    BY <1>7 DEF RecvErrorEnds
  <2> QED BY <1>2, <2>1, <2>2, <2>3 DEF Working
<1>8. CASE ReadFails(c)
  <2> DEFINE G == Go(c, "sleepR", p)
  <2>1. p \in Pids
    BY <1>1, <1>8 DEF ReadFails, Working
  <2>2. G \in [Conns -> Threads] /\ G[c] = [pc |-> "sleepR", pid |-> p]
        /\ \A t \in Conns \ {c} : G[t] = th[t]
    BY <1>0, GoStep DEF ThreadPcs
  <2>3. CASE conn_fd[p] \notin Conns
    <3>1. th' = G
      BY <1>8, <2>3 DEF ReadFails, CloseFd
    <3> HIDE DEF G
    <3> QED BY <1>2, <2>1, <2>2, <3>1
  <2>4. CASE conn_fd[p] \in Conns
    <3>1. th' = Closed(G, conn_fd[p])
      BY <1>8, <2>4 DEF ReadFails, CloseFd, Closed
    <3>2. \A t \in Conns : /\ th'[t].pid = G[t].pid
                           /\ th'[t].pc = IF t = conn_fd[p] /\ G[t].pc = "recv" THEN "eof" ELSE G[t].pc
      <4> HIDE DEF G
      <4> QED BY <2>2, <2>4, <3>1, ClosedStep
    <3> HIDE DEF G
    <3> QED BY <1>2, <2>1, <2>2, <3>2
  <2> QED BY <2>3, <2>4
<1>9. CASE SendFails(c)
  <2>1. p \in Pids
    BY <1>1, <1>9 DEF SendFails, Working
  <2>2. th'[c] = [pc |-> "sleepW", pid |-> p]
    BY <1>9 DEF SendFails
  <2>3. \A t \in Conns : [th[t] EXCEPT !.pc = "eof"].pc = "eof" /\ [th[t] EXCEPT !.pc = "eof"].pid = th[t].pid
    BY ThreadRecord DEF ThreadPcs
  <2>4. \A t \in Conns \ {c} : th'[t] = th[t] \/ (th'[t] = [th[t] EXCEPT !.pc = "eof"] /\ th[t].pc = "recv")
    BY <1>9 DEF SendFails
  <2>5. ASSUME NEW t \in Conns \ {c}
        PROVE  th'[t].pid = th[t].pid /\ (th'[t].pc = th[t].pc \/ (th[t].pc = "recv" /\ th'[t].pc = "eof"))
    BY <2>3, <2>4
  <2>6. th'[c].pc # "none" /\ th'[c].pid \in Pids
    BY <2>1, <2>2
  <2> QED BY <1>2, <2>5, <2>6
<1>10. CASE SendKills(c)
  BY <1>1, <1>2, <1>10 DEF SendKills
<1> QED BY <1>4, <1>5, <1>6, <1>7, <1>8, <1>9, <1>10 DEF ThreadStep

\* What no thread touches, and what it touches of its own connection.
LEMMA ThreadFrame ==
  ASSUME Types, SocketInv, NEW c \in Conns, ThreadStep(c), ConnInv(c)
  PROVE  /\ UNCHANGED <<made, owner, cli, sock, sockFd, arg, tid, early, swapped>>
         /\ readErrs' = readErrs \/ readErrs' > 0
         /\ \A t \in Conns \ {c} : last'[t] = last[t] /\ req'[t] = req[t]
         /\ \A t \in Conns : t > made => inbox'[t] = inbox[t]
<1> USE DEF connVars, boundVars, histVars, netVars
<1>1. CASE SendChunk(c)
  <2> DEFINE f == sock[th[c].pid]
  <2>1. f \in Conns /\ th[c].pid \in Slots
    BY <1>1, Numbers DEF SendChunk, ReplySocket, Types
  <2>2. f <= made
    BY <2>1 DEF SocketInv
  <2>3. inbox' = [inbox EXCEPT ![f] = Append(@, [pid |-> th[c].pid, disk |-> disk[th[c].pid].open])]
    BY <1>1 DEF SendChunk, Deliver, ReplySocket
  <2> HIDE DEF f
  <2>4. \A t \in Conns : t > made => inbox'[t] = inbox[t]
    BY <2>1, <2>2, <2>3, Numbers DEF Types
  <2> QED BY <1>1, <2>4 DEF SendChunk
<1>2. CASE Recv(c)
  BY <1>2 DEF Recv, Types
<1>3. CASE RecvEof(c) \/ RecvError(c) \/ RecvErrorEnds(c) \/ ReadFailEnds(c) \/ SendFailEnds(c)
  BY <1>3 DEF RecvEof, RecvError, RecvErrorEnds, ReadFailEnds, SendFailEnds
<1>4. CASE ReadFails(c) \/ SendFails(c) \/ SendKills(c)
  BY <1>4 DEF ReadFails, SendFails, SendKills, Types
<1> QED BY <1>1, <1>2, <1>3, <1>4 DEF ThreadStep

\* A connection not made yet stays untouched, and a working thread has a partner.
LEMMA ConnKept ==
  ASSUME Types, SocketInv, \A c \in Conns : ConnInv(c), Next, NEW d \in Conns
  PROVE  ConnInv(d)'
<1> USE DEF connVars, boundVars, histVars, netVars
<1>1. ASSUME NEW c \in Conns, ThreadStep(c)
      PROVE  ConnInv(d)'
  <2>1. ConnInv(c) /\ ConnInv(d) /\ c \in Int /\ d \in Int /\ made \in Int
    BY Numbers DEF Types
  <2>2. c <= made
    BY <1>1, <2>1, OtherThreads
  <2>3. CASE d = c
    BY <1>1, <2>1, <2>2, <2>3, OtherThreads, ThreadFrame DEF ConnInv, Working
  <2>4. CASE d # c
    <3>1. /\ th'[d].pid = th[d].pid
          /\ \/ th'[d].pc = th[d].pc
             \/ th[d].pc = "recv" /\ th'[d].pc = "eof"
             \/ th[d].pc # "none" /\ th'[d].pc = "gone"
      BY <1>1, <2>1, <2>4, OtherThreads
    <3>2. made' = made /\ last'[d] = last[d] /\ req'[d] = req[d] /\ (d > made => inbox'[d] = inbox[d])
      BY <1>1, <2>1, <2>4, ThreadFrame
    <3> QED BY <2>1, <3>1, <3>2 DEF ConnInv
  <2> QED BY <2>3, <2>4
<1>2. ASSUME NEW p \in Pids, Accept(p)
      PROVE  ConnInv(d)'
  <2> DEFINE c == made + 1
  <2>0. made \in Int /\ d \in Int /\ ConnInv(d)
    BY ServerConnAssumption, Numbers DEF Types
  <2>1. c \in Conns /\ made' = c /\ made \in Int /\ d \in Int /\ ConnInv(d)
    BY SMTT(60), <1>2, <2>0, ServerConnAssumption DEF Accept, Types, Conns
  <2>2. /\ \A t \in Conns \ {c} : th'[t] = th[t]
        /\ th'[c].pc = "recv" /\ UNCHANGED <<last, req, inbox>>
    BY <1>2, <2>1 DEF Accept, Types
  <2> QED BY <2>1, <2>2 DEF ConnInv
<1>3. ASSUME NEW p \in Pids, Ask(p) \/ Receive(p)
      PROVE  ConnInv(d)'
  <2>1. cli[p].conn \in 0 .. made /\ cli[p].conn # 0 /\ made \in Int /\ d \in Int /\ ConnInv(d)
    BY <1>3, Numbers DEF Ask, Receive, Types
  <2>2. UNCHANGED <<made, th, last>> /\ (d # cli[p].conn => req'[d] = req[d] /\ inbox'[d] = inbox[d])
    BY <1>3 DEF Ask, Receive, Types
  <2> QED BY <2>1, <2>2 DEF ConnInv
<1>4. ASSUME NEW p \in Pids, \/ Reset(p) \/ Notice(p)
                             \/ RecoverConn(p) \/ RecoverDisk(p) \/ RecoverDiskFails(p)
      PROVE  ConnInv(d)'
  <2>1. UNCHANGED <<made, th, last, req, inbox>> /\ ConnInv(d)
    BY <1>4 DEF Reset, Notice, RecoverConn, RecoverDisk, RecoverDiskFails
  <2> QED BY <2>1 DEF ConnInv
<1> QED BY <1>1, <1>2, <1>3, <1>4 DEF Next

-----------------------------------------------------------------------------
(* Sockets, disks and data.                                                *)

\* The steps of a client and of the recovery thread.
Outside(p) == \/ Ask(p) \/ Receive(p) \/ Reset(p) \/ Notice(p)
              \/ RecoverConn(p) \/ RecoverDisk(p) \/ RecoverDiskFails(p)

\* What an accept leaves alone, and the slot it takes.
LEMMA AcceptStep ==
  ASSUME Types, NEW p \in Pids, Accept(p)
  PROVE  /\ made \in Nat /\ made + 1 \in Conns /\ made' = made + 1 /\ AcceptSlot \in Slots
         /\ owner'[made + 1] = p /\ \A t \in 1 .. made : owner'[t] = owner[t]
         /\ swapped => swapped'
         /\ WantsSocket(AcceptSlot) /\ AcceptSlot # p => swapped'
         /\ UNCHANGED <<up, req, inbox, last, disk, resets, readErrs, cut>>
         /\ \A t \in Conns \ {made + 1} : th'[t] = th[t] /\ net'[t] = net[t]
         /\ net'[made + 1] = "open" /\ th'[made + 1].pc = "recv"
<1>1. made \in Nat /\ made + 1 \in Conns /\ made' = made + 1
  BY ServerConnAssumption DEF Accept, Types, Conns
<1>2. AcceptSlot \in Slots
  BY SlotInRange
<1>3. owner' = Append(owner, p) /\ owner \in Seq(Pids) /\ Len(owner) = made
  BY DEF Accept, Types
<1>4. owner'[made + 1] = p /\ \A t \in 1 .. made : owner'[t] = owner[t]
  BY <1>3, AppendOf
<1>5. /\ swapped => swapped'
      /\ WantsSocket(AcceptSlot) /\ AcceptSlot # p => swapped'
      /\ UNCHANGED <<up, req, inbox, last, disk, resets, readErrs, cut>>
  BY DEF Accept, boundVars
<1>6. /\ \A t \in Conns \ {made + 1} : th'[t] = th[t] /\ net'[t] = net[t]
      /\ net'[made + 1] = "open" /\ th'[made + 1].pc = "recv"
  BY <1>1 DEF Accept, Types
<1> QED BY <1>1, <1>2, <1>4, <1>5, <1>6

\* Only the accept loop gives a slot a connection for its socket.
LEMMA SocketKept ==
  ASSUME Types, SocketInv, \A c \in Conns : ConnInv(c), Next
  PROVE  SocketInv'
<1> USE DEF connVars, boundVars, histVars, netVars
<1>1. ASSUME NEW c \in Conns, ThreadStep(c)
      PROVE  SocketInv'
  <2>1. ConnInv(c)
    OBVIOUS
  <2>2. UNCHANGED <<made, owner, sock, swapped>>
    BY <1>1, <2>1, ThreadFrame
  <2> QED BY <2>2 DEF SocketInv
<1>2. ASSUME NEW p \in Pids, Accept(p), NEW q \in Slots, sock'[q] \in Conns
      PROVE  sock'[q] <= made' /\ (swapped' \/ owner'[sock'[q]] = q)
  <2> DEFINE s == AcceptSlot
  <2>0. /\ made \in Nat /\ made + 1 \in Conns /\ made' = made + 1 /\ s \in Slots
        /\ owner'[made + 1] = p /\ \A t \in 1 .. made : owner'[t] = owner[t]
        /\ swapped => swapped'
        /\ WantsSocket(s) /\ s # p => swapped'
    BY <1>2, AcceptStep
  <2>1. \/ WantsSocket(s) /\ Resume(s, made + 1)
        \/ sock' = sock
    BY <1>2 DEF Accept, Occupy
  <2>2. CASE sock'[q] = sock[q]
    <3>1. sock[q] <= made /\ (swapped \/ owner[sock[q]] = q) /\ sock[q] \in 1 .. made
      BY <1>2, <2>0, <2>2, Numbers DEF SocketInv, Conns
    <3>2. sock'[q] <= made' /\ owner'[sock'[q]] = owner[sock[q]]
      BY <2>0, <2>2, <3>1
    <3> QED BY <2>0, <3>1, <3>2
  <2>3. CASE WantsSocket(s) /\ sock' = [sock EXCEPT ![s] = made + 1]
    <3>1. q # s => sock'[q] = sock[q]
      BY <2>3 DEF Types
    <3>2. q = s => sock'[q] = made + 1
      BY <2>3 DEF Types
    <3>3. q = s => sock'[q] <= made' /\ owner'[sock'[q]] = p
      BY <2>0, <3>2
    <3>4. q = s => q = p \/ swapped'
      BY <2>0, <2>3
    <3> QED BY <2>2, <3>1, <3>3, <3>4
  <2> QED BY <2>1, <2>2, <2>3 DEF Resume
<1>3. ASSUME NEW p \in Pids, Outside(p)
      PROVE  SocketInv'
  <2>1. UNCHANGED <<made, owner, swapped>>
    BY <1>3 DEF Outside, Ask, Receive, Reset, Notice, RecoverConn, RecoverDisk, RecoverDiskFails
  <2>2. \A q \in Slots : sock'[q] = sock[q] \/ sock'[q] \in {Stdin, Listen}
    BY <1>3 DEF Outside, Ask, Receive, Reset, Notice, RecoverConn, RecoverDisk, RecoverDiskFails, Types
  <2> QED BY <2>1, <2>2, Numbers DEF SocketInv
<1>4. ASSUME NEW p \in Pids, Accept(p)
      PROVE  SocketInv'
  BY <1>2, <1>4 DEF SocketInv
<1> QED BY <1>1, <1>3, <1>4 DEF Next, Outside

\* Only a failed read pauses a disk, and only a paused one is opened again.
LEMMA DiskKept ==
  ASSUME Types, SocketInv, DiskInv, \A c \in Conns : ConnInv(c), Next
  PROVE  DiskInv' /\ (readErrs = 0 \/ readErrs' > 0)
<1> USE DEF connVars, boundVars, histVars, netVars
<1>1. ASSUME NEW c \in Conns, ThreadStep(c)
      PROVE  DiskInv' /\ (readErrs = 0 \/ readErrs' > 0)
  <2>1. CASE ReadFails(c)
    BY <2>1 DEF ReadFails, Types, DiskInv
  <2>2. CASE ~ReadFails(c)
    <3>1. UNCHANGED <<disk, readErrs>>
      BY <1>1, <2>2 DEF ThreadStep, Recv, RecvEof, RecvError, RecvErrorEnds, ReadFailEnds,
         SendChunk, SendFails, SendFailEnds, SendKills
    <3> QED BY <3>1 DEF DiskInv, Types
  <2> QED BY <2>1, <2>2
<1>2. ASSUME NEW p \in Pids, Accept(p) \/ Outside(p)
      PROVE  DiskInv' /\ (readErrs = 0 \/ readErrs' > 0)
  <2>1. readErrs' = readErrs /\ (disk' = disk \/ disk[p].state = "PAUSE")
    BY <1>2 DEF Outside, Ask, Receive, Reset, Notice, RecoverConn, RecoverDisk, RecoverDiskFails, Accept
  <2> QED BY <2>1 DEF DiskInv, Types
<1> QED BY <1>1, <1>2 DEF Next, Outside

\* Data goes to the client that asked.
LEMMA DataKept ==
  ASSUME Types, SocketInv, DiskInv, DataToAsker, \A c \in Conns : ConnInv(c), Next
  PROVE  DataToAsker'
<1> USE DEF connVars, boundVars, histVars, netVars
<1> DEFINE Fits(r, t) == (r.pid = owner[t] \/ swapped) /\ (r.disk = r.pid \/ readErrs > 0)
<1>0. /\ \A t \in 1 .. made : t \in Conns /\ \A i \in DOMAIN inbox[t] : Fits(inbox[t][i], t)
      /\ readErrs = 0 \/ readErrs' > 0
  <2>1. \A t \in 1 .. made : t \in Conns
    BY ServerConnAssumption DEF Types, Conns
  <2>2. \A t \in 1 .. made : \A i \in DOMAIN inbox[t] : Fits(inbox[t][i], t)
    BY DEF DataToAsker
  <2> QED BY <2>1, <2>2, DiskKept
<1>1. ASSUME NEW c \in Conns, ThreadStep(c)
      PROVE  DataToAsker'
  <2>0. UNCHANGED <<made, owner, swapped>>
    BY <1>1, ThreadFrame
  <2>1. CASE SendChunk(c)
    <3> DEFINE p == th[c].pid
    <3> DEFINE f == sock[p]
    <3> DEFINE r == [pid |-> p, disk |-> disk[p].open]
    <3>1. f \in Conns /\ p \in Pids /\ p \in Slots /\ inbox[f] \in Seq([pid : Pids, disk : Pids])
      BY <2>1, Numbers DEF SendChunk, ReplySocket, Types, ConnInv
    <3>2. r \in [pid : Pids, disk : Pids] /\ r.pid = p /\ r.disk = disk[p].open
      BY <3>1 DEF Types
    <3>3. inbox' = [inbox EXCEPT ![f] = Append(inbox[f], r)] /\ readErrs' = readErrs
      BY <2>1 DEF SendChunk, Deliver, ReplySocket
    <3>4. Fits(r, f)
      BY <3>1, <3>2 DEF SocketInv, DiskInv, Types
    <3>5. \A t \in 1 .. made : t # f => inbox'[t] = inbox[t]
      BY <1>0, <3>3 DEF Types
    <3>a. f \in 1 .. made
      BY <3>1 DEF Types, SocketInv, Conns
    <3>6. inbox'[f] = Append(inbox[f], r) /\ f \in 1 .. made
      BY <3>1, <3>3, <3>a DEF Types
    <3> HIDE DEF r, f, p
    <3>7. /\ DOMAIN inbox'[f] = 1 .. (Len(inbox[f]) + 1) /\ Len(inbox[f]) \in Nat
          /\ \A i \in 1 .. Len(inbox[f]) : inbox'[f][i] = inbox[f][i] /\ i \in DOMAIN inbox[f]
          /\ inbox'[f][Len(inbox[f]) + 1] = r
      BY <3>1, <3>2, <3>6, AppendOf
    <3>8. \A i \in DOMAIN inbox'[f] : inbox'[f][i] = r \/ (i \in DOMAIN inbox[f] /\ inbox'[f][i] = inbox[f][i])
      <4>1. ASSUME NEW i \in DOMAIN inbox'[f]
            PROVE  inbox'[f][i] = r \/ (i \in DOMAIN inbox[f] /\ inbox'[f][i] = inbox[f][i])
        <5>1. i \in 1 .. (Len(inbox[f]) + 1)
          BY <3>7
        <5>2. i \in 1 .. Len(inbox[f]) \/ i = Len(inbox[f]) + 1
          BY <3>7, <5>1
        <5>3. CASE i \in 1 .. Len(inbox[f])
          BY <3>7, <5>3
        <5>4. CASE i = Len(inbox[f]) + 1
          BY <3>7, <5>4
        <5> QED BY <5>2, <5>3, <5>4
      <4> QED BY <4>1
    <3>9. \A t \in 1 .. made : \A i \in DOMAIN inbox'[t] : Fits(inbox'[t][i], t)
      <4> HIDE DEF Fits
      <4> QED BY <1>0, <3>4, <3>5, <3>6, <3>8
    <3> QED BY <2>0, <3>3, <3>9 DEF DataToAsker
  <2>2. CASE ~SendChunk(c)
    <3>1. inbox' = inbox
      BY <1>1, <2>2 DEF ThreadStep, Recv, RecvEof, RecvError, RecvErrorEnds, ReadFails, ReadFailEnds,
         SendFails, SendFailEnds, SendKills
    <3>2. readErrs > 0 => readErrs' > 0
      BY <1>0 DEF Types
    <3>3. ASSUME NEW t \in 1 .. made, NEW i \in DOMAIN inbox[t]
          PROVE  (inbox[t][i].pid = owner[t] \/ swapped) /\ (inbox[t][i].disk = inbox[t][i].pid \/ readErrs' > 0)
      BY <1>0, <3>2
    <3> QED BY <2>0, <3>1, <3>3 DEF DataToAsker
  <2> QED BY <2>1, <2>2
<1>2. ASSUME NEW p \in Pids, Accept(p)
      PROVE  DataToAsker'
  <2>1. /\ made \in Nat /\ made + 1 \in Conns /\ made' = made + 1
        /\ \A t \in 1 .. made : owner'[t] = owner[t]
        /\ swapped => swapped'
        /\ UNCHANGED <<inbox, readErrs>>
    BY <1>2, AcceptStep DEF Types
  <2>2. inbox[made + 1] = <<>> /\ \A t \in 1 .. made' : t \in 1 .. made \/ t = made + 1
    BY <2>1, Numbers DEF ConnInv
  <2>3. DOMAIN inbox[made + 1] = {}
    BY <2>2
  <2> QED BY <1>0, <2>1, <2>2, <2>3 DEF DataToAsker
<1>3. ASSUME NEW p \in Pids, Receive(p)
      PROVE  DataToAsker'
  <2> DEFINE f == cli[p].conn
  <2>1. f \in Conns /\ f \in 1 .. made /\ inbox[f] # <<>> /\ inbox[f] \in Seq([pid : Pids, disk : Pids])
    BY <1>3, ServerConnAssumption DEF Receive, Types, Conns
  <2>2. inbox' = [inbox EXCEPT ![f] = Tail(inbox[f])] /\ UNCHANGED <<made, owner, swapped, readErrs>>
    BY <1>3 DEF Receive
  <2>3. inbox'[f] = Tail(inbox[f]) /\ \A t \in 1 .. made : t # f => inbox'[t] = inbox[t]
    BY <1>0, <2>1, <2>2 DEF Types
  <2> HIDE DEF f
  <2>4. \A i \in DOMAIN inbox'[f] : \E j \in DOMAIN inbox[f] : inbox'[f][i] = inbox[f][j]
    <3>1. /\ DOMAIN Tail(inbox[f]) = 1 .. (Len(inbox[f]) - 1) /\ DOMAIN inbox[f] = 1 .. Len(inbox[f])
          /\ \A i \in 1 .. (Len(inbox[f]) - 1) : Tail(inbox[f])[i] = inbox[f][i + 1]
          /\ Len(inbox[f]) \in Nat
      BY <2>1, TailOf
    <3>2. \A i \in 1 .. (Len(inbox[f]) - 1) : i + 1 \in DOMAIN inbox[f]
      BY <3>1
    <3> QED BY <2>3, <3>1, <3>2
  <2>5. \A t \in 1 .. made : \A i \in DOMAIN inbox'[t] : Fits(inbox'[t][i], t)
    <3> HIDE DEF Fits
    <3> QED BY ZenonT(60), <1>0, <2>1, <2>3, <2>4
  <2> QED BY <2>2, <2>5 DEF DataToAsker
<1>4. ASSUME NEW p \in Pids, Outside(p), ~Receive(p)
      PROVE  DataToAsker'
  <2>1. UNCHANGED <<made, owner, swapped, inbox, readErrs>>
    BY <1>4 DEF Outside, Ask, Reset, Notice, RecoverConn, RecoverDisk, RecoverDiskFails
  <2> QED BY <2>1 DEF DataToAsker
<1> QED BY <1>1, <1>2, <1>3, <1>4 DEF Next, Outside

-----------------------------------------------------------------------------
(* Calm states.                                                            *)

\* What CalmInv says of a calm state.
CalmState == /\ up
             /\ \A p \in Pids : SlotInv(p) /\ LineInv(p)
             /\ \A c \in 1 .. made : ThreadInv(c)

\* A calm state is only reached through calm states.
LEMMA CalmBack ==
  ASSUME Types, SocketInv, DiskInv, \A c \in Conns : ConnInv(c), Next, Calm'
  PROVE  Calm /\ readErrs' = 0 /\ early' = {}
<1> USE DEF connVars, boundVars, histVars, netVars
<1>1. readErrs = 0 /\ readErrs' = 0 /\ early' = {}
  <2>1. readErrs' = 0 /\ early' = {}
    BY DEF Calm
  <2>2. readErrs = 0 \/ readErrs' > 0
    BY DiskKept
  <2> QED BY <2>1, <2>2
<1>2. early = {}
  <2>1. early \subseteq early'
    <3>1. ASSUME NEW c \in Conns, ThreadStep(c) PROVE early' = early
      BY <3>1, ThreadFrame
    <3>2. ASSUME NEW p \in Pids, Outside(p) PROVE early' = early
      BY <3>2 DEF Outside, Ask, Receive, Reset, Notice, RecoverConn, RecoverDisk, RecoverDiskFails
    <3>3. ASSUME NEW p \in Pids, Accept(p) PROVE early \subseteq early'
      BY <3>3 DEF Accept
    <3> QED BY <3>1, <3>2, <3>3 DEF Next, Outside
  <2> QED BY <1>1, <2>1
<1>3. ASSUME NEW d \in Conns, th[d].pc = "gone", last[d] = -1
      PROVE  th'[d].pc = "gone" /\ last'[d] = -1
  <2>1. ASSUME NEW c \in Conns, ThreadStep(c) PROVE th'[d].pc = "gone" /\ last'[d] = -1
    <3>1. c # d
      BY <1>3, <2>1 DEF ThreadStep, Recv, RecvEof, RecvError, RecvErrorEnds, ReadFails, ReadFailEnds,
         SendChunk, SendFails, SendFailEnds, SendKills
    <3>2. ConnInv(c)
      OBVIOUS
    <3>3. last'[d] = last[d]
      BY <2>1, <3>1, <3>2, ThreadFrame
    <3>4. \/ th'[d].pc = th[d].pc
          \/ th[d].pc = "recv" /\ th'[d].pc = "eof"
          \/ th[d].pc # "none" /\ th'[d].pc = "gone"
      BY <2>1, <3>1, <3>2, OtherThreads
    <3> QED BY <1>3, <3>3, <3>4
  <2>2. ASSUME NEW p \in Pids, Outside(p) PROVE th' = th /\ last' = last
    BY <2>2 DEF Outside, Ask, Receive, Reset, Notice, RecoverConn, RecoverDisk, RecoverDiskFails
  <2>3. ASSUME NEW p \in Pids, Accept(p) PROVE th'[d].pc = "gone" /\ last'[d] = -1
    <3>1. made \in Nat /\ (\A t \in Conns \ {made + 1} : th'[t] = th[t]) /\ last' = last
      BY <2>3, AcceptStep
    <3>2. d # made + 1
      BY <1>3, <3>1 DEF ConnInv
    <3> QED BY <1>3, <3>1, <3>2
  <2> QED BY <1>3, <2>1, <2>2, <2>3 DEF Next, Outside
<1>4. \A d \in Conns : ~(th[d].pc = "gone" /\ last[d] = -1)
  BY <1>3 DEF Calm
<1> QED BY <1>1, <1>2, <1>4 DEF Calm

\* A step that concerns another partner than q: at most it closes a connection of
\* the ones the partners were made over.
Aside(q) ==
  /\ tid'[q] = tid[q] /\ cli'[q] = cli[q] /\ conn_fd'[q] = conn_fd[q] /\ sockFd'[q] = sockFd[q]
  /\ sock'[q] = sock[q] /\ obj'[q] = obj[q] /\ sock_recovery'[q] = sock_recovery[q]
  /\ made' \in Nat /\ made <= made' /\ \A t \in 1 .. made : owner'[t] = owner[t]
  /\ \A t \in 1 .. made' : t > made => owner'[t] # q
  /\ \A t \in 1 .. made : owner[t] = q =>
       /\ req'[t] = req[t] /\ inbox'[t] = inbox[t]
       /\ \/ th'[t].pc = th[t].pc /\ net'[t] = net[t]
          \/ /\ t <= NumPartners /\ net'[t] = "closed"
             /\ th'[t].pc = IF th[t].pc = "recv" THEN "eof" ELSE th[t].pc

\* A step that is none of partner q's keeps its slot and its line.
LEMMA AsideKept ==
  ASSUME Types, NEW q \in Pids, SlotInv(q), LineInv(q), Aside(q)
  PROVE  SlotInv(q)' /\ LineInv(q)'
<1> DEFINE c == tid[q]
<1>0. made \in Nat /\ NumPartners \in Nat /\ c \in 1 .. made /\ owner[c] = q
  BY ServerConnAssumption DEF Types, SlotInv
<1>1. /\ tid'[q] = c /\ cli'[q] = cli[q] /\ conn_fd'[q] = conn_fd[q] /\ sockFd'[q] = sockFd[q]
      /\ sock'[q] = sock[q] /\ obj'[q] = obj[q] /\ sock_recovery'[q] = sock_recovery[q]
      /\ req'[c] = req[c] /\ inbox'[c] = inbox[c] /\ owner'[c] = q /\ c \in 1 .. made'
  BY <1>0 DEF Aside
<1>2. \/ th'[c].pc = th[c].pc /\ net'[c] = net[c]
      \/ /\ c <= NumPartners /\ net'[c] = "closed"
         /\ th'[c].pc = IF th[c].pc = "recv" THEN "eof" ELSE th[c].pc
  BY <1>0 DEF Aside
<1>3. SlotInv(q)'
  <2>1. ASSUME NEW t \in 1 .. made', owner'[t] = q, t # c PROVE th'[t].pc = "gone"
    <3>1. t \in 1 .. made /\ owner[t] = q
      BY <1>0, <2>1 DEF Aside
    <3>2. th[t].pc = "gone"
      BY <2>1, <3>1 DEF SlotInv
    <3> QED BY <3>1, <3>2 DEF Aside
  <2>2. ASSUME conn_fd[q] \in Conns
        PROVE  conn_fd[q] <= made' /\ (owner'[conn_fd[q]] = q \/ conn_fd[q] = NumPartners)
    <3>1. conn_fd[q] \in 1 .. made /\ (owner[conn_fd[q]] = q \/ conn_fd[q] = NumPartners)
      BY <1>0, <2>2, Numbers DEF SlotInv, Conns
    <3> QED BY <1>0, <3>1 DEF Aside
  <2>3. th'[c].pc = "gone" => WantsSocket(q)
    BY <1>2 DEF SlotInv
  <2>4. /\ c <= NumPartners => sockFd[q] = Stdin
        /\ sock[q] = c \/ (obj[q] = "PAUSE" /\ sock[q] = sockFd[q])
        /\ cli[q].conn \in {0, c}
    BY DEF SlotInv
  <2> HIDE DEF c
  <2> QED BY <1>1, <2>1, <2>2, <2>3, <2>4 DEF SlotInv, WantsSocket
<1>4. LineInv(q)'
  <2>1. c <= NumPartners => sockFd[q] = Stdin
    BY DEF SlotInv
  <2> QED BY <1>1, <1>2, <2>1 DEF LineInv
<1> QED BY <1>3, <1>4

\* Only the newest connection of a client has a thread.
LEMMA Acting ==
  ASSUME Types, CalmState, NEW c \in 1 .. made, th[c].pc # "gone"
  PROVE  /\ owner[c] \in Pids /\ owner[c] \in Slots /\ tid[owner[c]] = c /\ c \in Conns
         /\ SlotInv(owner[c]) /\ LineInv(owner[c]) /\ ThreadInv(c)
<1>1. owner[c] \in Pids /\ owner[c] \in Slots /\ c \in Conns
  <2>1. owner \in Seq(Pids) /\ Len(owner) = made /\ made \in Nat /\ made <= MaxConns
    BY ServerConnAssumption DEF Types
  <2>2. owner[c] \in Pids
    BY <2>1
  <2>3. c \in Conns
    BY <2>1, ServerConnAssumption DEF Conns
  <2> QED BY <2>2, <2>3, Numbers
<1>2. SlotInv(owner[c]) /\ LineInv(owner[c]) /\ ThreadInv(c)
  BY <1>1 DEF CalmState
<1>3. tid[owner[c]] = c
  BY <1>2 DEF SlotInv
<1> QED BY <1>1, <1>2, <1>3

-----------------------------------------------------------------------------
(* Calm states: the clients and the recovery thread.                       *)

\* A client's step concerns its own connection, which is the newest.
LEMMA ClientAside ==
  ASSUME Types, CalmState, NEW p \in Pids, Ask(p) \/ Receive(p) \/ Reset(p) \/ Notice(p) \/ RecoverConn(p)
  PROVE  /\ \A q \in Pids \ {p} : Aside(q)
         /\ UNCHANGED <<up, made, owner, th, last, tid, conn_fd, sockFd, obj, sock_recovery>>
         /\ \A t \in Conns \ {tid[p]} : req'[t] = req[t]
<1> USE DEF connVars, boundVars, histVars, netVars
<1> DEFINE c == tid[p]
<1>0. /\ c \in 1 .. made /\ c \in Conns /\ owner[c] = p /\ made \in Nat /\ cli[p].conn \in {0, c}
      /\ 1 .. made \subseteq Conns
  BY SMTT(60), ServerConnAssumption DEF CalmState, SlotInv, Types, Conns
<1>1. UNCHANGED <<up, made, owner, th, last, tid, conn_fd, sockFd, obj, sock_recovery>>
  BY DEF Ask, Receive, Reset, Notice, RecoverConn
<1>2. \A t \in Conns \ {c} : req'[t] = req[t] /\ inbox'[t] = inbox[t] /\ net'[t] = net[t]
  BY <1>0 DEF Ask, Receive, Reset, Notice, RecoverConn, Types
<1>3. \A q \in Pids \ {p} : cli'[q] = cli[q] /\ sock'[q] = sock[q]
  BY Numbers DEF Ask, Receive, Reset, Notice, RecoverConn, Types
<1>4. ASSUME NEW q \in Pids \ {p} PROVE Aside(q)
  <2>1. \A t \in 1 .. made : owner[t] = q => t \in Conns \ {c}
    BY <1>0
  <2> HIDE DEF c
  <2> QED BY <1>0, <1>1, <1>2, <1>3, <2>1 DEF Aside
<1> QED BY <1>1, <1>2, <1>4

\* A client's step changes of the threads at most the requests they will see.
LEMMA ClientThreads ==
  ASSUME UNCHANGED <<made, owner, th, last>>, NEW c,
         \A t \in 1 .. made : ThreadInv(t), \A t \in 1 .. made : t # c => req'[t] = req[t],
         c \in 1 .. made => \A i \in DOMAIN req'[c] : req'[c][i] = owner[c]
  PROVE  \A t \in 1 .. made' : ThreadInv(t)'
BY DEF ThreadInv

\* What is known of the newest connection of a client.
LEMMA Newest ==
  ASSUME Types, CalmState, NEW p \in Pids
  PROVE  LET c == tid[p]
         IN /\ c \in 1 .. made /\ c \in Conns /\ owner[c] = p /\ cli[p].conn \in {0, c} /\ made \in Nat
            /\ SlotInv(p) /\ LineInv(p) /\ ThreadInv(c) /\ 1 .. made \subseteq Conns
<1>1. SlotInv(p) /\ LineInv(p)
  BY DEF CalmState
<1>2. tid[p] \in 1 .. made /\ owner[tid[p]] = p /\ cli[p].conn \in {0, tid[p]}
  BY <1>1 DEF SlotInv
<1>3. made \in Nat /\ 1 .. made \subseteq Conns
  BY ServerConnAssumption DEF Types, Conns
<1> QED BY <1>1, <1>2, <1>3 DEF CalmState

\* A request: the only one under way.
LEMMA AskCalm ==
  ASSUME Types, CalmState, NEW p \in Pids, Ask(p)
  PROVE  CalmState'
<1> USE DEF connVars, boundVars, histVars, netVars
<1> DEFINE c == tid[p]
<1>0. /\ c \in 1 .. made /\ c \in Conns /\ owner[c] = p /\ cli[p].conn = c /\ made \in Nat
      /\ SlotInv(p) /\ LineInv(p) /\ ThreadInv(c) /\ 1 .. made \subseteq Conns
  BY SMTT(60), ServerConnAssumption DEF CalmState, SlotInv, Types, Conns, Ask
<1>1. /\ \A q \in Pids \ {p} : Aside(q)
      /\ UNCHANGED <<up, made, owner, th, last, tid, conn_fd, sockFd, obj, sock_recovery>>
      /\ \A t \in Conns \ {c} : req'[t] = req[t]
  BY ClientAside
<1>2. req'[c] = Append(req[c], p) /\ UNCHANGED <<net, inbox, sock>>
  BY <1>0 DEF Ask, Types
<1>3. cli'[p].conn = c /\ cli'[p].asked = TRUE /\ ~cli[p].asked
  <2>1. cli'[p] = [cli[p] EXCEPT !.asked = TRUE] /\ cli[p] \in [conn : 0 .. made, asked : BOOLEAN]
    BY DEF Ask, Types
  <2> QED BY <1>0, <2>1, ClientRecord DEF Ask
<1>4. /\ req[c] \in Seq(Pids) /\ Len(req'[c]) = Len(req[c]) + 1 /\ DOMAIN req[c] = 1 .. Len(req[c])
      /\ DOMAIN req'[c] = 1 .. (Len(req[c]) + 1) /\ Len(req[c]) \in Nat
      /\ req'[c][Len(req[c]) + 1] = p /\ \A i \in 1 .. Len(req[c]) : req'[c][i] = req[c][i]
  BY SMTT(60), <1>0, <1>2, AppendOf DEF Types
<1>5. SlotInv(p)'
  <2> HIDE DEF c
  <2>1. tid[p] = c
    BY DEF c
  <2> QED BY <1>0, <1>1, <1>2, <1>3, <2>1 DEF SlotInv, WantsSocket
<1>6. LineInv(p)'
  <2>1. net[c] \notin {"dead", "reset"}
    BY <1>0 DEF LineInv
  <2>2. net[c] = "open" => req[c] = <<>> /\ inbox[c] = <<>> /\ th[c].pc # "read"
    BY <1>0, <1>3 DEF LineInv
  <2>3. net[c] = "open" => Len(req'[c]) = 1
    BY <1>4, <2>2
  <2>4. tid'[p] = c
    BY <1>1
  <2> HIDE DEF c
  <2>5. tid[p] = c
    BY DEF c
  <2> QED BY <1>0, <1>1, <1>2, <1>3, <2>1, <2>2, <2>3, <2>4, <2>5 DEF LineInv
<1>7. \A i \in DOMAIN req'[c] : req'[c][i] = owner[c]
  <2>1. ASSUME NEW i \in DOMAIN req'[c] PROVE req'[c][i] = p
    <3>1. i \in 1 .. Len(req[c]) \/ i = Len(req[c]) + 1
      BY <1>4
    <3> QED BY <1>0, <1>4, <3>1 DEF ThreadInv
  <2> QED BY <1>0, <2>1
<1>8. \A t \in 1 .. made' : ThreadInv(t)'
  BY <1>0, <1>1, <1>7, ClientThreads DEF CalmState
<1>9. ASSUME NEW q \in Pids \ {p} PROVE SlotInv(q)' /\ LineInv(q)'
  BY <1>1, AsideKept DEF CalmState
<1> QED BY <1>1, <1>5, <1>6, <1>8, <1>9 DEF CalmState

\* The reply: the only one under way.
LEMMA ReceiveCalm ==
  ASSUME Types, CalmState, NEW p \in Pids, Receive(p)
  PROVE  CalmState'
<1> USE DEF connVars, boundVars, histVars, netVars
<1> DEFINE c == tid[p]
<1>0. /\ c \in 1 .. made /\ c \in Conns /\ owner[c] = p /\ cli[p].conn = c /\ made \in Nat
      /\ SlotInv(p) /\ LineInv(p) /\ ThreadInv(c) /\ 1 .. made \subseteq Conns
  BY Newest DEF Receive
<1>1. /\ \A q \in Pids \ {p} : Aside(q)
      /\ UNCHANGED <<up, made, owner, th, last, tid, conn_fd, sockFd, obj, sock_recovery>>
  BY ClientAside
<1>2. inbox'[c] = Tail(inbox[c]) /\ inbox[c] # <<>> /\ UNCHANGED <<net, req, sock>>
  BY <1>0 DEF Receive, Types
<1>3. cli'[p].conn = c
  <2>1. cli'[p] = [cli[p] EXCEPT !.asked = FALSE] /\ cli[p] \in [conn : 0 .. made, asked : BOOLEAN]
    BY DEF Receive, Types
  <2> QED BY <1>0, <2>1, ClientRecord
<1>5. SlotInv(p)'
  <2> HIDE DEF c
  <2>1. tid[p] = c
    BY DEF c
  <2> QED BY <1>0, <1>1, <1>2, <1>3, <2>1 DEF SlotInv, WantsSocket
<1>6. LineInv(p)'
  <2>1. net[c] = "open" => Len(inbox[c]) = 1 /\ req[c] = <<>> /\ th[c].pc # "read"
    BY <1>0, <1>2 DEF LineInv
  <2>2. net[c] = "open" => inbox'[c] = <<>>
    <3>1. inbox[c] \in Seq([pid : Pids, disk : Pids])
      BY <1>0 DEF Types
    <3>2. Tail(inbox[c]) \in Seq([pid : Pids, disk : Pids]) /\ Len(Tail(inbox[c])) = Len(inbox[c]) - 1
      BY <1>2, <3>1, TailOf
    <3>3. net[c] = "open" => Len(Tail(inbox[c])) = 0
      BY <2>1, <3>2
    <3> QED BY <1>2, <3>2, <3>3, EmptySeq
  <2>4. tid'[p] = c
    BY <1>1
  <2> HIDE DEF c
  <2>5. tid[p] = c
    BY DEF c
  <2> QED BY <1>0, <1>1, <1>2, <1>3, <2>1, <2>2, <2>4, <2>5 DEF LineInv
<1>8. \A t \in 1 .. made' : ThreadInv(t)'
  BY <1>0, <1>1, <1>2 DEF CalmState, ThreadInv
<1>9. ASSUME NEW q \in Pids \ {p} PROVE SlotInv(q)' /\ LineInv(q)'
  BY <1>1, AsideKept DEF CalmState
<1> QED BY <1>1, <1>5, <1>6, <1>8, <1>9 DEF CalmState

\* A client lets go of its connection.
LEMMA LeaveCalm ==
  ASSUME Types, CalmState, NEW p \in Pids, Reset(p) \/ Notice(p)
  PROVE  CalmState'
<1> USE DEF connVars, boundVars, histVars, netVars
<1> DEFINE c == tid[p]
<1>0. /\ c \in 1 .. made /\ c \in Conns /\ owner[c] = p /\ cli[p].conn = c /\ made \in Nat
      /\ SlotInv(p) /\ LineInv(p) /\ ThreadInv(c) /\ 1 .. made \subseteq Conns
  BY Newest DEF Reset, Notice
<1>1. /\ \A q \in Pids \ {p} : Aside(q)
      /\ UNCHANGED <<up, made, owner, th, last, tid, conn_fd, sockFd, obj, sock_recovery>>
  BY ClientAside
<1>2. /\ UNCHANGED <<inbox, req, sock>> /\ cli'[p].conn = 0 /\ c # 0
      /\ \/ net'[c] = net[c]
         \/ net[c] = "open" /\ net'[c] = "reset"
  BY SMTT(60), <1>0 DEF Reset, Notice, Types
<1>5. SlotInv(p)'
  <2> HIDE DEF c
  <2>1. tid[p] = c
    BY DEF c
  <2> QED BY <1>0, <1>1, <1>2, <2>1 DEF SlotInv, WantsSocket
<1>6. LineInv(p)'
  <2>4. tid'[p] = c
    BY <1>1
  <2> HIDE DEF c
  <2>5. tid[p] = c
    BY DEF c
  <2> QED BY <1>0, <1>1, <1>2, <2>4, <2>5 DEF LineInv
<1>8. \A t \in 1 .. made' : ThreadInv(t)'
  BY <1>0, <1>1, <1>2 DEF CalmState, ThreadInv
<1>9. ASSUME NEW q \in Pids \ {p} PROVE SlotInv(q)' /\ LineInv(q)'
  BY <1>1, AsideKept DEF CalmState
<1> QED BY <1>1, <1>5, <1>6, <1>8, <1>9 DEF CalmState

\* The recovery thread.
LEMMA RecoverCalm ==
  ASSUME Types, CalmState, DiskInv, readErrs = 0,
         NEW p \in Pids, RecoverConn(p) \/ RecoverDisk(p) \/ RecoverDiskFails(p)
  PROVE  CalmState'
<1> USE DEF connVars, boundVars, histVars, netVars
<1>0. RecoverConn(p)
  BY DEF RecoverDisk, RecoverDiskFails, DiskInv
<1>1. /\ \A q \in Pids \ {p} : Aside(q)
      /\ UNCHANGED <<up, made, owner, th, last, tid, conn_fd, sockFd, obj, sock_recovery>>
  BY <1>0, ClientAside
<1>2. UNCHANGED <<inbox, req, net, cli>> /\ sock'[p] = sockFd[p] /\ obj[p] = "PAUSE"
  BY <1>0, Numbers DEF RecoverConn, Types
<1>3. SlotInv(p) /\ LineInv(p)
  BY DEF CalmState
<1>5. SlotInv(p)'
  BY <1>1, <1>2, <1>3 DEF SlotInv, WantsSocket
<1>6. LineInv(p)'
  BY <1>1, <1>2, <1>3 DEF LineInv
<1>8. \A t \in 1 .. made' : ThreadInv(t)'
  BY <1>0, <1>1, <1>2 DEF CalmState, ThreadInv
<1>9. ASSUME NEW q \in Pids \ {p} PROVE SlotInv(q)' /\ LineInv(q)'
  BY <1>1, AsideKept DEF CalmState
<1> QED BY <1>1, <1>5, <1>6, <1>8, <1>9 DEF CalmState

-----------------------------------------------------------------------------
(* Calm states: the accept loop, and what a thread's step has to show.     *)

\* Whoever is back when the server has let go of it finds its own slot paused.
LEMMA AcceptCalm ==
  ASSUME Types, CalmState, \A c \in Conns : ConnInv(c), NEW p \in Pids, Accept(p), early' = {}
  PROVE  CalmState'
<1> DEFINE c == made + 1
<1> DEFINE s == AcceptSlot
<1>0. /\ made \in Nat /\ c \in Conns /\ made' = c /\ s \in Slots /\ NumPartners <= made
      /\ owner'[c] = p /\ \A t \in 1 .. made : owner'[t] = owner[t]
      /\ UNCHANGED <<up, req, inbox, last>>
      /\ \A t \in Conns \ {c} : th'[t] = th[t] /\ net'[t] = net[t]
      /\ net'[c] = "open" /\ th'[c].pc = "recv"
  <2>1. NumPartners <= made
    BY ServerConnAssumption DEF Types
  <2> QED BY <2>1, AcceptStep
<1>1. s = p /\ \A t \in 1 .. made : owner[t] = p => th[t].pc = "gone"
  <2>1. s = p /\ Lingering(p) = {}
    BY DEF Accept
  <2> QED BY <2>1 DEF Lingering
<1>2. WantsSocket(p)
  BY <1>1, Newest DEF SlotInv
<1>3. Resume(p, c)
  BY <1>1, <1>2 DEF Accept
<1>4. /\ tid' = [tid EXCEPT ![p] = c] /\ cli' = [cli EXCEPT ![p].conn = c]
      /\ conn_fd' = [conn_fd EXCEPT ![arg'[p]] = c]
  BY <1>1 DEF Accept
<1>5. arg'[p] = p /\ p \in Slots
  BY <1>3, Numbers DEF Resume, Types
<1>6. /\ tid'[p] = c /\ conn_fd'[p] = c /\ sock'[p] = c /\ obj'[p] = "RESUME" /\ sockFd'[p] = Listen
      /\ cli'[p].conn = c
  BY <1>3, <1>4, <1>5 DEF Resume, Types
<1>7. \A q \in Pids \ {p} : /\ tid'[q] = tid[q] /\ cli'[q] = cli[q] /\ conn_fd'[q] = conn_fd[q]
        /\ sockFd'[q] = sockFd[q] /\ sock'[q] = sock[q] /\ obj'[q] = obj[q]
        /\ sock_recovery'[q] = sock_recovery[q]
  BY <1>3, <1>4, <1>5, Numbers DEF Resume, Types
<1>8. req[c] = <<>> /\ inbox[c] = <<>> /\ last[c] = -1
  BY <1>0 DEF ConnInv
<1>9. \A t \in 1 .. made' : t \in 1 .. made \/ t = c
  BY <1>0
<1>10. 1 .. made \subseteq Conns \ {c}
  BY <1>0, ServerConnAssumption DEF Types, Conns
<1> HIDE DEF c, s
<1>11. ASSUME NEW q \in Pids \ {p} PROVE SlotInv(q)' /\ LineInv(q)'
  <2>1. Aside(q)
    <3>1. made' \in Nat /\ made <= made'
      BY <1>0 DEF c
    <3>2. \A t \in 1 .. made' : t > made => owner'[t] # q
      BY <1>0, <1>9
    <3>3. \A t \in 1 .. made : /\ req'[t] = req[t] /\ inbox'[t] = inbox[t]
                               /\ th'[t].pc = th[t].pc /\ net'[t] = net[t]
      BY <1>0, <1>10
    <3> QED BY <1>0, <1>7, <3>1, <3>2, <3>3 DEF Aside
  <2> QED BY <2>1, AsideKept DEF CalmState
<1>12. SlotInv(p)'
  <2>1. \A t \in 1 .. made' : owner'[t] = p /\ t # c => th'[t].pc = "gone"
    BY <1>0, <1>1, <1>9, <1>10
  <2>2. c \in 1 .. made' /\ c <= made' /\ ~(c <= NumPartners)
    BY <1>0, ServerConnAssumption DEF c
  <2> QED BY <1>0, <1>6, <2>1, <2>2 DEF SlotInv
<1>13. LineInv(p)'
  <2>1. Len(req'[c]) <= 1
    BY <1>0, <1>8
  <2> QED BY <1>0, <1>6, <1>8, <2>1 DEF LineInv
<1>14. ASSUME NEW t \in 1 .. made' PROVE ThreadInv(t)'
  <2>1. CASE t = c
    <3>1. DOMAIN req'[c] = {} /\ last'[c] = -1
      BY <1>0, <1>8
    <3> QED BY <1>0, <2>1, <3>1 DEF ThreadInv
  <2>2. CASE t \in 1 .. made
    <3>1. ThreadInv(t) /\ t \in Conns \ {c}
      BY <1>10, <2>2 DEF CalmState
    <3> QED BY <1>0, <2>2, <3>1 DEF ThreadInv
  <2> QED BY <1>9, <2>1, <2>2
<1> QED BY <1>0, <1>11, <1>12, <1>13, <1>14 DEF CalmState

\* What there is to show for the step of a thread: the slot, the line and the
\* thread of its own partner, and that nobody else is concerned.
LEMMA OwnStep ==
  ASSUME Types, SocketInv, CalmState, NEW c \in Conns, ConnInv(c), ThreadStep(c), up',
         NEW p \in Pids, ThreadInv(c)', SlotInv(p)', LineInv(p)', \A q \in Pids \ {p} : Aside(q)
  PROVE  CalmState'
<1>1. UNCHANGED <<made, owner>> /\ \A t \in Conns \ {c} : last'[t] = last[t] /\ req'[t] = req[t]
  BY ThreadFrame
<1>2. ASSUME NEW t \in 1 .. made', t # c PROVE ThreadInv(t)'
  <2>1. t \in Conns \ {c} /\ ThreadInv(t)
    BY <1>1, <1>2, ServerConnAssumption DEF CalmState, Types, Conns
  <2>2. /\ th'[t].pid = th[t].pid
        /\ \/ th'[t].pc = th[t].pc
           \/ th[t].pc = "recv" /\ th'[t].pc = "eof"
           \/ th[t].pc # "none" /\ th'[t].pc = "gone"
    BY <2>1, OtherThreads
  <2> QED BY <1>1, <2>1, <2>2 DEF ThreadInv
<1>3. ASSUME NEW q \in Pids, q # p PROVE SlotInv(q)' /\ LineInv(q)'
  BY <1>3, AsideKept DEF CalmState
<1> QED BY <1>2, <1>3 DEF CalmState

\* The thread that takes a step.
LEMMA Actor ==
  ASSUME Types, CalmState, NEW c \in Conns, ConnInv(c), ThreadStep(c)
  PROVE  \E p \in Pids :
           /\ c \in 1 .. made /\ p = owner[c] /\ p \in Slots /\ tid[p] = c /\ made \in Nat
           /\ SlotInv(p) /\ LineInv(p) /\ ThreadInv(c) /\ 1 .. made \subseteq Conns
           /\ th[c].pc \in {"read", "sleepE", "sleepW"} => th[c].pid = p /\ last[c] = p
           /\ sock[p] \in Conns => sock[p] = c
           /\ \A q \in Pids \ {p} : \A t \in 1 .. made : owner[t] = q => t # c
<1>1. c <= made
  BY OtherThreads
<1>2. c \in 1 .. made /\ made \in Nat /\ 1 .. made \subseteq Conns
  BY <1>1, ServerConnAssumption DEF Types, Conns
<1>3. th[c].pc # "gone"
  BY DEF ThreadStep, Recv, RecvEof, RecvError, RecvErrorEnds, ReadFails, ReadFailEnds,
         SendChunk, SendFails, SendFailEnds, SendKills
<1>4. /\ owner[c] \in Pids /\ owner[c] \in Slots /\ tid[owner[c]] = c
      /\ SlotInv(owner[c]) /\ LineInv(owner[c]) /\ ThreadInv(c)
  BY <1>2, <1>3, Acting
<1>5. th[c].pc \in {"read", "sleepE", "sleepW"} => th[c].pid = owner[c] /\ last[c] = owner[c]
  BY <1>4 DEF ThreadInv
<1>6. sock[owner[c]] \in Conns => sock[owner[c]] = c
  <2>1. sockFd[owner[c]] \notin Conns
    BY <1>4, Numbers DEF Types
  <2> QED BY <1>4, <2>1 DEF SlotInv
<1> QED BY <1>2, <1>4, <1>5, <1>6

-----------------------------------------------------------------------------
(* Calm states: the receive threads.                                       *)

\* What a thread knows of its own partner.
Knows(c, p) ==
  /\ c \in 1 .. made /\ p = owner[c] /\ p \in Slots /\ tid[p] = c /\ made \in Nat
  /\ SlotInv(p) /\ LineInv(p) /\ ThreadInv(c) /\ 1 .. made \subseteq Conns
  /\ th[c].pc \in {"read", "sleepE", "sleepW"} => th[c].pid = p /\ last[c] = p
  /\ sock[p] \in Conns => sock[p] = c
  /\ \A q \in Pids \ {p} : \A t \in 1 .. made : owner[t] = q => t # c

\* A thread's step is none of another partner's, but for the one connection that
\* slot 0 took over when the partners were made.
LEMMA ThreadAside ==
  ASSUME Types, SocketInv, CalmState, NEW c \in Conns, ConnInv(c), ThreadStep(c),
         NEW p \in Pids, Knows(c, p),
         \A q \in Pids \ {p} : conn_fd'[q] = conn_fd[q] /\ obj'[q] = obj[q] /\ sock_recovery'[q] = sock_recovery[q],
         \A t \in Conns \ {c} : inbox'[t] = inbox[t],
         \A t \in Conns \ {c} : 
           \/ th'[t].pc = th[t].pc /\ net'[t] = net[t]
           \/ /\ t = conn_fd[p] /\ net'[t] = "closed"
              /\ th'[t].pc = IF th[t].pc = "recv" THEN "eof" ELSE th[t].pc
  PROVE  \A q \in Pids \ {p} : Aside(q)
<1>1. /\ UNCHANGED <<made, owner, cli, sock, sockFd, tid>>
      /\ \A t \in Conns \ {c} : req'[t] = req[t]
  BY ThreadFrame
<1>2. made \in Nat /\ 1 .. made \subseteq Conns /\ SlotInv(p)
  BY DEF Knows
<1>3. ASSUME NEW q \in Pids \ {p}, NEW t \in 1 .. made, owner[t] = q
      PROVE  t \in Conns \ {c} /\ (t = conn_fd[p] => t = NumPartners)
  <2>1. t \in Conns \ {c}
    BY <1>2, <1>3 DEF Knows
  <2>2. t = conn_fd[p] => t = NumPartners
    BY <1>2, <1>3, <2>1 DEF SlotInv
  <2> QED BY <2>1, <2>2
<1>4. NumPartners <= NumPartners
  BY ServerConnAssumption
<1>5. ASSUME NEW q \in Pids \ {p} PROVE Aside(q)
  <2>1. made' \in Nat /\ made <= made' /\ \A t \in 1 .. made' : ~(t > made)
    BY <1>1, <1>2
  <2>2. ASSUME NEW t \in 1 .. made, owner[t] = q
        PROVE  /\ req'[t] = req[t] /\ inbox'[t] = inbox[t]
               /\ \/ th'[t].pc = th[t].pc /\ net'[t] = net[t]
                  \/ /\ t <= NumPartners /\ net'[t] = "closed"
                     /\ th'[t].pc = IF th[t].pc = "recv" THEN "eof" ELSE th[t].pc
    BY <1>1, <1>3, <1>4, <2>2
  <2> QED BY <1>1, <2>1, <2>2 DEF Aside
<1> QED BY <1>5

\* A header arrives: the partner is not paused.
LEMMA RecvCalm ==
  ASSUME Types, SocketInv, CalmState, NEW c \in Conns, ConnInv(c), Recv(c)
  PROVE  CalmState'
<1> USE DEF connVars, boundVars, histVars, netVars
<1>0. ThreadStep(c)
  BY DEF ThreadStep
<1>1. PICK p \in Pids : Knows(c, p)
  BY <1>0, Actor DEF Knows
<1>2. /\ UNCHANGED <<up, made, owner, net, inbox, cli, sock, conn_fd, sockFd, obj, sock_recovery, tid>>
      /\ th[c].pc = "recv" /\ req[c] # <<>> /\ net[c] # "closed"
      /\ req'[c] = Tail(req[c]) /\ last'[c] = Head(req[c])
  BY DEF Recv, Types
<1>3. /\ req[c] \in Seq(Pids) /\ Head(req[c]) = req[c][1] /\ DOMAIN req[c] = 1 .. Len(req[c])
      /\ Len(req[c]) \in Nat /\ Len(req[c]) > 0 /\ DOMAIN Tail(req[c]) = 1 .. (Len(req[c]) - 1)
      /\ Len(Tail(req[c])) = Len(req[c]) - 1 /\ Tail(req[c]) \in Seq(Pids)
      /\ \A i \in 1 .. (Len(req[c]) - 1) : Tail(req[c])[i] = req[c][i + 1]
  BY <1>2, TailOf DEF Types
<1>4. Head(req[c]) = p /\ \A i \in DOMAIN req'[c] : req'[c][i] = p
  <2>1. \A i \in 1 .. Len(req[c]) : req[c][i] = p
    BY <1>1, <1>3 DEF Knows, ThreadInv
  <2>2. \A i \in 1 .. (Len(req[c]) - 1) : i + 1 \in 1 .. Len(req[c])
    BY <1>3
  <2>3. Head(req[c]) = p
    BY <1>3, <2>1
  <2> QED BY <1>2, <1>3, <2>1, <2>2, <2>3
<1>5. th'[c] = [pc |-> "read", pid |-> p] /\ \A t \in Conns \ {c} : th'[t] = th[t]
  <2>1. p \in Slots /\ "read" \in ThreadPcs /\ th' = Go(c, "read", p)
    BY <1>1, <1>4 DEF Recv, Knows, ThreadPcs
  <2> QED BY <2>1, GoStep
<1>6. \A q \in Pids \ {p} : Aside(q)
  BY <1>0, <1>1, <1>2, <1>5, ThreadAside
<1>7. ThreadInv(c)'
  BY <1>1, <1>2, <1>4, <1>5 DEF ThreadInv, Knows
<1>8. SlotInv(p)'
  <2>1. \A t \in 1 .. made : t # c => th'[t] = th[t]
    BY <1>1, <1>5 DEF Knows
  <2> QED BY <1>1, <1>2, <1>5, <2>1 DEF SlotInv, Knows
<1>9. LineInv(p)'
  <2>1. net[c] # "dead" /\ obj[p] # "PAUSE"
    BY <1>1, <1>2 DEF LineInv, Knows
  <2>2. net[c] \in {"open", "reset"} => req'[c] = <<>>
    <3>1. net[c] \in {"open", "reset"} => Len(req[c]) <= 1
      BY <1>1 DEF LineInv, Knows
    <3>2. net[c] \in {"open", "reset"} => Len(Tail(req[c])) = 0
      <4>1. Len(req[c]) \in Nat /\ Len(req[c]) > 0 /\ Len(Tail(req[c])) = Len(req[c]) - 1
        BY <1>3
      <4>2. ASSUME NEW n \in Nat, n > 0, n <= 1 PROVE n = 1
        BY <4>2
      <4>3. net[c] \in {"open", "reset"} => Len(req[c]) = 1
        BY <3>1, <4>1, <4>2
      <4> QED BY <4>1, <4>3
    <3> QED BY <1>2, <1>3, <3>2, EmptySeq
  <2>3. net[c] = "open" /\ cli[p].conn = c => cli[p].asked /\ inbox[c] = <<>>
    BY <1>1, <1>2 DEF LineInv, Knows
  <2>4. net[c] \in {"dead", "reset"} => cli[p].conn # c
    BY <1>1 DEF LineInv, Knows
  <2>5. net[c] \in {"open", "reset"} => Len(req'[c]) <= 1
    BY <2>2
  <2>6. tid'[p] = c
    BY <1>1, <1>2 DEF Knows
  <2>7. th'[c].pc = "read" /\ UNCHANGED <<net, obj, cli, inbox>>
    BY <1>2, <1>5
  <2> QED BY <1>2, <2>1, <2>2, <2>3, <2>4, <2>5, <2>6, <2>7 DEF LineInv
<1> QED BY <1>0, <1>2, <1>6, <1>7, <1>8, <1>9, OwnStep DEF CalmState

\* End of file: only over one of the first connections.
LEMMA RecvEofCalm ==
  ASSUME Types, SocketInv, CalmState, NEW c \in Conns, ConnInv(c), RecvEof(c)
  PROVE  CalmState'
<1> USE DEF connVars, boundVars, histVars, netVars
<1>0. ThreadStep(c)
  BY DEF ThreadStep
<1>1. PICK p \in Pids : Knows(c, p)
  BY <1>0, Actor DEF Knows
<1>2. /\ UNCHANGED <<up, made, owner, net, inbox, cli, sock, conn_fd, sockFd, obj, sock_recovery, tid, req, last>>
      /\ th[c].pc = "eof" /\ th[c].pid \in Slots
  BY DEF RecvEof, Types
<1>3. last[c] \in {-1, p}
  BY <1>1 DEF Knows, ThreadInv
<1>4. /\ th'[c].pc = IF last[c] = -1 THEN "recv" ELSE "read"
      /\ last[c] # -1 => last[c] = p /\ th'[c].pid = p
      /\ \A t \in Conns \ {c} : th'[t] = th[t]
  <2>1. p \in Slots /\ "recv" \in ThreadPcs /\ "read" \in ThreadPcs
    BY <1>1 DEF Knows, ThreadPcs
  <2>2. CASE last[c] = -1
    <3>1. th' = Go(c, "recv", th[c].pid)
      BY <2>2 DEF RecvEof
    <3>2. th'[c] = [pc |-> "recv", pid |-> th[c].pid] /\ \A t \in Conns \ {c} : th'[t] = th[t]
      BY <1>2, <2>1, <3>1, GoStep
    <3> QED BY <2>2, <3>2
  <2>3. CASE last[c] # -1
    <3>1. th' = Go(c, "read", p)
      BY <1>3, <2>3 DEF RecvEof
    <3>2. th'[c] = [pc |-> "read", pid |-> p] /\ \A t \in Conns \ {c} : th'[t] = th[t]
      BY <2>1, <3>1, GoStep
    <3> QED BY <1>3, <2>3, <3>2
  <2> QED BY <2>2, <2>3
<1>6. \A q \in Pids \ {p} : Aside(q)
  BY <1>0, <1>1, <1>2, <1>4, ThreadAside
<1>7. ThreadInv(c)'
  BY <1>1, <1>2, <1>4 DEF ThreadInv, Knows
<1>8. SlotInv(p)'
  <2>1. \A t \in 1 .. made : t # c => th'[t] = th[t]
    BY <1>1, <1>4 DEF Knows
  <2> QED BY <1>1, <1>2, <1>4, <2>1 DEF SlotInv, Knows
<1>9. LineInv(p)'
  <2>1. net[c] = "closed" /\ sockFd[p] = Stdin
    BY <1>1, <1>2 DEF LineInv, Knows
  <2>2. tid'[p] = c
    BY <1>1, <1>2 DEF Knows
  <2> QED BY <1>2, <1>4, <2>1, <2>2 DEF LineInv
<1> QED BY <1>0, <1>2, <1>6, <1>7, <1>8, <1>9, OwnStep DEF CalmState

\* An error, with the last header a DATA one.
LEMMA RecvErrorCalm ==
  ASSUME Types, SocketInv, CalmState, NEW c \in Conns, ConnInv(c), RecvError(c), Calm'
  PROVE  CalmState'
<1> USE DEF connVars, boundVars, histVars, netVars
<1>0. ThreadStep(c)
  BY DEF ThreadStep
<1>1. PICK p \in Pids : Knows(c, p)
  BY <1>0, Actor DEF Knows
<1>2. /\ UNCHANGED <<up, made, owner, inbox, cli, sock, sockFd, obj, sock_recovery, tid, req, last>>
      /\ th[c].pc = "recv" /\ (net[c] = "closed" \/ (net[c] \in {"reset", "dead"} /\ req[c] = <<>>))
  BY DEF RecvError
<1>3. last[c] = p /\ p # -1
  <2>1. last[c] = -1 => th'[c].pc = "gone" /\ last'[c] = -1
    BY <1>2, RecvErrorStep
  <2>2. last[c] # -1
    BY <2>1 DEF Calm
  <2> QED BY <1>1, <2>2 DEF Knows, ThreadInv
<1>4. /\ th'[c].pc = "sleepE" /\ th'[c].pid = p
      /\ \A t \in Conns \ {c} :
           th'[t].pc = IF t = conn_fd[p] /\ th[t].pc = "recv" THEN "eof" ELSE th[t].pc
      /\ \A t \in Conns :
           net'[t] = IF t = conn_fd[p] THEN "closed"
                     ELSE IF t = c /\ net[c] = "reset" THEN "dead" ELSE net[t]
  BY <1>3, RecvErrorStep
<1>5. conn_fd'[p] = Shut /\ \A q \in Pids \ {p} : conn_fd'[q] = conn_fd[q]
  BY <1>1, <1>3, Numbers DEF RecvError, Types, Knows
<1>6. \A q \in Pids \ {p} : Aside(q)
  BY <1>0, <1>1, <1>2, <1>4, <1>5, ThreadAside
<1>7. ThreadInv(c)'
  BY <1>1, <1>2, <1>3, <1>4 DEF ThreadInv, Knows
<1>8. SlotInv(p)'
  <2>1. \A t \in 1 .. made : t # c /\ th[t].pc = "gone" => th'[t].pc = "gone"
    BY <1>1, <1>4 DEF Knows
  <2> QED BY <1>1, <1>2, <1>4, <1>5, <2>1, Numbers DEF SlotInv, Knows
<1>9. LineInv(p)'
  <2>1. net'[c] \in {"dead", "closed"} /\ (net'[c] = "dead" => req[c] = <<>> /\ net[c] \in {"dead", "reset"})
    BY <1>2, <1>4
  <2>2. tid'[p] = c
    BY <1>1, <1>2 DEF Knows
  <2>3. net[c] \in {"dead", "reset"} => cli[p].conn # c
    BY <1>1 DEF LineInv, Knows
  <2> QED BY <1>2, <1>4, <2>1, <2>2, <2>3 DEF LineInv
<1> QED BY <1>0, <1>2, <1>6, <1>7, <1>8, <1>9, OwnStep DEF CalmState

\* The thread cancels itself: tid is still its own.
LEMMA RecvErrorEndsCalm ==
  ASSUME Types, SocketInv, CalmState, NEW c \in Conns, ConnInv(c), RecvErrorEnds(c)
  PROVE  CalmState'
<1> USE DEF connVars, boundVars, histVars, netVars
<1>0. ThreadStep(c)
  BY DEF ThreadStep
<1>1. PICK p \in Pids : Knows(c, p)
  BY <1>0, Actor DEF Knows
<1>2. /\ UNCHANGED <<up, made, owner, net, inbox, cli, sock, conn_fd, sockFd, tid, req, last>>
      /\ th[c].pc = "sleepE"
  BY DEF RecvErrorEnds
<1>3. th[c].pid = p /\ tid[p] = c /\ last[c] = p
  BY <1>1, <1>2 DEF Knows
<1>4. th'[c].pc = "gone" /\ \A t \in Conns \ {c} : th'[t] = th[t]
  <2>1. th' = [t \in Conns |-> IF t = c \/ (t = c /\ th[t].pc # "none")
                    THEN [th[t] EXCEPT !.pc = "gone"] ELSE th[t]]
    BY <1>3 DEF RecvErrorEnds, Victim
  <2>2. [th[c] EXCEPT !.pc = "gone"].pc = "gone"
    BY ThreadRecord DEF ThreadPcs
  <2> QED BY <2>1, <2>2
<1>5. /\ obj'[p] = "PAUSE" /\ sock_recovery'[p] = TRUE
      /\ \A q \in Pids \ {p} : obj'[q] = obj[q] /\ sock_recovery'[q] = sock_recovery[q]
  BY <1>1, <1>3, Numbers DEF RecvErrorEnds, Types, Knows
<1>6. \A q \in Pids \ {p} : Aside(q)
  BY <1>0, <1>1, <1>2, <1>4, <1>5, ThreadAside
<1>7. ThreadInv(c)'
  BY <1>1, <1>2, <1>3, <1>4 DEF ThreadInv, Knows
<1>8. SlotInv(p)'
  <2>1. \A t \in 1 .. made : t # c => th'[t] = th[t]
    BY <1>1, <1>4 DEF Knows
  <2> QED BY <1>1, <1>2, <1>4, <1>5, <2>1 DEF SlotInv, Knows, WantsSocket
<1>9. LineInv(p)'
  <2>2. tid'[p] = c
    BY <1>1, <1>2 DEF Knows
  <2> QED BY <1>1, <1>2, <1>3, <1>4, <1>5, <2>2 DEF LineInv, Knows
<1> QED BY <1>0, <1>2, <1>6, <1>7, <1>8, <1>9, OwnStep DEF CalmState

-----------------------------------------------------------------------------
(* Calm states: get_data.                                                  *)

\* The reply goes out over the connection the request came by.
LEMMA SendChunkCalm ==
  ASSUME Types, SocketInv, CalmState, NEW c \in Conns, ConnInv(c), SendChunk(c)
  PROVE  CalmState'
<1> USE DEF connVars, boundVars, histVars, netVars
<1>0. ThreadStep(c)
  BY DEF ThreadStep
<1>1. PICK p \in Pids : Knows(c, p)
  BY <1>0, Actor DEF Knows
<1>2. /\ UNCHANGED <<up, made, owner, net, cli, sock, conn_fd, sockFd, obj, sock_recovery, tid, req, last>>
      /\ th[c].pc = "read"
  BY <1>1 DEF SendChunk, Knows, ThreadInv
<1>3. th[c].pid = p /\ last[c] = p /\ tid'[p] = c
  BY <1>1, <1>2 DEF Knows
<1>4. th'[c] = [pc |-> "recv", pid |-> p] /\ \A t \in Conns \ {c} : th'[t] = th[t]
  <2>1. th' = Go(c, "recv", p)
    BY <1>3 DEF SendChunk
  <2>2. p \in Slots /\ "recv" \in ThreadPcs
    BY <1>1 DEF Knows, ThreadPcs
  <2> QED BY <2>1, <2>2, GoStep
<1>5. /\ net[c] = "open" /\ inbox' = [inbox EXCEPT ![c] = Append(inbox[c], [pid |-> p, disk |-> disk[p].open])]
  <2>1. sock[p] = c
    BY <1>1, <1>3 DEF SendChunk, ReplySocket, Knows
  <2> QED BY <1>3, <2>1 DEF SendChunk, ReplySocket, Deliver
<1>6. \A q \in Pids \ {p} : Aside(q)
  <2>1. \A t \in Conns \ {c} : inbox'[t] = inbox[t]
    BY <1>5 DEF Types
  <2> QED BY <1>0, <1>1, <1>2, <1>4, <2>1, ThreadAside
<1>7. ThreadInv(c)'
  BY <1>1, <1>2, <1>3, <1>4 DEF ThreadInv, Knows
<1>8. SlotInv(p)'
  <2>1. \A t \in 1 .. made : t # c => th'[t] = th[t]
    BY <1>1, <1>4 DEF Knows
  <2> QED BY <1>1, <1>2, <1>4, <2>1 DEF SlotInv, Knows
<1>9. LineInv(p)'
  <2>1. obj[p] # "PAUSE" /\ Len(req[c]) <= 1 /\ req[c] = <<>>
    BY <1>1, <1>2, <1>5 DEF LineInv, Knows
  <2>2. cli[p].conn = c => cli[p].asked /\ inbox[c] = <<>>
    BY <1>1, <1>2, <1>5 DEF LineInv, Knows
  <2>3. cli[p].conn = c => Len(inbox'[c]) = 1
    <3>1. [pid |-> p, disk |-> disk[p].open] \in [pid : Pids, disk : Pids]
      BY DEF Types
    <3>2. inbox'[c] = Append(inbox[c], [pid |-> p, disk |-> disk[p].open])
          /\ inbox[c] \in Seq([pid : Pids, disk : Pids])
      BY <1>5 DEF Types
    <3>3. Len(inbox'[c]) = Len(inbox[c]) + 1
      BY <3>1, <3>2, AppendOf
    <3> QED BY <2>2, <3>3
  <2>4. th'[c].pc = "recv"
    BY <1>4
  <2> QED BY <1>2, <1>3, <1>5, <2>1, <2>2, <2>3, <2>4 DEF LineInv
<1> QED BY <1>0, <1>2, <1>6, <1>7, <1>8, <1>9, OwnStep DEF CalmState

\* A write error: what is left behind is dead without a request, or closed.
LEMMA SendFailsCalm ==
  ASSUME Types, SocketInv, CalmState, NEW c \in Conns, ConnInv(c), SendFails(c)
  PROVE  CalmState'
<1> USE DEF connVars, boundVars, histVars, netVars
<1>0. ThreadStep(c)
  BY DEF ThreadStep
<1>1. PICK p \in Pids : Knows(c, p)
  BY <1>0, Actor DEF Knows
<1>2. /\ UNCHANGED <<up, made, owner, inbox, cli, sock, conn_fd, sockFd, tid, req, last>>
      /\ th[c].pc = "read"
  BY <1>1 DEF SendFails, Knows, ThreadInv
<1>3. th[c].pid = p /\ last[c] = p /\ tid'[p] = c /\ p \in Slots
  BY <1>1, <1>2 DEF Knows
<1>4. /\ th'[c] = [pc |-> "sleepW", pid |-> p]
      /\ \A t \in Conns \ {c} : th'[t].pc = IF t = conn_fd[p] /\ th[t].pc = "recv" THEN "eof" ELSE th[t].pc
  <2>1. \A t \in Conns : th'[t] = IF t = c THEN [pc |-> "sleepW", pid |-> p]
                    ELSE IF t = conn_fd[p] /\ th[t].pc = "recv"
                         THEN [th[t] EXCEPT !.pc = "eof"] ELSE th[t]
    BY <1>3 DEF SendFails
  <2>2. \A t \in Conns : [th[t] EXCEPT !.pc = "eof"].pc = "eof"
    BY ThreadRecord DEF ThreadPcs
  <2> QED BY <2>1, <2>2
<1>5. \A t \in Conns : net'[t] = IF t = conn_fd[p] THEN "closed"
                                 ELSE IF t = sock[p] /\ net[t] = "reset" THEN "dead" ELSE net[t]
  BY <1>3 DEF SendFails, ReplySocket
<1>6. /\ obj'[p] = "PAUSE" /\ sock_recovery'[p] = TRUE
      /\ \A q \in Pids \ {p} : obj'[q] = obj[q] /\ sock_recovery'[q] = sock_recovery[q]
  BY <1>3, Numbers DEF SendFails, Paused, Types
<1>7. \/ sock[p] = c /\ net[c] \in {"reset", "closed"}
      \/ sock[p] # c /\ obj[p] = "PAUSE" /\ net[c] = "closed"
  <2>1. CASE sock[p] \in Conns
    BY <1>1, <1>3, <2>1, Numbers DEF SendFails, ReplySocket, Knows
  <2>2. CASE sock[p] \notin Conns
    <3>1. sock[p] # c /\ obj[p] = "PAUSE"
      BY <1>1, <2>2 DEF Knows, SlotInv
    <3> QED BY <1>1, <1>2, <3>1 DEF Knows, LineInv
  <2> QED BY <2>1, <2>2
<1>8. \A q \in Pids \ {p} : Aside(q)
  <2>1. \A t \in Conns \ {c} : t # sock[p]
    BY <1>1 DEF Knows
  <2>2. ASSUME NEW t \in Conns \ {c}
        PROVE  \/ th'[t].pc = th[t].pc /\ net'[t] = net[t]
               \/ /\ t = conn_fd[p] /\ net'[t] = "closed"
                  /\ th'[t].pc = IF th[t].pc = "recv" THEN "eof" ELSE th[t].pc
    BY <1>4, <1>5, <2>1
  <2> QED BY <1>0, <1>1, <1>2, <1>6, <2>2, ThreadAside
<1>9. ThreadInv(c)'
  BY <1>1, <1>2, <1>3, <1>4 DEF ThreadInv, Knows
<1>10. SlotInv(p)'
  <2>1. \A t \in 1 .. made : t # c /\ th[t].pc = "gone" => th'[t].pc = "gone"
    BY <1>1, <1>4 DEF Knows
  <2> QED BY <1>1, <1>2, <1>4, <1>6, <2>1 DEF SlotInv, Knows
<1>11. LineInv(p)'
  <2>1. net'[c] \in {"dead", "closed"} /\ (net'[c] = "dead" => net[c] = "reset")
    BY <1>5, <1>7
  <2>2. net[c] = "reset" => req[c] = <<>> /\ cli[p].conn # c
    BY <1>1, <1>2 DEF LineInv, Knows
  <2>3. th'[c].pc = "sleepW"
    BY <1>4
  <2> QED BY <1>2, <1>3, <2>1, <2>2, <2>3 DEF LineInv
<1> QED BY <1>0, <1>2, <1>8, <1>9, <1>10, <1>11, OwnStep DEF CalmState

\* Back to recv.
LEMMA SendFailEndsCalm ==
  ASSUME Types, SocketInv, CalmState, NEW c \in Conns, ConnInv(c), SendFailEnds(c)
  PROVE  CalmState'
<1> USE DEF connVars, boundVars, histVars, netVars
<1>0. ThreadStep(c)
  BY DEF ThreadStep
<1>1. PICK p \in Pids : Knows(c, p)
  BY <1>0, Actor DEF Knows
<1>2. /\ UNCHANGED <<up, made, owner, net, inbox, cli, sock, sockFd, obj, sock_recovery, tid, req, last>>
      /\ th[c].pc = "sleepW"
  BY DEF SendFailEnds
<1>3. th[c].pid = p /\ last[c] = p /\ tid'[p] = c /\ p \in Slots
  BY <1>1, <1>2 DEF Knows
<1>4. th'[c] = [pc |-> "recv", pid |-> p] /\ \A t \in Conns \ {c} : th'[t] = th[t]
  <2>1. th' = Go(c, "recv", p)
    BY <1>3 DEF SendFailEnds
  <2> QED BY <1>3, <2>1, GoStep DEF ThreadPcs
<1>5. conn_fd'[p] = Shut /\ \A q \in Pids \ {p} : conn_fd'[q] = conn_fd[q]
  BY <1>3, Numbers DEF SendFailEnds, Types
<1>6. \A q \in Pids \ {p} : Aside(q)
  BY <1>0, <1>1, <1>2, <1>4, <1>5, ThreadAside
<1>7. ThreadInv(c)'
  BY <1>1, <1>2, <1>3, <1>4 DEF ThreadInv, Knows
<1>8. SlotInv(p)'
  <2>1. \A t \in 1 .. made : t # c => th'[t] = th[t]
    BY <1>1, <1>4 DEF Knows
  <2> QED BY <1>1, <1>2, <1>4, <1>5, <2>1, Numbers DEF SlotInv, Knows
<1>9. LineInv(p)'
  <2>1. th'[c].pc = "recv"
    BY <1>4
  <2> QED BY <1>1, <1>2, <1>3, <2>1 DEF LineInv, Knows
<1> QED BY <1>0, <1>2, <1>6, <1>7, <1>8, <1>9, OwnStep DEF CalmState

\* Nothing is sent where SIGPIPE is raised.
LEMMA NothingKills ==
  ASSUME Types, SocketInv, CalmState, NEW c \in Conns, ConnInv(c)
  PROVE  ~SendKills(c)
<1> SUFFICES ASSUME SendKills(c) PROVE FALSE
  OBVIOUS
<1>0. ThreadStep(c)
  BY DEF ThreadStep
<1>1. PICK p \in Pids : Knows(c, p)
  BY <1>0, Actor DEF Knows
<1>2. th[c].pc = "read" /\ th[c].pid = p
  BY <1>1 DEF SendKills, Knows, ThreadInv
<1>3. net[c] # "dead" /\ (obj[p] = "PAUSE" => sockFd[p] = Stdin)
  BY <1>1, <1>2 DEF Knows, LineInv
<1>4. sock[p] # Listen
  BY <1>1, <1>3, Numbers DEF Knows, SlotInv
<1>5. sock[p] \in Conns => sock[p] = c
  BY <1>1 DEF Knows
<1> QED BY <1>2, <1>3, <1>4, <1>5 DEF SendKills, ReplySocket

\* Every step keeps CalmInv.
LEMMA CalmKept ==
  ASSUME Types, SocketInv, DiskInv, CalmInv, \A c \in Conns : ConnInv(c), Next
  PROVE  CalmInv'
<1> SUFFICES ASSUME Calm' PROVE CalmState'
  BY DEF CalmInv, CalmState
<1>1. Calm /\ readErrs = 0 /\ readErrs' = 0 /\ early' = {}
  BY CalmBack DEF Calm
<1>2. CalmState
  BY <1>1 DEF CalmInv, CalmState
<1>3. ASSUME NEW p \in Pids, Outside(p)
      PROVE  CalmState'
  BY <1>1, <1>2, <1>3, AskCalm, ReceiveCalm, LeaveCalm, RecoverCalm DEF Outside
<1>4. ASSUME NEW p \in Pids, Accept(p)
      PROVE  CalmState'
  BY <1>1, <1>2, <1>4, AcceptCalm
<1>5. ASSUME NEW c \in Conns, ThreadStep(c)
      PROVE  CalmState'
  <2>1. ConnInv(c)
    OBVIOUS
  <2>2. ~ReadFails(c)
    BY <1>1 DEF ReadFails
  <2>3. ~ReadFailEnds(c)
    <3>1. c \in 1 .. made
      <4>1. c <= made
        BY <1>5, <2>1, OtherThreads
      <4>2. made \in Nat
        BY ServerConnAssumption DEF Types
      <4> QED BY <4>1, <4>2 DEF Conns
    <3> QED BY <1>2, <3>1 DEF ReadFailEnds, CalmState, ThreadInv
  <2> QED BY <1>2, <1>5, <2>1, <2>2, <2>3, RecvCalm, RecvEofCalm, RecvErrorCalm, RecvErrorEndsCalm,
             SendChunkCalm, SendFailsCalm, SendFailEndsCalm, NothingKills DEF ThreadStep
<1> QED BY <1>3, <1>4, <1>5 DEF Next, Outside

-----------------------------------------------------------------------------
(* The theorems.                                                           *)

\* The types hold at the start.
LEMMA InitTypes == Init => Types
<1> SUFFICES ASSUME Init PROVE Types
  OBVIOUS
<1>1. /\ up \in BOOLEAN /\ made \in NumPartners .. MaxConns
      /\ total_conn \in Nat /\ resets \in Nat /\ readErrs \in Nat /\ swapped \in BOOLEAN
  <2>1. up \in BOOLEAN /\ swapped \in BOOLEAN
    BY DEF Init
  <2>2. made \in NumPartners .. MaxConns /\ total_conn \in Nat
    BY ServerConnAssumption DEF Init
  <2> QED BY <2>1, <2>2 DEF Init
<1>2. owner \in Seq(Pids) /\ Len(owner) = made
  <2>1. owner \in [1 .. NumPartners -> Pids]
    BY ServerConnAssumption DEF Init, Pids
  <2> QED BY <2>1, ServerConnAssumption DEF Init
<1>3. net \in [Conns -> {"none", "open", "reset", "dead", "closed"}] /\ req \in [Conns -> Seq(Pids)]
      /\ inbox \in [Conns -> Seq([pid : Pids, disk : Pids])] /\ last \in [Conns -> Pids \cup {-1}]
  BY DEF Init
<1>4. cli \in [Pids -> [conn : 0 .. made, asked : BOOLEAN]]
  <2>1. \A p \in Pids : p + 1 \in 0 .. made
    BY ServerConnAssumption DEF Init, Pids
  <2> QED BY <2>1 DEF Init
<1>5. th \in [Conns -> [pc : ThreadPcs, pid : Slots]]
  BY Numbers DEF Init, NoThread, ThreadPcs
<1>6. sock \in [Slots -> Sockets] /\ conn_fd \in [Slots -> Sockets] /\ tid \in [Slots -> 0 .. made]
  <2>1. \A p \in Pids : p + 1 \in 0 .. made /\ p + 1 \in Conns
    BY ServerConnAssumption DEF Init, Pids, Conns
  <2>2. NumPartners \in Conns /\ 0 \in 0 .. made
    BY ServerConnAssumption DEF Init, Conns
  <2> QED BY <2>1, <2>2, Numbers DEF Init
<1>7. /\ sockFd \in [Slots -> {Stdin, Listen}] /\ obj \in [Slots -> {"IN_USE", "PAUSE", "RESUME"}]
      /\ sock_recovery \in [Slots -> BOOLEAN] /\ partner_created \in [Slots -> BOOLEAN]
      /\ arg \in [Slots -> Slots]
  BY Numbers DEF Init
<1>8. disk \in [Pids -> [state : {"IN_USE", "PAUSE", "RESUME"}, open : Pids]]
  BY DEF Init
<1> QED BY <1>1, <1>2, <1>3, <1>4, <1>5, <1>6, <1>7, <1>8 DEF Types

\* The invariant holds at the start.
LEMMA InitHolds == Init => ServerInv
<1> SUFFICES ASSUME Init PROVE ServerInv
  OBVIOUS
<1>1. Types
  BY InitTypes
<1>2. /\ \A p \in Pids : p + 1 \in 1 .. made /\ p + 1 \in Conns /\ owner[p + 1] = p
      /\ \A t \in 1 .. made : t \in Conns /\ owner[t] = t - 1 /\ made = NumPartners /\ NumPartners \in Conns
  BY ServerConnAssumption DEF Init, Pids, Conns
<1>3. SocketInv
  <2>1. \A p \in Slots : sock[p] \in Conns => p \in Pids /\ sock[p] = p + 1
    BY Numbers DEF Init
  <2> QED BY <1>2, <2>1, ServerConnAssumption DEF SocketInv
<1>4. DiskInv
  BY DEF Init, DiskInv
<1>5. \A c \in Conns : ConnInv(c)
  BY Numbers, ServerConnAssumption DEF Init, ConnInv, NoThread
<1>6. DataToAsker
  <2>1. \A c \in 1 .. made : DOMAIN inbox[c] = {}
    BY <1>2 DEF Init
  <2> QED BY <2>1 DEF DataToAsker
<1>7. ASSUME NEW p \in Pids PROVE SlotInv(p) /\ LineInv(p)
  <2>1. /\ tid[p] = p + 1 /\ sock[p] = p + 1 /\ sockFd[p] = Stdin /\ cli[p].conn = p + 1
        /\ obj[p] = "IN_USE" /\ conn_fd[p] \in {NumPartners, Stdin}
    BY Numbers DEF Init
  <2>2. /\ th[p + 1].pc = "recv" /\ net[p + 1] = "open" /\ req[p + 1] = <<>> /\ inbox[p + 1] = <<>>
    BY <1>2, ServerConnAssumption DEF Init, Pids
  <2>3. \A t \in 1 .. made : owner[t] = p => t = p + 1
    BY <1>2, ServerConnAssumption DEF Pids, Init
  <2>4. made = NumPartners /\ NumPartners <= NumPartners
    BY ServerConnAssumption DEF Init
  <2>5. SlotInv(p)
    BY <1>2, <2>1, <2>2, <2>3, <2>4, Numbers DEF SlotInv
  <2>6. Len(req[p + 1]) <= 1
    BY <2>2
  <2>7. LineInv(p)
    BY <2>1, <2>2, <2>6 DEF LineInv
  <2> QED BY <2>5, <2>7
<1>8. ASSUME NEW c \in 1 .. made PROVE ThreadInv(c)
  <2>1. th[c].pc = "recv" /\ last[c] = -1 /\ DOMAIN req[c] = {}
    BY <1>2, ServerConnAssumption DEF Init
  <2> QED BY <2>1 DEF ThreadInv
<1>9. CalmInv
  BY <1>7, <1>8 DEF CalmInv, Init
<1> QED BY <1>1, <1>3, <1>4, <1>5, <1>6, <1>9 DEF ServerInv

\* Every step keeps it.
LEMMA StepHolds == ServerInv /\ [Next]_vars => ServerInv'
<1>1. ASSUME ServerInv, Next PROVE ServerInv'
  <2>0. Types /\ SocketInv /\ DiskInv /\ DataToAsker /\ CalmInv /\ \A c \in Conns : ConnInv(c)
    BY <1>1 DEF ServerInv
  <2>1. Types'
    BY <1>1, <2>0, TypesKept
  <2>2. SocketInv' /\ DiskInv' /\ DataToAsker'
    BY <1>1, <2>0, SocketKept, DiskKept, DataKept
  <2>3. CalmInv'
    BY <1>1, <2>0, CalmKept
  <2>4. \A c \in Conns : ConnInv(c)'
    BY <1>1, <2>0, ConnKept
  <2> QED BY <2>1, <2>2, <2>3, <2>4 DEF ServerInv
<1>2. ASSUME ServerInv, UNCHANGED vars PROVE ServerInv'
  <2>0. UNCHANGED <<up, made, owner, net, req, inbox, cli, th, last, sock, conn_fd, sockFd, obj,
                    sock_recovery, partner_created, total_conn, arg, tid, disk, resets, readErrs,
                    swapped, early, cut>>
    BY <1>2 DEF vars, netVars, connVars, boundVars, histVars
  <2>1. Types'
    BY <1>2, <2>0 DEF ServerInv, Types
  <2>2. SocketInv' /\ DiskInv'
    BY <1>2, <2>0 DEF ServerInv, SocketInv, DiskInv
  <2>3. DataToAsker'
    BY <1>2, <2>0 DEF ServerInv, DataToAsker
  <2>4. \A c \in Conns : ConnInv(c)'
    BY <1>2, <2>0 DEF ServerInv, ConnInv
  <2>5. CalmInv'
    <3>1. Calm' <=> Calm
      BY <2>0 DEF Calm
    <3>2. \A p \in Pids : (SlotInv(p) => SlotInv(p)') /\ (LineInv(p) => LineInv(p)')
      BY <2>0 DEF SlotInv, LineInv, WantsSocket
    <3>3. \A c \in 1 .. made : ThreadInv(c) => ThreadInv(c)'
      BY <2>0 DEF ThreadInv
    <3> QED BY <1>2, <2>0, <3>1, <3>2, <3>3 DEF ServerInv, CalmInv
  <2> QED BY <2>1, <2>2, <2>3, <2>4, <2>5 DEF ServerInv
<1> QED BY <1>1, <1>2

\* The inductive invariant, for every number of partners, connections and faults.
THEOREM ServerInvariant == Spec => []ServerInv
<1>1. Init => ServerInv
  BY InitHolds
<1>2. ServerInv /\ [Next]_vars => ServerInv'
  BY StepHolds
<1> QED BY <1>1, <1>2, PTL DEF Spec

\* get_data sends the data of a partner to the client that asked for it, however
\* connections and threads come and go, unless the accept loop gave a paused partner
\* to another client; and it is data of the partner's disk until a read has failed.
THEOREM DataReachesItsAsker == Spec => []DataToAsker
<1>1. ServerInv => DataToAsker
  BY DEF ServerInv
<1> QED BY <1>1, ServerInvariant, PTL

\* Connections lost at any point of a resync, any number of them, raise no SIGPIPE in
\* the server: chunk_write is called neither on a socket whose error was reported nor
\* on the listening one, unless one of the events that Calm excludes happened.
THEOREM LostConnectionsAreSurvived == Spec => []Survives
<1>1. ServerInv => Survives
  BY DEF ServerInv, CalmInv, Survives
<1> QED BY <1>1, ServerInvariant, PTL
=============================================================================
