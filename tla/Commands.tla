------------------------------ MODULE Commands ------------------------------
(***************************************************************************)
(* The way of a command from ebdradm to the control thread of a daemon, on   *)
(* both platforms.  Under Linux it is a FIFO: a stream of bytes without      *)
(* separators, of which the daemon reads CMD_LEN at a time and runs the      *)
(* first command it finds.  Under Windows it is a named pipe made for one    *)
(* command at a time.                                                       *)
(*                                                                         *)
(*   utils/atdr_linux/atdr_adm.c, utils/atdr_windows/atdr_adm.c,             *)
(*   user/atdr_linux/atdr_daemon.c,                                         *)
(*   user/atdr_windows/windows_client/atdr_daemon.c                         *)
(*                                                                         *)
(* A command is two units long, its letter and the rest; what the commands   *)
(* do is in the other modules.                                              *)
(***************************************************************************)
EXTENDS Integers, Sequences, FiniteSets

CONSTANTS
  MaxCalls,   \* bound: calls of ebdradm
  Letters,    \* the commands that are given
  Argcs,      \* and with how many arguments
  BufUnits,   \* units that fit in the daemon's buffer
  MaxFaults   \* bound: calls that are killed, daemons that end

ASSUME CMAssumption ==
  /\ {MaxCalls, BufUnits, MaxFaults} \subseteq Nat /\ BufUnits >= 2

VARIABLES
  platform,  \* "linux" | "windows"
  made,      \* daemons whose FIFO exists
  up,        \* daemons that run
  dpc,       \* control thread of each daemon
  chan,      \* what waits in the FIFO or pipe of each daemon: units
  pipe,      \* the call connected to each daemon's pipe instance, or NoAdm
  cur,       \* the command each daemon is running
  adm,       \* the calls: pc, letter, daemon it is meant for
  ran,       \* what the daemons have run: daemon, call, letter
  behind,    \* calls that wrote while something waited
  caught,    \* calls whose command was lost with the daemon
  faults,    \* faults so far
  ev         \* events so far

admVars == <<adm, behind>>
vars == <<platform, made, up, dpc, chan, pipe, cur, admVars, ran, caught, faults, ev>>

-----------------------------------------------------------------------------
(* The commands: letter, argc, the daemon they go to, and the letters with    *)
(* which a rest of their text can begin.                                     *)

Cmd(ch, argc, to, inside) == [ch |-> ch, argc |-> argc, to |-> to, inside |-> inside]

DeviceCmds == {
  Cmd("a", 4, "server", {"s", "e", "r", "l", "o", "g"}),
  Cmd("b", 4, "client", {"c", "l", "i", "e", "n", "o", "g"}),
  Cmd("c", 5, "server", {"r", "e", "a"}),
  Cmd("d", 3, "client", {"i", "s", "k"})}
ListCmds == {
  Cmd("e", 2, "server", {}), Cmd("f", 2, "client", {}),
  Cmd("g", 4, "server", {"r", "a", "i", "n", "s", "e"}),
  Cmd("i", 2, "server", {}), Cmd("j", 2, "client", {})}
PartnerCmds == {
  Cmd("p", 8, "client", {"a", "r", "n", "e"}),
  Cmd("k", 3, "client", {"i", "l", "p", "a", "r", "n", "e"}),
  Cmd("o", 3, "client", {"r", "m", "e", "l", "a", "i", "o", "n"})}
ResyncCmds == {
  Cmd("h", 2, "server", {}), Cmd("m", 3, "client", {"e", "a"}),
  Cmd("r", 3, "client", {"e", "s", "y", "n", "c"}),
  Cmd("n", 3, "client", {"p", "a", "s", "e"}),
  Cmd("l", 3, "client", {"r", "e", "s", "m"})}
RelationCmds == {
  Cmd("s", 4, "server", {"n", "a", "p"}),
  Cmd("x", 8, "server", {}), Cmd("y", 8, "client", {})}
InfoCmds == {
  Cmd("u", 2, "none", {}), Cmd("v", 2, "none", {}), Cmd("w", 2, "server", {}),
  Cmd("z", 3, "other", {})}
FullResyncCmd == Cmd("q", 3, "client", {"f", "l", "r", "e", "s", "y", "n", "c"})

LinuxTable ==
  DeviceCmds \cup ListCmds \cup PartnerCmds \cup ResyncCmds \cup RelationCmds \cup InfoCmds
WindowsTable == LinuxTable \cup {FullResyncCmd}
Table == IF platform = "linux" THEN LinuxTable ELSE WindowsTable
Row(ch) == CHOOSE r \in Table : r.ch = ch

\* The letters the daemons have a case for.
LinuxCases == {"a", "b", "c", "e", "f", "g", "i", "j", "k", "l", "m", "n", "o", "p", "r",
               "s", "x", "y", "z"}
WindowsCases == {"c", "l", "m", "n", "p", "q", "r", "s", "y"}
Cases == IF platform = "linux" THEN LinuxCases ELSE WindowsCases

-----------------------------------------------------------------------------
Daemons == {"server", "client"}
Adms == 1..MaxCalls
NoAdm == 0
NoCmd == [n |-> NoAdm, ch |-> "none"]
Linux == platform = "linux"
Other(d) == IF d = "server" THEN "client" ELSE "server"

\* The daemon whose FIFO the call writes to.  --dbinfo takes "c" for the
\* server and everything else for the client.
GoesTo(a) ==
  LET to == Row(adm[a].ch).to
  IN IF to = "other" THEN Other(adm[a].meant) ELSE to

Writers(d) == {a \in Adms : adm[a].pc = "write" /\ GoesTo(a) = d}
Waiting(d) == {chan[d][i].n : i \in DOMAIN chan[d]}
Fault == faults < MaxFaults /\ faults' = faults + 1

Init ==
  /\ platform \in {"linux", "windows"}
  /\ made = {} /\ up = {} /\ dpc = [d \in Daemons |-> "off"]
  /\ chan = [d \in Daemons |-> <<>>] /\ pipe = [d \in Daemons |-> NoAdm]
  /\ cur = [d \in Daemons |-> NoCmd]
  /\ adm = [a \in Adms |-> [pc |-> "idle", ch |-> "none", meant |-> "none"]]
  /\ ran = {} /\ behind = {} /\ caught = {} /\ faults = 0 /\ ev = {}

-----------------------------------------------------------------------------
(* ebdradm *)

\* main: a command with the wrong number of arguments, or one that is not
\* sent, prints a text, and nothing has happened.
AdmStart(a, ch, meant, argc) ==
  /\ adm[a].pc = "idle" /\ \A b \in 1..(a - 1) : adm[b].pc # "idle"
  /\ ch \in {r.ch : r \in Table}
  /\ Row(ch).to = "other" \/ meant = Row(ch).to
  /\ adm' = IF argc = Row(ch).argc
               THEN [adm EXCEPT ![a] = [pc |-> "open", ch |-> ch, meant |-> meant]]
               ELSE adm
  /\ UNCHANGED <<platform, made, up, dpc, chan, pipe, cur, ran, behind, caught, faults, ev>>

\* open for writing: waits for a reader, and fails without a FIFO.
FifoOpen(a) ==
  LET d == GoesTo(a)
  IN /\ Linux /\ adm[a].pc = "open" /\ (d \in made => dpc[d] # "off" /\ dpc[d] # "boot")
     /\ adm' = [adm EXCEPT ![a].pc = IF d \in made THEN "write" ELSE "refused"]
     /\ UNCHANGED <<platform, made, up, dpc, chan, pipe, cur, ran, behind, caught, faults, ev>>

\* write: without a reader the call is killed by the signal, and what was in
\* the FIFO goes with the last writer.
FifoWrite(a) ==
  LET d == GoesTo(a)
  IN /\ Linux /\ adm[a].pc = "write"
     /\ IF dpc[d] \in {"off", "boot", "opening"}
          THEN /\ adm' = [adm EXCEPT ![a].pc = "killed"]
               /\ chan' = [chan EXCEPT ![d] = IF Writers(d) = {a} THEN <<>> ELSE @]
               /\ caught' = IF Writers(d) = {a} THEN caught \cup Waiting(d) ELSE caught
               /\ UNCHANGED behind
          ELSE /\ adm' = [adm EXCEPT ![a].pc = "told"]
               /\ chan' = [chan EXCEPT ![d] = @ \o <<[n |-> a, part |-> 1],
                                                    [n |-> a, part |-> 2]>>]
               /\ behind' = IF chan[d] # <<>> THEN behind \cup {a} ELSE behind
               /\ UNCHANGED caught
     /\ UNCHANGED <<platform, made, up, dpc, pipe, cur, ran, faults, ev>>

\* CreateFile: the one instance must be free; nobody waits for it.
PipeOpen(a) ==
  LET d == GoesTo(a)
  IN /\ ~Linux /\ adm[a].pc = "open"
     /\ IF dpc[d] \in {"created", "connect"} /\ pipe[d] = NoAdm
          THEN /\ adm' = [adm EXCEPT ![a].pc = "write"]
               /\ pipe' = [pipe EXCEPT ![d] = a]
               /\ dpc' = [dpc EXCEPT ![d] = IF @ = "connect" THEN "read" ELSE @]
          ELSE /\ adm' = [adm EXCEPT ![a].pc = "refused"]
               /\ UNCHANGED <<pipe, dpc>>
     /\ UNCHANGED <<platform, made, up, chan, cur, ran, behind, caught, faults, ev>>

\* WriteFile: one message; the pipe of a daemon that has ended is broken.
PipeWrite(a) ==
  LET d == GoesTo(a)
  IN /\ ~Linux /\ adm[a].pc = "write"
     /\ IF pipe[d] = a
          THEN /\ adm' = [adm EXCEPT ![a].pc = "told"]
               /\ chan' = [chan EXCEPT ![d] = @ \o <<[n |-> a, part |-> 1],
                                                    [n |-> a, part |-> 2]>>]
               /\ behind' = IF chan[d] # <<>> THEN behind \cup {a} ELSE behind
          ELSE adm' = [adm EXCEPT ![a].pc = "refused"] /\ UNCHANGED <<chan, behind>>
     /\ UNCHANGED <<platform, made, up, dpc, pipe, cur, ran, caught, faults, ev>>

\* The call is interrupted between its open and its write.
AdmKilled(a) ==
  /\ adm[a].pc = "write" /\ Fault
  /\ adm' = [adm EXCEPT ![a].pc = "killed"]
  /\ UNCHANGED <<platform, made, up, dpc, chan, pipe, cur, ran, behind, caught, ev>>

AdmStep(a) == FifoOpen(a) \/ FifoWrite(a) \/ PipeOpen(a) \/ PipeWrite(a)

-----------------------------------------------------------------------------
(* The daemon *)

\* main: the log, the daemon, the database.
Start(d) ==
  /\ dpc[d] = "off" /\ d \notin up
  /\ up' = up \cup {d} /\ dpc' = [dpc EXCEPT ![d] = "boot"]
  /\ UNCHANGED <<platform, made, chan, pipe, cur, admVars, ran, caught, faults, ev>>

\* create_fifo, and the control thread.
ThreadInit(d) ==
  /\ dpc[d] = "boot"
  /\ made' = made \cup {d}
  /\ dpc' = [dpc EXCEPT ![d] = IF Linux THEN "opening" ELSE "create"]
  /\ UNCHANGED <<platform, up, chan, pipe, cur, admVars, ran, caught, faults, ev>>

\* open_server_fifo, open_client_fifo: waits for a writer.
OpenFifo(d) ==
  /\ Linux /\ dpc[d] = "opening" /\ Writers(d) # {}
  /\ dpc' = [dpc EXCEPT ![d] = "wait"]
  /\ UNCHANGED <<platform, made, up, chan, pipe, cur, admVars, ran, caught, faults, ev>>

\* Fault: the read goes on until the buffer is full.
TakenFull(d) == IF Len(chan[d]) >= BufUnits THEN BufUnits ELSE 0

\* Fault: one unit at a time.
TakenOne(d) == IF chan[d] = <<>> THEN 0 ELSE 1

\* The units one read returns.
Taken(d) == IF Len(chan[d]) < BufUnits THEN Len(chan[d]) ELSE BufUnits

\* What parse_daemon_request finds at the start of the buffer.
Found(u) ==
  IF u.part = 1 THEN {[n |-> u.n, ch |-> adm[u.n].ch]}
                ELSE {[n |-> u.n, ch |-> c] : c \in Row(adm[u.n].ch).inside \cup {"none"}}

\* read_from_fifo.  Everything behind the first command of the buffer is
\* dropped; a command that is cut in two leaves its rest for the next read.
ReadFifo(d) ==
  /\ Linux /\ dpc[d] = "wait" /\ Taken(d) > 0
  /\ \E c \in Found(chan[d][1]) : cur' = [cur EXCEPT ![d] = c]
  /\ chan' = [chan EXCEPT ![d] = SubSeq(@, Taken(d) + 1, Len(@))]
  /\ ev' = IF Len(chan[d]) > BufUnits THEN ev \cup {"piled"} ELSE ev
  /\ dpc' = [dpc EXCEPT ![d] = "run"]
  /\ UNCHANGED <<platform, made, up, pipe, admVars, ran, caught, faults>>

\* Fault: the end of the stream is an error.
ReadEndEnds(d) ==
  /\ Linux /\ dpc[d] = "wait" /\ chan[d] = <<>> /\ Writers(d) = {}
  /\ up' = up \ {d} /\ dpc' = [dpc EXCEPT ![d] = "off"]
  /\ UNCHANGED <<platform, made, chan, pipe, cur, admVars, ran, caught, faults, ev>>

\* The end of the stream: nothing to parse.
ReadEnd(d) ==
  /\ Linux /\ dpc[d] = "wait" /\ chan[d] = <<>> /\ Writers(d) = {}
  /\ UNCHANGED vars

\* CreateNamedPipe
PipeCreate(d) ==
  /\ dpc[d] = "create"
  /\ dpc' = [dpc EXCEPT ![d] = "created"]
  /\ UNCHANGED <<platform, made, up, chan, pipe, cur, admVars, ran, caught, faults, ev>>

\* The daemon ends; what nobody else holds open is lost.
Ends(d, why) ==
  /\ up' = up \ {d} /\ dpc' = [dpc EXCEPT ![d] = "off"]
  /\ pipe' = [pipe EXCEPT ![d] = NoAdm]
  /\ chan' = [chan EXCEPT ![d] = IF Linux /\ Writers(d) # {} THEN @ ELSE <<>>]
  /\ caught' = caught \cup {cur[d].n} \cup (IF Linux /\ Writers(d) # {} THEN {} ELSE Waiting(d))
  /\ cur' = [cur EXCEPT ![d] = NoCmd]
  /\ ev' = ev \cup {why}
  /\ UNCHANGED <<platform, made, admVars, ran>>

\* ConnectNamedPipe: a call that has connected since the pipe was made counts
\* as a failure, and the daemon ends when it reads from the handle it closed.
PipeConnect(d) ==
  /\ dpc[d] = "created"
  /\ \/ /\ pipe[d] = NoAdm /\ dpc' = [dpc EXCEPT ![d] = "connect"]
        /\ UNCHANGED <<platform, made, up, chan, pipe, cur, admVars, ran, caught, ev>>
     \/ pipe[d] # NoAdm /\ Ends(d, "early")
  /\ UNCHANGED faults

\* read_from_fifo under Windows: a call that closes its end without a message
\* ends the daemon.
ReadPipe(d) ==
  /\ dpc[d] = "read"
  /\ \/ /\ chan[d] # <<>>
        /\ \E c \in Found(chan[d][1]) : cur' = [cur EXCEPT ![d] = c]
        /\ chan' = [chan EXCEPT ![d] = <<>>]
        /\ dpc' = [dpc EXCEPT ![d] = "run"]
        /\ UNCHANGED <<platform, made, up, pipe, admVars, ran, caught, ev>>
     \/ chan[d] = <<>> /\ adm[pipe[d]].pc = "killed" /\ Ends(d, "broken")
  /\ UNCHANGED faults

\* parse_daemon_request has run the command; the pipe is closed.  A letter
\* without a case is dropped.
Run(d) ==
  /\ dpc[d] = "run"
  /\ ran' = ran \cup {[d |-> d, n |-> cur[d].n,
                       ch |-> IF cur[d].ch \in Cases THEN cur[d].ch ELSE "none"]}
  /\ cur' = [cur EXCEPT ![d] = NoCmd]
  /\ pipe' = [pipe EXCEPT ![d] = NoAdm]
  /\ dpc' = [dpc EXCEPT ![d] = IF Linux THEN "wait" ELSE "create"]
  /\ UNCHANGED <<platform, made, up, chan, admVars, caught, faults, ev>>

\* stop_work: a command the daemon ran, or another of its threads, ends it.
Stop(d) == d \in up /\ Fault /\ Ends(d, "stopped")

DaemonStep(d) ==
  \/ ThreadInit(d) \/ OpenFifo(d) \/ ReadFifo(d) \/ ReadEnd(d)
  \/ PipeCreate(d) \/ PipeConnect(d) \/ ReadPipe(d) \/ Run(d)

Next ==
  \/ \E a \in Adms : \/ \E ch \in Letters, meant \in Daemons, argc \in Argcs :
                          AdmStart(a, ch, meant, argc)
                     \/ AdmStep(a) \/ AdmKilled(a)
  \/ \E d \in Daemons : Start(d) \/ DaemonStep(d) \/ Stop(d)

\* Calls and daemons are processes that the system schedules.
Fairness ==
  /\ \A a \in Adms : WF_vars(AdmStep(a))
  /\ \A d \in Daemons : WF_vars(DaemonStep(d))
Spec == Init /\ [][Next]_vars /\ Fairness

-----------------------------------------------------------------------------
(* Properties *)

Told(a) == adm[a].pc = "told"
HasRun(a) == \E r \in ran : r.n = a
Running(a) == \E d \in Daemons : cur[d].n = a

TypeOK ==
  /\ platform \in {"linux", "windows"} /\ up \subseteq Daemons /\ made \subseteq Daemons
  /\ \A d \in Daemons :
       /\ dpc[d] \in {"off", "boot", "opening", "wait", "create", "created", "connect",
                      "read", "run"}
       /\ \A i \in DOMAIN chan[d] : chan[d][i] \in [n : Adms, part : {1, 2}]
       /\ pipe[d] \in Adms \cup {NoAdm}
       /\ d \notin up <=> dpc[d] = "off"
  /\ \A a \in Adms : adm[a].pc \in {"idle", "open", "write", "told", "refused",
                                    "killed"}
  /\ behind \subseteq Adms /\ caught \subseteq Adms \cup {NoAdm} /\ faults \in 0..MaxFaults

\* A daemon runs only what somebody asked of it (--dbinfo of the other one),
\* unless more waited in its FIFO than one read takes: then the rest of a
\* command that was cut can be taken for another command.
RunsOnlyAsked ==
  \A r \in ran : \/ r.ch = "none"
                 \/ /\ r.ch = adm[r.n].ch
                    /\ r.d = IF r.ch = "z" THEN Other(adm[r.n].meant) ELSE adm[r.n].meant
                 \/ Linux /\ "piled" \in ev

\* A command that ebdradm has sent without an error waits, runs or has run,
\* unless it was written behind another one, or the daemon ended.
NothingVanishes ==
  \A a \in Adms : Told(a) =>
    \/ \E d \in Daemons : a \in Waiting(d)
    \/ Running(a) \/ HasRun(a) \/ a \in behind \cup caught

\* Under Windows no command is written behind another, so each one is run or
\* the call is told that it was refused.
OneAtATime == ~Linux => behind = {} /\ \A d \in Daemons : Len(chan[d]) <= 2

\* No call of ebdradm ends the daemon under Linux; under Windows one does
\* that connects before the daemon waits for it, or is killed before it writes.
EndsOnlyIf ==
  \A d \in made : d \notin up => "stopped" \in ev \/ (~Linux /\ ev \cap {"early", "broken"} # {})

\* Every command that was sent is run in the end, with the same exceptions:
\* again and again there is none that still waits.
Delivered == []<>(\A a \in Adms : Told(a) => HasRun(a) \/ a \in behind \cup caught)

\* Every call returns, unless the daemon of a FIFO that was made is not running.
Returns ==
  []<>(\A a \in Adms : adm[a].pc \in {"open", "write"} => Linux /\ GoesTo(a) \notin up)

-----------------------------------------------------------------------------
(* The inductive invariant of the proofs. *)

DaemonPcs == {"off", "boot", "opening", "wait", "create", "created", "connect", "read", "run"}
AdmPcs == {"idle", "open", "write", "told", "refused", "killed"}
\* What parse_daemon_request can find at the start of its buffer.
Starts ==
  {r.ch : r \in WindowsTable} \cup (UNION {r.inside : r \in WindowsTable}) \cup {"none"}
Units == [n : Adms, part : {1, 2}]

Types ==
  /\ platform \in {"linux", "windows"}
  /\ made \subseteq Daemons /\ up \subseteq Daemons
  /\ dpc \in [Daemons -> DaemonPcs]
  /\ chan \in [Daemons -> Seq(Units)]
  /\ pipe \in [Daemons -> Adms \cup {NoAdm}]
  /\ cur \in [Daemons -> [n : Adms \cup {NoAdm}, ch : Starts]]
  /\ adm \in [Adms -> [pc : AdmPcs, ch : Starts, meant : Daemons \cup {"none"}]]
  /\ ran \subseteq [d : Daemons, n : Adms \cup {NoAdm}, ch : Starts]
  /\ behind \subseteq Adms /\ caught \subseteq Adms \cup {NoAdm}
  /\ faults \in 0..MaxFaults

\* Call a has written its command to daemon d.
Sent(a, d) == a \in Adms /\ Told(a) /\ GoesTo(a) = d

\* More waited in a FIFO than one read takes.
Piled == Linux /\ "piled" \in ev

\* A call under way has a row of the table.
CallInv ==
  \A a \in Adms : adm[a].pc # "idle" =>
    /\ adm[a].ch \in {r.ch : r \in Table} /\ adm[a].meant \in Daemons
    /\ Row(adm[a].ch).to = "other" \/ adm[a].meant = Row(adm[a].ch).to

\* What waits was sent here; what was not written behind something is in front,
\* and only a cut puts the rest of a command there.
ChannelInv(d) ==
  /\ \A i \in DOMAIN chan[d] :
       /\ Sent(chan[d][i].n, d)
       /\ \/ chan[d][i].n \in behind
          \/ i <= 2 /\ chan[d][i].n = chan[d][1].n
  /\ chan[d] # <<>> /\ ~Piled => chan[d][1].part = 1

\* A pipe holds at most the message of the call that is connected.
PipeInv(d) ==
  ~Linux => /\ chan[d] # <<>> =>
                 dpc[d] # "run" /\ Len(chan[d]) = 2 /\ pipe[d] \in Adms /\ Told(pipe[d])
            /\ dpc[d] = "run" /\ pipe[d] \in Adms => Told(pipe[d])
            /\ behind = {}

\* The command a daemon runs was sent to it.
CurInv(d) ==
  /\ dpc[d] # "run" => cur[d] = NoCmd
  /\ cur[d].ch # "none" => Sent(cur[d].n, d) /\ (cur[d].ch = adm[cur[d].n].ch \/ Piled)

RanInv ==
  \A r \in ran : r.ch # "none" => (Sent(r.n, r.d) /\ r.ch = adm[r.n].ch) \/ Piled

DaemonInv(d) ==
  /\ d \in up <=> dpc[d] # "off"
  /\ dpc[d] \in {"create", "created", "connect", "read"} => ~Linux

CommandInv ==
  /\ Types /\ CallInv /\ RanInv /\ NothingVanishes /\ EndsOnlyIf
  /\ \A d \in Daemons : ChannelInv(d) /\ PipeInv(d) /\ CurInv(d) /\ DaemonInv(d)

=============================================================================
