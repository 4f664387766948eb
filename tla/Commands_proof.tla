--------------------------- MODULE Commands_proof ---------------------------
(***************************************************************************)
(* Proofs about Commands.  The invariant says of every unit in a channel   *)
(* where it came from and whether it was written behind another; the       *)
(* exceptions of the properties are exactly what it keeps track of.        *)
(*                                                                         *)
(* The second half is about what some of the commands do, Partnership.     *)
(* Its invariant PartnersInv follows each connection from the command that *)
(* makes it: the messages on it, the thread that receives them, and the    *)
(* descriptor and the entry of the one partner they are about.             *)
(***************************************************************************)
EXTENDS Commands, Partnership, SequenceTheorems, FiniteSetTheorems, WellFoundedInduction,
        TLAPS

-----------------------------------------------------------------------------
(* Rows of the table *)

\* --dbinfo, letter z, is the one command that goes to the other daemon.
LEMMA OnlyDbinfoIsOther == \A r \in WindowsTable : r.to = "other" <=> r.ch = "z"
<1>1. \A r \in DeviceCmds : r.to # "other" /\ r.ch # "z"
  BY DEF DeviceCmds, Cmd
<1>2. \A r \in ListCmds : r.to # "other" /\ r.ch # "z"
  BY DEF ListCmds, Cmd
<1>3. \A r \in PartnerCmds : r.to # "other" /\ r.ch # "z"
  BY DEF PartnerCmds, Cmd
<1>4. \A r \in ResyncCmds : r.to # "other" /\ r.ch # "z"
  BY DEF ResyncCmds, Cmd
<1>5. \A r \in RelationCmds : r.to # "other" /\ r.ch # "z"
  BY DEF RelationCmds, Cmd
<1>6. \A r \in InfoCmds : r.to = "other" <=> r.ch = "z"
  BY DEF InfoCmds, Cmd
<1>7. FullResyncCmd.to # "other" /\ FullResyncCmd.ch # "z"
  BY DEF FullResyncCmd, Cmd
<1> QED BY <1>1, <1>2, <1>3, <1>4, <1>5, <1>6, <1>7 DEF WindowsTable, LinuxTable

\* Every letter of a table has its row in the larger one.
LEMMA RowOfTable ==
  ASSUME NEW ch \in {r.ch : r \in Table}
  PROVE  Row(ch) \in WindowsTable /\ Row(ch).ch = ch
<1>1. \E r \in Table : r.ch = ch
  OBVIOUS
<1>2. Row(ch) \in Table /\ Row(ch).ch = ch
  BY <1>1 DEF Row
<1> QED BY <1>2 DEF Table, WindowsTable

\* The letter of a row and what its text holds are starts of a buffer.
LEMMA StartsOfRow ==
  ASSUME NEW ch \in {r.ch : r \in Table}
  PROVE  ch \in Starts /\ Row(ch).inside \cup {"none"} \subseteq Starts
<1>1. Row(ch) \in WindowsTable /\ Row(ch).ch = ch
  BY RowOfTable
<1>2. ch \in {r.ch : r \in WindowsTable}
  BY <1>1
<1>3. Row(ch).inside \subseteq UNION {r.inside : r \in WindowsTable}
  BY <1>1
<1>4. ch \in Starts /\ Row(ch).inside \subseteq Starts /\ "none" \in Starts
  <2> HIDE <1>1
  <2> QED BY <1>2, <1>3, Zenon DEF Starts
<1> QED BY <1>4

\* A call that moves to another point keeps its type.
LEMMA CallTyped ==
  ASSUME NEW f, NEW C, NEW D, f \in [Adms -> [pc : AdmPcs, ch : C, meant : D]],
         NEW a \in Adms, NEW p \in AdmPcs
  PROVE  [f EXCEPT ![a].pc = p] \in [Adms -> [pc : AdmPcs, ch : C, meant : D]]
<1>1. f[a] \in [pc : AdmPcs, ch : C, meant : D]
  OBVIOUS
<1>2. [f[a] EXCEPT !.pc = p] \in [pc : AdmPcs, ch : C, meant : D]
  BY <1>1
<1> QED BY <1>2

\* The daemon a call writes to depends on the platform and the call alone.
LEMMA GoesToStays ==
  ASSUME NEW a \in Adms, platform' = platform, adm'[a] = adm[a]
  PROVE  GoesTo(a)' = GoesTo(a)
<1>1. Table' = Table
  BY DEF Table
<1>2. Row(adm[a].ch)' = Row(adm[a].ch)
  BY <1>1 DEF Row
<1> QED BY <1>2 DEF GoesTo

\* A command appended to a channel: two units at its end.
LEMMA AppendTwo ==
  ASSUME NEW T, NEW s \in Seq(T), NEW u \in T, NEW v \in T
  PROVE  /\ s \o <<u, v>> \in Seq(T)
         /\ Len(s \o <<u, v>>) = Len(s) + 2
         /\ s \o <<u, v>> # <<>>
         /\ \A i \in 1..Len(s) : (s \o <<u, v>>)[i] = s[i]
         /\ (s \o <<u, v>>)[Len(s) + 1] = u
         /\ (s \o <<u, v>>)[Len(s) + 2] = v
<1>1. <<u, v>> \in Seq(T) /\ Len(<<u, v>>) = 2
  OBVIOUS
<1> QED BY <1>1, ConcatProperties

\* A channel without its first k units.
LEMMA DropFirst ==
  ASSUME NEW T, NEW s \in Seq(T), NEW k \in Nat, k <= Len(s)
  PROVE  /\ SubSeq(s, k + 1, Len(s)) \in Seq(T)
         /\ Len(SubSeq(s, k + 1, Len(s))) = Len(s) - k
         /\ \A i \in 1..(Len(s) - k) : SubSeq(s, k + 1, Len(s))[i] = s[i + k]
         /\ k = Len(s) => SubSeq(s, k + 1, Len(s)) = <<>>
<1>1. Len(s) \in Nat
  OBVIOUS
<1>2. SubSeq(s, k + 1, Len(s)) \in Seq(T)
  BY <1>1
<1>3. Len(SubSeq(s, k + 1, Len(s))) = Len(s) - k
  BY <1>1
<1>4. \A i \in 1..(Len(s) - k) : SubSeq(s, k + 1, Len(s))[i] = s[i + k]
  BY <1>1
<1>5. k = Len(s) => SubSeq(s, k + 1, Len(s)) = <<>>
  BY <1>1, <1>2, <1>3, EmptySeq
<1> QED BY <1>2, <1>3, <1>4, <1>5
-----------------------------------------------------------------------------
(* What no step takes back *)

\* What every step keeps.
Keeps ==
  /\ platform' = platform
  /\ \A a \in Adms : Told(a) => adm'[a] = adm[a]
  /\ \A a \in Adms : adm[a].pc # "idle" => adm'[a].ch = adm[a].ch /\ adm'[a].meant = adm[a].meant
  /\ ev \subseteq ev' /\ behind \subseteq behind' /\ caught \subseteq caught' /\ ran \subseteq ran'

\* No step changes the platform or a call that was told, or forgets an event, a
\* record or a run.
LEMMA NextKeeps ==
  ASSUME Types, [Next]_vars
  PROVE  Keeps
<1> USE DEF Types, Keeps, Told
<1>1. ASSUME NEW a \in Adms, NEW ch \in Letters, NEW meant \in Daemons, NEW argc \in Argcs,
             AdmStart(a, ch, meant, argc)
      PROVE  Keeps
  BY <1>1 DEF AdmStart
<1>2. ASSUME NEW a \in Adms, AdmStep(a) \/ AdmKilled(a)
      PROVE  Keeps
  <2>1. CASE FifoOpen(a)
    BY <2>1 DEF FifoOpen
  <2>2. CASE FifoWrite(a)
    <3>1. PICK p : adm' = [adm EXCEPT ![a].pc = p]
      BY <2>2, Zenon DEF FifoWrite
    <3>2. adm[a].pc = "write" /\ UNCHANGED <<platform, ran, ev>>
      BY <2>2, Zenon DEF FifoWrite
    <3>3. behind \subseteq behind' /\ caught \subseteq caught'
      BY <2>2, Zenon DEF FifoWrite
    <3> QED BY <3>1, <3>2, <3>3
  <2>3. CASE PipeOpen(a)
    <3>1. PICK p : adm' = [adm EXCEPT ![a].pc = p]
      BY <2>3, Zenon DEF PipeOpen
    <3>2. adm[a].pc = "open" /\ UNCHANGED <<platform, ran, ev, behind, caught>>
      BY <2>3, Zenon DEF PipeOpen
    <3> QED BY <3>1, <3>2
  <2>4. CASE PipeWrite(a)
    <3>1. PICK p : adm' = [adm EXCEPT ![a].pc = p]
      BY <2>4, Zenon DEF PipeWrite
    <3>2. adm[a].pc = "write" /\ UNCHANGED <<platform, ran, ev, caught>>
      BY <2>4, Zenon DEF PipeWrite
    <3>3. behind \subseteq behind'
      BY <2>4, Zenon DEF PipeWrite
    <3> QED BY <3>1, <3>2, <3>3
  <2>5. CASE AdmKilled(a)
    BY <2>5 DEF AdmKilled
  <2> QED BY <1>2, <2>1, <2>2, <2>3, <2>4, <2>5 DEF AdmStep
<1>3. ASSUME NEW d \in Daemons, Start(d) \/ DaemonStep(d) \/ Stop(d)
      PROVE  Keeps
  <2> USE DEF admVars
  <2>1. CASE Start(d) \/ ThreadInit(d) \/ OpenFifo(d) \/ PipeCreate(d)
    BY <2>1 DEF Start, ThreadInit, OpenFifo, PipeCreate
  <2>2. CASE ReadFifo(d)
    BY <2>2 DEF ReadFifo
  <2>3. CASE ReadEnd(d)
    BY <2>3 DEF ReadEnd, vars
  <2>4. CASE PipeConnect(d) \/ Stop(d)
    BY <2>4 DEF PipeConnect, Stop, Ends
  <2>5. CASE ReadPipe(d)
    BY <2>5 DEF ReadPipe, Ends
  <2>6. CASE Run(d)
    BY <2>6 DEF Run
  <2> QED BY <1>3, <2>1, <2>2, <2>3, <2>4, <2>5, <2>6 DEF DaemonStep
<1>4. CASE UNCHANGED vars
  BY <1>4 DEF vars, admVars
<1> QED BY <1>1, <1>2, <1>3, <1>4 DEF Next

\* What was sent to a daemon stays sent to it.
LEMMA SentStays ==
  ASSUME Keeps, NEW a, NEW d, Sent(a, d)
  PROVE  Sent(a, d)' /\ adm'[a] = adm[a]
BY GoesToStays DEF Keeps, Sent, Told

\* A pile-up is not forgotten.
LEMMA PiledStays ==
  ASSUME Keeps, Piled
  PROVE  Piled'
BY DEF Keeps, Piled, Linux

-----------------------------------------------------------------------------
(* What a step does not touch keeps its part of the invariant *)

\* The runs recorded stay justified.
LEMMA RanFrame ==
  ASSUME Keeps, RanInv, ran' = ran
  PROVE  RanInv'
BY SentStays, PiledStays DEF RanInv

\* A channel that a step leaves alone.
LEMMA ChannelFrame ==
  ASSUME Keeps, NEW d \in Daemons, ChannelInv(d), chan'[d] = chan[d]
  PROVE  ChannelInv(d)'
<1>1. \A i \in DOMAIN chan[d] : Sent(chan[d][i].n, d)'
  BY SentStays DEF ChannelInv
<1>0. behind \subseteq behind'
  BY DEF Keeps
<1>2. \A i \in DOMAIN chan[d] :
        \/ chan[d][i].n \in behind'
        \/ i <= 2 /\ chan[d][i].n = chan[d][1].n
  BY <1>0, Zenon DEF ChannelInv
<1>3. chan[d] # <<>> /\ ~Piled' => chan[d][1].part = 1
  BY PiledStays DEF ChannelInv
<1> QED BY <1>1, <1>2, <1>3 DEF ChannelInv, Sent

\* A command in hand that a step leaves alone.
LEMMA CurFrame ==
  ASSUME Keeps, NEW d \in Daemons, CurInv(d), cur'[d] = cur[d],
         dpc'[d] # "run" => cur[d] = NoCmd
  PROVE  CurInv(d)'
<1>1. cur[d].ch # "none" => Sent(cur[d].n, d)' /\ (cur[d].ch = adm'[cur[d].n].ch \/ Piled')
  BY SentStays, PiledStays DEF CurInv
<1> QED BY <1>1 DEF CurInv, Sent, NoCmd

\* A pipe that a step leaves alone.
LEMMA PipeFrame ==
  ASSUME Types, Keeps, NEW d \in Daemons, PipeInv(d), chan'[d] = chan[d], pipe'[d] = pipe[d],
         dpc'[d] = "run" => dpc[d] = "run", behind' = behind
  PROVE  PipeInv(d)'
BY DEF PipeInv, Keeps, Told, Linux, Types

\* A step that starts no call.
LEMMA CallFrame ==
  ASSUME Keeps, CallInv, \A a \in Adms : adm[a].pc = "idle" => adm'[a].pc = "idle"
  PROVE  CallInv'
<1>1. Table' = Table
  BY DEF Keeps, Table
<1>2. \A ch : Row(ch)' = Row(ch)
  BY <1>1 DEF Row
<1> QED BY <1>1, <1>2 DEF CallInv, Keeps

\* A call that was accounted for stays so when its unit, its run or its record
\* does.
LEMMA VanishFrame ==
  ASSUME Types, Keeps, NothingVanishes, 
         \A a \in Adms : Told(a)' => Told(a) \/ \E d \in Daemons : a \in Waiting(d)',
         \A a \in Adms, d \in Daemons : a \in Waiting(d) =>
             a \in Waiting(d)' \/ Running(a)' \/ HasRun(a)' \/ a \in behind' \cup caught',
         \A a \in Adms : Running(a) => Running(a)' \/ HasRun(a)' \/ a \in caught'
  PROVE  NothingVanishes'
<1> SUFFICES ASSUME NEW a \in Adms, Told(a)'
             PROVE  \/ \E d \in Daemons : a \in Waiting(d)'
                    \/ Running(a)' \/ HasRun(a)' \/ a \in behind' \cup caught'
  BY DEF NothingVanishes
<1>1. CASE Told(a)
  <2>1. CASE HasRun(a)
    BY <2>1 DEF HasRun, Keeps
  <2>2. CASE a \in behind \cup caught
    BY <2>2 DEF Keeps
  <2> QED BY <1>1, <2>1, <2>2 DEF NothingVanishes
<1> QED BY <1>1

-----------------------------------------------------------------------------
(* The kinds of steps *)

\* The units of a channel are of calls.
LEMMA ChannelOfUnits ==
  ASSUME Types, NEW d \in Daemons
  PROVE  /\ chan[d] \in Seq(Units) /\ Len(chan[d]) \in Nat /\ DOMAIN chan[d] = 1..Len(chan[d])
         /\ \A i \in DOMAIN chan[d] : /\ chan[d][i] \in Units /\ chan[d][i].n \in Adms
                                     /\ chan[d][i].n \in Waiting(d)
         /\ Waiting(d) \subseteq Adms
<1>1. chan[d] \in Seq(Units)
  BY DEF Types
<1>2. Len(chan[d]) \in Nat /\ DOMAIN chan[d] = 1..Len(chan[d])
  BY <1>1
<1>3. \A i \in DOMAIN chan[d] : chan[d][i] \in Units
  BY <1>1
<1>4. \A i \in DOMAIN chan[d] : chan[d][i].n \in Adms
  BY <1>3 DEF Units
<1> QED BY <1>1, <1>2, <1>3, <1>4 DEF Waiting

\* A step of a call that touches no daemon.
LEMMA Quiet ==
  ASSUME CommandInv, Keeps, Types', CallInv',
         UNCHANGED <<made, up, dpc, chan, pipe, cur, ran, behind, caught, ev>>,
         \A b \in Adms : Told(b)' => Told(b)
  PROVE  CommandInv'
<1>1. RanInv'
  BY RanFrame DEF CommandInv
<1>2. ASSUME NEW d \in Daemons
      PROVE  ChannelInv(d)' /\ PipeInv(d)' /\ CurInv(d)' /\ DaemonInv(d)'
  <2>1. ChannelInv(d)'
    BY ChannelFrame DEF CommandInv
  <2>2. PipeInv(d)'
    BY PipeFrame DEF CommandInv
  <2>3. CurInv(d)'
    BY CurFrame DEF CommandInv, CurInv
  <2>4. DaemonInv(d)'
    BY DEF CommandInv, DaemonInv, Keeps, Linux
  <2> QED BY <2>1, <2>2, <2>3, <2>4
<1>3. NothingVanishes'
  <2>1. \A b \in Adms, d \in Daemons : b \in Waiting(d) => b \in Waiting(d)'
    BY DEF Waiting
  <2>2. \A b \in Adms : Running(b) => Running(b)'
    BY DEF Running
  <2> QED BY <2>1, <2>2, VanishFrame DEF CommandInv
<1>4. EndsOnlyIf'
  BY DEF CommandInv, EndsOnlyIf, Linux, Keeps
<1> QED BY <1>1, <1>2, <1>3, <1>4 DEF CommandInv

\* A step of a daemon that only moves its control thread, and neither to nor
\* from the running of a command.
LEMMA Moves ==
  ASSUME CommandInv, Keeps, NEW d \in Daemons, NEW p \in DaemonPcs \ {"off", "run"},
         dpc[d] # "run", dpc' = [dpc EXCEPT ![d] = p], d \in up',
         p \in {"create", "created", "connect", "read"} => ~Linux,
         made' \subseteq made \cup {d}, up' = up \cup {d}, 
         UNCHANGED <<platform, chan, pipe, cur, adm, behind, ran, caught, faults, ev>>
  PROVE  CommandInv'
<1>0. Types'
  BY DEF CommandInv, Types
<1>1. RanInv'
  BY RanFrame DEF CommandInv
<1>2. ASSUME NEW e \in Daemons
      PROVE  ChannelInv(e)' /\ PipeInv(e)' /\ CurInv(e)' /\ DaemonInv(e)'
  <2>0. dpc'[e] = "run" <=> dpc[e] = "run"
    BY DEF CommandInv, Types
  <2>1. ChannelInv(e)'
    BY ChannelFrame DEF CommandInv
  <2>2. PipeInv(e)'
    BY <2>0, PipeFrame DEF CommandInv
  <2>3. CurInv(e)'
    BY <2>0, CurFrame DEF CommandInv, CurInv
  <2>4. DaemonInv(e)'
    BY DEF CommandInv, DaemonInv, Keeps, Linux, Types
  <2> QED BY <2>1, <2>2, <2>3, <2>4
<1>3. NothingVanishes'
  <2>1. \A b \in Adms, e \in Daemons : b \in Waiting(e) => b \in Waiting(e)'
    BY DEF Waiting
  <2>2. \A b \in Adms : Running(b) => Running(b)'
    BY DEF Running
  <2>3. \A b \in Adms : Told(b)' => Told(b)
    BY DEF Told
  <2> QED BY <2>1, <2>2, <2>3, VanishFrame DEF CommandInv
<1>4. EndsOnlyIf'
  BY DEF CommandInv, EndsOnlyIf, Linux, Keeps
<1>5. CallInv'
  BY CallFrame DEF CommandInv
<1> QED BY <1>0, <1>1, <1>2, <1>3, <1>4, <1>5 DEF CommandInv

\* The end of a daemon: stop_work, or a pipe that breaks.
LEMMA EndsStep ==
  ASSUME CommandInv, Keeps, NEW d \in Daemons, NEW why, Ends(d, why), faults' \in 0..MaxFaults,
         why = "stopped" \/ (~Linux /\ why \in {"early", "broken"})
  PROVE  CommandInv'
<1> DEFINE held == Linux /\ Writers(d) # {}
<1>a. /\ up' = up \ {d} /\ dpc' = [dpc EXCEPT ![d] = "off"]
      /\ pipe' = [pipe EXCEPT ![d] = NoAdm]
      /\ chan' = [chan EXCEPT ![d] = IF held THEN @ ELSE <<>>]
      /\ caught' = caught \cup {cur[d].n} \cup (IF held THEN {} ELSE Waiting(d))
      /\ cur' = [cur EXCEPT ![d] = NoCmd]
      /\ ev' = ev \cup {why}
      /\ UNCHANGED <<platform, made, adm, behind, ran>>
  BY DEF Ends, admVars
<1> HIDE DEF held
<1>b. Types /\ CallInv /\ RanInv /\ NothingVanishes /\ EndsOnlyIf
  BY DEF CommandInv
<1>c. \A e \in Daemons : ChannelInv(e) /\ PipeInv(e) /\ CurInv(e) /\ DaemonInv(e)
  BY DEF CommandInv
<1>d. Waiting(d) \subseteq Adms
  BY <1>b, ChannelOfUnits
<1>e. <<>> \in Seq(Units)
  OBVIOUS
<1>f. NoCmd \in [n : Adms \cup {NoAdm}, ch : Starts]
  BY DEF NoCmd, Starts
<1>0. Types'
  <2>1. chan' \in [Daemons -> Seq(Units)]
    BY <1>a, <1>b, <1>e DEF Types
  <2>2. cur' \in [Daemons -> [n : Adms \cup {NoAdm}, ch : Starts]]
    BY <1>a, <1>b, <1>f DEF Types
  <2>3. caught' \subseteq Adms \cup {NoAdm}
    BY <1>a, <1>b, <1>d DEF Types
  <2>4. pipe' \in [Daemons -> Adms \cup {NoAdm}] /\ dpc' \in [Daemons -> DaemonPcs]
    BY <1>a, <1>b DEF Types, DaemonPcs
  <2> QED BY <1>a, <1>b, <2>1, <2>2, <2>3, <2>4 DEF Types
<1>1. RanInv'
  BY <1>a, <1>b, RanFrame
<1>2. ASSUME NEW e \in Daemons
      PROVE  ChannelInv(e)' /\ PipeInv(e)' /\ CurInv(e)' /\ DaemonInv(e)'
  <2>1. CASE chan'[e] = chan[e] /\ e # d
    <3>1. pipe'[e] = pipe[e] /\ cur'[e] = cur[e] /\ dpc'[e] = dpc[e]
      BY <1>a, <1>b, <2>1 DEF Types
    <3>2. ChannelInv(e)'
      BY <2>1, <1>c, ChannelFrame
    <3>3. PipeInv(e)'
      BY <1>a, <1>b, <1>c, <2>1, <3>1, PipeFrame
    <3>4. CurInv(e)'
      BY <1>c, <3>1, CurFrame DEF CurInv
    <3>5. DaemonInv(e)'
      BY <1>a, <1>c, <2>1, <3>1 DEF DaemonInv, Linux
    <3> QED BY <3>2, <3>3, <3>4, <3>5
  <2>2. CASE e = d
    <3>1. pipe'[d] = NoAdm /\ cur'[d] = NoCmd /\ dpc'[d] = "off"
      BY <1>a, <1>b DEF Types
    <3>2. chan'[d] = chan[d] \/ chan'[d] = <<>>
      BY <1>a, <1>b DEF Types
    <3>3. ChannelInv(d)'
      <4>1. CASE chan'[d] = chan[d]
        BY <4>1, <1>c, ChannelFrame
      <4>2. CASE chan'[d] = <<>>
        BY <4>2 DEF ChannelInv
      <4> QED BY <3>2, <4>1, <4>2
    <3>4. PipeInv(d)'
      <4>1. ~Linux => chan'[d] = <<>>
        BY <1>a, <1>b DEF Types, held
      <4> QED BY <1>a, <1>c, <3>1, <4>1 DEF PipeInv, Linux
    <3>5. CurInv(d)'
      BY <3>1 DEF CurInv, NoCmd
    <3>6. DaemonInv(d)'
      BY <1>a, <3>1 DEF DaemonInv
    <3> QED BY <2>2, <3>3, <3>4, <3>5, <3>6
  <2>3. e # d => chan'[e] = chan[e]
    BY <1>a, <1>b DEF Types
  <2> QED BY <2>1, <2>2, <2>3
<1>3. NothingVanishes'
  <2>1. \A b \in Adms, e \in Daemons : b \in Waiting(e) => b \in Waiting(e)' \/ b \in caught'
    <3> SUFFICES ASSUME NEW b \in Adms, NEW e \in Daemons, b \in Waiting(e)
                 PROVE  b \in Waiting(e)' \/ b \in caught'
      OBVIOUS
    <3>1. CASE e = d /\ ~held
      BY <3>1, <1>a
    <3>2. CASE e # d \/ held
      <4>1. chan'[e] = chan[e]
        BY <3>2, <1>a, <1>b DEF Types
      <4> QED BY <4>1 DEF Waiting
    <3> QED BY <3>1, <3>2
  <2>2. \A b \in Adms : Running(b) => Running(b)' \/ b \in caught'
    BY <1>a, <1>b DEF Running, Types
  <2>3. \A b \in Adms : Told(b)' => Told(b)
    BY <1>a DEF Told
  <2> QED BY <1>b, <2>1, <2>2, <2>3, VanishFrame
<1>4. EndsOnlyIf'
  BY <1>a, <1>b DEF EndsOnlyIf, Linux
<1>5. CallInv'
  BY <1>a, <1>b, CallFrame
<1> QED BY <1>0, <1>1, <1>2, <1>3, <1>4, <1>5 DEF CommandInv

\* A call appends its command: the FIFO or the pipe of d.
LEMMA Appends ==
  ASSUME CommandInv, Keeps, NEW a \in Adms, NEW d \in Daemons, GoesTo(a) = d,
         adm[a].pc = "write", adm' = [adm EXCEPT ![a].pc = "told"],
         chan' = [chan EXCEPT ![d] = @ \o <<[n |-> a, part |-> 1], [n |-> a, part |-> 2]>>],
         behind' = IF chan[d] # <<>> THEN behind \cup {a} ELSE behind,
         UNCHANGED <<platform, made, up, dpc, pipe, cur, ran, caught, faults, ev>>,
         Linux \/ pipe[d] = a
  PROVE  CommandInv'
<1> DEFINE u == [n |-> a, part |-> 1]
<1> DEFINE v == [n |-> a, part |-> 2]
<1>b. Types /\ CallInv /\ RanInv /\ NothingVanishes /\ EndsOnlyIf
  BY DEF CommandInv
<1>c. \A e \in Daemons : ChannelInv(e) /\ PipeInv(e) /\ CurInv(e) /\ DaemonInv(e)
  BY DEF CommandInv
<1>d. u \in Units /\ v \in Units
  BY DEF Units
<1>e. chan[d] \in Seq(Units) /\ Len(chan[d]) \in Nat /\ DOMAIN chan[d] = 1..Len(chan[d])
  BY <1>b, ChannelOfUnits
<1>f. /\ chan[d] \o <<u, v>> \in Seq(Units)
      /\ Len(chan[d] \o <<u, v>>) = Len(chan[d]) + 2
      /\ chan[d] \o <<u, v>> # <<>>
      /\ \A i \in 1..Len(chan[d]) : (chan[d] \o <<u, v>>)[i] = chan[d][i]
      /\ (chan[d] \o <<u, v>>)[Len(chan[d]) + 1] = u
      /\ (chan[d] \o <<u, v>>)[Len(chan[d]) + 2] = v
  BY <1>d, <1>e, AppendTwo
<1>g. chan'[d] = chan[d] \o <<u, v>>
  BY <1>b DEF Types
<1>h. chan[d] = <<>> <=> Len(chan[d]) = 0
  BY <1>e, EmptySeq
<1> HIDE DEF u, v
<1>i. DOMAIN chan'[d] = 1..(Len(chan[d]) + 2)
  BY <1>e, <1>f, <1>g
<1>j. \A i \in DOMAIN chan'[d] : i \in DOMAIN chan[d] \/ i = Len(chan[d]) + 1 \/ i = Len(chan[d]) + 2
  BY <1>e, <1>i
<1>k. adm[a].pc # "told" /\ adm'[a].pc = "told" /\ adm'[a].ch = adm[a].ch /\ adm'[a].meant = adm[a].meant
  BY <1>b DEF Types
<1>l. Sent(a, d)'
  <2>1. Table' = Table
    BY DEF Table
  <2>2. Row(adm[a].ch)' = Row(adm[a].ch)
    BY <1>k, <2>1 DEF Row
  <2>3. GoesTo(a)' = GoesTo(a)
    BY <1>k, <2>2 DEF GoesTo
  <2> QED BY <2>3, <1>k DEF Sent, Told
<1>m. \A e \in Daemons : e # d => chan'[e] = chan[e]
  BY <1>b DEF Types
<1>0. Types'
  <2>1. chan' \in [Daemons -> Seq(Units)]
    BY <1>b, <1>f, <1>g, <1>m DEF Types
  <2>2. adm' \in [Adms -> [pc : AdmPcs, ch : Starts, meant : Daemons \cup {"none"}]]
    BY <1>b, CallTyped DEF Types, AdmPcs
  <2>3. behind' \subseteq Adms
    BY <1>b DEF Types
  <2> QED BY <1>b, <2>1, <2>2, <2>3 DEF Types
<1>1. RanInv'
  BY <1>b, RanFrame
<1>2. ASSUME NEW e \in Daemons
      PROVE  ChannelInv(e)' /\ PipeInv(e)' /\ CurInv(e)' /\ DaemonInv(e)'
  <2>1. CurInv(e)' /\ DaemonInv(e)'
    <3>1. CurInv(e)'
      BY <1>c, CurFrame DEF CurInv
    <3> QED BY <3>1, <1>c DEF DaemonInv, Linux
  <2>2. ~Linux => chan[d] = <<>> /\ dpc[d] # "run"
    BY <1>c, <1>k DEF PipeInv, Told
  <2>3. CASE e # d
    <3>1. ChannelInv(e)'
      BY <2>3, <1>c, <1>m, ChannelFrame
    <3>2. ~Linux => behind' = behind
      BY <2>2
    <3>3. PipeInv(e)'
      <4>1. CASE Linux
        BY <4>1 DEF PipeInv, Linux
      <4>2. CASE ~Linux
        BY <4>2, <2>3, <3>2, <1>b, <1>c, <1>m, PipeFrame
      <4> QED BY <4>1, <4>2
    <3> QED BY <2>1, <3>1, <3>3
  <2>4. CASE e = d
    <3>1. \A i \in DOMAIN chan'[d] : Sent(chan[d][i].n, d)'
      <4> SUFFICES ASSUME NEW i \in DOMAIN chan'[d]
                   PROVE  Sent(chan[d][i].n, d)'
        OBVIOUS
      <4>1. CASE i \in DOMAIN chan[d]
        <5>1. PICK m : m = chan[d][i].n
          OBVIOUS
        <5>2. Sent(m, d) /\ chan'[d][i].n = m
          BY <4>1, <5>1, <1>c, <1>e, <1>f, <1>g DEF ChannelInv
        <5>3. Sent(m, d)'
          BY <5>2, SentStays
        <5> QED BY <5>2, <5>3
      <4>2. CASE i = Len(chan[d]) + 1 \/ i = Len(chan[d]) + 2
        <5>1. chan'[d][i].n = a
          BY <4>2, <1>f, <1>g DEF u, v
        <5> QED BY <5>1, <1>l
      <4> QED BY <1>j, <4>1, <4>2
    <3>2. \A i \in DOMAIN chan'[d] :
            \/ chan'[d][i].n \in behind'
            \/ i <= 2 /\ chan'[d][i].n = chan'[d][1].n
      <4> SUFFICES ASSUME NEW i \in DOMAIN chan'[d]
                   PROVE  \/ chan'[d][i].n \in behind'
                          \/ i <= 2 /\ chan'[d][i].n = chan'[d][1].n
        OBVIOUS
      <4>1. CASE i \in DOMAIN chan[d]
        <5>1. chan'[d][i] = chan[d][i] /\ chan'[d][1] = chan[d][1]
          BY <4>1, <1>e, <1>f, <1>g
        <5>2. chan[d][i].n \in behind \/ (i <= 2 /\ chan[d][i].n = chan[d][1].n)
          BY <4>1, <1>c DEF ChannelInv
        <5>3. behind \subseteq behind'
          BY DEF Keeps
        <5> QED BY <5>1, <5>2, <5>3
      <4>2. CASE i = Len(chan[d]) + 1 \/ i = Len(chan[d]) + 2
        <5>1. chan'[d][i].n = a
          BY <4>2, <1>f, <1>g DEF u, v
        <5>2. CASE chan[d] # <<>>
          BY <5>1, <5>2
        <5>3. CASE chan[d] = <<>>
          <6>1. Len(chan[d]) = 0
            BY <5>3, <1>h
          <6>2. i <= 2 /\ chan'[d][1].n = a
            BY <4>2, <6>1, <1>f, <1>g DEF u
          <6> QED BY <5>1, <6>2
        <5> QED BY <5>2, <5>3
      <4> QED BY <1>j, <4>1, <4>2
    <3>3. chan'[d] # <<>> /\ ~Piled' => chan'[d][1].part = 1
      <4>1. CASE chan[d] = <<>>
        <5>1. Len(chan[d]) = 0
          BY <4>1, <1>h
        <5> QED BY <5>1, <1>f, <1>g DEF u
      <4>2. CASE chan[d] # <<>>
        <5>1. chan'[d][1] = chan[d][1]
          BY <4>2, <1>e, <1>f, <1>g, <1>h
        <5> QED BY <5>1, <4>2, <1>c, PiledStays DEF ChannelInv
      <4> QED BY <4>1, <4>2
    <3>4. ChannelInv(d)'
      BY <3>1, <3>2, <3>3 DEF ChannelInv
    <3>5. PipeInv(d)'
      <4>1. CASE Linux
        BY <4>1 DEF PipeInv, Linux
      <4>2. CASE ~Linux
        <5>1. behind' = {}
          BY <4>2, <2>2, <1>c DEF PipeInv
        <5>2. pipe'[d] = a /\ Told(a)' /\ dpc'[d] # "run"
          BY <4>2, <2>2, <1>k DEF Told
        <5>3. Len(chan[d]) = 0
          BY <4>2, <2>2, <1>h
        <5>4. Len(chan'[d]) = 2
          BY <5>3, <1>f, <1>g
        <5> QED BY <5>1, <5>2, <5>4 DEF PipeInv
      <4> QED BY <4>1, <4>2
    <3> QED BY <2>1, <2>4, <3>4, <3>5
  <2> QED BY <2>3, <2>4
<1>3. NothingVanishes'
  <2>1. \A b \in Adms, e \in Daemons : b \in Waiting(e) => b \in Waiting(e)'
    <3> SUFFICES ASSUME NEW b \in Adms, NEW e \in Daemons, b \in Waiting(e)
                 PROVE  b \in Waiting(e)'
      OBVIOUS
    <3>1. PICK i \in DOMAIN chan[e] : chan[e][i].n = b
      BY DEF Waiting
    <3>2. i \in DOMAIN chan'[e] /\ chan'[e][i] = chan[e][i]
      <4>1. CASE e = d
        BY <4>1, <3>1, <1>e, <1>f, <1>g, <1>i
      <4>2. CASE e # d
        BY <4>2, <3>1, <1>m
      <4> QED BY <4>1, <4>2
    <3> QED BY <3>1, <3>2 DEF Waiting
  <2>2. a \in Waiting(d)'
    <3>1. Len(chan[d]) + 1 \in DOMAIN chan'[d] /\ chan'[d][Len(chan[d]) + 1].n = a
      BY <1>e, <1>f, <1>g, <1>i DEF u
    <3> QED BY <3>1 DEF Waiting
  <2>3. \A b \in Adms : Told(b)' => Told(b) \/ b = a
    BY <1>b DEF Told, Types
  <2>4. \A b \in Adms : Running(b) => Running(b)'
    BY DEF Running
  <2> QED BY <1>b, <2>1, <2>2, <2>3, <2>4, VanishFrame
<1>4. EndsOnlyIf'
  BY <1>b DEF EndsOnlyIf, Linux
<1>5. CallInv'
  <2>1. \A b \in Adms : adm[b].pc = "idle" => adm'[b].pc = "idle"
    BY <1>b DEF Types
  <2> QED BY <1>b, <2>1, CallFrame
<1> QED BY <1>0, <1>1, <1>2, <1>3, <1>4, <1>5 DEF CommandInv

\* What parse_daemon_request finds was sent to this daemon, and is the command
\* itself unless a rest is in front.
LEMMA WhatIsFound ==
  ASSUME CommandInv, NEW d \in Daemons, chan[d] # <<>>, NEW c, c \in Found(chan[d][1])
  PROVE  /\ c \in [n : Adms \cup {NoAdm}, ch : Starts]
         /\ c.n = chan[d][1].n /\ Sent(c.n, d)
         /\ c.ch # "none" => c.ch = adm[c.n].ch \/ Piled
<1>1. Types /\ CallInv /\ ChannelInv(d)
  BY DEF CommandInv
<1>2. 1 \in DOMAIN chan[d]
  <2>1. chan[d] \in Seq(Units) /\ Len(chan[d]) \in Nat /\ DOMAIN chan[d] = 1..Len(chan[d])
    BY <1>1, ChannelOfUnits
  <2>2. Len(chan[d]) # 0
    BY <2>1, EmptySeq
  <2> QED BY <2>1, <2>2
<1> DEFINE m == chan[d][1].n
<1>3. Sent(m, d) /\ m \in Adms
  BY <1>1, <1>2 DEF ChannelInv, Sent
<1>4. adm[m].ch \in {r.ch : r \in Table}
  BY <1>1, <1>3 DEF CallInv, Sent, Told
<1>5. adm[m].ch \in Starts /\ Row(adm[m].ch).inside \cup {"none"} \subseteq Starts
  BY <1>4, StartsOfRow
<1>6. CASE chan[d][1].part = 1
  <2>1. c = [n |-> m, ch |-> adm[m].ch]
    BY <1>6 DEF Found
  <2> QED BY <2>1, <1>3, <1>5
<1>7. CASE chan[d][1].part # 1
  <2>1. PICK t \in Row(adm[m].ch).inside \cup {"none"} : c = [n |-> m, ch |-> t]
    BY <1>7 DEF Found
  <2>2. Piled
    BY <1>1, <1>7 DEF ChannelInv
  <2> QED BY <2>1, <2>2, <1>3, <1>5
<1> QED BY <1>6, <1>7

\* A read takes the first k units, and runs what is found at their start.
LEMMA Reads ==
  ASSUME CommandInv, Keeps, NEW d \in Daemons, dpc[d] # "run", dpc[d] # "off", chan[d] # <<>>,
         NEW c, c \in Found(chan[d][1]), cur' = [cur EXCEPT ![d] = c],
         NEW k \in Nat, k <= Len(chan[d]), k >= 2 \/ k = Len(chan[d]),
         Piled' \/ k = Len(chan[d]), ~Linux => k = Len(chan[d]),
         chan' = [chan EXCEPT ![d] = SubSeq(chan[d], k + 1, Len(chan[d]))],
         dpc' = [dpc EXCEPT ![d] = "run"],
         "stopped" \in ev => "stopped" \in ev',
         ev' \cap {"early", "broken"} = ev \cap {"early", "broken"},
         UNCHANGED <<platform, made, up, pipe, adm, behind, ran, caught, faults>>
  PROVE  CommandInv'
<1>b. Types /\ CallInv /\ RanInv /\ NothingVanishes /\ EndsOnlyIf
  BY DEF CommandInv
<1>c. \A e \in Daemons : ChannelInv(e) /\ PipeInv(e) /\ CurInv(e) /\ DaemonInv(e)
  BY DEF CommandInv
<1>e. chan[d] \in Seq(Units) /\ Len(chan[d]) \in Nat /\ DOMAIN chan[d] = 1..Len(chan[d])
  BY <1>b, ChannelOfUnits
<1> DEFINE rest == SubSeq(chan[d], k + 1, Len(chan[d]))
<1>f. /\ rest \in Seq(Units) /\ Len(rest) = Len(chan[d]) - k
      /\ \A i \in 1..(Len(chan[d]) - k) : rest[i] = chan[d][i + k]
      /\ k = Len(chan[d]) => rest = <<>>
  BY <1>e, DropFirst
<1>g. chan'[d] = rest /\ \A e \in Daemons : e # d => chan'[e] = chan[e]
  BY <1>b DEF Types
<1> HIDE DEF rest
<1>h. DOMAIN rest = 1..(Len(chan[d]) - k)
  BY <1>f
<1>i. /\ c \in [n : Adms \cup {NoAdm}, ch : Starts]
      /\ c.n = chan[d][1].n /\ Sent(c.n, d)
      /\ c.ch # "none" => c.ch = adm[c.n].ch \/ Piled
  BY WhatIsFound
<1>j. cur'[d] = c /\ \A e \in Daemons : e # d => cur'[e] = cur[e]
  BY <1>b DEF Types
<1>k. dpc'[d] = "run" /\ \A e \in Daemons : e # d => dpc'[e] = dpc[e]
  BY <1>b DEF Types
<1>0. Types'
  <2>1. chan' \in [Daemons -> Seq(Units)]
    BY <1>b, <1>f, <1>g DEF Types
  <2>2. cur' \in [Daemons -> [n : Adms \cup {NoAdm}, ch : Starts]]
    BY <1>b, <1>i DEF Types
  <2>3. dpc' \in [Daemons -> DaemonPcs]
    BY <1>b DEF Types, DaemonPcs
  <2> QED BY <1>b, <2>1, <2>2, <2>3 DEF Types
<1>1. RanInv'
  BY <1>b, RanFrame
<1>2. ASSUME NEW e \in Daemons
      PROVE  ChannelInv(e)' /\ PipeInv(e)' /\ CurInv(e)' /\ DaemonInv(e)'
  <2>1. CASE e # d
    <3>1. ChannelInv(e)'
      BY <2>1, <1>c, <1>g, ChannelFrame
    <3>2. PipeInv(e)'
      BY <2>1, <1>b, <1>c, <1>g, <1>k, PipeFrame
    <3>3. CurInv(e)'
      BY <2>1, <1>c, <1>j, <1>k, CurFrame DEF CurInv
    <3>4. DaemonInv(e)'
      BY <2>1, <1>c, <1>k DEF DaemonInv, Linux
    <3> QED BY <3>1, <3>2, <3>3, <3>4
  <2>2. CASE e = d
    <3>1. \A i \in DOMAIN rest :
            i + k \in DOMAIN chan[d] /\ rest[i] = chan[d][i + k] /\ ~(i + k <= 2)
      BY <1>e, <1>f, <1>h
    <3>2. \A i \in DOMAIN rest : rest[i].n \in behind
      BY <3>1, <1>c DEF ChannelInv
    <3>3. ASSUME NEW i \in DOMAIN rest
          PROVE  Sent(chan[d][i].n, d)'
      <4>1. PICK m : m = rest[i].n
        OBVIOUS
      <4>2. Sent(m, d)
        BY <3>1, <4>1, <1>c DEF ChannelInv
      <4>3. Sent(m, d)'
        BY <4>2, SentStays
      <4> QED BY <4>1, <4>3, <1>g
    <3>4. rest # <<>> => Piled'
      BY <1>f
    <3>5. ChannelInv(d)'
      BY <3>2, <3>3, <3>4, <1>g DEF ChannelInv
    <3>6. PipeInv(d)'
      <4>1. ~Linux => rest = <<>>
        BY <1>f
      <4> QED BY <4>1, <1>b, <1>c, <1>g, <1>k DEF PipeInv, Linux, Told
    <3>7. CurInv(d)'
      <4>1. Sent(c.n, d)' /\ adm'[c.n] = adm[c.n]
        BY <1>i, SentStays
      <4> QED BY <4>1, <1>i, <1>j, <1>k, PiledStays DEF CurInv
    <3>8. DaemonInv(d)'
      BY <1>c, <1>k DEF DaemonInv
    <3> QED BY <2>2, <3>5, <3>6, <3>7, <3>8
  <2> QED BY <2>1, <2>2
<1>3. NothingVanishes'
  <2>1. \A b \in Adms, e \in Daemons : b \in Waiting(e) =>
            b \in Waiting(e)' \/ Running(b)' \/ b \in behind'
    <3> SUFFICES ASSUME NEW b \in Adms, NEW e \in Daemons, b \in Waiting(e)
                 PROVE  b \in Waiting(e)' \/ Running(b)' \/ b \in behind'
      OBVIOUS
    <3>1. CASE e # d
      BY <3>1, <1>g DEF Waiting
    <3>2. CASE e = d
      <4>1. PICK i \in DOMAIN chan[d] : chan[d][i].n = b
        BY <3>2 DEF Waiting
      <4>2. b \in behind \/ b = c.n
        BY <4>1, <1>c, <1>i DEF ChannelInv
      <4> QED BY <4>2, <1>j DEF Running
    <3> QED BY <3>1, <3>2
  <2>2. \A b \in Adms : Running(b) => Running(b)'
    <3>1. cur[d] = NoCmd
      BY <1>c DEF CurInv
    <3>2. \A b \in Adms : b # NoAdm
      BY CMAssumption DEF Adms, NoAdm
    <3> QED BY <3>1, <3>2, <1>j DEF Running, NoCmd
  <2>3. \A b \in Adms : Told(b)' => Told(b)
    BY DEF Told
  <2> QED BY <1>b, <2>1, <2>2, <2>3, VanishFrame
<1>4. EndsOnlyIf'
  BY <1>b DEF EndsOnlyIf, Linux
<1>5. CallInv'
  BY <1>b, CallFrame
<1> QED BY <1>0, <1>1, <1>2, <1>3, <1>4, <1>5 DEF CommandInv

\* parse_daemon_request runs the command in hand.
LEMMA Runs ==
  ASSUME CommandInv, Keeps, NEW d \in Daemons, Run(d)
  PROVE  CommandInv'
<1> DEFINE r == [d |-> d, n |-> cur[d].n, ch |-> IF cur[d].ch \in Cases THEN cur[d].ch ELSE "none"]
<1> DEFINE p == IF Linux THEN "wait" ELSE "create"
<1>a. /\ dpc[d] = "run" /\ ran' = ran \cup {r} /\ cur' = [cur EXCEPT ![d] = NoCmd]
      /\ pipe' = [pipe EXCEPT ![d] = NoAdm] /\ dpc' = [dpc EXCEPT ![d] = p]
      /\ UNCHANGED <<platform, made, up, chan, adm, behind, caught, faults, ev>>
  BY DEF Run, admVars
<1>b. Types /\ CallInv /\ RanInv /\ NothingVanishes /\ EndsOnlyIf
  BY DEF CommandInv
<1>c. \A e \in Daemons : ChannelInv(e) /\ PipeInv(e) /\ CurInv(e) /\ DaemonInv(e)
  BY DEF CommandInv
<1>d. p \in {"wait", "create"} /\ (p = "create" => ~Linux)
  OBVIOUS
<1>e. "none" \in Starts
  BY DEF Starts
<1>f. /\ r \in [d : Daemons, n : Adms \cup {NoAdm}, ch : Starts]
      /\ r.d = d /\ r.n = cur[d].n /\ (r.ch = cur[d].ch \/ r.ch = "none")
  BY <1>b, <1>e DEF Types
<1> HIDE DEF r, p
<1>g. /\ cur'[d] = NoCmd /\ pipe'[d] = NoAdm /\ dpc'[d] = p
      /\ \A e \in Daemons : e # d => cur'[e] = cur[e] /\ pipe'[e] = pipe[e] /\ dpc'[e] = dpc[e]
  BY <1>a, <1>b DEF Types
<1>0. Types'
  <2>1. NoCmd \in [n : Adms \cup {NoAdm}, ch : Starts]
    BY <1>e DEF NoCmd
  <2>2. cur' \in [Daemons -> [n : Adms \cup {NoAdm}, ch : Starts]]
    BY <1>a, <1>b, <2>1 DEF Types
  <2>3. dpc' \in [Daemons -> DaemonPcs] /\ pipe' \in [Daemons -> Adms \cup {NoAdm}]
    BY <1>a, <1>b, <1>d DEF Types, DaemonPcs
  <2>4. ran' \subseteq [d : Daemons, n : Adms \cup {NoAdm}, ch : Starts]
    BY <1>a, <1>b, <1>f DEF Types
  <2> QED BY <1>a, <1>b, <2>2, <2>3, <2>4 DEF Types
<1>1. RanInv'
  <2> SUFFICES ASSUME NEW q \in ran', q.ch # "none"
               PROVE  (Sent(q.n, q.d)' /\ q.ch = adm'[q.n].ch) \/ Piled'
    BY DEF RanInv
  <2>1. CASE q \in ran
    BY <2>1, <1>b, SentStays, PiledStays DEF RanInv
  <2>2. CASE q = r
    <3>1. Sent(cur[d].n, d) /\ (cur[d].ch = adm[cur[d].n].ch \/ Piled)
      BY <2>2, <1>c, <1>f DEF CurInv
    <3>2. Sent(q.n, q.d) /\ (q.ch = adm[q.n].ch \/ Piled)
      BY <2>2, <3>1, <1>f
    <3> QED BY <3>2, SentStays, PiledStays
  <2> QED BY <2>1, <2>2, <1>a
<1>2. ASSUME NEW e \in Daemons
      PROVE  ChannelInv(e)' /\ PipeInv(e)' /\ CurInv(e)' /\ DaemonInv(e)'
  <2>1. ChannelInv(e)'
    BY <1>a, <1>c, ChannelFrame
  <2>2. CASE e # d
    <3>1. PipeInv(e)'
      BY <2>2, <1>a, <1>b, <1>c, <1>g, PipeFrame
    <3>2. CurInv(e)'
      BY <2>2, <1>c, <1>g, CurFrame DEF CurInv
    <3> QED BY <2>1, <2>2, <3>1, <3>2, <1>a, <1>c, <1>g DEF DaemonInv, Linux
  <2>3. CASE e = d
    <3>1. PipeInv(d)'
      <4>1. ~Linux => chan[d] = <<>> /\ behind = {}
        BY <1>a, <1>c DEF PipeInv
      <4> QED BY <4>1, <1>a, <1>d, <1>g DEF PipeInv, Linux
    <3>2. CurInv(d)'
      BY <1>g DEF CurInv, NoCmd
    <3>3. DaemonInv(d)'
      BY <1>a, <1>c, <1>d, <1>g DEF DaemonInv, Linux
    <3> QED BY <2>1, <2>3, <3>1, <3>2, <3>3
  <2> QED BY <2>2, <2>3
<1>3. NothingVanishes'
  <2>1. \A b \in Adms, e \in Daemons : b \in Waiting(e) => b \in Waiting(e)'
    BY <1>a DEF Waiting
  <2>2. \A b \in Adms : Running(b) => Running(b)' \/ HasRun(b)'
    <3> SUFFICES ASSUME NEW b \in Adms, NEW e \in Daemons, cur[e].n = b
                 PROVE  Running(b)' \/ HasRun(b)'
      BY DEF Running
    <3>1. CASE e = d
      BY <3>1, <1>a, <1>f DEF HasRun
    <3>2. CASE e # d
      BY <3>2, <1>g DEF Running
    <3> QED BY <3>1, <3>2
  <2>3. \A b \in Adms : Told(b)' => Told(b)
    BY <1>a DEF Told
  <2> QED BY <1>b, <2>1, <2>2, <2>3, VanishFrame
<1>4. EndsOnlyIf'
  BY <1>a, <1>b DEF EndsOnlyIf, Linux
<1>5. CallInv'
  BY <1>a, <1>b, CallFrame
<1> QED BY <1>0, <1>1, <1>2, <1>3, <1>4, <1>5 DEF CommandInv

\* main of ebdradm.
LEMMA StartCall ==
  ASSUME CommandInv, Keeps, NEW a \in Adms, NEW ch \in Letters, NEW meant \in Daemons,
         NEW argc \in Argcs, AdmStart(a, ch, meant, argc)
  PROVE  CommandInv'
<1>b. Types /\ CallInv
  BY DEF CommandInv
<1>a. /\ adm[a].pc = "idle" /\ ch \in {r.ch : r \in Table}
      /\ Row(ch).to = "other" \/ meant = Row(ch).to
      /\ \/ adm' = [adm EXCEPT ![a] = [pc |-> "open", ch |-> ch, meant |-> meant]]
         \/ adm' = adm
      /\ UNCHANGED <<platform, made, up, dpc, chan, pipe, cur, ran, behind, caught, faults, ev>>
  BY Zenon DEF AdmStart
<1>1. ch \in Starts
  BY <1>a, StartsOfRow
<1>2. Types'
  <2>1. adm' \in [Adms -> [pc : AdmPcs, ch : Starts, meant : Daemons \cup {"none"}]]
    <3>1. [pc |-> "open", ch |-> ch, meant |-> meant]
             \in [pc : AdmPcs, ch : Starts, meant : Daemons \cup {"none"}]
      BY <1>1 DEF AdmPcs
    <3>2. CASE adm' = [adm EXCEPT ![a] = [pc |-> "open", ch |-> ch, meant |-> meant]]
      BY <3>1, <3>2, <1>b DEF Types
    <3>3. CASE adm' = adm
      BY <3>3, <1>b DEF Types
    <3> QED BY <1>a, <3>2, <3>3
  <2> QED BY <1>a, <1>b, <2>1 DEF Types
<1>3. CallInv'
  <2>1. Table' = Table
    BY <1>a DEF Table
  <2>2. \A t : Row(t)' = Row(t)
    BY <2>1 DEF Row
  <2>3. CASE adm' = [adm EXCEPT ![a] = [pc |-> "open", ch |-> ch, meant |-> meant]]
    <3>1. adm'[a] = [pc |-> "open", ch |-> ch, meant |-> meant]
      BY <1>b, <2>3 DEF Types
    <3>2. \A b \in Adms : b # a => adm'[b] = adm[b]
      BY <1>b, <2>3 DEF Types
    <3> SUFFICES ASSUME NEW b \in Adms, adm'[b].pc # "idle"
                 PROVE  /\ adm'[b].ch \in {r.ch : r \in Table} /\ adm'[b].meant \in Daemons
                        /\ Row(adm'[b].ch).to = "other" \/ adm'[b].meant = Row(adm'[b].ch).to
      BY <2>1, <2>2 DEF CallInv
    <3>3. CASE b = a
      BY <3>1, <3>3, <1>a
    <3>4. CASE b # a
      BY <3>2, <3>4, <1>b DEF CallInv
    <3> QED BY <3>3, <3>4
  <2>4. CASE adm' = adm
    BY <2>1, <2>2, <2>4, <1>b DEF CallInv
  <2> QED BY <1>a, <2>3, <2>4
<1>4. \A b \in Adms : Told(b)' => Told(b)
  <2>1. CASE adm' = [adm EXCEPT ![a] = [pc |-> "open", ch |-> ch, meant |-> meant]]
    BY <2>1, <1>b DEF Told, Types
  <2>2. CASE adm' = adm
    BY <2>2 DEF Told
  <2> QED BY <1>a, <2>1, <2>2
<1> QED BY <1>a, <1>2, <1>3, <1>4, Quiet

\* A call that moves without writing.
LEMMA CallMoves ==
  ASSUME CommandInv, Keeps, NEW a \in Adms, NEW p \in AdmPcs \ {"told"}, adm[a].pc # "idle",
         adm' = [adm EXCEPT ![a].pc = p], faults' \in 0..MaxFaults,
         UNCHANGED <<platform, made, up, dpc, chan, pipe, cur, ran, behind, caught, ev>>
  PROVE  CommandInv'
<1>b. Types /\ CallInv
  BY DEF CommandInv
<1>1. Types'
  <2>1. adm' \in [Adms -> [pc : AdmPcs, ch : Starts, meant : Daemons \cup {"none"}]]
    BY <1>b, CallTyped DEF Types
  <2> QED BY <1>b, <2>1 DEF Types
<1>2. \A b \in Adms : adm[b].pc = "idle" => adm'[b].pc = "idle"
  BY <1>b DEF Types
<1>3. CallInv'
  BY <1>b, <1>2, CallFrame
<1>4. \A b \in Adms : Told(b)' => Told(b)
  BY <1>b DEF Told, Types
<1> QED BY <1>1, <1>3, <1>4, Quiet

\* A write without a reader.
LEMMA KilledByWrite ==
  ASSUME CommandInv, Keeps, NEW a \in Adms, NEW d \in Daemons, Linux,
         adm[a].pc = "write", adm' = [adm EXCEPT ![a].pc = "killed"],
         NEW last \in BOOLEAN,
         chan' = [chan EXCEPT ![d] = IF last THEN <<>> ELSE @],
         caught' = IF last THEN caught \cup Waiting(d) ELSE caught,
         UNCHANGED <<platform, made, up, dpc, pipe, cur, ran, behind, faults, ev>>
  PROVE  CommandInv'
<1>b. Types /\ CallInv /\ RanInv /\ NothingVanishes /\ EndsOnlyIf
  BY DEF CommandInv
<1>c. \A e \in Daemons : ChannelInv(e) /\ PipeInv(e) /\ CurInv(e) /\ DaemonInv(e)
  BY DEF CommandInv
<1>d. \A e \in Daemons : chan'[e] = chan[e] \/ (e = d /\ last /\ chan'[e] = <<>>)
  BY <1>b DEF Types
<1>0. Types'
  <2>1. chan' \in [Daemons -> Seq(Units)]
    BY <1>b DEF Types
  <2>2. adm' \in [Adms -> [pc : AdmPcs, ch : Starts, meant : Daemons \cup {"none"}]]
    BY <1>b, CallTyped DEF Types, AdmPcs
  <2>3. caught' \subseteq Adms \cup {NoAdm}
    BY <1>b, ChannelOfUnits DEF Types
  <2> QED BY <1>b, <2>1, <2>2, <2>3 DEF Types
<1>1. RanInv'
  BY <1>b, RanFrame
<1>2. ASSUME NEW e \in Daemons
      PROVE  ChannelInv(e)' /\ PipeInv(e)' /\ CurInv(e)' /\ DaemonInv(e)'
  <2>1. ChannelInv(e)'
    <3>1. CASE chan'[e] = chan[e]
      BY <3>1, <1>c, ChannelFrame
    <3>2. CASE chan'[e] = <<>>
      BY <3>2 DEF ChannelInv
    <3> QED BY <1>d, <3>1, <3>2
  <2>2. PipeInv(e)'
    BY DEF PipeInv, Linux
  <2>3. CurInv(e)'
    BY <1>c, CurFrame DEF CurInv
  <2>4. DaemonInv(e)'
    BY <1>c DEF DaemonInv, Linux
  <2> QED BY <2>1, <2>2, <2>3, <2>4
<1>3. NothingVanishes'
  <2>1. \A b \in Adms, e \in Daemons : b \in Waiting(e) => b \in Waiting(e)' \/ b \in caught'
    <3> SUFFICES ASSUME NEW b \in Adms, NEW e \in Daemons, b \in Waiting(e)
                 PROVE  b \in Waiting(e)' \/ b \in caught'
      OBVIOUS
    <3>1. CASE chan'[e] = chan[e]
      BY <3>1 DEF Waiting
    <3>2. CASE e = d /\ last
      BY <3>2
    <3> QED BY <1>d, <3>1, <3>2
  <2>2. \A b \in Adms : Running(b) => Running(b)'
    BY DEF Running
  <2>3. \A b \in Adms : Told(b)' => Told(b)
    BY <1>b DEF Told, Types
  <2> QED BY <1>b, <2>1, <2>2, <2>3, VanishFrame
<1>4. EndsOnlyIf'
  BY <1>b DEF EndsOnlyIf, Linux
<1>5. CallInv'
  <2>1. \A b \in Adms : adm[b].pc = "idle" => adm'[b].pc = "idle"
    BY <1>b DEF Types
  <2> QED BY <1>b, <2>1, CallFrame
<1> QED BY <1>0, <1>1, <1>2, <1>3, <1>4, <1>5 DEF CommandInv

\* A call connects to the free instance of a pipe.
LEMMA Connects ==
  ASSUME CommandInv, Keeps, NEW a \in Adms, NEW d \in Daemons, ~Linux, adm[a].pc = "open",
         dpc[d] \in {"created", "connect"}, pipe[d] = NoAdm,
         adm' = [adm EXCEPT ![a].pc = "write"], pipe' = [pipe EXCEPT ![d] = a],
         dpc' = [dpc EXCEPT ![d] = IF @ = "connect" THEN "read" ELSE @],
         UNCHANGED <<platform, made, up, chan, cur, ran, behind, caught, faults, ev>>
  PROVE  CommandInv'
<1>b. Types /\ CallInv /\ RanInv /\ NothingVanishes /\ EndsOnlyIf
  BY DEF CommandInv
<1>c. \A e \in Daemons : ChannelInv(e) /\ PipeInv(e) /\ CurInv(e) /\ DaemonInv(e)
  BY DEF CommandInv
<1>d. /\ dpc'[d] \in {"created", "read"} /\ pipe'[d] = a
      /\ \A e \in Daemons : e # d => dpc'[e] = dpc[e] /\ pipe'[e] = pipe[e]
  BY <1>b DEF Types
<1>e. chan[d] = <<>> /\ behind = {}
  BY <1>c, CMAssumption DEF PipeInv, NoAdm, Adms
<1>0. Types'
  <2>1. dpc' \in [Daemons -> DaemonPcs] /\ pipe' \in [Daemons -> Adms \cup {NoAdm}]
    BY <1>b DEF Types, DaemonPcs
  <2>2. adm' \in [Adms -> [pc : AdmPcs, ch : Starts, meant : Daemons \cup {"none"}]]
    BY <1>b, CallTyped DEF Types, AdmPcs
  <2> QED BY <1>b, <2>1, <2>2 DEF Types
<1>1. RanInv'
  BY <1>b, RanFrame
<1>2. ASSUME NEW e \in Daemons
      PROVE  ChannelInv(e)' /\ PipeInv(e)' /\ CurInv(e)' /\ DaemonInv(e)'
  <2>1. ChannelInv(e)'
    BY <1>c, ChannelFrame
  <2>2. CASE e # d
    <3>1. PipeInv(e)'
      BY <2>2, <1>b, <1>c, <1>d, PipeFrame
    <3>2. CurInv(e)'
      BY <2>2, <1>c, <1>d, CurFrame DEF CurInv
    <3> QED BY <2>1, <2>2, <3>1, <3>2, <1>c, <1>d DEF DaemonInv, Linux
  <2>3. CASE e = d
    <3>1. PipeInv(d)'
      BY <1>d, <1>e DEF PipeInv
    <3>2. CurInv(d)'
      BY <1>c, <1>d, CurFrame DEF CurInv
    <3>3. DaemonInv(d)'
      BY <1>c, <1>d DEF DaemonInv, Linux
    <3> QED BY <2>1, <2>3, <3>1, <3>2, <3>3
  <2> QED BY <2>2, <2>3
<1>3. NothingVanishes'
  <2>1. \A b \in Adms, e \in Daemons : b \in Waiting(e) => b \in Waiting(e)'
    BY DEF Waiting
  <2>2. \A b \in Adms : Running(b) => Running(b)'
    BY DEF Running
  <2>3. \A b \in Adms : Told(b)' => Told(b)
    BY <1>b DEF Told, Types
  <2> QED BY <1>b, <2>1, <2>2, <2>3, VanishFrame
<1>4. EndsOnlyIf'
  BY <1>b DEF EndsOnlyIf, Linux
<1>5. CallInv'
  <2>1. \A b \in Adms : adm[b].pc = "idle" => adm'[b].pc = "idle"
    BY <1>b DEF Types
  <2> QED BY <1>b, <2>1, CallFrame
<1> QED BY <1>0, <1>1, <1>2, <1>3, <1>4, <1>5 DEF CommandInv

\* A call under way writes to one of the two daemons.
LEMMA GoesToDaemon ==
  ASSUME CallInv, NEW a \in Adms, adm[a].pc # "idle"
  PROVE  GoesTo(a) \in Daemons
BY DEF CallInv, GoesTo, Other, Daemons

-----------------------------------------------------------------------------
(* The invariant *)

\* Every step of a call.
LEMMA CallSteps ==
  ASSUME CommandInv, Keeps, NEW a \in Adms, AdmStep(a) \/ AdmKilled(a)
  PROVE  CommandInv'
<1>b. Types /\ CallInv
  BY DEF CommandInv
<1> DEFINE d == GoesTo(a)
<1>1. CASE FifoOpen(a)
  <2>1. PICK p \in {"write", "refused"} : adm' = [adm EXCEPT ![a].pc = p]
    BY <1>1, Zenon DEF FifoOpen
  <2>2. p \in AdmPcs \ {"told"}
    BY DEF AdmPcs
  <2> QED BY <1>1, <1>b, <2>1, <2>2, CallMoves DEF FifoOpen, Types
<1>2. CASE FifoWrite(a)
  <2>0. Linux /\ adm[a].pc = "write" /\ UNCHANGED <<platform, made, up, dpc, pipe, cur, ran, faults, ev>>
    BY <1>2 DEF FifoWrite
  <2>1. d \in Daemons
    BY <2>0, <1>b, GoesToDaemon
  <2>2. CASE dpc[d] \in {"off", "boot", "opening"}
    <3> DEFINE last == Writers(d) = {a}
    <3>1. /\ adm' = [adm EXCEPT ![a].pc = "killed"]
          /\ chan' = [chan EXCEPT ![d] = IF last THEN <<>> ELSE @]
          /\ caught' = IF last THEN caught \cup Waiting(d) ELSE caught
          /\ UNCHANGED behind
      BY <1>2, <2>2 DEF FifoWrite
    <3>2. last \in BOOLEAN
      OBVIOUS
    <3> HIDE DEF last, d
    <3> QED BY <2>0, <2>1, <3>1, <3>2, KilledByWrite
  <2>3. CASE dpc[d] \notin {"off", "boot", "opening"}
    <3>1. /\ adm' = [adm EXCEPT ![a].pc = "told"]
          /\ chan' = [chan EXCEPT ![d] = @ \o <<[n |-> a, part |-> 1], [n |-> a, part |-> 2]>>]
          /\ behind' = IF chan[d] # <<>> THEN behind \cup {a} ELSE behind
          /\ UNCHANGED caught
      BY <1>2, <2>3 DEF FifoWrite
    <3>2. GoesTo(a) = d
      OBVIOUS
    <3> HIDE DEF d
    <3> QED BY <2>0, <2>1, <3>1, <3>2, Appends
  <2> QED BY <2>2, <2>3
<1>3. CASE PipeOpen(a)
  <2>0. ~Linux /\ adm[a].pc = "open" /\ UNCHANGED <<platform, made, up, chan, cur, ran, behind, caught, faults, ev>>
    BY <1>3 DEF PipeOpen
  <2>1. d \in Daemons
    BY <2>0, <1>b, GoesToDaemon
  <2>2. CASE dpc[d] \in {"created", "connect"} /\ pipe[d] = NoAdm
    <3>1. /\ adm' = [adm EXCEPT ![a].pc = "write"] /\ pipe' = [pipe EXCEPT ![d] = a]
          /\ dpc' = [dpc EXCEPT ![d] = IF @ = "connect" THEN "read" ELSE @]
      BY <1>3, <2>2 DEF PipeOpen
    <3> HIDE DEF d
    <3> QED BY <2>0, <2>1, <2>2, <3>1, Connects
  <2>3. CASE ~(dpc[d] \in {"created", "connect"} /\ pipe[d] = NoAdm)
    <3>1. adm' = [adm EXCEPT ![a].pc = "refused"] /\ UNCHANGED <<pipe, dpc>>
      BY <1>3, <2>3 DEF PipeOpen
    <3>2. "refused" \in AdmPcs \ {"told"}
      BY DEF AdmPcs
    <3> QED BY <2>0, <3>1, <3>2, <1>b, CallMoves DEF Types
  <2> QED BY <2>2, <2>3
<1>4. CASE PipeWrite(a)
  <2>0. ~Linux /\ adm[a].pc = "write" /\ UNCHANGED <<platform, made, up, dpc, pipe, cur, ran, caught, faults, ev>>
    BY <1>4 DEF PipeWrite
  <2>1. d \in Daemons
    BY <2>0, <1>b, GoesToDaemon
  <2>2. CASE pipe[d] = a
    <3>1. /\ adm' = [adm EXCEPT ![a].pc = "told"]
          /\ chan' = [chan EXCEPT ![d] = @ \o <<[n |-> a, part |-> 1], [n |-> a, part |-> 2]>>]
          /\ behind' = IF chan[d] # <<>> THEN behind \cup {a} ELSE behind
      BY <1>4, <2>2 DEF PipeWrite
    <3>2. GoesTo(a) = d
      OBVIOUS
    <3> HIDE DEF d
    <3> QED BY <2>0, <2>1, <2>2, <3>1, <3>2, Appends
  <2>3. CASE pipe[d] # a
    <3>1. adm' = [adm EXCEPT ![a].pc = "refused"] /\ UNCHANGED <<chan, behind>>
      BY <1>4, <2>3 DEF PipeWrite
    <3>2. "refused" \in AdmPcs \ {"told"}
      BY DEF AdmPcs
    <3> QED BY <2>0, <3>1, <3>2, <1>b, CallMoves DEF Types
  <2> QED BY <2>2, <2>3
<1>5. CASE AdmKilled(a)
  <2>1. "killed" \in AdmPcs \ {"told"}
    BY DEF AdmPcs
  <2>2. faults' \in 0..MaxFaults
    BY <1>5, <1>b, CMAssumption DEF AdmKilled, Fault, Types
  <2> QED BY <1>5, <2>1, <2>2, CallMoves DEF AdmKilled
<1> QED BY <1>1, <1>2, <1>3, <1>4, <1>5 DEF AdmStep

\* Every step of a daemon.
LEMMA DaemonSteps ==
  ASSUME CommandInv, Keeps, NEW d \in Daemons, Start(d) \/ DaemonStep(d) \/ Stop(d)
  PROVE  CommandInv'
<1>b. Types /\ ChannelInv(d) /\ PipeInv(d) /\ CurInv(d) /\ DaemonInv(d)
  BY DEF CommandInv
<1>c. faults \in 0..MaxFaults
  BY <1>b DEF Types
<1> USE DEF admVars
<1>1. CASE Start(d)
  <2>1. "boot" \in DaemonPcs \ {"off", "run"}
    BY DEF DaemonPcs
  <2>2. d \in up' /\ up' = up \cup {d} /\ made' \subseteq made \cup {d} /\ dpc[d] # "run"
    BY <1>1 DEF Start
  <2> QED BY <1>1, <2>1, <2>2, Moves DEF Start
<1>2. CASE ThreadInit(d)
  <2>1. PICK p \in {"opening", "create"} : dpc' = [dpc EXCEPT ![d] = p] /\ (p = "create" => ~Linux)
    BY <1>2, Zenon DEF ThreadInit
  <2>2. p \in DaemonPcs \ {"off", "run"} /\ (p \in {"create", "created", "connect", "read"} => ~Linux)
    BY <2>1 DEF DaemonPcs
  <2>3. d \in up' /\ up' = up \cup {d} /\ made' \subseteq made \cup {d} /\ dpc[d] # "run"
    BY <1>2, <1>b DEF ThreadInit, DaemonInv
  <2> QED BY <1>2, <2>1, <2>2, <2>3, Moves DEF ThreadInit
<1>3. CASE OpenFifo(d)
  <2>1. "wait" \in DaemonPcs \ {"off", "run"}
    BY DEF DaemonPcs
  <2>2. d \in up' /\ up' = up \cup {d} /\ made' \subseteq made \cup {d} /\ dpc[d] # "run"
    BY <1>3, <1>b DEF OpenFifo, DaemonInv
  <2> QED BY <1>3, <2>1, <2>2, Moves DEF OpenFifo
<1>4. CASE PipeCreate(d)
  <2>1. "created" \in DaemonPcs \ {"off", "run"}
    BY DEF DaemonPcs
  <2>2. d \in up' /\ up' = up \cup {d} /\ made' \subseteq made \cup {d} /\ dpc[d] # "run" /\ ~Linux
    BY <1>4, <1>b DEF PipeCreate, DaemonInv
  <2> QED BY <1>4, <2>1, <2>2, Moves DEF PipeCreate
<1>5. CASE PipeConnect(d)
  <2>1. ~Linux /\ dpc[d] = "created" /\ d \in up /\ UNCHANGED faults
    BY <1>5, <1>b DEF PipeConnect, DaemonInv
  <2>2. CASE pipe[d] = NoAdm
    <3>1. /\ dpc' = [dpc EXCEPT ![d] = "connect"]
          /\ UNCHANGED <<platform, made, up, chan, pipe, cur, adm, behind, ran, caught, ev>>
      BY <1>5, <2>2 DEF PipeConnect
    <3>2. "connect" \in DaemonPcs \ {"off", "run"}
      BY DEF DaemonPcs
    <3>3. d \in up' /\ up' = up \cup {d} /\ made' \subseteq made \cup {d} /\ dpc[d] # "run"
      BY <2>1, <3>1
    <3> QED BY <2>1, <3>1, <3>2, <3>3, Moves
  <2>3. CASE pipe[d] # NoAdm
    <3>1. Ends(d, "early") /\ faults' \in 0..MaxFaults
      BY <1>5, <1>c, <2>3, <2>1 DEF PipeConnect
    <3> QED BY <2>1, <3>1, EndsStep
  <2> QED BY <2>2, <2>3
<1>6. CASE Stop(d)
  <2>1. faults' \in 0..MaxFaults /\ Ends(d, "stopped")
    BY <1>6, <1>c, CMAssumption DEF Stop, Fault
  <2> QED BY <2>1, EndsStep
<1>7. CASE ReadPipe(d)
  <2>1. ~Linux /\ dpc[d] = "read" /\ UNCHANGED faults
    BY <1>7, <1>b DEF ReadPipe, DaemonInv
  <2>2. CASE chan[d] # <<>>
    <3>1. PICK c \in Found(chan[d][1]) : cur' = [cur EXCEPT ![d] = c]
      BY <1>7, <2>2 DEF ReadPipe
    <3>2. /\ chan' = [chan EXCEPT ![d] = <<>>] /\ dpc' = [dpc EXCEPT ![d] = "run"]
          /\ UNCHANGED <<platform, made, up, pipe, adm, behind, ran, caught, ev>>
      BY <1>7, <2>2 DEF ReadPipe
    <3>3. chan[d] \in Seq(Units) /\ Len(chan[d]) \in Nat
      BY <1>b, ChannelOfUnits
    <3>4. SubSeq(chan[d], Len(chan[d]) + 1, Len(chan[d])) = <<>>
      BY <3>3, DropFirst
    <3>5. chan' = [chan EXCEPT ![d] = SubSeq(chan[d], Len(chan[d]) + 1, Len(chan[d]))]
      BY <3>2, <3>4
    <3>6. Len(chan[d]) <= Len(chan[d])
      BY <3>3
    <3> QED BY <2>1, <2>2, <3>1, <3>2, <3>3, <3>5, <3>6, Reads
  <2>3. CASE chan[d] = <<>>
    <3>1. Ends(d, "broken") /\ faults' \in 0..MaxFaults
      BY <1>7, <1>c, <2>1, <2>3 DEF ReadPipe
    <3> QED BY <2>1, <3>1, EndsStep
  <2> QED BY <2>2, <2>3
<1>8. CASE ReadFifo(d)
  <2>1. Linux /\ dpc[d] = "wait" /\ Taken(d) > 0 /\ dpc' = [dpc EXCEPT ![d] = "run"]
    BY <1>8 DEF ReadFifo
  <2>2. chan[d] \in Seq(Units) /\ Len(chan[d]) \in Nat
    BY <1>b, ChannelOfUnits
  <2>3. /\ Taken(d) \in Nat /\ Taken(d) <= Len(chan[d])
        /\ Taken(d) >= 2 \/ Taken(d) = Len(chan[d])
        /\ Len(chan[d]) > BufUnits \/ Taken(d) = Len(chan[d])
    BY <2>2, CMAssumption DEF Taken
  <2>4. chan[d] # <<>>
    BY <2>1, <2>2, <2>3
  <2>5. PICK c \in Found(chan[d][1]) : cur' = [cur EXCEPT ![d] = c]
    BY <1>8 DEF ReadFifo
  <2>6. chan' = [chan EXCEPT ![d] = SubSeq(chan[d], Taken(d) + 1, Len(chan[d]))]
    BY <1>8, <1>b DEF ReadFifo, Types
  <2>7. UNCHANGED <<platform, made, up, pipe, adm, behind, ran, caught, faults>>
    BY <1>8 DEF ReadFifo
  <2>8. ev' = IF Len(chan[d]) > BufUnits THEN ev \cup {"piled"} ELSE ev
    BY <1>8 DEF ReadFifo
  <2>9. Piled' \/ Taken(d) = Len(chan[d])
    BY <2>1, <2>3, <2>7, <2>8 DEF Piled, Linux
  <2>10. ("stopped" \in ev => "stopped" \in ev') /\ ev' \cap {"early", "broken"} = ev \cap {"early", "broken"}
    BY <2>8
  <2>11. PICK k \in Nat : k = Taken(d)
    BY <2>3
  <2> QED BY <2>1, <2>2, <2>3, <2>4, <2>5, <2>6, <2>7, <2>9, <2>10, <2>11, Reads
<1>9. CASE ReadEnd(d)
  <2>1. CallInv'
    BY <1>9, CallFrame DEF ReadEnd, vars, CommandInv
  <2>2. Types'
    BY <1>9, <1>b DEF ReadEnd, vars, Types
  <2> QED BY <1>9, <2>1, <2>2, Quiet DEF ReadEnd, vars, Told
<1>10. CASE Run(d)
  BY <1>10, Runs
<1> QED BY <1>1, <1>2, <1>3, <1>4, <1>5, <1>6, <1>7, <1>8, <1>9, <1>10 DEF DaemonStep

\* The invariant holds before anything has started.
LEMMA InitHolds == Init => CommandInv
<1> SUFFICES ASSUME Init PROVE CommandInv
  OBVIOUS
<1> USE DEF Init
<1>1. Types
  <2>1. "none" \in Starts
    BY DEF Starts
  <2>2. chan \in [Daemons -> Seq(Units)]
    OBVIOUS
  <2>3. cur \in [Daemons -> [n : Adms \cup {NoAdm}, ch : Starts]]
    BY <2>1 DEF NoCmd
  <2>4. adm \in [Adms -> [pc : AdmPcs, ch : Starts, meant : Daemons \cup {"none"}]]
    BY <2>1 DEF AdmPcs
  <2>5. dpc \in [Daemons -> DaemonPcs] /\ pipe \in [Daemons -> Adms \cup {NoAdm}]
    BY DEF DaemonPcs
  <2> QED BY <2>2, <2>3, <2>4, <2>5, CMAssumption DEF Types
<1>2. CallInv /\ RanInv /\ NothingVanishes /\ EndsOnlyIf
  BY DEF CallInv, RanInv, NothingVanishes, EndsOnlyIf, Told
<1>3. ASSUME NEW d \in Daemons
      PROVE  ChannelInv(d) /\ PipeInv(d) /\ CurInv(d) /\ DaemonInv(d)
  BY DEF ChannelInv, PipeInv, CurInv, DaemonInv, NoCmd
<1> QED BY <1>1, <1>2, <1>3 DEF CommandInv

\* Every step keeps it.
LEMMA StepHolds == CommandInv /\ [Next]_vars => CommandInv'
<1> SUFFICES ASSUME CommandInv, [Next]_vars PROVE CommandInv'
  OBVIOUS
<1>1. Keeps
  BY NextKeeps DEF CommandInv
<1>2. ASSUME NEW a \in Adms, NEW ch \in Letters, NEW meant \in Daemons, NEW argc \in Argcs,
             AdmStart(a, ch, meant, argc)
      PROVE  CommandInv'
  BY <1>1, <1>2, StartCall
<1>3. CASE UNCHANGED vars
  <2>1. CallInv'
    BY <1>1, <1>3, CallFrame DEF vars, admVars, CommandInv
  <2>2. Types'
    BY <1>3 DEF vars, admVars, Types, CommandInv
  <2> QED BY <1>1, <1>3, <2>1, <2>2, Quiet DEF vars, admVars, Told
<1> QED BY <1>1, <1>2, <1>3, CallSteps, DaemonSteps DEF Next

\* The inductive invariant, on both platforms and for every number of calls and
\* every size of the daemon's buffer that takes a command.
THEOREM CommandInvariant == Spec => []CommandInv
<1>1. Init => CommandInv
  BY InitHolds
<1>2. CommandInv /\ [Next]_vars => CommandInv'
  BY StepHolds
<1> QED BY <1>1, <1>2, PTL DEF Spec

\* parse_daemon_request runs only commands that ebdradm was asked to give to this
\* daemon, unless a FIFO held more than one read takes (atdr_daemon.c:703).
THEOREM DaemonsRunWhatWasAsked == Spec => []RunsOnlyAsked
<1>1. CommandInv => RunsOnlyAsked
  <2> SUFFICES ASSUME CommandInv, NEW r \in ran, r.ch # "none", ~Piled
               PROVE  /\ r.ch = adm[r.n].ch
                      /\ r.d = IF r.ch = "z" THEN Other(adm[r.n].meant) ELSE adm[r.n].meant
    BY DEF RunsOnlyAsked, Piled
  <2>1. Sent(r.n, r.d) /\ r.ch = adm[r.n].ch
    BY DEF CommandInv, RanInv
  <2>2. /\ adm[r.n].ch \in {t.ch : t \in Table}
        /\ Row(adm[r.n].ch).to = "other" \/ adm[r.n].meant = Row(adm[r.n].ch).to
    BY <2>1 DEF CommandInv, CallInv, Sent, Told
  <2>3. Row(r.ch).to = "other" <=> r.ch = "z"
    BY <2>1, <2>2, RowOfTable, OnlyDbinfoIsOther
  <2> QED BY <2>1, <2>2, <2>3 DEF Sent, GoesTo
<1> QED BY <1>1, CommandInvariant, PTL

\* A command that ebdradm has written without an error waits, runs or has run,
\* unless it was written behind another one or the daemon ended.
THEOREM NoCommandVanishes == Spec => []NothingVanishes
<1>1. CommandInv => NothingVanishes
  BY DEF CommandInv
<1> QED BY <1>1, CommandInvariant, PTL

\* Under Windows the one instance of the pipe keeps calls apart: no message is
\* ever written behind another.
THEOREM PipesTakeOneMessage == Spec => []OneAtATime
<1>1. CommandInv => OneAtATime
  <2>1. ASSUME CommandInv, ~Linux, NEW d \in Daemons
        PROVE  behind = {} /\ Len(chan[d]) <= 2
    <3>1. PipeInv(d)
      BY <2>1 DEF CommandInv
    <3>2. CASE chan[d] = <<>>
      BY <3>1, <3>2, <2>1 DEF PipeInv
    <3>3. CASE chan[d] # <<>>
      <4>1. behind = {} /\ Len(chan[d]) = 2
        BY <3>1, <3>3, <2>1, Zenon DEF PipeInv
      <4> QED BY <4>1
    <3> QED BY <3>2, <3>3
  <2>2. "server" \in Daemons
    BY DEF Daemons
  <2> QED BY <2>1, <2>2 DEF OneAtATime
<1> QED BY <1>1, CommandInvariant, PTL

\* A daemon that has made its FIFO is up unless it was stopped; under Windows also
\* a call that connects early or breaks off ends it.
THEOREM DaemonsEndForAReason == Spec => []EndsOnlyIf
<1>1. CommandInv => EndsOnlyIf
  BY DEF CommandInv
<1> QED BY <1>1, CommandInvariant, PTL

-----------------------------------------------------------------------------
(* Partners and relations: numbers, messages and streams.                  *)

\* The numbers of the tables.
LEMMA PartnerNumbers ==
  /\ MaxPartners \in Nat /\ MaxConns \in Nat /\ MaxReplays \in Nat /\ 0 \in Pids
  /\ Pids \subseteq Nat /\ Pids \subseteq Slots /\ Slots \subseteq Nat /\ 0 \in Slots
  /\ Conns \subseteq Nat /\ 0 \notin Conns /\ Fds \subseteq Nat /\ 0 \in Fds /\ Fds = 0 .. MaxConns
  /\ Shut \notin Conns /\ Shut # 0
  /\ \A i \in 0 .. MaxConns : i = 0 \/ i \in Conns
  /\ \A n \in Nat : n <= MaxReplays + MaxConns => n + 1 \in Slots /\ n \in Slots
  BY PartnershipAssumption DEF Pids, Slots, Conns, Shut

\* The message of a thread that has received none.
LEMMA NoMsgIsMsg == NoMsg \in Msg /\ NoMsg.op = "none" /\ NoThread.last = NoMsg
  BY PartnerNumbers DEF NoMsg, Msg, NoThread

\* The least of a set of numbers is one of them.
LEMMA LeastOf == ASSUME NEW S \in SUBSET Nat, S # {} PROVE Min(S) \in S
<1> DEFINE R == OpToRel(<, Nat)
<1>1. IsWellFoundedOn(R, Nat)
  BY NatLessThanWellFounded
<1>2. PICK x \in S : \A y \in S : ~(<<y, x>> \in R)
  <2> HIDE DEF R
  <2> QED BY <1>1, WFMin
<1>3. ASSUME NEW y \in S PROVE x <= y
  <2>1. x \in Nat /\ y \in Nat
    OBVIOUS
  <2>2. y < x => <<y, x>> \in R
    BY <2>1 DEF OpToRel
  <2>3. ~(y < x)
    <3> HIDE DEF R
    <3> QED BY <1>2, <2>2
  <2> QED BY <2>1, <2>3
<1> QED BY <1>3 DEF Min

\* What a step finds: the types, one by one.
LEMMA PartnersTyped ==
  ASSUME PartnersTypeOK
  PROVE  /\ \A c \in Clients, p \in Pids : /\ cpart[c][p].id \in Pids
                                           /\ cpart[c][p].sock \in 0 .. MaxConns
                                           /\ cpart[c][p].sock \in 0 .. Len(owner)
         /\ \A c \in Clients : ctl[c].pid \in Pids
         /\ \A c \in Clients : ctl[c].pc = "syn" => cpart[c][ctl[c].pid].sock \in Conns
         /\ Len(owner) \in Nat /\ DOMAIN owner = 1 .. Len(owner) /\ 1 .. Len(owner) \subseteq Conns
         /\ \A k \in 1 .. Len(owner) : owner[k] \in Clients
         /\ \A k \in Conns : toS[k] \in Seq(Msg) /\ toC[k] \in Seq(Msg)
         /\ \A k \in Conns : th[k].last \in Msg /\ th[k].fd \in Fds /\ th[k].slot \in Slots
         /\ \A k \in Conns : th[k].last.pid \in Pids /\ th[k].pid = 0
         /\ accepted \in Nat /\ accepted <= Len(owner)
<1>1. Len(owner) \in Nat /\ DOMAIN owner = 1 .. Len(owner)
  BY DEF PartnersTypeOK
<1>2. 1 .. Len(owner) \subseteq Conns
  BY <1>1, PartnerNumbers DEF PartnersTypeOK, Conns
<1>3. \A k \in 1 .. Len(owner) : owner[k] \in Clients
  BY <1>1 DEF PartnersTypeOK
<1>4. \A c \in Clients, p \in Pids : /\ cpart[c][p].id \in Pids
                                     /\ cpart[c][p].sock \in 0 .. MaxConns
                                     /\ cpart[c][p].sock \in 0 .. Len(owner)
  <2> SUFFICES ASSUME NEW c \in Clients, NEW p \in Pids
               PROVE  /\ cpart[c][p].id \in Pids
                      /\ cpart[c][p].sock \in 0 .. MaxConns
                      /\ cpart[c][p].sock \in 0 .. Len(owner)
    OBVIOUS
  <2>1. cpart[c][p] \in [id : Pids, state : States, sock : 0 .. MaxConns]
    BY DEF PartnersTypeOK
  <2>2. cpart[c][p].sock <= Len(owner)
    BY DEF PartnersTypeOK
  <2> QED BY <1>1, <2>1, <2>2, PartnerNumbers
<1>5. \A c \in Clients : ctl[c].pid \in Pids
  BY DEF PartnersTypeOK
<1>6. \A c \in Clients : ctl[c].pc = "syn" => cpart[c][ctl[c].pid].sock \in Conns
  BY <1>4, <1>5, PartnerNumbers DEF PartnersTypeOK
<1>7. \A k \in Conns : toS[k] \in Seq(Msg) /\ toC[k] \in Seq(Msg)
  BY DEF PartnersTypeOK
<1>8. \A k \in Conns : th[k].last \in Msg /\ th[k].fd \in Fds /\ th[k].slot \in Slots
                       /\ th[k].pid = 0
  BY DEF PartnersTypeOK
<1>9. \A m \in Msg : m.pid \in Pids
  BY DEF Msg
<1>10. accepted \in Nat /\ accepted <= Len(owner)
  BY <1>1 DEF PartnersTypeOK
<1> QED BY <1>1, <1>2, <1>3, <1>4, <1>5, <1>6, <1>7, <1>8, <1>9, <1>10

\* A descriptor is free for the next connection.
LEMMA FreeDescriptor ==
  ASSUME PartnersTypeOK, DescInv, accepted < Len(owner)
  PROVE  LowestFree \in Fds /\ desc[LowestFree] = Shut
<1> DEFINE Free == {f \in Fds : desc[f] = Shut}
<1>1. Free # {}
  <2> SUFFICES ASSUME \A f \in Fds : desc[f] # Shut PROVE FALSE
    OBVIOUS
  <2> DEFINE A == 1 .. MaxConns
             B == 1 .. accepted
             g == [f \in A |-> desc[f]]
  <2>1. accepted \in Nat /\ accepted < MaxConns
    <3>1. accepted \in Nat /\ Len(owner) \in Nat
      BY PartnersTyped
    <3>2. Len(owner) <= MaxConns
      BY DEF PartnersTypeOK
    <3> QED BY <3>1, <3>2, PartnerNumbers
  <2>2. \A f \in A : f \in Fds /\ f # 0 /\ desc[f] \in Conns
    <3> SUFFICES ASSUME NEW f \in A PROVE f \in Fds /\ f # 0 /\ desc[f] \in Conns
      OBVIOUS
    <3>1. f \in Fds /\ f # 0
      BY PartnerNumbers
    <3>2. desc[f] \in Conns \union {0, Shut}
      BY <3>1 DEF PartnersTypeOK
    <3>3. desc[f] # 0
      BY <3>1 DEF DescInv, Stdin
    <3> QED BY <3>1, <3>2, <3>3
  <2>3. \A f \in A : desc[f] \in B
    BY <2>1, <2>2 DEF DescInv, Conns
  <2>4. g \in [A -> B]
    BY <2>3
  <2>5. \A e, f \in A : e # f => g[e] # g[f]
    BY <2>2 DEF DescInv
  <2>6. IsFiniteSet(A) /\ Cardinality(A) = MaxConns
    BY PartnerNumbers, FS_Interval
  <2>7. IsFiniteSet(B) /\ Cardinality(B) = accepted
    BY <2>1, FS_Interval
  <2>8. Cardinality(B) < Cardinality(A)
    BY <2>1, <2>6, <2>7
  <2> HIDE DEF A, B, g
  <2>9. \E e, f \in A : e # f /\ g[e] = g[f]
    BY <2>4, <2>6, <2>7, <2>8, FS_PigeonHole
  <2> QED BY <2>5, <2>9
<1>2. Free \in SUBSET Nat
  BY PartnerNumbers
<1>3. LowestFree \in Free
  BY <1>1, <1>2, LeastOf DEF LowestFree
<1> QED BY <1>3

\* A message goes to the end of its stream, if the stream is open.
LEMMA SendDoes ==
  ASSUME PartnersTypeOK, NEW k \in Conns, NEW m \in Msg, Send(k, m)
  PROVE  /\ toS' \in [Conns -> Seq(Msg)]
         /\ \A j \in Conns : j # k => toS'[j] = toS[j]
         /\ k \in hungUp => toS'[k] = toS[k]
         /\ k \notin hungUp =>
              /\ Len(toS[k]) \in Nat /\ Len(toS'[k]) = Len(toS[k]) + 1
              /\ toS'[k][Len(toS[k]) + 1] = m
              /\ \A i \in 1 .. Len(toS[k]) : toS'[k][i] = toS[k][i]
<1>1. toS \in [Conns -> Seq(Msg)] /\ toS[k] \in Seq(Msg)
  BY DEF PartnersTypeOK
<1>2. CASE k \in hungUp
  BY <1>1, <1>2 DEF Send
<1>3. CASE k \notin hungUp
  <2>1. toS' = [toS EXCEPT ![k] = Append(toS[k], m)]
    BY <1>3 DEF Send
  <2> DEFINE s == toS[k]
  <2>2. /\ Append(s, m) \in Seq(Msg) /\ Len(Append(s, m)) = Len(s) + 1
        /\ Append(s, m)[Len(s) + 1] = m
        /\ \A i \in 1 .. Len(s) : Append(s, m)[i] = s[i]
    BY <1>1, AppendProperties
  <2>3. Len(s) \in Nat
    BY <1>1, LenProperties
  <2>4. toS'[k] = Append(s, m) /\ \A j \in Conns : j # k => toS'[j] = toS[j]
    BY <1>1, <2>1
  <2>5. toS' \in [Conns -> Seq(Msg)]
    BY <1>1, <2>1, <2>2
  <2> HIDE DEF s
  <2> QED BY <1>3, <2>2, <2>3, <2>4, <2>5 DEF s
<1> QED BY <1>2, <1>3

\* The count of the rows depends on the streams that still ask for one.
LEMMA RowsStay ==
  ASSUME PartnersTypeOK, RowsInv, srows' = srows, replays' = replays, owner' = owner,
         \A k \in Conns : k > Len(owner) => toS'[k] = <<>>,
         \A k \in 1 .. Len(owner) : Asked(k)' <=> Asked(k),
         \A k \in 1 .. Len(owner) : \A i \in DOMAIN toS'[k] :
            toS'[k][i].op = "MAKE_PARTNER" => i = 1
  PROVE  RowsInv'
<1>1. {k \in 1 .. Len(owner) : ~Asked(k)} = {k \in 1 .. Len(owner) : ~Asked(k)}'
  OBVIOUS
<1>2. Len(srows) <= replays + Cardinality({k \in 1 .. Len(owner) : ~Asked(k)})
  BY DEF RowsInv
<1>3. (Len(srows) <= replays + Cardinality({k \in 1 .. Len(owner) : ~Asked(k)}))'
  BY <1>1, <1>2
<1>4. \A k \in Conns : k \in 1 .. Len(owner) \/ k > Len(owner)
  BY PartnersTyped DEF Conns
<1>5. \A k \in Conns : \A i \in DOMAIN toS'[k] : toS'[k][i].op = "MAKE_PARTNER" => i = 1
  BY <1>4
<1> QED BY <1>3, <1>5 DEF RowsInv

\* A message that asks for no row.
LEMMA SendRows ==
  ASSUME PartnersTypeOK, RowsInv, NEW k \in 1 .. Len(owner), NEW m \in Msg,
         m.op # "MAKE_PARTNER", Send(k, m), srows' = srows, replays' = replays, owner' = owner
  PROVE  RowsInv'
<1>1. k \in Conns /\ 1 .. Len(owner) \subseteq Conns
  BY PartnersTyped
<1>2. \A j \in Conns : toS[j] \in Seq(Msg) /\ Len(toS[j]) \in Nat /\ DOMAIN toS[j] = 1 .. Len(toS[j])
                       /\ (toS[j] = <<>> <=> Len(toS[j]) = 0)
  BY PartnersTyped, LenProperties, EmptySeq
<1>3. toS' \in [Conns -> Seq(Msg)] /\ \A j \in Conns : j # k => toS'[j] = toS[j]
  BY <1>1, SendDoes
<1>4. \A j \in Conns : toS'[j] \in Seq(Msg) /\ DOMAIN toS'[j] = 1 .. Len(toS'[j])
                       /\ (toS'[j] = <<>> <=> Len(toS'[j]) = 0)
  BY <1>3, LenProperties, EmptySeq
<1>5. CASE k \in hungUp
  <2>1. \A j \in Conns : toS'[j] = toS[j]
    BY <1>1, <1>3, <1>5, SendDoes
  <2> QED BY <1>1, <2>1, RowsStay DEF RowsInv, Asked
<1>6. CASE k \notin hungUp
  <2>1. /\ Len(toS'[k]) = Len(toS[k]) + 1 /\ toS'[k][Len(toS[k]) + 1] = m
        /\ \A i \in 1 .. Len(toS[k]) : toS'[k][i] = toS[k][i]
    BY <1>1, <1>6, SendDoes
  <2>2. Asked(k)' <=> Asked(k)
    <3>1. CASE Len(toS[k]) = 0
      BY <1>1, <1>2, <1>4, <2>1, <3>1 DEF Asked
    <3>2. CASE Len(toS[k]) > 0
      <4>1. 1 \in 1 .. Len(toS[k]) /\ toS'[k][1] = toS[k][1]
        BY <1>1, <1>2, <2>1, <3>2
      <4>2. toS[k] # <<>> /\ toS'[k] # <<>>
        BY <1>1, <1>2, <1>4, <2>1, <3>2
      <4> QED BY <4>1, <4>2 DEF Asked
    <3> QED BY <1>1, <1>2, <3>1, <3>2
  <2>3. \A j \in 1 .. Len(owner) : Asked(j)' <=> Asked(j)
    BY <1>1, <1>3, <2>2 DEF Asked
  <2>4. \A i \in DOMAIN toS'[k] : toS'[k][i].op = "MAKE_PARTNER" => i = 1
    <3> SUFFICES ASSUME NEW i \in DOMAIN toS'[k], toS'[k][i].op = "MAKE_PARTNER" PROVE i = 1
      OBVIOUS
    <3>1. i \in 1 .. (Len(toS[k]) + 1) /\ i # Len(toS[k]) + 1
      BY <1>1, <1>4, <2>1
    <3>2. i \in 1 .. Len(toS[k])
      BY <1>1, <1>2, <3>1
    <3> QED BY <1>1, <1>2, <2>1, <3>2 DEF RowsInv
  <2>5. \A j \in 1 .. Len(owner) : \A i \in DOMAIN toS'[j] :
          toS'[j][i].op = "MAKE_PARTNER" => i = 1
    BY <1>1, <1>3, <2>4 DEF RowsInv
  <2>6. \A j \in Conns : j > Len(owner) => toS'[j] = <<>>
    <3>1. \A j \in Conns : j > Len(owner) => j # k
      BY PartnersTyped
    <3> QED BY <1>3, <3>1 DEF RowsInv
  <2> QED BY <2>3, <2>5, <2>6, RowsStay
<1> QED BY <1>5, <1>6

-----------------------------------------------------------------------------
(* The clients.                                                            *)

\* A command of a client leaves the server alone.
ServerAlone ==
  UNCHANGED <<running, tableVars, connVars, maker, overtaken, hurried, replays>>

\* Only the types, the streams and the lines are at stake then.
LEMMA AloneKeeps ==
  ASSUME PartnersInv, ServerAlone, PartnersTypeOK', RowsInv', Calm => LineInv'
  PROVE  PartnersInv'
<1> USE DEF ServerAlone, tableVars, connVars
<1>1. DescInv'
  BY DEF PartnersInv, DescInv
<1>2. Calm' => Calm
  BY DEF Calm, RowsInOrder
<1>3. Calm => ThreadInv' /\ MakerInv' /\ running'
  BY DEF PartnersInv, ThreadInv, MakerInv
<1> QED BY <1>1, <1>2, <1>3 DEF PartnersInv

\* A connection nothing happens on stays as it is.
LEMMA OrderedSame ==
  ASSUME NEW k, toS'[k] = toS[k], toC'[k] = toC[k], th'[k].last = th[k].last,
         AwaitsAck(k)' <=> AwaitsAck(k), k \in hungUp => k \in hungUp', Ordered(k)
  PROVE  Ordered(k)'
  BY DEF Ordered

\* The same for the partner that a connection is about.
LEMMA ServesSame ==
  ASSUME NEW k, NEW p, toS'[k] = toS[k], th'[k].last = th[k].last,
         p < Len(srows) => p < Len(srows'), srel[p].state # "FREE" => srel'[p].state # "FREE",
         spart[p].ops /\ maker[p] = k => spart'[p].ops /\ maker'[p] = k,
         owner'[k] = owner[k],
         \A c \in Clients, q \in Pids : cpart'[c][q].sock = k => cpart[c][q].sock = k,
         Serves(k, p)
  PROVE  Serves(k, p)'
  BY DEF Serves

\* The socket of a client is a connection it made, and open while it is up.
LEMMA OwnConnection ==
  ASSUME PartnersInv, Calm, NEW c \in Clients, NEW p \in Pids, cpart[c][p].sock # 0
  PROVE  /\ cpart[c][p].sock \in 1 .. Len(owner) /\ cpart[c][p].sock \in Conns
         /\ owner[cpart[c][p].sock] = c
         /\ \A q \in Pids : cpart[c][q].sock = cpart[c][p].sock => q = p
         /\ Serves(cpart[c][p].sock, p)
         /\ ctl[c].pc # "down" => cpart[c][p].sock \notin hungUp
<1> DEFINE k == cpart[c][p].sock
<1>1. PartnersTypeOK /\ LineInv
  BY DEF PartnersInv
<1>2. k \in 1 .. Len(owner) /\ k \in Conns
  BY <1>1, PartnersTyped
<1>3. PICK r \in Pids : Serves(k, r)
  BY <1>1, <1>2 DEF LineInv
<1>4. owner[k] = c /\ r = p /\ \A q \in Pids : cpart[c][q].sock = k => q = p
  BY <1>3 DEF Serves
<1>5. ctl[c].pc # "down" => k \notin hungUp
  BY <1>1 DEF LineInv
<1> QED BY <1>2, <1>3, <1>4, <1>5

\* Who waits.
LEMMA WaitingOn ==
  ASSUME PartnersInv, Calm, NEW k \in 1 .. Len(owner), AwaitsAck(k)
  PROVE  ctl[owner[k]].pc = "syn" /\ k \notin hungUp
<1>1. PartnersTypeOK /\ LineInv
  BY DEF PartnersInv
<1>2. owner[k] \in Clients /\ ctl[owner[k]].pid \in Pids
  BY <1>1, PartnersTyped
<1> QED BY <1>1, <1>2 DEF LineInv, AwaitsAck

\* An idle client does not wait on any of its connections, and nothing of a
\* negotiation is left there.
LEMMA IdleLine ==
  ASSUME PartnersInv, Calm, NEW k \in 1 .. Len(owner), ctl[owner[k]].pc # "syn"
  PROVE  /\ ~AwaitsAck(k) /\ toC[k] = <<>>
         /\ \A i \in 1 .. Len(toS[k]) : toS[k][i].op # "SYN"
         /\ th[k].last.op = "SYN" => Len(toS[k]) # 0
<1>1. Ordered(k)
  BY DEF PartnersInv, LineInv
<1>2. ~AwaitsAck(k)
  BY DEF AwaitsAck
<1> QED BY <1>1, <1>2 DEF Ordered

\* The control thread of one client goes on.
ClientGoes(c, pc) == ctl' = [ctl EXCEPT ![c].pc = pc]
\* Only its place changes.
LEMMA ClientGone ==
  ASSUME PartnersTypeOK, NEW c \in Clients, NEW pc \in {"idle", "syn", "down"},
         ClientGoes(c, pc)
  PROVE  /\ ctl' \in [Clients -> [pc : {"idle", "syn", "down"}, pid : Pids]]
         /\ ctl'[c].pc = pc /\ ctl'[c].pid = ctl[c].pid
         /\ \A d \in Clients : d # c => ctl'[d] = ctl[d]
<1>1. ctl \in [Clients -> [pc : {"idle", "syn", "down"}, pid : Pids]]
  BY DEF PartnersTypeOK
<1> QED BY <1>1 DEF ClientGoes

\* A client that dies while it is not waiting.
LEMMA DieKeeps ==
  ASSUME PartnersInv, NEW c \in Clients, ctl[c].pc # "syn" \/ ~Calm, Die(c), ServerAlone,
         UNCHANGED <<cpart, crows, owner, toS, toC>>
  PROVE  PartnersInv'
<1>1. PartnersTypeOK /\ RowsInv
  BY DEF PartnersInv
<1>2. /\ ctl' \in [Clients -> [pc : {"idle", "syn", "down"}, pid : Pids]]
      /\ ctl'[c].pc = "down" /\ ctl'[c].pid = ctl[c].pid
      /\ \A d \in Clients : d # c => ctl'[d] = ctl[d]
  <2>1. ClientGoes(c, "down")
    BY DEF Die, ClientGoes
  <2> QED BY <1>1, <2>1, ClientGone
<1>3. hungUp' = hungUp \union {n \in DOMAIN owner : owner[n] = c}
  BY DEF Die
<1>4. PartnersTypeOK'
  <2>1. hungUp' \subseteq DOMAIN owner'
    BY <1>1, <1>3 DEF PartnersTypeOK
  <2>2. \A d \in Clients : ctl'[d].pc = "syn" => cpart'[d][ctl'[d].pid].sock # 0
    BY <1>1, <1>2 DEF PartnersTypeOK
  <2> QED BY <1>1, <1>2, <2>1, <2>2 DEF PartnersTypeOK, ServerAlone, tableVars, connVars
<1>5. RowsInv'
  BY <1>1 DEF RowsInv, Asked, ServerAlone, tableVars
<1>6. ASSUME Calm PROVE LineInv'
  <2>1. LineInv /\ ctl[c].pc # "syn"
    BY <1>6 DEF PartnersInv
  <2>2. \A k \in 1 .. Len(owner) : owner[k] \in Clients /\ k \in Conns
    BY <1>1, PartnersTyped
  <2>3. \A k \in 1 .. Len(owner) : AwaitsAck(k)' <=> AwaitsAck(k)
    <3> SUFFICES ASSUME NEW k \in 1 .. Len(owner) PROVE AwaitsAck(k)' <=> AwaitsAck(k)
      OBVIOUS
    <3>1. CASE owner[k] = c
      BY <1>2, <2>1, <3>1 DEF AwaitsAck
    <3>2. CASE owner[k] # c
      BY <1>2, <2>2, <3>2 DEF AwaitsAck
    <3> QED BY <3>1, <3>2
  <2>4. th' = th /\ tableVars' = tableVars /\ maker' = maker
    BY DEF ServerAlone, connVars
  <2>5. \A k \in 1 .. Len(owner) : Ordered(k)'
    BY <1>3, <2>1, <2>3, <2>4, OrderedSame DEF LineInv
  <2>6. \A k \in 1 .. Len(owner), p \in Pids : Serves(k, p) => Serves(k, p)'
    BY <2>4, ServesSame DEF tableVars
  <2>7. ASSUME NEW d \in Clients, ctl'[d].pc # "down", NEW p \in Pids
        PROVE  cpart'[d][p].sock \notin hungUp'
    <3>1. d # c /\ ctl[d].pc # "down" /\ cpart'[d][p].sock = cpart[d][p].sock
      BY <1>2, <2>7
    <3>2. cpart[d][p].sock \notin hungUp
      BY <2>1, <3>1 DEF LineInv
    <3>3. cpart[d][p].sock = 0 \/ owner[cpart[d][p].sock] = d
      BY <1>6, OwnConnection
    <3>4. 0 \notin DOMAIN owner
      BY <1>1, PartnersTyped
    <3> QED BY <1>3, <3>1, <3>2, <3>3, <3>4
  <2> QED BY <2>1, <2>5, <2>6, <2>7 DEF LineInv
<1> QED BY <1>4, <1>5, <1>6, AloneKeeps

\* A step that concerns one connection.
LEMMA OneLine ==
  ASSUME PartnersInv, Calm, ServerAlone, owner' = owner, NEW k \in 1 .. Len(owner),
         \A j \in Conns : j # k => toS'[j] = toS[j] /\ toC'[j] = toC[j],
         \A j \in 1 .. Len(owner) : j # k => (AwaitsAck(j)' <=> AwaitsAck(j)),
         hungUp \subseteq hungUp', hungUp' \subseteq hungUp \union {k},
         \A d \in Clients, q \in Pids : cpart'[d][q].sock \in {0, cpart[d][q].sock},
         \A d \in Clients : ctl'[d].pc # "down" => ctl[d].pc # "down",
         k \in hungUp' => \/ k \in hungUp
                          \/ \A d \in Clients, q \in Pids : cpart'[d][q].sock # k,
         Ordered(k)', \E p \in Pids : Serves(k, p)'
  PROVE  LineInv'
<1>1. PartnersTypeOK /\ LineInv
  BY DEF PartnersInv
<1>2. 1 .. Len(owner) \subseteq Conns /\ DOMAIN owner = 1 .. Len(owner)
  BY <1>1, PartnersTyped
<1>3. th' = th /\ srows' = srows /\ srel' = srel /\ spart' = spart /\ maker' = maker
  BY DEF ServerAlone, tableVars, connVars
<1>4. \A j \in 1 .. Len(owner) : j # k => Ordered(j)'
  BY <1>1, <1>2, <1>3, OrderedSame DEF LineInv
<1>5. ASSUME NEW j \in 1 .. Len(owner), j # k, NEW p \in Pids, Serves(j, p) PROVE Serves(j, p)'
  <2>1. \A d \in Clients, q \in Pids : cpart'[d][q].sock = j => cpart[d][q].sock = j
    <3>1. j # 0
      OBVIOUS
    <3> QED BY <3>1
  <2>2. toS'[j] = toS[j]
    BY <1>2, <1>5
  <2> QED BY <1>3, <1>5, <2>1, <2>2, ServesSame
<1>6. \A j \in 1 .. Len(owner) : \E p \in Pids : Serves(j, p)'
  BY <1>1, <1>5 DEF LineInv
<1>7. \A j \in Conns : j > Len(owner) => toC'[j] = <<>>
  <2>1. \A j \in Conns : j > Len(owner) => j # k
    BY <1>1, PartnersTyped
  <2> QED BY <1>1, <2>1 DEF LineInv
<1>8. ASSUME NEW d \in Clients, ctl'[d].pc # "down", NEW p \in Pids
      PROVE  cpart'[d][p].sock \notin hungUp'
  <2>1. cpart[d][p].sock \notin hungUp
    BY <1>1, <1>8 DEF LineInv
  <2>2. 0 \notin hungUp
    BY <1>1, <1>2 DEF PartnersTypeOK
  <2>3. cpart'[d][p].sock \notin hungUp
    BY <2>1, <2>2
  <2> QED BY <2>3
<1> QED BY <1>4, <1>6, <1>7, <1>8 DEF LineInv

\* A message about the partner of the connection.
LEMMA SaidServes ==
  ASSUME PartnersTypeOK, ServerAlone, owner' = owner, NEW k \in Conns, NEW m \in Msg,
         NEW p \in Pids, Send(k, m), k \notin hungUp, m.op = "ACK" \/ m.pid = p,
         \A d \in Clients, q \in Pids : cpart'[d][q].sock = k => cpart[d][q].sock = k,
         Serves(k, p)
  PROVE  Serves(k, p)'
<1>1. /\ toS' \in [Conns -> Seq(Msg)] /\ toS[k] \in Seq(Msg)
      /\ Len(toS[k]) \in Nat /\ Len(toS'[k]) = Len(toS[k]) + 1
      /\ toS'[k][Len(toS[k]) + 1] = m
      /\ \A i \in 1 .. Len(toS[k]) : toS'[k][i] = toS[k][i]
  BY SendDoes, PartnersTyped
<1>2. DOMAIN toS'[k] = 1 .. Len(toS'[k]) /\ DOMAIN toS[k] = 1 .. Len(toS[k])
  BY <1>1, LenProperties
<1>3. th' = th /\ srows' = srows /\ srel' = srel /\ spart' = spart /\ maker' = maker
  BY DEF ServerAlone, tableVars, connVars
<1>4. ASSUME NEW i \in DOMAIN toS'[k], toS'[k][i].op # "ACK" PROVE toS'[k][i].pid = p
  <2>1. CASE i = Len(toS[k]) + 1
    BY <1>1, <1>4, <2>1
  <2>2. CASE i # Len(toS[k]) + 1
    <3>1. i \in 1 .. Len(toS[k])
      BY <1>1, <1>2, <2>2
    <3>2. toS'[k][i] = toS[k][i] /\ i \in DOMAIN toS[k]
      BY <1>1, <1>2, <3>1
    <3> QED BY <1>4, <3>2 DEF Serves
  <2> QED BY <2>1, <2>2
<1> QED BY <1>3, <1>4 DEF Serves

\* A message that is in its place.
LEMMA SaidOrdered ==
  ASSUME PartnersTypeOK, NEW k \in Conns, NEW m \in Msg, Send(k, m), k \notin hungUp,
         Ordered(k), \A i \in 1 .. Len(toS[k]) : toS[k][i].op # "SYN", th' = th,
         toC'[k] = <<>>, hungUp \subseteq hungUp', m.op = "SYN" <=> AwaitsAck(k)',
         m.op \in {"SYN", "ACK", "REMOVE_PARTNER", "RM_RELATION"},
         m.op = "REMOVE_PARTNER" => k \in hungUp'
  PROVE  Ordered(k)'
<1> DEFINE n == Len(toS[k])
           last == th[k].last.op
<1>1. /\ n \in Nat /\ Len(toS'[k]) = n + 1 /\ toS'[k][n + 1] = m
      /\ \A i \in 1 .. n : toS'[k][i] = toS[k][i]
  BY SendDoes
<1>2. ASSUME NEW i \in 1 .. Len(toS'[k])
      PROVE  /\ toS'[k][i].op \notin {"none", "SYN_ACK"}
             /\ toS'[k][i].op = "MAKE_PARTNER" <=> i = 1 /\ last = "none"
             /\ toS'[k][i].op = "SYN" => i = Len(toS'[k]) /\ AwaitsAck(k)'
             /\ toS'[k][i].op = "REMOVE_PARTNER" => i = Len(toS'[k]) /\ k \in hungUp'
  <2>1. CASE i \in 1 .. n
    BY <1>1, <2>1 DEF Ordered
  <2>2. CASE i = n + 1
    <3>1. last = "none" => n > 0
      BY DEF Ordered
    <3>2. toS'[k][i] = m /\ i = Len(toS'[k]) /\ (i = 1 => n = 0)
      BY <1>1, <2>2
    <3> QED BY <3>1, <3>2
  <2> QED BY <1>1, <2>1, <2>2
<1>3. last # "REMOVE_PARTNER"
  BY DEF Ordered
<1>4. Len(toS'[k]) > 0 /\ Len(toS'[k]) # 0 /\ toS'[k][Len(toS'[k])] = m
  BY <1>1
<1>5. last = th'[k].last.op
  OBVIOUS
<1> HIDE DEF n, last
<1> QED BY <1>2, <1>3, <1>4, <1>5 DEF Ordered

\* --mkrelationpeer sends its SYN and waits.
LEMMA NegotiationKeeps ==
  ASSUME PartnersInv, NEW c \in Clients, NEW p \in Pids, NEW size \in Sizes, Idle(c),
         NEW k, k = cpart[c][p].sock, k # 0, StartNegotiation(c, p, size), ServerAlone,
         UNCHANGED <<cpart, crows, owner, toC, hungUp>>
  PROVE  PartnersInv'
<1> DEFINE m == [op |-> "SYN", pid |-> p, size |-> size]
<1>1. PartnersTypeOK /\ RowsInv
  BY DEF PartnersInv
<1>2. /\ ctl' \in [Clients -> [pc : {"idle", "syn", "down"}, pid : Pids]]
      /\ ctl'[c] = [pc |-> "syn", pid |-> p]
      /\ \A d \in Clients : d # c => ctl'[d] = ctl[d]
  <2>1. ctl \in [Clients -> [pc : {"idle", "syn", "down"}, pid : Pids]]
    BY <1>1 DEF PartnersTypeOK
  <2>2. ctl' = [ctl EXCEPT ![c] = [pc |-> "syn", pid |-> p]]
    BY DEF StartNegotiation
  <2> QED BY <2>1, <2>2
<1>3. m \in Msg /\ m.op = "SYN" /\ m.pid = p
  BY DEF Msg
<1>4. k \in 1 .. Len(owner) /\ k \in Conns /\ Len(owner) \in Nat /\ 1 .. Len(owner) \subseteq Conns
  BY <1>1, PartnersTyped
<1>5. Send(k, m)
  BY DEF StartNegotiation
<1> HIDE DEF m
<1>6. PartnersTypeOK'
  <2>1. toS' \in [Conns -> Seq(Msg)]
    BY <1>1, <1>3, <1>4, <1>5, SendDoes
  <2>2. ASSUME NEW d \in Clients, ctl'[d].pc = "syn" PROVE cpart'[d][ctl'[d].pid].sock # 0
    <3>1. CASE d = c
      <4>1. ctl'[d].pid = p
        BY <1>2, <3>1
      <4> QED BY <3>1, <4>1
    <3>2. CASE d # c
      <4>1. ctl'[d] = ctl[d]
        BY <1>2, <3>2
      <4> QED BY <1>1, <2>2, <4>1 DEF PartnersTypeOK
    <3> QED BY <3>1, <3>2
  <2> QED BY <1>1, <1>2, <2>1, <2>2 DEF PartnersTypeOK, ServerAlone, tableVars, connVars
<1>7. RowsInv'
  <2>1. srows' = srows /\ replays' = replays
    BY DEF ServerAlone, tableVars
  <2> QED BY <1>1, <1>3, <1>4, <1>5, <2>1, SendRows
<1>8. ASSUME Calm PROVE LineInv'
  <2>1. LineInv /\ Ordered(k) /\ Serves(k, p) /\ owner[k] = c /\ k \notin hungUp
    BY <1>4, <1>8, OwnConnection DEF PartnersInv, LineInv, Idle
  <2>2. /\ \A j \in Conns : j # k => toS'[j] = toS[j]
        /\ Len(toS[k]) \in Nat /\ Len(toS'[k]) = Len(toS[k]) + 1
        /\ toS'[k][Len(toS[k]) + 1] = m
        /\ \A i \in 1 .. Len(toS[k]) : toS'[k][i] = toS[k][i]
    BY <1>1, <1>3, <1>4, <1>5, <2>1, SendDoes
  <2>3. th' = th /\ srows' = srows /\ srel' = srel /\ spart' = spart /\ maker' = maker
    BY DEF ServerAlone, tableVars, connVars
  <2>4. /\ ~AwaitsAck(k) /\ toC[k] = <<>>
        /\ \A i \in 1 .. Len(toS[k]) : toS[k][i].op # "SYN"
        /\ th[k].last.op = "SYN" => Len(toS[k]) # 0
    BY <1>4, <1>8, <2>1, IdleLine DEF Idle
  <2>5. AwaitsAck(k)'
    BY <1>2, <2>1 DEF AwaitsAck
  <2>6. ASSUME NEW j \in Conns, j # k PROVE AwaitsAck(j)' <=> AwaitsAck(j)
    <3>1. CASE owner[j] = c
      <4>1. ~AwaitsAck(j)
        BY <3>1 DEF AwaitsAck, Idle
      <4>2. ~AwaitsAck(j)'
        BY <1>2, <2>6, <3>1 DEF AwaitsAck
      <4> QED BY <4>1, <4>2
    <3>2. CASE owner[j] # c
      <4>1. ctl'[owner[j]] = ctl[owner[j]]
        BY <3>2 DEF StartNegotiation
      <4> QED BY <4>1 DEF AwaitsAck
    <3> QED BY <3>1, <3>2
  <2>8. Ordered(k)'
    BY <1>1, <1>3, <1>4, <1>5, <2>1, <2>3, <2>4, <2>5, SaidOrdered
  <2>9. Serves(k, p)'
    BY <1>1, <1>3, <1>4, <1>5, <2>1, SaidServes
  <2>10. /\ \A j \in Conns : j # k => toS'[j] = toS[j] /\ toC'[j] = toC[j]
         /\ \A j \in 1 .. Len(owner) : j # k => (AwaitsAck(j)' <=> AwaitsAck(j))
    BY <1>4, <2>2, <2>6
  <2>11. \A d \in Clients : ctl'[d].pc # "down" => ctl[d].pc # "down"
    BY <1>2 DEF Idle
  <2>12. /\ owner' = owner /\ hungUp' = hungUp /\ k \notin hungUp'
         /\ \A d \in Clients, q \in Pids : cpart'[d][q].sock = cpart[d][q].sock
    BY <2>1
  <2> QED BY <1>4, <1>8, <2>8, <2>9, <2>10, <2>11, <2>12, OneLine
<1> QED BY <1>6, <1>7, <1>8, AloneKeeps

\* --rmrelation and --rmpartner tell the server; the latter then hangs up.
LEMMA TellsKeeps ==
  ASSUME PartnersInv, NEW c \in Clients, NEW p \in Pids, Idle(c), NEW m \in Msg,
         m.op \in {"RM_RELATION", "REMOVE_PARTNER"}, m.pid = p, ctl' = ctl,
         NEW k, k = cpart[c][p].sock, k # 0, Send(k, m), ServerAlone, PartnersTypeOK',
         UNCHANGED <<owner, toC>>,
         \/ m.op = "RM_RELATION" /\ UNCHANGED <<cpart, hungUp>>
         \/ /\ hungUp' = hungUp \union {k} /\ cpart'[c][p].sock = 0
            /\ \A d \in Clients, q \in Pids :
                 d # c \/ q # p => cpart'[d][q].sock = cpart[d][q].sock
  PROVE  PartnersInv'
<1>1. PartnersTypeOK /\ RowsInv
  BY DEF PartnersInv
<1>2. k \in 1 .. Len(owner) /\ k \in Conns /\ 1 .. Len(owner) \subseteq Conns
  BY <1>1, PartnersTyped
<1>3. RowsInv'
  <2>1. srows' = srows /\ replays' = replays
    BY DEF ServerAlone, tableVars
  <2> QED BY <1>1, <1>2, <2>1, SendRows
<1>4. /\ hungUp \subseteq hungUp' /\ hungUp' \subseteq hungUp \union {k}
      /\ m.op = "REMOVE_PARTNER" => k \in hungUp'
  OBVIOUS
<1>5. \A d \in Clients, q \in Pids : cpart'[d][q].sock \in {0, cpart[d][q].sock}
  OBVIOUS
<1>6. ASSUME Calm PROVE LineInv'
  <2>1. /\ Ordered(k) /\ Serves(k, p) /\ owner[k] = c /\ k \notin hungUp
        /\ \A d \in Clients, q \in Pids : cpart[d][q].sock = k => d = c /\ q = p
    <3>1. Serves(k, p) /\ owner[k] = c /\ k \notin hungUp
      BY <1>6, OwnConnection DEF Idle
    <3>2. Ordered(k)
      BY <1>2, <1>6 DEF PartnersInv, LineInv
    <3> QED BY <3>1, <3>2 DEF Serves
  <2>2. th' = th
    BY DEF ServerAlone, connVars
  <2>3. toC[k] = <<>> /\ \A i \in 1 .. Len(toS[k]) : toS[k][i].op # "SYN"
    BY <1>2, <1>6, <2>1, IdleLine DEF Idle
  <2>4. ~AwaitsAck(k)'
    BY <2>1 DEF AwaitsAck, Idle
  <2>5. Ordered(k)'
    BY <1>1, <1>2, <1>4, <2>1, <2>2, <2>3, <2>4, SaidOrdered
  <2>6. \A d \in Clients, q \in Pids : cpart'[d][q].sock = k => cpart[d][q].sock = k
    BY <1>5
  <2>7. Serves(k, p)'
    BY <1>1, <1>2, <2>1, <2>6, SaidServes
  <2>8. ASSUME NEW j \in 1 .. Len(owner), j # k PROVE AwaitsAck(j)' <=> AwaitsAck(j)
    <3>1. CASE ctl[owner[j]].pc # "syn"
      BY <3>1 DEF AwaitsAck
    <3>2. CASE cpart'[owner[j]][ctl[owner[j]].pid].sock = cpart[owner[j]][ctl[owner[j]].pid].sock
      BY <3>2 DEF AwaitsAck
    <3>3. CASE /\ ctl[owner[j]].pc = "syn"
               /\ cpart'[owner[j]][ctl[owner[j]].pid].sock # cpart[owner[j]][ctl[owner[j]].pid].sock
      <4>1. owner[j] # c
        BY <3>3 DEF Idle
      <4>2. owner[j] \in Clients /\ ctl[owner[j]].pid \in Pids
        BY <1>1, PartnersTyped
      <4> QED BY <3>3, <4>1, <4>2
    <3> QED BY <3>1, <3>2, <3>3
  <2>9. \A j \in Conns : j # k => toS'[j] = toS[j]
    BY <1>1, <1>2, SendDoes
  <2>10. k \in hungUp' => \A d \in Clients, q \in Pids : cpart'[d][q].sock # k
    BY <2>1, <2>6
  <2> QED BY <1>2, <1>4, <1>5, <1>6, <2>5, <2>7, <2>8, <2>9, <2>10, OneLine
<1> QED BY <1>3, <1>6, AloneKeeps

\* The SYN_ACK arrives, and is acknowledged.
LEMMA RecvSynAckKeeps ==
  ASSUME PartnersInv, NEW c \in Clients, RecvSynAck(c) PROVE PartnersInv'
<1>1. PartnersTypeOK /\ RowsInv
  BY DEF PartnersInv
<1>2. PICK p : p = ctl[c].pid
  OBVIOUS
<1>3. PICK k : k = cpart[c][p].sock
  OBVIOUS
<1>4. /\ ctl[c].pc = "syn" /\ p \in Pids /\ k \in Conns /\ k \in 1 .. Len(owner)
      /\ 1 .. Len(owner) \subseteq Conns
  <2>1. ctl[c].pc = "syn"
    BY DEF RecvSynAck
  <2>2. p \in Pids /\ k \in Conns /\ k \in 0 .. Len(owner) /\ k # 0
    BY <1>1, <1>2, <1>3, <2>1, PartnersTyped, PartnerNumbers
  <2> QED BY <1>1, <2>1, <2>2, PartnersTyped
<1>5. PICK r : r = Head(toC[k])
  OBVIOUS
<1>6. PICK m : m = [op |-> "ACK", pid |-> r.pid, size |-> r.size]
  OBVIOUS
<1>7. /\ toC[k] # <<>> /\ toC' = [toC EXCEPT ![k] = Tail(toC[k])] /\ Send(k, m)
      /\ ClientGoes(c, "idle") /\ ServerAlone /\ UNCHANGED <<cpart, crows, owner, hungUp>>
  BY <1>2, <1>3, <1>5, <1>6 DEF RecvSynAck, ClientGoes, ServerAlone, histVars
<1>8. m \in Msg /\ m.op = "ACK"
  <2>1. r \in Msg
    BY <1>1, <1>4, <1>5, <1>7, PartnersTyped, HeadTailProperties
  <2> QED BY <1>6, <2>1 DEF Msg
<1>9. /\ toC' \in [Conns -> Seq(Msg)] /\ toC'[k] = Tail(toC[k])
      /\ \A j \in Conns : j # k => toC'[j] = toC[j]
  <2>1. toC \in [Conns -> Seq(Msg)]
    BY <1>1 DEF PartnersTypeOK
  <2>2. Tail(toC[k]) \in Seq(Msg)
    BY <1>4, <1>7, <2>1, HeadTailProperties
  <2> QED BY <1>4, <1>7, <2>1, <2>2
<1>10. /\ ctl' \in [Clients -> [pc : {"idle", "syn", "down"}, pid : Pids]]
       /\ ctl'[c].pc = "idle" /\ ctl'[c].pid = ctl[c].pid
       /\ \A d \in Clients : d # c => ctl'[d] = ctl[d]
  BY <1>1, <1>7, ClientGone
<1>11. PartnersTypeOK'
  <2>1. toS' \in [Conns -> Seq(Msg)]
    BY <1>1, <1>4, <1>7, <1>8, SendDoes
  <2>2. \A d \in Clients : ctl'[d].pc = "syn" => ctl'[d] = ctl[d]
    BY <1>10
  <2>3. \A d \in Clients : ctl'[d].pc = "syn" => cpart'[d][ctl'[d].pid].sock # 0
    BY <1>1, <1>7, <2>2 DEF PartnersTypeOK
  <2> QED BY <1>1, <1>7, <1>9, <1>10, <2>1, <2>3
        DEF PartnersTypeOK, ServerAlone, tableVars, connVars
<1>12. RowsInv'
  <2>1. srows' = srows /\ replays' = replays
    BY <1>7 DEF ServerAlone, tableVars
  <2> QED BY <1>1, <1>4, <1>7, <1>8, <2>1, SendRows
<1>13. ASSUME Calm PROVE LineInv'
  <2>1. LineInv /\ Ordered(k) /\ Serves(k, p) /\ owner[k] = c /\ k \notin hungUp
    <3>1. k # 0
      BY <1>4
    <3> QED BY <1>3, <1>4, <1>13, <3>1, OwnConnection DEF PartnersInv, LineInv
  <2>2. th' = th
    BY <1>7 DEF ServerAlone, connVars
  <2>3. AwaitsAck(k)
    BY <1>2, <1>3, <1>4, <2>1 DEF AwaitsAck
  <2>4. Len(toS[k]) = 0 /\ Len(toC[k]) = 1
    BY <1>7, <2>1, <2>3 DEF Ordered
  <2>5. toC'[k] = <<>>
    <3>1. toC[k] \in Seq(Msg) /\ toC'[k] \in Seq(Msg)
      BY <1>1, <1>4, <1>9, PartnersTyped
    <3>2. Len(toC'[k]) = 0
      BY <1>7, <1>9, <2>4, <3>1, HeadTailProperties
    <3> QED BY <3>1, <3>2, EmptySeq
  <2>6. ~AwaitsAck(k)'
    BY <1>7, <1>10, <2>1 DEF AwaitsAck
  <2>7. \A i \in 1 .. Len(toS[k]) : toS[k][i].op # "SYN"
    BY <2>4
  <2>8. Ordered(k)'
    BY <1>1, <1>4, <1>7, <1>8, <2>1, <2>2, <2>5, <2>6, <2>7, SaidOrdered
  <2>9. \A d \in Clients, q \in Pids : cpart'[d][q].sock = cpart[d][q].sock
    BY <1>7
  <2>10. Serves(k, p)'
    BY <1>1, <1>4, <1>7, <1>8, <2>1, <2>9, SaidServes
  <2>11. ASSUME NEW j \in 1 .. Len(owner), j # k PROVE AwaitsAck(j)' <=> AwaitsAck(j)
    <3>1. owner[j] \in Clients
      BY <1>1, PartnersTyped
    <3>2. CASE owner[j] = c
      BY <1>2, <1>3, <1>7, <1>10, <2>11, <3>2 DEF AwaitsAck
    <3>3. CASE owner[j] # c
      BY <1>7, <1>10, <3>1, <3>3 DEF AwaitsAck
    <3> QED BY <3>2, <3>3
  <2>12. \A j \in Conns : j # k => toS'[j] = toS[j]
    BY <1>1, <1>4, <1>7, <1>8, SendDoes
  <2>13. \A d \in Clients : ctl'[d].pc # "down" => ctl[d].pc # "down"
    BY <1>4, <1>10
  <2>14. owner' = owner /\ hungUp' = hungUp /\ k \notin hungUp'
    BY <1>7, <2>1
  <2> QED BY <1>4, <1>7, <1>9, <1>13, <2>8, <2>9, <2>10, <2>11, <2>12, <2>13, <2>14, OneLine
<1> QED BY <1>7, <1>11, <1>12, <1>13, AloneKeeps

\* A connection that was accepted and that the client has not closed is open at
\* the server, and once its thread has started the thread receives from it.
LEMMA Attended ==
  ASSUME PartnersInv, Calm, NEW k \in 1 .. accepted, k \notin hungUp
  PROVE  /\ \E f \in Fds : desc[f] = k
         /\ th[k].pc \in {"new", "set", "recv"}
         /\ th[k].pc = "recv" => desc[th[k].fd] = k
<1>1. PartnersTypeOK /\ ThreadInv /\ LineInv
  BY DEF PartnersInv
<1>2. k \in 1 .. Len(owner) /\ k \in Conns /\ ~(k > accepted)
  BY <1>1, PartnersTyped
<1>3. th[k].last.op # "REMOVE_PARTNER"
  BY <1>1, <1>2 DEF LineInv, Ordered
<1>4. th[k].pc \in {"none", "new", "set", "recv", "gone"} /\ th[k].fd \in Fds /\ latest \in Fds
  BY <1>1, <1>2 DEF PartnersTypeOK
<1> QED BY <1>1, <1>2, <1>3, <1>4 DEF ThreadInv

\* A negotiation does not starve while it is calm.
LEMMA NotStarved == PartnersInv => StarvedOnlyIfDisturbed
<1> SUFFICES ASSUME PartnersInv, Calm, NEW c \in Clients, ctl[c].pc = "syn", ServerIdle,
                    toC[cpart[c][ctl[c].pid].sock] = <<>>
             PROVE  FALSE
  BY DEF StarvedOnlyIfDisturbed
<1>1. PartnersTypeOK /\ running /\ LineInv
  BY DEF PartnersInv
<1>2. PICK k : k = cpart[c][ctl[c].pid].sock
  OBVIOUS
<1>3. k \in Conns /\ ctl[c].pid \in Pids /\ k # 0
  BY <1>1, <1>2, PartnersTyped, PartnerNumbers
<1>4. k \in 1 .. Len(owner) /\ owner[k] = c /\ k \notin hungUp
  BY <1>2, <1>3, OwnConnection
<1>5. Ordered(k) /\ AwaitsAck(k)
  BY <1>1, <1>2, <1>4 DEF LineInv, AwaitsAck
<1>6. Len(toS[k]) > 0
  BY <1>2, <1>5 DEF Ordered
<1>7. /\ accepted = Len(owner) /\ Starting = {}
      /\ \A n \in Conns : Open(n) => toS[desc[th[n].fd]] = <<>>
  BY <1>1 DEF ServerIdle
<1>8. th[k].pc = "recv" /\ desc[th[k].fd] = k
  BY <1>3, <1>4, <1>7, Attended DEF Starting
<1>9. toS[k] = <<>>
  BY <1>3, <1>7, <1>8 DEF Open
<1>10. Len(toS[k]) = 0
  BY <1>9
<1> QED BY <1>6, <1>10

\* The timeout of a SYN does not occur while it is calm (NotStarved).
LEMMA SynTimeoutKeeps ==
  ASSUME PartnersInv, NEW c \in Clients, SynTimeout(c) PROVE PartnersInv'
<1>1. ~Calm
  BY NotStarved DEF SynTimeout, StarvedOnlyIfDisturbed
<1>2. ServerAlone /\ UNCHANGED <<cpart, crows, owner, toS, toC>> /\ Die(c)
  BY DEF SynTimeout, ServerAlone, histVars
<1> QED BY <1>1, <1>2, DieKeeps

\* The end of file does not come to a client that waits while it is calm.
LEMMA RecvEofKeeps ==
  ASSUME PartnersInv, NEW c \in Clients, RecvEof(c) PROVE PartnersInv'
<1>1. PartnersTypeOK /\ RowsInv
  BY DEF PartnersInv
<1>2. /\ ctl[c].pc = "syn" /\ ClientGoes(c, "idle") /\ ServerAlone
      /\ UNCHANGED <<cpart, crows, owner, toS, toC, hungUp>>
  BY DEF RecvEof, ClientGoes, ServerAlone, histVars, netVars
<1>3. PICK k : k = cpart[c][ctl[c].pid].sock
  OBVIOUS
<1>4. k <= accepted /\ (~running \/ \A f \in Fds : desc[f] # k)
  BY <1>3 DEF RecvEof
<1>5. ~Calm
  <2> SUFFICES ASSUME Calm PROVE FALSE
    OBVIOUS
  <2>1. k \in Conns /\ ctl[c].pid \in Pids /\ k # 0
    BY <1>1, <1>2, <1>3, PartnersTyped, PartnerNumbers
  <2>2. k \in 1 .. Len(owner) /\ k \notin hungUp
    BY <1>2, <1>3, <2>1, OwnConnection
  <2>3. k \in 1 .. accepted
    BY <1>1, <1>4, <2>2, PartnersTyped
  <2>4. running
    BY DEF PartnersInv
  <2> QED BY <1>4, <2>2, <2>3, <2>4, Attended
<1>6. /\ ctl' \in [Clients -> [pc : {"idle", "syn", "down"}, pid : Pids]]
      /\ ctl'[c].pc = "idle" /\ \A d \in Clients : d # c => ctl'[d] = ctl[d]
  BY <1>1, <1>2, ClientGone
<1>7. PartnersTypeOK'
  <2>1. \A d \in Clients : ctl'[d].pc = "syn" => ctl'[d] = ctl[d]
    BY <1>6
  <2>2. \A d \in Clients : ctl'[d].pc = "syn" => cpart'[d][ctl'[d].pid].sock # 0
    BY <1>1, <1>2, <2>1 DEF PartnersTypeOK
  <2> QED BY <1>1, <1>2, <1>6, <2>2 DEF PartnersTypeOK, ServerAlone, tableVars, connVars
<1>8. RowsInv'
  BY <1>1, <1>2 DEF RowsInv, Asked, ServerAlone, tableVars
<1> QED BY <1>2, <1>5, <1>7, <1>8, AloneKeeps

\* --mkrelationpeer ends the daemon or starts a negotiation.
LEMMA MkRelationKeeps ==
  ASSUME PartnersInv, NEW c \in Clients, NEW p \in Pids, NEW s \in Sizes, MkRelation(c, p, s)
  PROVE  PartnersInv'
<1>1. /\ Idle(c) /\ ServerAlone /\ UNCHANGED <<cpart, crows, owner, toC>>
      /\ IF cpart[c][p].sock = 0
           THEN Die(c) /\ UNCHANGED toS
           ELSE StartNegotiation(c, p, s) /\ UNCHANGED hungUp
  BY DEF MkRelation, ServerAlone
<1>2. CASE cpart[c][p].sock = 0
  BY <1>1, <1>2, DieKeeps DEF Idle
<1>3. CASE cpart[c][p].sock # 0
  <2>1. PICK k : k = cpart[c][p].sock
    OBVIOUS
  <2> QED BY <1>1, <1>3, <2>1, NegotiationKeeps
<1> QED BY <1>2, <1>3

\* --rmrelation ends the daemon or tells the server.
LEMMA RmRelationKeeps ==
  ASSUME PartnersInv, NEW c \in Clients, NEW p \in Pids, RmRelation(c, p)
  PROVE  PartnersInv'
<1>1. PartnersTypeOK /\ RowsInv
  BY DEF PartnersInv
<1>2. Idle(c) /\ ServerAlone /\ UNCHANGED <<cpart, crows, owner, toC>>
  BY DEF RmRelation, ServerAlone
<1>3. CASE crel[c][p].state = "FREE"
  BY <1>2, <1>3, DieKeeps DEF RmRelation, Idle
<1>4. CASE crel[c][p].state # "FREE" /\ cpart[c][p].sock = 0
  <2>1. UNCHANGED <<ctl, hungUp, toS>>
    BY <1>4 DEF RmRelation
  <2>2. PartnersTypeOK'
    BY <1>1, <1>2, <2>1 DEF PartnersTypeOK, ServerAlone, tableVars, connVars
  <2>3. RowsInv'
    BY <1>1, <1>2, <2>1 DEF RowsInv, Asked, ServerAlone, tableVars
  <2>4. Calm => LineInv'
    BY SMTT(60), <1>2, <2>1 DEF PartnersInv, LineInv, Ordered, Serves, AwaitsAck, ServerAlone, tableVars, connVars
  <2> QED BY <1>2, <2>2, <2>3, <2>4, AloneKeeps
<1>5. CASE crel[c][p].state # "FREE" /\ cpart[c][p].sock # 0
  <2>1. PICK k : k = cpart[c][p].sock
    OBVIOUS
  <2>2. PICK m : m = [op |-> "RM_RELATION", pid |-> p, size |-> 0]
    OBVIOUS
  <2>3. UNCHANGED <<ctl, hungUp>> /\ Send(k, m)
    BY <1>5, <2>1, <2>2 DEF RmRelation
  <2>4. m \in Msg /\ m.op = "RM_RELATION" /\ m.pid = p
    BY <2>2 DEF Msg
  <2>5. k \in Conns
    BY <1>1, <1>5, <2>1, PartnersTyped, PartnerNumbers
  <2>6. toS' \in [Conns -> Seq(Msg)]
    BY <1>1, <2>3, <2>4, <2>5, SendDoes
  <2>7. PartnersTypeOK'
    BY <1>1, <1>2, <2>3, <2>6 DEF PartnersTypeOK, ServerAlone, tableVars, connVars
  <2> QED BY <1>2, <1>5, <2>1, <2>3, <2>4, <2>7, TellsKeeps
<1> QED BY <1>3, <1>4, <1>5

\* --rmpartner ends the daemon, or tells the server and hangs up.
LEMMA RmPartnerKeeps ==
  ASSUME PartnersInv, NEW c \in Clients, RmPartner(c) PROVE PartnersInv'
<1>1. PartnersTypeOK /\ RowsInv
  BY DEF PartnersInv
<1>2. Idle(c) /\ ServerAlone /\ UNCHANGED <<crows, owner, toC>>
  BY DEF RmPartner, ServerAlone
<1>3. CASE cpart[c][0].sock = 0
  BY <1>2, <1>3, DieKeeps DEF RmPartner, Idle
<1>4. CASE cpart[c][0].sock # 0
  <2>1. PICK k : k = cpart[c][0].sock
    OBVIOUS
  <2>2. PICK m : m = [op |-> "REMOVE_PARTNER", pid |-> 0, size |-> 0]
    OBVIOUS
  <2>3. /\ ctl' = ctl /\ hungUp' = hungUp \union {k} /\ Send(k, m)
        /\ cpart' = [cpart EXCEPT ![c][0] = ReleasedClient]
    BY <1>4, <2>1, <2>2 DEF RmPartner
  <2>4. m \in Msg /\ m.op = "REMOVE_PARTNER" /\ m.pid = 0 /\ 0 \in Pids
    BY <2>2, PartnerNumbers DEF Msg
  <2>5. k \in Conns /\ k \in 1 .. Len(owner) /\ DOMAIN owner = 1 .. Len(owner)
    BY <1>1, <1>4, <2>1, PartnersTyped, PartnerNumbers
  <2>6. toS' \in [Conns -> Seq(Msg)]
    BY <1>1, <2>3, <2>4, <2>5, SendDoes
  <2>7. /\ cpart' \in [Clients -> [Pids -> [id : Pids, state : States, sock : 0 .. MaxConns]]]
        /\ cpart'[c][0].sock = 0
        /\ \A d \in Clients, q \in Pids : d # c \/ q # 0 => cpart'[d][q] = cpart[d][q]
    <3>1. cpart \in [Clients -> [Pids -> [id : Pids, state : States, sock : 0 .. MaxConns]]]
      BY <1>1 DEF PartnersTypeOK
    <3>2. /\ ReleasedClient \in [id : Pids, state : States, sock : 0 .. MaxConns]
          /\ ReleasedClient.sock = 0
      BY PartnerNumbers DEF ReleasedClient, States
    <3> QED BY <2>3, <2>4, <3>1, <3>2
  <2>8. ASSUME NEW d \in Clients, NEW q \in Pids PROVE cpart'[d][q].sock <= Len(owner)
    <3>1. CASE d = c /\ q = 0
      BY <1>1, <2>7, <3>1, PartnersTyped
    <3>2. CASE ~(d = c /\ q = 0)
      <4>1. cpart'[d][q] = cpart[d][q]
        BY <2>7, <3>2
      <4> QED BY <1>1, <4>1 DEF PartnersTypeOK
    <3> QED BY <3>1, <3>2
  <2>9. ASSUME NEW d \in Clients, ctl[d].pc = "syn" PROVE cpart'[d][ctl[d].pid].sock # 0
    <3>1. d # c /\ ctl[d].pid \in Pids
      BY <1>1, <1>2, <2>9, PartnersTyped DEF Idle
    <3>2. cpart'[d][ctl[d].pid] = cpart[d][ctl[d].pid]
      BY <2>7, <3>1
    <3> QED BY <1>1, <2>9, <3>2 DEF PartnersTypeOK
  <2>10. PartnersTypeOK'
    BY <1>1, <1>2, <2>3, <2>5, <2>6, <2>7, <2>8, <2>9
       DEF PartnersTypeOK, ServerAlone, tableVars, connVars
  <2> QED BY <1>2, <1>4, <2>1, <2>3, <2>4, <2>7, <2>10, TellsKeeps
<1> QED BY <1>3, <1>4

\* --dbinfo changes ids and states, and no socket.
LEMMA DbInfoKeeps ==
  ASSUME PartnersInv, NEW c \in Clients, DbInfo(c) PROVE PartnersInv'
<1>1. PartnersTypeOK /\ RowsInv
  BY DEF PartnersInv
<1>2. ServerAlone /\ UNCHANGED <<crows, ctl, owner, toS, toC, hungUp>>
  BY DEF DbInfo, ServerAlone, netVars
<1>3. /\ cpart \in [Clients -> [Pids -> [id : Pids, state : States, sock : 0 .. MaxConns]]]
      /\ crows[c] \in Seq(Pids)
  BY <1>1 DEF PartnersTypeOK
<1> DEFINE e == [p \in Pids |->
                   IF p < Len(crows[c])
                     THEN [cpart[c][p] EXCEPT !.id = crows[c][p + 1], !.state = "IN_USE"]
                     ELSE cpart[c][p]]
<1>4. cpart' = [cpart EXCEPT ![c] = e]
  BY DEF DbInfo
<1>5. ASSUME NEW p \in Pids
      PROVE  e[p] \in [id : Pids, state : States, sock : 0 .. MaxConns]
             /\ e[p].sock = cpart[c][p].sock
  <2>1. cpart[c][p] \in [id : Pids, state : States, sock : 0 .. MaxConns]
    BY <1>3
  <2>2. CASE p < Len(crows[c])
    <3>1. p + 1 \in 1 .. Len(crows[c])
      BY <1>3, <2>2, PartnerNumbers
    <3>2. crows[c][p + 1] \in Pids
      BY <1>3, <3>1
    <3>3. e[p] = [cpart[c][p] EXCEPT !.id = crows[c][p + 1], !.state = "IN_USE"]
      BY <2>2
    <3> HIDE DEF e
    <3> QED BY <2>1, <3>2, <3>3 DEF States
  <2>3. CASE ~(p < Len(crows[c]))
    BY <2>1, <2>3
  <2> QED BY <2>2, <2>3
<1>6. e \in [Pids -> [id : Pids, state : States, sock : 0 .. MaxConns]]
  <2>1. e = [p \in Pids |-> e[p]]
    OBVIOUS
  <2> HIDE DEF e
  <2> QED BY <1>5, <2>1
<1> HIDE DEF e
<1>7. /\ cpart' \in [Clients -> [Pids -> [id : Pids, state : States, sock : 0 .. MaxConns]]]
      /\ cpart'[c] = e /\ \A d \in Clients : d # c => cpart'[d] = cpart[d]
  BY <1>3, <1>4, <1>6
<1>8. \A d \in Clients, q \in Pids : cpart'[d][q].sock = cpart[d][q].sock
  BY <1>5, <1>7
<1>9. \A d \in Clients : ctl[d].pid \in Pids
  BY <1>1, PartnersTyped
<1>10. PartnersTypeOK'
  <2>1. \A d \in Clients, q \in Pids : cpart'[d][q].sock <= Len(owner)
    BY <1>1, <1>8 DEF PartnersTypeOK
  <2>2. \A d \in Clients : ctl[d].pc = "syn" => cpart'[d][ctl[d].pid].sock # 0
    BY <1>1, <1>8, <1>9 DEF PartnersTypeOK
  <2> QED BY <1>1, <1>2, <1>7, <2>1, <2>2 DEF PartnersTypeOK, ServerAlone, tableVars, connVars
<1>11. RowsInv'
  BY <1>1, <1>2 DEF RowsInv, Asked, ServerAlone, tableVars
<1>12. ASSUME Calm PROVE LineInv'
  <2>1. LineInv
    BY <1>12 DEF PartnersInv
  <2>2. \A k \in 1 .. Len(owner) : owner[k] \in Clients
    BY <1>1, PartnersTyped
  <2>3. \A k \in 1 .. Len(owner) : AwaitsAck(k)' <=> AwaitsAck(k)
    BY <1>2, <1>8, <1>9, <2>2 DEF AwaitsAck
  <2>4. th' = th /\ srows' = srows /\ srel' = srel /\ spart' = spart /\ maker' = maker
    BY <1>2 DEF ServerAlone, tableVars, connVars
  <2>5. \A k \in 1 .. Len(owner) : Ordered(k)'
    BY <1>2, <2>1, <2>3, <2>4, OrderedSame DEF LineInv
  <2>6. \A k \in 1 .. Len(owner), p \in Pids : Serves(k, p) => Serves(k, p)'
    BY <1>2, <1>8, <2>4, ServesSame
  <2> QED BY <1>2, <1>8, <2>1, <2>5, <2>6 DEF LineInv
<1> QED BY <1>2, <1>10, <1>11, <1>12, AloneKeeps

\* --mkpartner: a new connection with one message in it.
LEMMA MkPartnerKeeps ==
  ASSUME PartnersInv, NEW c \in Clients, NEW s \in Sizes, MkPartner(c, s) PROVE PartnersInv'
<1>1. PartnersTypeOK /\ RowsInv
  BY DEF PartnersInv
<1>2. PICK p : p = Min(NewIds(c))
  OBVIOUS
<1>3. PICK n : n = Len(owner) + 1
  OBVIOUS
<1>4. PICK m : m = [op |-> "MAKE_PARTNER", pid |-> p, size |-> s]
  OBVIOUS
<1>5. /\ Idle(c) /\ NewIds(c) # {} /\ Len(owner) < MaxConns /\ ServerAlone
      /\ owner' = Append(owner, c) /\ cpart' = [cpart EXCEPT ![c][p] = ClientEntry(p, n)]
      /\ crows' = [crows EXCEPT ![c] = Append(crows[c], p)] /\ Send(n, m)
      /\ UNCHANGED <<ctl, toC, hungUp>>
  BY <1>2, <1>3, <1>4 DEF MkPartner, ServerAlone, histVars
<1>6. p \in Pids
  <2>1. NewIds(c) \in SUBSET Nat /\ NewIds(c) \subseteq Pids
    BY PartnerNumbers DEF NewIds
  <2> QED BY <1>2, <1>5, <2>1, LeastOf
<1>7. /\ Len(owner) \in Nat /\ n \in Conns /\ n \in Nat /\ n # 0 /\ n <= MaxConns
      /\ n \notin 1 .. Len(owner) /\ n > Len(owner) /\ n \in 0 .. MaxConns
      /\ DOMAIN owner = 1 .. Len(owner) /\ 1 .. Len(owner) \subseteq Conns
  <2>1. Len(owner) \in Nat /\ DOMAIN owner = 1 .. Len(owner) /\ 1 .. Len(owner) \subseteq Conns
    BY <1>1, PartnersTyped
  <2> QED BY <1>3, <1>5, <2>1, PartnerNumbers DEF Conns
<1>8. m \in Msg /\ m.op = "MAKE_PARTNER" /\ m.pid = p
  BY <1>4, <1>6 DEF Msg
<1>9. /\ owner' \in Seq(Clients) /\ Len(owner') = n /\ DOMAIN owner' = 1 .. n /\ owner'[n] = c
      /\ \A k \in 1 .. Len(owner) : owner'[k] = owner[k]
  <2>1. owner \in Seq(Clients)
    BY <1>1 DEF PartnersTypeOK
  <2>2. owner' \in Seq(Clients) /\ Len(owner') = Len(owner) + 1
    BY <1>5, <2>1, AppendProperties
  <2>3. owner'[Len(owner) + 1] = c /\ \A k \in 1 .. Len(owner) : owner'[k] = owner[k]
    BY <1>5, <2>1, AppendProperties
  <2>4. DOMAIN owner' = 1 .. Len(owner')
    BY <2>2, LenProperties
  <2> QED BY <1>3, <2>2, <2>3, <2>4
<1>10. /\ cpart' \in [Clients -> [Pids -> [id : Pids, state : States, sock : 0 .. MaxConns]]]
       /\ cpart'[c][p].sock = n
       /\ \A d \in Clients, q \in Pids : d # c \/ q # p => cpart'[d][q] = cpart[d][q]
  <2>1. cpart \in [Clients -> [Pids -> [id : Pids, state : States, sock : 0 .. MaxConns]]]
    BY <1>1 DEF PartnersTypeOK
  <2>2. /\ ClientEntry(p, n) \in [id : Pids, state : States, sock : 0 .. MaxConns]
        /\ ClientEntry(p, n).sock = n
    BY <1>6, <1>7 DEF ClientEntry, States
  <2> QED BY <1>5, <1>6, <2>1, <2>2
<1>11. crows' \in [Clients -> Seq(Pids)]
  <2>1. crows \in [Clients -> Seq(Pids)] /\ crows[c] \in Seq(Pids)
    BY <1>1 DEF PartnersTypeOK
  <2>2. Append(crows[c], p) \in Seq(Pids)
    BY <1>6, <2>1, AppendProperties
  <2> QED BY <1>5, <2>1, <2>2
<1>12. n \notin hungUp /\ toS[n] = <<>> /\ hungUp \subseteq 1 .. Len(owner)
  BY <1>1, <1>7 DEF PartnersTypeOK, RowsInv
<1>13. /\ toS' \in [Conns -> Seq(Msg)] /\ \A j \in Conns : j # n => toS'[j] = toS[j]
       /\ Len(toS'[n]) = 1 /\ toS'[n][1] = m /\ DOMAIN toS'[n] = {1} /\ toS'[n] # <<>>
  <2>1. Len(toS[n]) = 0
    BY <1>12
  <2>2. /\ toS' \in [Conns -> Seq(Msg)] /\ \A j \in Conns : j # n => toS'[j] = toS[j]
        /\ Len(toS'[n]) = Len(toS[n]) + 1 /\ toS'[n][Len(toS[n]) + 1] = m
    BY <1>1, <1>5, <1>7, <1>8, <1>12, SendDoes
  <2>3. Len(toS'[n]) = 1 /\ toS'[n][1] = m
    BY <2>1, <2>2
  <2>4. DOMAIN toS'[n] = 1 .. Len(toS'[n])
    BY <1>7, <2>2, LenProperties
  <2>5. toS'[n] # <<>>
    BY <2>3
  <2>6. 1 .. 1 = {1}
    OBVIOUS
  <2> QED BY <2>2, <2>3, <2>4, <2>5, <2>6
<1>14. \A j \in Conns : j \in 1 .. n <=> j \in 1 .. Len(owner) \/ j = n
  BY <1>3, <1>7
<1>15. PartnersTypeOK'
  <2>1. ASSUME NEW d \in Clients, NEW q \in Pids PROVE cpart'[d][q].sock <= Len(owner')
    <3>1. CASE d = c /\ q = p
      BY <1>7, <1>9, <1>10, <3>1
    <3>2. CASE ~(d = c /\ q = p)
      <4>1. cpart'[d][q] = cpart[d][q] /\ cpart[d][q].sock \in 0 .. Len(owner)
        BY <1>1, <1>10, <3>2, PartnersTyped
      <4> QED BY <1>3, <1>7, <1>9, <4>1
    <3> QED BY <3>1, <3>2
  <2>2. ASSUME NEW d \in Clients, ctl[d].pc = "syn" PROVE cpart'[d][ctl[d].pid].sock # 0
    <3>1. d # c /\ ctl[d].pid \in Pids
      BY <1>1, <1>5, <2>2, PartnersTyped DEF Idle
    <3>2. cpart'[d][ctl[d].pid] = cpart[d][ctl[d].pid]
      BY <1>10, <3>1
    <3> QED BY <1>1, <2>2, <3>2 DEF PartnersTypeOK
  <2>3. accepted \in 0 .. Len(owner')
    BY <1>1, <1>3, <1>7, <1>9, PartnersTyped
  <2>4. hungUp \subseteq DOMAIN owner'
    BY <1>3, <1>7, <1>9, <1>12
  <2> QED BY ZenonT(60), <1>1, <1>5, <1>7, <1>9, <1>10, <1>11, <1>13, <2>1, <2>2, <2>3, <2>4
        DEF PartnersTypeOK, ServerAlone, tableVars, connVars
<1>16. RowsInv'
  <2>1. Asked(n)'
    BY <1>8, <1>13 DEF Asked
  <2>2. \A j \in 1 .. Len(owner) : j \in Conns /\ j # n /\ (Asked(j)' <=> Asked(j))
    BY <1>7, <1>13 DEF Asked
  <2>3. {k \in 1 .. Len(owner) : ~Asked(k)} = {k \in 1 .. Len(owner) : ~Asked(k)}'
    <3>1. \A k \in 1 .. n : k \in 1 .. Len(owner) \/ k = n
      BY <1>3, <1>7
    <3>2. \A k \in 1 .. Len(owner) : k \in 1 .. n
      BY <1>3, <1>7
    <3> QED BY <1>9, <2>1, <2>2, <3>1, <3>2
  <2>4. Len(srows) <= replays + Cardinality({k \in 1 .. Len(owner) : ~Asked(k)})
    BY <1>1 DEF RowsInv
  <2>5. srows' = srows /\ replays' = replays
    BY <1>5 DEF ServerAlone, tableVars
  <2>6. (Len(srows) <= replays + Cardinality({k \in 1 .. Len(owner) : ~Asked(k)}))'
    BY <2>3, <2>4, <2>5
  <2>7. \A k \in Conns : k > Len(owner') => toS'[k] = <<>>
    <3>1. \A k \in Conns : k > Len(owner') => k # n /\ k > Len(owner)
      BY <1>3, <1>7, <1>9, PartnerNumbers
    <3> QED BY <1>1, <1>13, <3>1 DEF RowsInv
  <2>8. \A k \in Conns : \A i \in DOMAIN toS'[k] : toS'[k][i].op = "MAKE_PARTNER" => i = 1
    BY <1>1, <1>13 DEF RowsInv
  <2> QED BY <2>6, <2>7, <2>8 DEF RowsInv
<1>17. ASSUME Calm PROVE LineInv'
  <2>1. LineInv /\ ThreadInv
    BY <1>17 DEF PartnersInv
  <2>2. th' = th /\ srows' = srows /\ srel' = srel /\ spart' = spart /\ maker' = maker
    BY <1>5 DEF ServerAlone, tableVars, connVars
  <2>3. ASSUME NEW k \in 1 .. Len(owner) PROVE Ordered(k)'
    <3>1. owner[k] \in Clients /\ ctl[owner[k]].pid \in Pids /\ owner'[k] = owner[k]
          /\ k \in Conns /\ k # n
      BY <1>1, <1>7, <1>9, PartnersTyped
    <3>2. AwaitsAck(k)' <=> AwaitsAck(k)
      <4>1. CASE owner[k] = c
        BY <1>5, <3>1, <4>1 DEF AwaitsAck, Idle
      <4>2. CASE owner[k] # c
        BY <1>5, <1>10, <3>1, <4>2 DEF AwaitsAck
      <4> QED BY <4>1, <4>2
    <3>3. Ordered(k)
      BY <2>1 DEF LineInv
    <3> QED BY <1>5, <1>13, <2>2, <3>1, <3>2, <3>3, OrderedSame
  <2>4. ASSUME NEW k \in 1 .. Len(owner), NEW q \in Pids, Serves(k, q) PROVE Serves(k, q)'
    <3>1. owner'[k] = owner[k] /\ k \in Conns /\ k # n /\ toS'[k] = toS[k]
      BY <1>7, <1>9, <1>13
    <3>2. \A d \in Clients, r \in Pids : cpart'[d][r].sock = k => cpart[d][r].sock = k
      BY <1>10, <3>1
    <3> QED BY <2>2, <2>4, <3>1, <3>2, ServesSame
  <2>5. th[n].last = NoMsg /\ th'[n].last.op = "none"
    <3>1. n > accepted
      BY <1>1, <1>7, PartnersTyped
    <3>2. th[n].pc = "none"
      BY <1>7, <2>1, <3>1 DEF ThreadInv
    <3> QED BY <1>7, <2>1, <2>2, <3>2, NoMsgIsMsg DEF ThreadInv
  <2>6. ~AwaitsAck(n)' /\ toC'[n] = <<>>
    BY <1>5, <1>7, <1>9, <2>1 DEF AwaitsAck, Idle, LineInv
  <2>7. Ordered(n)'
    <3>1. \A i \in 1 .. Len(toS'[n]) : i = 1 /\ toS'[n][i] = m
      BY <1>13
    <3>2. Len(toS'[n]) > 0
      BY <1>13
    <3> QED BY <1>8, <2>5, <2>6, <3>1, <3>2 DEF Ordered
  <2>8. Serves(n, p)'
    <3>1. ASSUME NEW d \in Clients, NEW q \in Pids, cpart'[d][q].sock = n PROVE d = c /\ q = p
      <4>1. cpart[d][q].sock \in 0 .. Len(owner)
        BY <1>1, PartnersTyped
      <4>2. cpart[d][q].sock # n
        BY <1>7, <4>1
      <4> QED BY <1>10, <3>1, <4>2
    <3> QED BY <1>8, <1>9, <1>13, <2>5, <3>1 DEF Serves
  <2>9. ASSUME NEW d \in Clients, ctl'[d].pc # "down", NEW q \in Pids
        PROVE  cpart'[d][q].sock \notin hungUp'
    BY <1>5, <1>10, <1>12, <2>1, <2>9 DEF LineInv
  <2>10. \A k \in Conns : k > Len(owner') => toC'[k] = <<>>
    <3>1. \A k \in Conns : k > Len(owner') => k > Len(owner)
      BY <1>3, <1>7, <1>9, PartnerNumbers
    <3> QED BY <1>5, <2>1, <3>1 DEF LineInv
  <2>11. \A k \in 1 .. Len(owner') : k \in 1 .. Len(owner) \/ k = n
    BY <1>3, <1>7, <1>9
  <2>12. \A k \in 1 .. Len(owner) : \E q \in Pids : Serves(k, q)'
    BY <2>1, <2>4 DEF LineInv
  <2> QED BY <1>6, <2>3, <2>7, <2>8, <2>9, <2>10, <2>11, <2>12 DEF LineInv
<1> QED BY <1>5, <1>15, <1>16, <1>17, AloneKeeps

\* Every step of a client keeps the invariant.
LEMMA ClientStepKeeps ==
  ASSUME PartnersInv, NEW c \in Clients, ClientStep(c) PROVE PartnersInv'
  BY MkPartnerKeeps, MkRelationKeeps, RecvSynAckKeeps, RecvEofKeeps, SynTimeoutKeeps,
     RmPartnerKeeps, RmRelationKeeps, DbInfoKeeps DEF ClientStep

-----------------------------------------------------------------------------
(* The server.                                                             *)

\* A thread on its way to its first recv, or out of its last: nothing is read or
\* written but its own place and the descriptors it is handed.
ThreadGoes ==
  /\ UNCHANGED <<clientVars, netVars, running, tableVars, accepted, desc, latest, histVars>>
  /\ \A k \in Conns : th'[k].last = th[k].last
\* Only the types and the threads are at stake then.
LEMMA ThreadGoesKeeps ==
  ASSUME PartnersInv, ThreadGoes, PartnersTypeOK', Calm => ThreadInv'
  PROVE  PartnersInv'
<1> USE DEF ThreadGoes, clientVars, netVars, tableVars, histVars
<1>1. PartnersTypeOK /\ 1 .. Len(owner) \subseteq Conns
  BY PartnersTyped DEF PartnersInv
<1>2. DescInv'
  BY DEF PartnersInv, DescInv
<1>3. RowsInv'
  BY DEF PartnersInv, RowsInv, Asked
<1>4. Calm' => Calm
  BY DEF Calm, RowsInOrder
<1>5. Calm => running' /\ MakerInv'
  BY DEF PartnersInv, MakerInv
<1>6. ASSUME Calm PROVE LineInv'
  <2>1. LineInv
    BY <1>6 DEF PartnersInv
  <2>2. \A k : AwaitsAck(k)' <=> AwaitsAck(k)
    BY DEF AwaitsAck
  <2>3. \A k \in 1 .. Len(owner) : Ordered(k)'
    BY <1>1, <2>1, <2>2, OrderedSame DEF LineInv
  <2>4. \A k \in 1 .. Len(owner) : \A p \in Pids : Serves(k, p) => Serves(k, p)'
    BY <1>1, ServesSame
  <2>5. \A k \in 1 .. Len(owner) : \E p \in Pids : Serves(k, p)'
    BY <2>1, <2>4 DEF LineInv
  <2> QED BY <2>1, <2>3, <2>5 DEF LineInv
<1> QED BY <1>2, <1>3, <1>4, <1>5, <1>6 DEF PartnersInv

\* A thread that starts finds the connection accepted last, its own.
LEMMA ThreadStartKeeps ==
  ASSUME PartnersInv, NEW n \in Conns, ThreadStart(n) PROVE PartnersInv'
<1>1. PartnersTypeOK
  BY DEF PartnersInv
<1> PICK a : a = arg[th[n].slot]
  OBVIOUS
<1>2. a \in [fd : Fds, pid : {0}] /\ a.fd \in Fds /\ a.pid = 0
  <2>1. th[n].slot \in Slots
    BY <1>1, PartnersTyped
  <2>2. a \in [fd : Fds, pid : {0}]
    BY <1>1, <2>1 DEF PartnersTypeOK
  <2> QED BY <2>2
<1>3. th' = [th EXCEPT ![n].pc = "set", ![n].pid = 0] /\ connFd' = [connFd EXCEPT ![0] = a.fd]
  BY <1>2 DEF ThreadStart
<1> DEFINE Th == [pc : {"none", "new", "set", "recv", "gone"}, slot : Slots,
                  fd : Fds, pid : {0}, last : Msg]
<1>4. th \in [Conns -> Th] /\ connFd \in [Slots -> Fds]
  BY <1>1 DEF PartnersTypeOK
<1>5. th' \in [Conns -> Th]
  BY ZenonT(60), <1>3, <1>4
<1>6. connFd' \in [Slots -> Fds] /\ connFd'[0] = a.fd
  BY <1>2, <1>3, <1>4, PartnerNumbers
<1>7. /\ th'[n].pc = "set" /\ th'[n].pid = 0 /\ th'[n].last = th[n].last /\ th'[n].fd = th[n].fd
      /\ \A k \in Conns : k # n => th'[k] = th[k]
  BY <1>3, <1>4
<1>8. ThreadGoes
  BY <1>7 DEF ThreadGoes, ThreadStart
<1>9. PartnersTypeOK'
  BY <1>1, <1>5, <1>6 DEF PartnersTypeOK, ThreadStart, clientVars, netVars, tableVars, histVars
<1>10. ASSUME Calm PROVE ThreadInv'
  <2>1. ThreadInv /\ th[n].pc = "new" /\ UNCHANGED <<accepted, desc, latest, arg>>
    BY <1>10 DEF PartnersInv, ThreadStart
  <2>2. n = accepted /\ desc[latest] = n /\ a.fd = latest /\ th[n].last = NoMsg
    BY <2>1 DEF ThreadInv
  <2>3. \A k \in Conns : k # n => th'[k].pc \notin {"new", "set"}
    BY <1>7, <2>1, <2>2 DEF ThreadInv
  <2>4. n <= accepted
    BY <2>1, <2>2 DEF ThreadInv, Conns
  <2> SUFFICES ASSUME NEW k \in Conns
               PROVE  /\ th'[k].pc = "none" <=> k > accepted
                      /\ th'[k].pc \in {"none", "new", "set"} => th'[k].last = NoMsg
                      /\ th'[k].pc \in {"new", "set"} => k = accepted /\ desc[latest] = k
                      /\ th'[k].pc = "new" => arg[th'[k].slot].fd = latest
                      /\ th'[k].pc = "set" => connFd'[th'[k].pid] = latest
                      /\ th'[k].pc = "recv" =>
                           desc[th'[k].fd] = IF th'[k].last.op = "REMOVE_PARTNER" THEN Shut ELSE k
                      /\ th'[k].pc = "gone" => th'[k].last.op = "REMOVE_PARTNER"
    BY <2>1 DEF ThreadInv
  <2>5. CASE k = n
    BY <1>6, <1>7, <2>1, <2>2, <2>5 DEF ThreadInv
  <2>6. CASE k # n
    BY <1>7, <2>1, <2>3, <2>6 DEF ThreadInv
  <2> QED BY <2>5, <2>6
<1> QED BY <1>8, <1>9, <1>10, ThreadGoesKeeps

\* A thread that listens does so on the connection accepted last, its own.
LEMMA ThreadListenKeeps ==
  ASSUME PartnersInv, NEW n \in Conns, ThreadListen(n) PROVE PartnersInv'
<1>1. PartnersTypeOK /\ th[n].pid = 0
  BY PartnersTyped DEF PartnersInv
<1>2. th' = [th EXCEPT ![n].pc = "recv", ![n].fd = connFd[0]] /\ UNCHANGED connFd
  BY <1>1 DEF ThreadListen
<1> DEFINE Th == [pc : {"none", "new", "set", "recv", "gone"}, slot : Slots,
                  fd : Fds, pid : {0}, last : Msg]
<1>3. th \in [Conns -> Th] /\ connFd[0] \in Fds
  BY <1>1, PartnerNumbers DEF PartnersTypeOK
<1>4. th' \in [Conns -> Th]
  BY <1>2, <1>3
<1>5. /\ th'[n].pc = "recv" /\ th'[n].last = th[n].last /\ th'[n].fd = connFd[0]
      /\ \A k \in Conns : k # n => th'[k] = th[k]
  BY <1>2, <1>3
<1>6. ThreadGoes
  BY <1>5 DEF ThreadGoes, ThreadListen
<1>7. PartnersTypeOK'
  BY <1>1, <1>2, <1>4 DEF PartnersTypeOK, ThreadListen, clientVars, netVars, tableVars, histVars
<1>8. ASSUME Calm PROVE ThreadInv'
  <2>1. ThreadInv /\ th[n].pc = "set" /\ UNCHANGED <<accepted, desc, latest, arg, connFd>>
    BY <1>8 DEF PartnersInv, ThreadListen
  <2>2. n = accepted /\ desc[latest] = n /\ connFd[0] = latest /\ th[n].last.op = "none"
    BY <1>1, <2>1, NoMsgIsMsg DEF ThreadInv
  <2>3. ~(n > accepted)
    BY <2>1 DEF ThreadInv
  <2> SUFFICES ASSUME NEW k \in Conns
               PROVE  /\ th'[k].pc = "none" <=> k > accepted
                      /\ th'[k].pc \in {"none", "new", "set"} => th'[k].last = NoMsg
                      /\ th'[k].pc \in {"new", "set"} => k = accepted /\ desc[latest] = k
                      /\ th'[k].pc = "new" => arg[th'[k].slot].fd = latest
                      /\ th'[k].pc = "set" => connFd[th'[k].pid] = latest
                      /\ th'[k].pc = "recv" =>
                           desc[th'[k].fd] = IF th'[k].last.op = "REMOVE_PARTNER" THEN Shut ELSE k
                      /\ th'[k].pc = "gone" => th'[k].last.op = "REMOVE_PARTNER"
    BY <2>1 DEF ThreadInv
  <2>4. CASE k = n
    BY <1>5, <2>2, <2>3, <2>4
  <2>5. CASE k # n
    BY <1>5, <2>1, <2>5 DEF ThreadInv
  <2> QED BY <2>4, <2>5
<1> QED BY <1>6, <1>7, <1>8, ThreadGoesKeeps

\* A recv fails only on a descriptor closed with its partner.
LEMMA RecvErrorKeeps ==
  ASSUME PartnersInv, NEW n \in Conns, RecvError(n) PROVE PartnersInv'
<1>1. PartnersTypeOK
  BY DEF PartnersInv
<1> DEFINE Th == [pc : {"none", "new", "set", "recv", "gone"}, slot : Slots,
                  fd : Fds, pid : {0}, last : Msg]
<1>2. th \in [Conns -> Th]
  BY <1>1 DEF PartnersTypeOK
<1>3. th' = [th EXCEPT ![n].pc = "gone"]
  BY DEF RecvError
<1>4. th' \in [Conns -> Th]
  BY <1>2, <1>3
<1>5. /\ th'[n].pc = "gone" /\ th'[n].last = th[n].last
      /\ \A k \in Conns : k # n => th'[k] = th[k]
  BY <1>2, <1>3
<1>6. ThreadGoes
  BY <1>5 DEF ThreadGoes, RecvError
<1>7. PartnersTypeOK'
  BY <1>1, <1>4 DEF PartnersTypeOK, RecvError, clientVars, netVars, tableVars, histVars
<1>8. ASSUME Calm PROVE ThreadInv'
  <2>1. /\ ThreadInv /\ th[n].pc = "recv" /\ desc[th[n].fd] = Shut
        /\ UNCHANGED <<accepted, desc, latest, arg, connFd>>
    BY <1>8 DEF PartnersInv, RecvError
  <2>2. th[n].last.op = "REMOVE_PARTNER" /\ ~(n > accepted)
    BY <2>1, PartnerNumbers DEF ThreadInv
  <2> SUFFICES ASSUME NEW k \in Conns
               PROVE  /\ th'[k].pc = "none" <=> k > accepted
                      /\ th'[k].pc \in {"none", "new", "set"} => th'[k].last = NoMsg
                      /\ th'[k].pc \in {"new", "set"} => k = accepted /\ desc[latest] = k
                      /\ th'[k].pc = "new" => arg[th'[k].slot].fd = latest
                      /\ th'[k].pc = "set" => connFd[th'[k].pid] = latest
                      /\ th'[k].pc = "recv" =>
                           desc[th'[k].fd] = IF th'[k].last.op = "REMOVE_PARTNER" THEN Shut ELSE k
                      /\ th'[k].pc = "gone" => th'[k].last.op = "REMOVE_PARTNER"
    BY <2>1 DEF ThreadInv
  <2>3. CASE k = n
    BY <1>5, <2>2, <2>3
  <2>4. CASE k # n
    BY <1>5, <2>1, <2>4 DEF ThreadInv
  <2> QED BY <2>3, <2>4
<1> QED BY <1>6, <1>7, <1>8, ThreadGoesKeeps

\* A relation that the operator makes on the server.
LEMMA MkRelationServerKeeps ==
  ASSUME PartnersInv, NEW p \in Pids, NEW size \in Sizes, MkRelationServer(p, size)
  PROVE  PartnersInv'
<1> USE DEF clientVars, netVars, connVars
<1>1. PartnersTypeOK /\ 1 .. Len(owner) \subseteq Conns /\ p \in Slots
  BY PartnersTyped, PartnerNumbers DEF PartnersInv
<1>2. srel' = [srel EXCEPT ![p].state = "IN_USE"] /\ shdr' = [shdr EXCEPT ![p] = size]
  BY DEF MkRelationServer, RelateServer
<1>3. srel' \in [Slots -> [state : States, answered : BOOLEAN]]
  BY ZenonT(60), <1>1, <1>2 DEF PartnersTypeOK, States
<1>4. shdr' \in [Slots -> Sizes \union {0}]
  BY <1>1, <1>2 DEF PartnersTypeOK
<1>5. \A q \in Slots : srel[q].state # "FREE" => srel'[q].state # "FREE"
  BY <1>1, <1>2 DEF PartnersTypeOK
<1>6. UNCHANGED <<clientVars, netVars, running, spart, srows, connVars, maker, overtaken, hurried,
                  replays>>
  BY DEF MkRelationServer
<1>7. PartnersTypeOK'
  BY <1>1, <1>3, <1>4, <1>6 DEF PartnersTypeOK
<1>8. DescInv' /\ RowsInv'
  BY <1>6 DEF PartnersInv, DescInv, RowsInv, Asked
<1>9. Calm' => Calm
  BY <1>6 DEF Calm, RowsInOrder
<1>10. Calm => running' /\ MakerInv' /\ ThreadInv'
  BY <1>6 DEF PartnersInv, MakerInv, ThreadInv
<1>11. ASSUME Calm PROVE LineInv'
  <2>1. LineInv
    BY <1>11 DEF PartnersInv
  <2>2. \A k : AwaitsAck(k)' <=> AwaitsAck(k)
    BY <1>6 DEF AwaitsAck
  <2>3. \A k \in 1 .. Len(owner) : Ordered(k)'
    BY <1>6, <2>1, <2>2, OrderedSame DEF LineInv
  <2>4. \A k \in 1 .. Len(owner) : \A q \in Pids : Serves(k, q) => Serves(k, q)'
    BY <1>5, <1>6, PartnerNumbers, ServesSame
  <2>5. \A k \in 1 .. Len(owner) : \E q \in Pids : Serves(k, q)'
    BY <2>1, <2>4 DEF LineInv
  <2> QED BY <1>6, <2>1, <2>3, <2>5 DEF LineInv
<1> QED BY <1>7, <1>8, <1>9, <1>10, <1>11 DEF PartnersInv

-----------------------------------------------------------------------------
(* The accept loop.                                                        *)

\* Rereading the table sets ids and states and nothing else.
LEMMA RereadDoes ==
  ASSUME PartnersTypeOK
  PROVE  /\ Reread \in [Slots -> [id : Pids, state : States, sock : Fds, ops : BOOLEAN]]
         /\ \A p \in Slots : /\ Reread[p].sock = spart[p].sock /\ Reread[p].ops = spart[p].ops
                             /\ Reread[p].id = IF p < Len(srows) THEN srows[p + 1] ELSE spart[p].id
<1> DEFINE E == [id : Pids, state : States, sock : Fds, ops : BOOLEAN]
<1>1. spart \in [Slots -> E] /\ srows \in Seq(Pids) /\ Slots \subseteq Nat
  BY PartnerNumbers DEF PartnersTypeOK
<1>2. ASSUME NEW p \in Slots
      PROVE  /\ Reread[p] \in E /\ Reread[p].sock = spart[p].sock /\ Reread[p].ops = spart[p].ops
             /\ Reread[p].id = IF p < Len(srows) THEN srows[p + 1] ELSE spart[p].id
  <2>1. spart[p] \in E
    BY <1>1
  <2>2. CASE p < Len(srows)
    <3>1. srows[p + 1] \in Pids
      <4>1. Len(srows) \in Nat /\ p \in Nat
        BY <1>1, LenProperties
      <4>2. p + 1 \in 1 .. Len(srows)
        BY <2>2, <4>1
      <4> QED BY <1>1, <4>2, ElementOfSeq
    <3>2. Reread[p] = [spart[p] EXCEPT !.id = srows[p + 1], !.state = "IN_USE"]
      BY <2>2 DEF Reread
    <3> QED BY <2>1, <2>2, <3>1, <3>2 DEF States
  <2>3. CASE ~(p < Len(srows))
    <3>1. Reread[p] = spart[p]
      BY <2>3 DEF Reread
    <3> QED BY <2>1, <2>3, <3>1
  <2> QED BY <2>2, <2>3
<1>3. Reread = [p \in Slots |-> Reread[p]]
  BY DEF Reread
<1> HIDE DEF E
<1>4. Reread \in [Slots -> E]
  BY <1>2, <1>3
<1> QED BY <1>2, <1>4 DEF E

\* The slot that accept takes is in the tables.
LEMMA ChosenSlotIsSlot == ASSUME PartnersTypeOK PROVE ChosenSlot \in Slots
<1>1. Len(srows) \in Nat /\ Len(srows) + 1 \in Slots /\ 0 \in Slots
  BY PartnerNumbers, LenProperties DEF PartnersTypeOK
<1>2. 0 .. Len(srows) \subseteq Slots
  BY <1>1, PartnerNumbers DEF Slots
<1>3. Uncreated \in SUBSET Nat /\ Uncreated \subseteq Slots
  BY <1>1, <1>2 DEF Uncreated
<1>4. Uncreated # {} => Min(Uncreated) \in Slots
  BY <1>3, LeastOf
<1> QED BY <1>1, <1>4 DEF ChosenSlot

\* What accept changes.
LEMMA AcceptDoes ==
  ASSUME PartnersTypeOK, DescInv, Accept, NEW n, n = accepted + 1, NEW f, f = LowestFree
  PROVE  /\ PartnersTypeOK' /\ n \in Conns /\ n \in 1 .. Len(owner) /\ f \in Fds /\ desc[f] = Shut
         /\ accepted' = n /\ latest' = f /\ desc'[f] = n
         /\ \A g \in Fds : g # f => desc'[g] = desc[g]
         /\ th'[n].pc = "new" /\ th'[n].last = NoMsg /\ arg'[th'[n].slot].fd = f
         /\ \A k \in Conns : k # n => th'[k] = th[k]
         /\ hurried' = {} => Starting = {} /\ Holders(f) = {} /\ hurried = {}
<1>1. /\ n \in Conns /\ n \in 1 .. Len(owner) /\ accepted \in Nat /\ accepted < Len(owner)
      /\ Len(owner) \in Nat
  <2>1. /\ accepted \in Nat /\ accepted < Len(owner) /\ Len(owner) \in Nat
        /\ 1 .. Len(owner) \subseteq Conns
    BY PartnersTyped DEF Accept
  <2> QED BY <2>1
<1>2. f \in Fds /\ desc[f] = Shut
  BY <1>1, FreeDescriptor
<1> PICK s : s = ChosenSlot
  OBVIOUS
<1>3. s \in Slots
  BY ChosenSlotIsSlot
<1>4. /\ accepted' = n /\ desc' = [desc EXCEPT ![f] = n] /\ latest' = f /\ spart' = Reread
      /\ arg' = [arg EXCEPT ![s] = [fd |-> f, pid |-> IF Len(srows) = 0 THEN 0 ELSE arg[s].pid]]
      /\ th' = [th EXCEPT ![n] = [NoThread EXCEPT !.pc = "new", !.slot = s]]
      /\ UNCHANGED <<clientVars, netVars, running, srel, shdr, srows, connFd, maker, overtaken,
                     replays>>
  BY DEF Accept
<1>5. desc \in [Fds -> Conns \union {0, Shut}]
  BY DEF PartnersTypeOK
<1>6. /\ desc' \in [Fds -> Conns \union {0, Shut}] /\ desc'[f] = n
      /\ \A g \in Fds : g # f => desc'[g] = desc[g]
  BY <1>1, <1>2, <1>4, <1>5
<1> DEFINE Th == [pc : {"none", "new", "set", "recv", "gone"}, slot : Slots,
                  fd : Fds, pid : {0}, last : Msg]
           t == [NoThread EXCEPT !.pc = "new", !.slot = s]
<1>7. t \in Th /\ t.pc = "new" /\ t.slot = s /\ t.last = NoMsg
  BY <1>3, NoMsgIsMsg, PartnerNumbers DEF NoThread
<1>8. th \in [Conns -> Th]
  BY DEF PartnersTypeOK
<1>9. th' \in [Conns -> Th] /\ th'[n] = t /\ \A k \in Conns : k # n => th'[k] = th[k]
  <2>1. th' = [th EXCEPT ![n] = t]
    BY <1>4
  <2> HIDE DEF Th, t
  <2> QED BY <1>1, <1>7, <1>8, <2>1
<1> HIDE DEF Th, t
<1>10. arg \in [Slots -> [fd : Fds, pid : {0}]]
  BY DEF PartnersTypeOK
<1>11. arg' \in [Slots -> [fd : Fds, pid : {0}]] /\ arg'[s].fd = f
  <2>1. arg[s].pid = 0
    BY <1>3, <1>10
  <2>2. arg' = [arg EXCEPT ![s] = [fd |-> f, pid |-> 0]]
    BY <1>4, <2>1
  <2> QED BY <1>2, <1>3, <1>10, <2>2
<1>12. spart' \in [Slots -> [id : Pids, state : States, sock : Fds, ops : BOOLEAN]]
  BY <1>4, RereadDoes
<1>13. PartnersTypeOK'
  <2>1. accepted' \in 0 .. Len(owner) /\ latest' \in Fds
    BY <1>1, <1>2, <1>4
  <2>2. desc' \in [Fds -> Conns \union {0, Shut}] /\ arg' \in [Slots -> [fd : Fds, pid : {0}]]
    BY <1>6, <1>11
  <2>3. UNCHANGED <<cpart, crows, ctl, owner, toS, toC, hungUp, running, srel, shdr, srows, connFd,
                    maker, replays>>
    BY <1>4 DEF clientVars, netVars
  <2>4. th' \in [Conns -> Th]
    BY <1>9
  <2> QED BY <1>12, <2>1, <2>2, <2>3, <2>4 DEF PartnersTypeOK, Th
<1>14. hurried' = {} => Starting = {} /\ Holders(f) = {} /\ hurried = {}
  <2>1. hurried' = IF Starting = {} /\ Holders(f) = {} THEN hurried
                   ELSE hurried \union Starting \union Holders(f) \union {n}
    BY DEF Accept
  <2> QED BY <2>1
<1>15. th'[n].pc = "new" /\ th'[n].last = NoMsg /\ arg'[th'[n].slot].fd = f
  BY <1>7, <1>9, <1>11
<1> QED BY <1>1, <1>2, <1>4, <1>6, <1>9, <1>13, <1>14, <1>15

\* A connection accepted in a calm state gets a descriptor nobody uses.
LEMMA AcceptKeeps ==
  ASSUME PartnersInv, Accept PROVE PartnersInv'
<1> PICK n, f : n = accepted + 1 /\ f = LowestFree
  OBVIOUS
<1>1. PartnersTypeOK /\ DescInv
  BY DEF PartnersInv
<1>2. /\ PartnersTypeOK' /\ n \in Conns /\ n \in 1 .. Len(owner) /\ f \in Fds /\ desc[f] = Shut
      /\ accepted' = n /\ latest' = f /\ desc'[f] = n
      /\ \A g \in Fds : g # f => desc'[g] = desc[g]
      /\ th'[n].pc = "new" /\ th'[n].last = NoMsg /\ arg'[th'[n].slot].fd = f
      /\ \A k \in Conns : k # n => th'[k] = th[k]
      /\ hurried' = {} => Starting = {} /\ Holders(f) = {} /\ hurried = {}
  BY <1>1, AcceptDoes
<1>3. /\ UNCHANGED <<cpart, crows, ctl, owner, toS, toC, hungUp, running, srel, shdr, srows, connFd,
                     maker, overtaken, replays>>
      /\ spart' = Reread
  BY DEF Accept, clientVars, netVars
<1>4. accepted \in Nat /\ n = accepted + 1 /\ Conns \subseteq Nat /\ 1 .. Len(owner) \subseteq Conns
  BY <1>1, PartnersTyped, PartnerNumbers
<1>5. DescInv'
  <2>1. \A g \in Fds : desc[g] \in Conns => desc[g] <= accepted /\ desc[g] # n /\ desc[g] \in Nat
    <3>1. \A g \in Fds : desc[g] \in Conns => desc[g] <= accepted
      BY <1>1 DEF DescInv
    <3>2. \A x \in Conns : x \in Nat /\ (x <= accepted => x # n)
      BY <1>4
    <3> QED BY <3>1, <3>2
  <2>2. ASSUME NEW g \in Fds, desc'[g] \in Conns
        PROVE  desc'[g] <= accepted' /\ \A h \in Fds : desc'[h] = desc'[g] => h = g
    <3>1. CASE g = f
      BY <1>2, <1>4, <2>1, <3>1
    <3>2. CASE g # f
      BY <1>1, <1>2, <1>4, <2>1, <2>2, <3>2 DEF DescInv
    <3> QED BY <3>1, <3>2
  <2>3. \A g \in Fds : desc'[g] = 0 => g = Stdin
    BY <1>1, <1>2, PartnerNumbers DEF DescInv
  <2> QED BY <1>2, <2>2, <2>3 DEF DescInv
<1>6. RowsInv'
  BY <1>3 DEF PartnersInv, RowsInv, Asked
<1>7. SUFFICES ASSUME Calm' PROVE running' /\ ThreadInv' /\ MakerInv' /\ LineInv'
  BY <1>2, <1>5, <1>6 DEF PartnersInv
<1>8. Calm /\ Starting = {} /\ Holders(f) = {}
  BY <1>2, <1>3, <1>7 DEF Calm, RowsInOrder
<1>9. running /\ ThreadInv /\ MakerInv /\ LineInv
  BY <1>8 DEF PartnersInv
<1>10. ThreadInv'
  <2> SUFFICES ASSUME NEW k \in Conns
               PROVE  /\ th'[k].pc = "none" <=> k > n
                      /\ th'[k].pc \in {"none", "new", "set"} => th'[k].last = NoMsg
                      /\ th'[k].pc \in {"new", "set"} => k = n /\ desc'[f] = k
                      /\ th'[k].pc = "new" => arg'[th'[k].slot].fd = f
                      /\ th'[k].pc = "set" => connFd'[th'[k].pid] = f
                      /\ th'[k].pc = "recv" =>
                           desc'[th'[k].fd] = IF th'[k].last.op = "REMOVE_PARTNER" THEN Shut ELSE k
                      /\ th'[k].pc = "gone" => th'[k].last.op = "REMOVE_PARTNER"
    BY <1>2 DEF ThreadInv
  <2>1. CASE k = n
    BY <1>2, <1>4, <2>1
  <2>2. CASE k # n
    <3>1. th'[k] = th[k] /\ th[k].pc \notin {"new", "set"} /\ th[k].fd \in Fds
      BY <1>1, <1>2, <1>8, <2>2, PartnersTyped DEF Starting
    <3>2. th[k].pc = "recv" => th[k].fd # f
      BY <1>8 DEF Holders
    <3>3. th[k].pc = "none" <=> k > n
      BY <1>4, <1>9, <2>2 DEF ThreadInv
    <3>4. th[k].pc = "recv" => desc'[th[k].fd] = desc[th[k].fd]
      BY <1>2, <3>1, <3>2
    <3> QED BY <1>9, <3>1, <3>3, <3>4 DEF ThreadInv
  <2> QED BY <2>1, <2>2
<1>11. \A p \in Slots : spart'[p].ops = spart[p].ops /\ spart'[p].sock = spart[p].sock
                        /\ spart'[p].id = IF p < Len(srows) THEN srows[p + 1] ELSE spart[p].id
  BY <1>1, <1>3, RereadDoes
<1>12. \A k \in Conns : th'[k].last = th[k].last
  <2>1. th[n].last = NoMsg
    BY <1>2, <1>4, <1>9 DEF ThreadInv
  <2> QED BY <1>2, <2>1
<1>13. MakerInv'
  <2> SUFFICES ASSUME NEW p \in Slots, spart[p].ops
               PROVE  /\ p < Len(srows) /\ spart'[p].id = p
                      /\ maker[p] \in Conns /\ desc'[spart[p].sock] = maker[p]
                      /\ th'[maker[p]].last.op # "none"
                      /\ \A q \in Slots : spart[q].ops /\ maker[q] = maker[p] => q = p
    BY <1>3, <1>11 DEF MakerInv
  <2>1. /\ p < Len(srows) /\ maker[p] \in Conns /\ desc[spart[p].sock] = maker[p]
        /\ th[maker[p]].last.op # "none"
        /\ \A q \in Slots : spart[q].ops /\ maker[q] = maker[p] => q = p
    BY <1>9 DEF MakerInv
  <2>2. spart[p].sock \in Fds
    BY <1>1 DEF PartnersTypeOK
  <2>3. desc'[spart[p].sock] = maker[p]
    BY <1>2, <2>1, <2>2, PartnerNumbers
  <2>4. spart'[p].id = p
    <3>1. p \in Nat /\ Len(srows) \in Nat /\ DOMAIN srows = 1 .. Len(srows)
      BY <1>1, PartnerNumbers, LenProperties DEF PartnersTypeOK
    <3>2. p + 1 \in DOMAIN srows
      BY <2>1, <3>1
    <3>3. srows[p + 1] = p
      BY <1>8, <3>1, <3>2 DEF Calm, RowsInOrder
    <3> QED BY <1>11, <2>1, <3>3
  <2> QED BY <1>12, <2>1, <2>3, <2>4
<1>14. LineInv'
  <2>1. \A k : AwaitsAck(k)' <=> AwaitsAck(k)
    BY <1>3 DEF AwaitsAck
  <2>2. \A k \in 1 .. Len(owner) : Ordered(k)'
    BY <1>3, <1>4, <1>9, <1>12, <2>1, OrderedSame DEF LineInv
  <2>3. \A k \in 1 .. Len(owner) : \A p \in Pids : Serves(k, p) => Serves(k, p)'
    BY <1>3, <1>4, <1>11, <1>12, PartnerNumbers, ServesSame
  <2>4. \A k \in 1 .. Len(owner) : \E p \in Pids : Serves(k, p)'
    BY <1>9, <2>3 DEF LineInv
  <2> QED BY <1>3, <1>9, <2>2, <2>4 DEF LineInv
<1> QED BY <1>3, <1>9, <1>10, <1>13, <1>14

-----------------------------------------------------------------------------
(* The handlers.                                                           *)

Entries == [id : Pids, state : States, sock : Fds, ops : BOOLEAN]
Relations == [state : States, answered : BOOLEAN]

\* What the handlers have in common, whatever they find: tables stay tables,
\* descriptors are closed and not opened, and one row at most is added.
LEMMA MakePartnerDoes ==
  ASSUME PartnersTypeOK, NEW n \in Conns, NEW m \in Msg, MakePartner(n, m)
  PROVE  /\ spart' \in [Slots -> Entries] /\ srel' \in [Slots -> Relations]
         /\ shdr' \in [Slots -> Sizes \union {0}] /\ connFd' \in [Slots -> Fds]
         /\ srows' \in Seq(Pids) /\ Len(srows') = Len(srows) + 1 /\ Len(srows) \in Nat
         /\ srows'[Len(srows) + 1] = m.pid
         /\ \A i \in 1 .. Len(srows) : srows'[i] = srows[i]
         /\ UNCHANGED <<running, toC, desc>>
         /\ spart'[m.pid] = ServerEntry(m.pid, latest) /\ srel'[m.pid].state = "IN_USE"
         /\ \A q \in Slots : q # m.pid => spart'[q] = spart[q] /\ srel'[q] = srel[q]
<1>1. m.pid \in Pids /\ m.pid \in Slots /\ m.size \in Sizes \union {0}
  BY PartnerNumbers DEF Msg
<1>2. /\ spart \in [Slots -> Entries] /\ srel \in [Slots -> Relations] /\ latest \in Fds
      /\ shdr \in [Slots -> Sizes \union {0}] /\ connFd \in [Slots -> Fds] /\ srows \in Seq(Pids)
  BY DEF PartnersTypeOK, Entries, Relations
<1>3. /\ spart' = [spart EXCEPT ![m.pid] = ServerEntry(m.pid, latest)]
      /\ srows' = Append(srows, m.pid)
      /\ srel' = [srel EXCEPT ![m.pid].state = "IN_USE"]
      /\ shdr' = [shdr EXCEPT ![m.pid] = m.size]
      /\ connFd' = [connFd EXCEPT ![m.pid] = latest]
      /\ UNCHANGED <<running, toC, desc>>
  BY DEF MakePartner, RelateServer, Insert
<1>4. ServerEntry(m.pid, latest) \in Entries
  BY <1>1, <1>2 DEF ServerEntry, Entries, States
<1>5. spart' \in [Slots -> Entries] /\ spart'[m.pid] = ServerEntry(m.pid, latest)
      /\ \A q \in Slots : q # m.pid => spart'[q] = spart[q]
  BY <1>1, <1>2, <1>3, <1>4
<1>6. srel' \in [Slots -> Relations] /\ srel'[m.pid].state = "IN_USE"
      /\ \A q \in Slots : q # m.pid => srel'[q] = srel[q]
  BY <1>1, <1>2, <1>3 DEF Relations, States
<1>7. shdr' \in [Slots -> Sizes \union {0}] /\ connFd' \in [Slots -> Fds]
  BY <1>1, <1>2, <1>3
<1>8. /\ srows' \in Seq(Pids) /\ Len(srows') = Len(srows) + 1 /\ srows'[Len(srows) + 1] = m.pid
      /\ \A i \in 1 .. Len(srows) : srows'[i] = srows[i]
  BY <1>1, <1>2, <1>3, AppendProperties
<1>9. Len(srows) \in Nat
  BY <1>2, LenProperties
<1> QED BY <1>3, <1>5, <1>6, <1>7, <1>8, <1>9

\* The answer goes to the connection of the descriptor in the entry, if it is open.
LEMMA SynDoes ==
  ASSUME PartnersTypeOK, NEW n \in Conns, NEW m \in Msg, SynReceived(n, m)
  PROVE  /\ toC' \in [Conns -> Seq(Msg)] /\ srel' \in [Slots -> Relations] /\ running' \in BOOLEAN
         /\ \A q \in Slots : srel'[q].state = srel[q].state
         /\ UNCHANGED <<spart, srows, shdr, connFd, desc>>
         /\ LET k == desc[spart[m.pid].sock]
            IN k \in Conns /\ k \notin hungUp =>
                 /\ running' = running /\ \A j \in Conns : j # k => toC'[j] = toC[j]
                 /\ Len(toC[k]) \in Nat /\ Len(toC'[k]) = Len(toC[k]) + 1
<1>1. m.pid \in Pids /\ m.pid \in Slots
  BY PartnerNumbers DEF Msg
<1>2. /\ srel \in [Slots -> Relations] /\ toC \in [Conns -> Seq(Msg)] /\ running \in BOOLEAN
      /\ spart[m.pid].sock \in Fds /\ shdr[m.pid] \in Sizes \union {0}
  BY <1>1 DEF PartnersTypeOK, Relations
<1>3. srel' = [srel EXCEPT ![m.pid].answered = TRUE] /\ UNCHANGED <<spart, srows, shdr, connFd, desc>>
  BY DEF SynReceived
<1>4. srel' \in [Slots -> Relations] /\ \A q \in Slots : srel'[q].state = srel[q].state
  BY <1>1, <1>2, <1>3 DEF Relations
<1> DEFINE a == [m EXCEPT !.op = "SYN_ACK", !.size = shdr[m.pid]]
<1>5. a \in Msg
  BY <1>2 DEF Msg
<1> PICK k : k = desc[spart[m.pid].sock]
  OBVIOUS
<1>6. IF k \in Conns /\ k \notin hungUp
        THEN toC' = [toC EXCEPT ![k] = Append(toC[k], a)] /\ UNCHANGED running
        ELSE UNCHANGED toC /\ (running' = FALSE \/ UNCHANGED running)
  BY <1>2 DEF SynReceived, Answer, Crash
<1> HIDE DEF a
<1>7. CASE k \in Conns /\ k \notin hungUp
  <2>1. toC[k] \in Seq(Msg)
    BY <1>2, <1>7
  <2>2. Append(toC[k], a) \in Seq(Msg) /\ Len(Append(toC[k], a)) = Len(toC[k]) + 1
        /\ Len(toC[k]) \in Nat
    BY <1>5, <2>1, AppendProperties, LenProperties
  <2>3. toC' = [toC EXCEPT ![k] = Append(toC[k], a)] /\ running' = running
    BY <1>6, <1>7
  <2>4. toC' \in [Conns -> Seq(Msg)] /\ toC'[k] = Append(toC[k], a)
        /\ \A j \in Conns : j # k => toC'[j] = toC[j]
    BY <1>2, <1>7, <2>2, <2>3
  <2> QED BY <1>2, <1>3, <1>4, <1>7, <2>2, <2>3, <2>4
<1>8. CASE ~(k \in Conns /\ k \notin hungUp)
  BY <1>2, <1>3, <1>4, <1>6, <1>8
<1> QED BY <1>7, <1>8

\* One descriptor is closed and one entry released.
LEMMA RemovePartnerDoes ==
  ASSUME PartnersTypeOK, NEW n \in Conns, NEW m \in Msg, RemovePartner(n, m)
  PROVE  /\ spart' \in [Slots -> Entries] /\ srel' \in [Slots -> Relations]
         /\ desc' \in [Fds -> Conns \union {0, Shut}] /\ running' \in BOOLEAN
         /\ UNCHANGED <<srows, shdr, connFd, toC>>
         /\ \A g \in Fds : desc'[g] \in {desc[g], Shut}
         /\ \A q \in Slots : srel[q].state # "FREE" => srel'[q].state # "FREE"
         /\ spart[m.pid].ops =>
              /\ running' = running /\ desc'[spart[m.pid].sock] = Shut /\ ~spart'[m.pid].ops
              /\ \A g \in Fds : g # spart[m.pid].sock => desc'[g] = desc[g]
              /\ \A q \in Slots : q # m.pid => spart'[q] = spart[q]
<1>1. m.pid \in Pids /\ m.pid \in Slots
  BY PartnerNumbers DEF Msg
<1>2. /\ spart \in [Slots -> Entries] /\ srel \in [Slots -> Relations] /\ running \in BOOLEAN
      /\ desc \in [Fds -> Conns \union {0, Shut}]
  BY DEF PartnersTypeOK, Entries, Relations
<1>3. spart[m.pid] \in Entries /\ spart[m.pid].sock \in Fds
  BY <1>1, <1>2 DEF Entries
<1>4. CASE ~spart[m.pid].ops
  BY <1>2, <1>4 DEF RemovePartner, Crash, tableVars
<1>5. CASE spart[m.pid].ops
  <2>1. /\ srel' = [srel EXCEPT ![m.pid].state =
                      IF srel[m.pid].state = "IN_USE" THEN "RELEASED" ELSE srel[m.pid].state]
        /\ desc' = [desc EXCEPT ![spart[m.pid].sock] = Shut]
        /\ spart' = [spart EXCEPT ![m.pid] = ReleasedServer]
        /\ UNCHANGED <<srows, shdr, connFd, running, toC>>
    BY <1>5 DEF RemovePartner
  <2>2. ReleasedServer \in Entries /\ ReleasedServer.ops = FALSE
    BY PartnerNumbers DEF ReleasedServer, Entries, States
  <2>3. spart' \in [Slots -> Entries] /\ ~spart'[m.pid].ops
        /\ \A q \in Slots : q # m.pid => spart'[q] = spart[q]
    BY <1>1, <1>2, <2>1, <2>2
  <2>4. /\ desc' \in [Fds -> Conns \union {0, Shut}] /\ desc'[spart[m.pid].sock] = Shut
        /\ \A g \in Fds : g # spart[m.pid].sock => desc'[g] = desc[g]
    BY <1>2, <1>3, <2>1
  <2>5. srel' \in [Slots -> Relations]
        /\ \A q \in Slots : srel[q].state # "FREE" => srel'[q].state # "FREE"
    <3>1. srel[m.pid] \in Relations
      BY <1>1, <1>2
    <3> QED BY <1>1, <1>2, <2>1, <3>1 DEF Relations, States
  <2>6. \A g \in Fds : desc'[g] \in {desc[g], Shut}
    BY <2>4
  <2> QED BY <1>2, <1>5, <2>1, <2>3, <2>4, <2>5, <2>6
<1> QED BY <1>4, <1>5

\* One relation is released.
LEMMA RemoveRelationDoes ==
  ASSUME PartnersTypeOK, NEW n \in Conns, NEW m \in Msg, RemoveRelation(n, m)
  PROVE  /\ srel' \in [Slots -> Relations] /\ running' \in BOOLEAN
         /\ UNCHANGED <<spart, srows, shdr, connFd, desc, toC>>
         /\ \A q \in Slots : srel[q].state # "FREE" => srel'[q].state # "FREE"
         /\ srel[m.pid].state # "FREE" => running' = running
<1>1. m.pid \in Pids /\ m.pid \in Slots
  BY PartnerNumbers DEF Msg
<1>2. srel \in [Slots -> Relations] /\ running \in BOOLEAN
  BY DEF PartnersTypeOK, Relations
<1>3. CASE srel[m.pid].state = "FREE"
  BY <1>2, <1>3 DEF RemoveRelation, Crash
<1>4. CASE srel[m.pid].state # "FREE"
  <2>1. srel' = [srel EXCEPT ![m.pid].state = "RELEASED"] /\ running' = running
    BY <1>4 DEF RemoveRelation
  <2>2. srel' \in [Slots -> Relations]
        /\ \A q \in Slots : srel[q].state # "FREE" => srel'[q].state # "FREE"
    BY <1>1, <1>2, <2>1 DEF Relations, States
  <2> QED BY <1>2, <2>1, <2>2 DEF RemoveRelation
<1> QED BY <1>3, <1>4

\* The types after a handler, when the rows still fit.
LEMMA HandleTyped ==
  ASSUME PartnersTypeOK, NEW n \in Conns, NEW m \in Msg, desc[th[n].fd] \in Conns, Handle(n, m),
         toS' \in [Conns -> Seq(Msg)], replays' \in 0 .. MaxReplays, Len(srows') + 1 \in Slots,
         th' \in [Conns -> [pc : {"none", "new", "set", "recv", "gone"}, slot : Slots,
                            fd : Fds, pid : {0}, last : Msg]]
  PROVE  PartnersTypeOK'
<1>1. UNCHANGED <<cpart, crows, ctl, owner, hungUp, accepted, latest, arg>>
  BY DEF Handle, clientVars
<1>2. /\ spart' \in [Slots -> Entries] /\ srel' \in [Slots -> Relations]
      /\ shdr' \in [Slots -> Sizes \union {0}] /\ connFd' \in [Slots -> Fds]
      /\ desc' \in [Fds -> Conns \union {0, Shut}] /\ running' \in BOOLEAN
      /\ toC' \in [Conns -> Seq(Msg)] /\ srows' \in Seq(Pids)
      /\ maker' \in [Slots -> Conns \union {0}]
  <2>1. /\ spart \in [Slots -> Entries] /\ srel \in [Slots -> Relations]
        /\ shdr \in [Slots -> Sizes \union {0}] /\ connFd \in [Slots -> Fds]
        /\ desc \in [Fds -> Conns \union {0, Shut}] /\ running \in BOOLEAN
        /\ toC \in [Conns -> Seq(Msg)] /\ srows \in Seq(Pids)
        /\ maker \in [Slots -> Conns \union {0}]
    BY DEF PartnersTypeOK, Entries, Relations
  <2>2. CASE m.op = "MAKE_PARTNER"
    <3>1. MakePartner(n, m) /\ maker' = [maker EXCEPT ![m.pid] = desc[th[n].fd]]
      BY <2>2 DEF Handle
    <3>2. maker' \in [Slots -> Conns \union {0}]
      BY <2>1, <3>1
    <3> QED BY <2>1, <3>1, <3>2, MakePartnerDoes
  <2>3. CASE m.op = "SYN"
    <3>1. SynReceived(n, m) /\ UNCHANGED maker
      BY <2>3 DEF Handle
    <3> QED BY <2>1, <3>1, SynDoes
  <2>4. CASE m.op = "REMOVE_PARTNER"
    <3>1. RemovePartner(n, m) /\ UNCHANGED maker
      BY <2>4 DEF Handle
    <3> QED BY <2>1, <3>1, RemovePartnerDoes
  <2>5. CASE m.op = "RM_RELATION"
    <3>1. RemoveRelation(n, m) /\ UNCHANGED maker
      BY <2>5 DEF Handle
    <3> QED BY <2>1, <3>1, RemoveRelationDoes
  <2>6. CASE m.op \in {"ACK", "none"}
    BY <2>1, <2>6 DEF Handle, tableVars
  <2> QED BY <2>2, <2>3, <2>4, <2>5, <2>6 DEF Handle
<1> QED BY <1>1, <1>2 DEF PartnersTypeOK, Entries, Relations

\* Descriptors after a handler.
LEMMA HandleDesc ==
  ASSUME PartnersTypeOK, DescInv, NEW n \in Conns, NEW m \in Msg, Handle(n, m)
  PROVE  DescInv'
<1>1. \A g \in Fds : desc'[g] \in {desc[g], Shut}
  <2>1. CASE m.op = "MAKE_PARTNER"
    BY <2>1 DEF Handle, MakePartner
  <2>2. CASE m.op = "SYN"
    BY <2>2 DEF Handle, SynReceived
  <2>3. CASE m.op = "REMOVE_PARTNER"
    BY <2>3, RemovePartnerDoes DEF Handle
  <2>4. CASE m.op = "RM_RELATION"
    BY <2>4 DEF Handle, RemoveRelation
  <2>5. CASE m.op \in {"ACK", "none"}
    BY <2>5 DEF Handle
  <2> QED BY <2>1, <2>2, <2>3, <2>4, <2>5 DEF Handle
<1>2. UNCHANGED <<accepted, latest>> /\ latest \in Fds
  BY DEF Handle, PartnersTypeOK
<1>3. Shut \notin Conns /\ Shut # 0
  BY PartnerNumbers
<1>4. ASSUME NEW g \in Fds, desc'[g] \in Conns
      PROVE  desc'[g] <= accepted' /\ \A h \in Fds : desc'[h] = desc'[g] => h = g
  <2>1. desc'[g] = desc[g] /\ desc[g] \in Conns
    BY <1>1, <1>3, <1>4
  <2>2. \A h \in Fds : desc'[h] = desc'[g] => desc[h] = desc[g]
    BY <1>1, <1>3, <2>1
  <2> QED BY <1>2, <2>1, <2>2 DEF DescInv
<1>5. \A g \in Fds : desc'[g] = 0 => g = Stdin
  BY <1>1, <1>3 DEF DescInv
<1>6. desc'[latest'] \in {accepted', Shut}
  BY <1>1, <1>2 DEF DescInv
<1> QED BY <1>4, <1>5, <1>6 DEF DescInv

\* One row at most is added, by a MAKE_PARTNER.
LEMMA HandleRows ==
  ASSUME PartnersTypeOK, NEW n \in Conns, NEW m \in Msg, Handle(n, m)
  PROVE  /\ srows' \in Seq(Pids) /\ Len(srows) \in Nat /\ owner' = owner
         /\ m.op = "MAKE_PARTNER" => Len(srows') = Len(srows) + 1
         /\ m.op # "MAKE_PARTNER" => srows' = srows
<1>1. srows \in Seq(Pids) /\ Len(srows) \in Nat /\ owner' = owner
  BY LenProperties DEF PartnersTypeOK, Handle
<1>2. CASE m.op = "MAKE_PARTNER"
  <2>1. MakePartner(n, m)
    BY <1>2 DEF Handle
  <2> QED BY <1>1, <1>2, <2>1, MakePartnerDoes
<1>3. CASE m.op # "MAKE_PARTNER"
  <2>1. srows' = srows
    BY <1>3, RemovePartnerDoes DEF Handle, SynReceived, RemoveRelation, tableVars
  <2> QED BY <1>1, <1>3, <2>1
<1> QED BY <1>2, <1>3

\* The connections that have asked are as many as there are, at most.
LEMMA AskedCount ==
  ASSUME PartnersTypeOK, NEW A \in SUBSET (1 .. Len(owner))
  PROVE  IsFiniteSet(A) /\ Cardinality(A) \in Nat /\ Cardinality(A) <= MaxConns
<1>1. Len(owner) \in Nat /\ Len(owner) <= MaxConns
  BY PartnersTyped DEF PartnersTypeOK
<1>2. IsFiniteSet(1 .. Len(owner)) /\ Cardinality(1 .. Len(owner)) = Len(owner)
  BY <1>1, FS_Interval
<1>3. IsFiniteSet(A) /\ Cardinality(A) <= Cardinality(1 .. Len(owner))
  BY <1>2, FS_Subset
<1>4. Cardinality(A) \in Nat
  BY <1>3, FS_CardinalityType
<1> QED BY <1>1, <1>2, <1>3, <1>4, PartnerNumbers

\* So the rows leave an entry to spare.
LEMMA RoomForRows ==
  ASSUME PartnersTypeOK, RowsInv', owner' = owner, replays' \in 0 .. MaxReplays, srows' \in Seq(Pids)
  PROVE  Len(srows') + 1 \in Slots
<1> PICK A : A = {k \in 1 .. Len(owner) : ~Asked(k)'}
  OBVIOUS
<1>1. A \in SUBSET (1 .. Len(owner))
  OBVIOUS
<1>2. Cardinality(A) \in Nat /\ Cardinality(A) <= MaxConns
  BY <1>1, AskedCount
<1>3. Len(srows') <= replays' + Cardinality(A)
  BY DEF RowsInv
<1>4. Len(srows') \in Nat
  BY LenProperties
<1>5. Len(srows') <= MaxReplays + MaxConns
  BY <1>2, <1>3, <1>4, PartnerNumbers
<1> QED BY <1>4, <1>5, PartnerNumbers

\* What a recv takes from its stream.
TakesOne(n, k, m) ==
  /\ k \in Conns /\ k \in 1 .. Len(owner) /\ m \in Msg /\ m = toS[k][1] /\ Handle(n, m)
  /\ toS[k] # <<>> /\ toS[k] \in Seq(Msg) /\ Len(toS[k]) \in Nat /\ Len(toS[k]) > 0
  /\ toS' \in [Conns -> Seq(Msg)] /\ \A j \in Conns : j # k => toS'[j] = toS[j]
  /\ Len(toS'[k]) = Len(toS[k]) - 1
  /\ \A i \in 1 .. Len(toS'[k]) : i + 1 \in 1 .. Len(toS[k]) /\ toS'[k][i] = toS[k][i + 1]
  /\ th' \in [Conns -> [pc : {"none", "new", "set", "recv", "gone"}, slot : Slots,
                        fd : Fds, pid : {0}, last : Msg]]
  /\ th'[n].last = m /\ th'[n].pc = "recv" /\ th[n].pc = "recv" /\ th'[n].fd = th[n].fd
  /\ \A j \in Conns : j # n => th'[j] = th[j]
\* A recv does that.
LEMMA RecvTakes ==
  ASSUME PartnersTypeOK, RowsInv, NEW n \in Conns, Recv(n), NEW k, k = desc[th[n].fd],
         NEW m, m = toS[k][1]
  PROVE  TakesOne(n, k, m)
<1>1. k \in Conns /\ toS[k] # <<>> /\ th[n].pc = "recv"
  BY DEF Recv, Open
<1>2. toS \in [Conns -> Seq(Msg)] /\ toS[k] \in Seq(Msg)
  BY <1>1 DEF PartnersTypeOK
<1>3. Head(toS[k]) = m
  BY <1>1, <1>2
<1>4. /\ toS' = [toS EXCEPT ![k] = Tail(toS[k])] /\ th' = [th EXCEPT ![n].last = m] /\ Handle(n, m)
  BY <1>3 DEF Recv
<1>5. k \in 1 .. Len(owner)
  BY <1>1, PartnersTyped DEF RowsInv, Conns
<1>6. Len(toS[k]) \in Nat /\ Len(toS[k]) > 0 /\ m \in Msg
  <2>1. Len(toS[k]) \in Nat /\ Len(toS[k]) # 0
    BY <1>1, <1>2, LenProperties, EmptySeq
  <2>2. 1 \in 1 .. Len(toS[k])
    BY <2>1
  <2> QED BY <1>2, <2>1, <2>2, ElementOfSeq
<1>7. /\ Tail(toS[k]) \in Seq(Msg) /\ Len(Tail(toS[k])) = Len(toS[k]) - 1
      /\ \A i \in 1 .. Len(Tail(toS[k])) : i + 1 \in 1 .. Len(toS[k]) /\ Tail(toS[k])[i] = toS[k][i + 1]
  <2>1. /\ Tail(toS[k]) \in Seq(Msg) /\ Len(Tail(toS[k])) = Len(toS[k]) - 1
        /\ \A i \in 1 .. Len(Tail(toS[k])) : Tail(toS[k])[i] = toS[k][i + 1]
    BY <1>1, <1>2, HeadTailProperties
  <2> QED BY <1>6, <2>1
<1>8. toS' \in [Conns -> Seq(Msg)] /\ toS'[k] = Tail(toS[k]) /\ \A j \in Conns : j # k => toS'[j] = toS[j]
  BY <1>1, <1>2, <1>4, <1>7
<1>9. /\ th' \in [Conns -> [pc : {"none", "new", "set", "recv", "gone"}, slot : Slots,
                            fd : Fds, pid : {0}, last : Msg]]
      /\ th'[n].last = m /\ th'[n].pc = th[n].pc /\ th'[n].fd = th[n].fd
      /\ \A j \in Conns : j # n => th'[j] = th[j]
  <2>1. th \in [Conns -> [pc : {"none", "new", "set", "recv", "gone"}, slot : Slots,
                          fd : Fds, pid : {0}, last : Msg]]
    BY DEF PartnersTypeOK
  <2> QED BY <1>4, <1>6, <2>1
<1> QED BY <1>1, <1>2, <1>4, <1>5, <1>6, <1>7, <1>8, <1>9 DEF TakesOne

\* A message taken or executed again leaves room for the rows.
LEMMA RecvRows ==
  ASSUME PartnersTypeOK, RowsInv, NEW n \in Conns, Recv(n) PROVE RowsInv'
<1> PICK k, m : k = desc[th[n].fd] /\ m = toS[k][1]
  OBVIOUS
<1>1. /\ k \in Conns /\ k \in 1 .. Len(owner) /\ m \in Msg /\ Handle(n, m)
      /\ toS[k] # <<>> /\ toS[k] \in Seq(Msg) /\ Len(toS[k]) \in Nat /\ Len(toS[k]) > 0
      /\ toS' \in [Conns -> Seq(Msg)] /\ \A j \in Conns : j # k => toS'[j] = toS[j]
      /\ Len(toS'[k]) = Len(toS[k]) - 1
      /\ \A i \in 1 .. Len(toS'[k]) : i + 1 \in 1 .. Len(toS[k]) /\ toS'[k][i] = toS[k][i + 1]
  <2>1. TakesOne(n, k, m)
    BY RecvTakes
  <2> QED BY <2>1 DEF TakesOne
<1>2. /\ Len(srows) \in Nat /\ owner' = owner /\ replays' = replays /\ replays \in Nat
      /\ srows' \in Seq(Pids)
      /\ m.op = "MAKE_PARTNER" => Len(srows') = Len(srows) + 1
      /\ m.op # "MAKE_PARTNER" => srows' = srows
  <2>1. replays' = replays /\ replays \in Nat
    BY PartnerNumbers DEF Recv, PartnersTypeOK
  <2> QED BY <1>1, <2>1, HandleRows
<1>3. \A i \in DOMAIN toS'[k] : toS'[k][i].op # "MAKE_PARTNER"
  <2> SUFFICES ASSUME NEW i \in DOMAIN toS'[k] PROVE toS'[k][i].op # "MAKE_PARTNER"
    OBVIOUS
  <2>1. toS'[k] \in Seq(Msg) /\ i \in 1 .. Len(toS'[k]) /\ DOMAIN toS[k] = 1 .. Len(toS[k])
    BY SMTT(60), <1>1
  <2>2. i \in Nat /\ i > 0 /\ i + 1 # 1
    BY SMTT(60), <1>1, <2>1
  <2>3. i + 1 \in DOMAIN toS[k] /\ toS'[k][i] = toS[k][i + 1]
    BY <1>1, <2>1
  <2> QED BY <1>1, <2>2, <2>3 DEF RowsInv
<1>4. ~Asked(k)'
  <2>1. toS'[k] # <<>> => 1 \in DOMAIN toS'[k]
    BY SMTT(60), <1>1
  <2> QED BY <1>3, <2>1 DEF Asked
<1>5. \A j \in 1 .. Len(owner) : j # k => (Asked(j)' <=> Asked(j))
  BY <1>1, PartnersTyped DEF Asked
<1> PICK A, B : A = {j \in 1 .. Len(owner) : ~Asked(j)} /\ B = {j \in 1 .. Len(owner) : ~Asked(j)'}
  OBVIOUS
<1>6. B = A \union {k}
  BY <1>1, <1>4, <1>5
<1>7. A \in SUBSET (1 .. Len(owner)) /\ IsFiniteSet(A) /\ Cardinality(A) \in Nat
  BY AskedCount
<1>8. Len(srows) <= replays + Cardinality(A)
  BY DEF RowsInv
<1>9. Asked(k) <=> m.op = "MAKE_PARTNER"
  BY <1>1 DEF Asked
<1>10. Len(srows') <= replays + Cardinality(B)
  <2>1. CASE m.op = "MAKE_PARTNER"
    <3>1. k \notin A
      BY <1>9, <2>1
    <3>2. Cardinality(B) = Cardinality(A) + 1
      BY <1>6, <1>7, <3>1, FS_AddElement
    <3> QED BY <1>2, <1>7, <1>8, <2>1, <3>2
  <2>2. CASE m.op # "MAKE_PARTNER"
    <3>1. B = A
      BY <1>1, <1>6, <1>9, <2>2
    <3> QED BY <1>2, <1>8, <2>2, <3>1
  <2> QED BY <2>1, <2>2
<1>11. (Len(srows) <= replays + Cardinality({j \in 1 .. Len(owner) : ~Asked(j)}))'
  <2>1. {j \in 1 .. Len(owner) : ~Asked(j)}' = B
    BY <1>2
  <2> QED BY <1>2, <1>10, <2>1
<1>12. \A j \in Conns : j > Len(owner') => toS'[j] = <<>>
  <2>1. \A j \in Conns : j > Len(owner) => j # k
    BY SMTT(60), <1>1, PartnersTyped
  <2> QED BY <1>1, <1>2, <2>1 DEF RowsInv
<1>13. \A j \in Conns : \A i \in DOMAIN toS'[j] : toS'[j][i].op = "MAKE_PARTNER" => i = 1
  BY <1>1, <1>3 DEF RowsInv
<1> QED BY <1>11, <1>12, <1>13 DEF RowsInv

\* The same for a message executed again.
LEMMA AgainRows ==
  ASSUME PartnersTypeOK, RowsInv, NEW n \in Conns, RecvAgain(n)
  PROVE  RowsInv' /\ replays' \in 0 .. MaxReplays /\ Handle(n, th[n].last) /\ th[n].last \in Msg
<1>1. /\ replays' = replays + 1 /\ replays < MaxReplays /\ replays \in Nat /\ toS' = toS
      /\ Handle(n, th[n].last) /\ th[n].last \in Msg
  BY PartnerNumbers, PartnersTyped DEF RecvAgain, PartnersTypeOK
<1>2. /\ Len(srows) \in Nat /\ owner' = owner /\ srows' \in Seq(Pids)
      /\ Len(srows') = Len(srows) + 1 \/ srows' = srows
  BY <1>1, HandleRows
<1> PICK A : A = {j \in 1 .. Len(owner) : ~Asked(j)}
  OBVIOUS
<1>3. Cardinality(A) \in Nat
  <2>1. A \in SUBSET (1 .. Len(owner))
    OBVIOUS
  <2> QED BY <2>1, AskedCount
<1>4. Len(srows) <= replays + Cardinality(A)
  BY DEF RowsInv
<1>5. Len(srows') <= replays' + Cardinality(A)
  BY <1>1, <1>2, <1>3, <1>4
<1>6. {j \in 1 .. Len(owner) : ~Asked(j)}' = A
  BY <1>1, <1>2 DEF Asked
<1>7. RowsInv'
  <2>1. (Len(srows) <= replays + Cardinality({j \in 1 .. Len(owner) : ~Asked(j)}))'
    BY <1>5, <1>6
  <2> QED BY <1>1, <1>2, <2>1 DEF RowsInv
<1>8. replays' \in 0 .. MaxReplays
  BY <1>1, PartnerNumbers
<1> QED BY <1>1, <1>7, <1>8

\* The thread that receives in a calm state receives from its own connection.
LEMMA OwnStream ==
  ASSUME PartnersInv, Calm, NEW n \in Conns, Open(n)
  PROVE  /\ desc[th[n].fd] = n /\ n \in 1 .. Len(owner) /\ th[n].fd \in Fds
         /\ th[n].last.op # "REMOVE_PARTNER" /\ th[n].pc = "recv"
         /\ \A f \in Fds : desc[f] = n => f = th[n].fd
         /\ PartnersTypeOK /\ DescInv /\ running /\ ThreadInv /\ MakerInv /\ LineInv
         /\ Ordered(n)
<1>1. PartnersTypeOK /\ DescInv /\ running /\ ThreadInv /\ MakerInv /\ LineInv
  BY DEF PartnersInv
<1>2. /\ th[n].pc = "recv" /\ desc[th[n].fd] \in Conns /\ th[n].fd \in Fds
  BY <1>1, PartnersTyped DEF Open
<1>3. desc[th[n].fd] = n /\ th[n].last.op # "REMOVE_PARTNER"
  BY <1>1, <1>2, PartnerNumbers DEF ThreadInv
<1>4. n \in 1 .. Len(owner)
  <2>1. ~(n > accepted)
    BY <1>1, <1>2 DEF ThreadInv
  <2> QED BY <1>1, <2>1, PartnersTyped, PartnerNumbers DEF Conns
<1>5. \A f \in Fds : desc[f] = n => f = th[n].fd
  BY <1>1, <1>2, <1>3 DEF DescInv
<1>6. Ordered(n)
  BY <1>1, <1>4 DEF LineInv
<1> QED BY <1>1, <1>2, <1>3, <1>4, <1>5, <1>6

\* A handler makes no state calm, and a calm MAKE_PARTNER enters the next row over
\* the connection accepted last.
LEMMA HandleCalm ==
  ASSUME PartnersTypeOK, NEW n \in Conns, NEW m \in Msg, Handle(n, m), Calm'
  PROVE  Calm /\ (m.op = "MAKE_PARTNER" => m.pid = Len(srows) /\ desc[latest] = desc[th[n].fd])
<1>1. hurried' = hurried /\ srows \in Seq(Pids) /\ Len(srows) \in Nat
  BY LenProperties DEF Handle, PartnersTypeOK
<1>2. CASE m.op = "MAKE_PARTNER"
  <2>1. /\ MakePartner(n, m)
        /\ overtaken' = IF desc[latest] # desc[th[n].fd] THEN overtaken \union {m.pid} ELSE overtaken
    BY <1>2 DEF Handle
  <2>2. overtaken = {} /\ desc[latest] = desc[th[n].fd]
    BY <2>1 DEF Calm
  <2>3. /\ srows' \in Seq(Pids) /\ Len(srows') = Len(srows) + 1 /\ srows'[Len(srows) + 1] = m.pid
        /\ \A i \in 1 .. Len(srows) : srows'[i] = srows[i]
    BY <2>1, MakePartnerDoes
  <2>4. \A i \in 1 .. Len(srows) + 1 : srows'[i] = i - 1
    BY <2>3 DEF Calm, RowsInOrder
  <2>5. m.pid = Len(srows)
    BY <1>1, <2>3, <2>4
  <2>6. RowsInOrder
    BY <1>1, <2>3, <2>4 DEF RowsInOrder
  <2> QED BY <1>1, <2>2, <2>5, <2>6 DEF Calm
<1>3. CASE m.op # "MAKE_PARTNER"
  <2>1. srows' = srows /\ overtaken' = overtaken
    BY <1>3, HandleRows DEF Handle
  <2> QED BY <1>1, <1>3, <2>1 DEF Calm, RowsInOrder
<1> QED BY <1>2, <1>3

\* What is left of a stream.
LEMMA OneLess ==
  \A x \in Nat : x > 0 => IF x = 1 THEN x - 1 = 0
                                   ELSE x - 1 > 0 /\ x - 1 \in 1 .. x - 1 /\ (x - 1) + 1 = x
  OBVIOUS

\* The stream of a connection after its first message was taken.
LEMMA TailOrdered ==
  ASSUME NEW n \in Conns, NEW m, TakesOne(n, n, m), Ordered(n), AwaitsAck(n)' <=> AwaitsAck(n),
         hungUp' = hungUp, m.op # "SYN" => toC'[n] = toC[n],
         m.op = "SYN" => toC'[n] # <<>> /\ Len(toC'[n]) = 1
  PROVE  Ordered(n)'
<1> PICK N : N = Len(toS[n])
  OBVIOUS
<1>0. N \in Nat /\ N > 0
  BY DEF TakesOne
<1>1. /\ N \in Nat /\ N > 0 /\ 1 \in 1 .. N /\ m = toS[n][1] /\ Len(toS'[n]) = N - 1
      /\ th'[n].last = m
      /\ \A i \in 1 .. N - 1 : i + 1 \in 1 .. N /\ i + 1 # 1 /\ toS'[n][i] = toS[n][i + 1]
  <2>1. 1 \in 1 .. N
    BY <1>0
  <2>2. m = toS[n][1] /\ Len(toS'[n]) = N - 1 /\ th'[n].last = m
    BY DEF TakesOne
  <2>3. \A i \in 1 .. Len(toS'[n]) : i + 1 \in 1 .. Len(toS[n]) /\ toS'[n][i] = toS[n][i + 1]
    BY DEF TakesOne
  <2>4. \A i \in 1 .. N - 1 : i + 1 # 1
    BY <1>0
  <2> QED BY <1>0, <2>1, <2>2, <2>3, <2>4
<1>2. /\ m.op \notin {"none", "SYN_ACK"} /\ (m.op = "SYN" => 1 = N /\ AwaitsAck(n) /\ toC[n] = <<>>)
      /\ (m.op = "REMOVE_PARTNER" => 1 = N /\ n \in hungUp)
  BY <1>1 DEF Ordered
<1>3. /\ AwaitsAck(n) => IF toC[n] = <<>> THEN N > 0 /\ toS[n][N].op = "SYN" ELSE N = 0
      /\ toC[n] # <<>> => AwaitsAck(n) /\ Len(toC[n]) = 1
  BY DEF Ordered
<1>4. toC[n] = <<>> /\ (AwaitsAck(n) => toS[n][N].op = "SYN")
  BY <1>1, <1>3
<1>5. ASSUME NEW i \in 1 .. N - 1
      PROVE  /\ toS'[n][i].op \notin {"none", "SYN_ACK", "MAKE_PARTNER"}
             /\ toS'[n][i].op = "SYN" => i = N - 1 /\ AwaitsAck(n)
             /\ toS'[n][i].op = "REMOVE_PARTNER" => i = N - 1 /\ n \in hungUp
  <2>1. /\ toS'[n][i] = toS[n][i + 1] /\ i + 1 \in 1 .. N /\ i + 1 # 1 /\ i \in Nat
    BY <1>1
  <2>3. i + 1 = N => i = N - 1
    BY <1>0
  <2>2. \A j \in 1 .. N : /\ toS[n][j].op \notin {"none", "SYN_ACK"}
                          /\ toS[n][j].op = "MAKE_PARTNER" => j = 1
                          /\ toS[n][j].op = "SYN" => j = N /\ AwaitsAck(n)
                          /\ toS[n][j].op = "REMOVE_PARTNER" => j = N /\ n \in hungUp
    BY DEF Ordered
  <2> QED BY <2>1, <2>2, <2>3
<1>6. N # 1 => m.op \notin {"SYN", "REMOVE_PARTNER"} /\ N - 1 > 0
  BY <1>0, <1>2, OneLess
<1>7. AwaitsAck(n) => IF N = 1 THEN m.op = "SYN" ELSE N - 1 > 0 /\ toS'[n][N - 1].op = "SYN"
  <2>1. N # 1 => N - 1 \in 1 .. N - 1 /\ (N - 1) + 1 = N
    BY <1>0, OneLess
  <2> QED BY <1>1, <1>4, <1>6, <2>1
<1>8. N = 1 => N - 1 = 0
  BY <1>0
<1>9. SUFFICES
        /\ \A i \in 1 .. N - 1 :
             /\ toS'[n][i].op \notin {"none", "SYN_ACK"}
             /\ toS'[n][i].op = "MAKE_PARTNER" <=> i = 1 /\ m.op = "none"
             /\ toS'[n][i].op = "SYN" => i = N - 1 /\ AwaitsAck(n) /\ toC'[n] = <<>>
             /\ toS'[n][i].op = "REMOVE_PARTNER" => i = N - 1 /\ n \in hungUp
        /\ m.op = "none" => N - 1 > 0
        /\ m.op = "SYN" /\ N - 1 = 0 => AwaitsAck(n) /\ toC'[n] # <<>>
        /\ m.op = "REMOVE_PARTNER" => N - 1 = 0 /\ n \in hungUp
        /\ AwaitsAck(n) => IF toC'[n] = <<>> THEN N - 1 > 0 /\ toS'[n][N - 1].op = "SYN" ELSE N - 1 = 0
        /\ toC'[n] # <<>> => AwaitsAck(n) /\ Len(toC'[n]) = 1
  BY <1>1 DEF Ordered
<1>10. \A i \in 1 .. N - 1 : N # 1
  BY <1>1
<1>11. CASE m.op = "SYN"
  BY <1>2, <1>5, <1>8, <1>10, <1>11
<1>12. CASE m.op # "SYN"
  <2>1. toC'[n] = <<>>
    BY <1>4, <1>12
  <2> QED BY <1>2, <1>4, <1>5, <1>6, <1>7, <1>8, <1>12, <2>1
<1> QED BY <1>11, <1>12

\* The partner of a connection after its first message was taken.
LEMMA TailServes ==
  ASSUME NEW n \in Conns, NEW m, TakesOne(n, n, m), NEW p, Serves(n, p), m.op # "none",
         p < Len(srows'), srel'[p].state # "FREE",
         m.op # "REMOVE_PARTNER" => spart'[p].ops /\ maker'[p] = n,
         UNCHANGED <<cpart, owner>>
  PROVE  Serves(n, p)'
<1>1. /\ toS[n] \in Seq(Msg) /\ toS'[n] \in Seq(Msg) /\ 1 \in DOMAIN toS[n] /\ m = toS[n][1]
      /\ th'[n].last = m
      /\ \A i \in 1 .. Len(toS'[n]) : i + 1 \in 1 .. Len(toS[n]) /\ toS'[n][i] = toS[n][i + 1]
  BY DEF TakesOne
<1>2. DOMAIN toS[n] = 1 .. Len(toS[n]) /\ DOMAIN toS'[n] = 1 .. Len(toS'[n])
  BY <1>1
<1>3. \A i \in DOMAIN toS'[n] : toS'[n][i].op # "ACK" => toS'[n][i].pid = p
  BY SMTT(60), <1>1, <1>2 DEF Serves
<1>4. m.op # "ACK" => m.pid = p
  BY <1>1 DEF Serves
<1> QED BY <1>1, <1>3, <1>4 DEF Serves

\* The connections after a message of one of them.
LEMMA LineOfOne ==
  ASSUME PartnersTypeOK, LineInv, NEW n \in 1 .. Len(owner),
         UNCHANGED <<cpart, ctl, owner, hungUp>>,
         \A j \in Conns : j # n => toS'[j] = toS[j] /\ toC'[j] = toC[j] /\ th'[j].last = th[j].last,
         \A j \in 1 .. Len(owner) : \A q \in Pids : j # n /\ Serves(j, q) => Serves(j, q)',
         Ordered(n)', \E p \in Pids : Serves(n, p)'
  PROVE  LineInv'
<1>1. n \in Conns /\ Len(owner) \in Nat /\ 1 .. Len(owner) \subseteq Conns
  BY PartnersTyped
<1>2. \A k : AwaitsAck(k)' <=> AwaitsAck(k)
  BY DEF AwaitsAck
<1>3. \A j \in 1 .. Len(owner) : Ordered(j)'
  BY <1>1, <1>2, OrderedSame DEF LineInv
<1>4. \A j \in 1 .. Len(owner) : \E q \in Pids : Serves(j, q)'
  BY DEF LineInv
<1>5. \A j \in Conns : j > Len(owner) => j # n
  BY <1>1
<1>6. \A j \in Conns : j > Len(owner) => toC'[j] = <<>>
  BY <1>5 DEF LineInv
<1> QED BY <1>3, <1>4, <1>6 DEF LineInv

\* The threads after a message of one of them.
LEMMA ThreadsOfOne ==
  ASSUME ThreadInv, NEW n \in Conns, th[n].pc = "recv", th'[n].pc = "recv",
         desc'[th'[n].fd] = IF th'[n].last.op = "REMOVE_PARTNER" THEN Shut ELSE n,
         \A j \in Conns : j # n => th'[j] = th[j],
         UNCHANGED <<accepted, latest, arg>>,
         \A j \in Conns : j # n /\ th[j].pc = "recv" => desc'[th[j].fd] = desc[th[j].fd],
         \A j \in Conns : th[j].pc \in {"new", "set"} =>
            desc'[latest] = desc[latest] /\ connFd'[th[j].pid] = connFd[th[j].pid]
  PROVE  ThreadInv'
<1> SUFFICES ASSUME NEW k \in Conns
             PROVE  /\ th'[k].pc = "none" <=> k > accepted
                    /\ th'[k].pc \in {"none", "new", "set"} => th'[k].last = NoMsg
                    /\ th'[k].pc \in {"new", "set"} => k = accepted /\ desc'[latest] = k
                    /\ th'[k].pc = "new" => arg[th'[k].slot].fd = latest
                    /\ th'[k].pc = "set" => connFd'[th'[k].pid] = latest
                    /\ th'[k].pc = "recv" =>
                         desc'[th'[k].fd] = IF th'[k].last.op = "REMOVE_PARTNER" THEN Shut ELSE k
                    /\ th'[k].pc = "gone" => th'[k].last.op = "REMOVE_PARTNER"
  BY DEF ThreadInv
<1>1. CASE k = n
  BY <1>1 DEF ThreadInv
<1>2. CASE k # n
  <2>1. /\ th[k].pc = "none" <=> k > accepted
        /\ th[k].pc \in {"none", "new", "set"} => th[k].last = NoMsg
        /\ th[k].pc \in {"new", "set"} => k = accepted /\ desc[latest] = k
        /\ th[k].pc = "new" => arg[th[k].slot].fd = latest
        /\ th[k].pc = "set" => connFd[th[k].pid] = latest
        /\ th[k].pc = "recv" =>
             desc[th[k].fd] = IF th[k].last.op = "REMOVE_PARTNER" THEN Shut ELSE k
        /\ th[k].pc = "gone" => th[k].last.op = "REMOVE_PARTNER"
    BY DEF ThreadInv
  <2>2. th'[k] = th[k]
    BY <1>2
  <2> QED BY <1>2, <2>1, <2>2
<1> QED BY <1>1, <1>2

\* What a receive thread has before it takes a message that is not the first.
LEMMA LaterMessage ==
  ASSUME PartnersInv, Calm, NEW n \in Conns, Open(n), NEW m, TakesOne(n, n, m),
         m.op # "MAKE_PARTNER"
  PROVE  /\ m.op \in {"SYN", "ACK", "REMOVE_PARTNER", "RM_RELATION"}
         /\ \E p \in Pids : /\ Serves(n, p) /\ spart[p].ops /\ maker[p] = n /\ p < Len(srows)
                            /\ srel[p].state # "FREE" /\ (m.op # "ACK" => m.pid = p)
         /\ m.op = "SYN" => n \notin hungUp /\ toC[n] = <<>>
<1>1. Ordered(n) /\ n \in 1 .. Len(owner) /\ LineInv /\ th[n].last.op # "REMOVE_PARTNER"
  BY OwnStream
<1>2. /\ 1 \in 1 .. Len(toS[n]) /\ m = toS[n][1] /\ m \in Msg /\ 1 \in DOMAIN toS[n]
  BY DEF TakesOne
<1>3. m.op \notin {"none", "SYN_ACK"} /\ th[n].last.op # "none"
  BY <1>1, <1>2 DEF Ordered
<1>4. m.op \in {"SYN", "ACK", "REMOVE_PARTNER", "RM_RELATION"}
  BY <1>2, <1>3 DEF Msg
<1>5. PICK p \in Pids : Serves(n, p)
  BY <1>1 DEF LineInv
<1>6. /\ spart[p].ops /\ maker[p] = n /\ p < Len(srows) /\ srel[p].state # "FREE"
      /\ m.op # "ACK" => m.pid = p
  BY <1>1, <1>2, <1>3, <1>5 DEF Serves
<1>7. m.op = "SYN" => AwaitsAck(n) /\ toC[n] = <<>>
  BY <1>1, <1>2 DEF Ordered
<1>8. m.op = "SYN" => n \notin hungUp
  BY <1>1, <1>7, WaitingOn
<1> QED BY <1>4, <1>5, <1>6, <1>7, <1>8

\* The invariant that is at stake while it is calm.
CalmInv == running /\ ThreadInv /\ MakerInv /\ LineInv

\* A partner is made: it is a new one, and nothing served another under its number.
LEMMA MadeCalm ==
  ASSUME PartnersInv, Calm, NEW n \in Conns, Open(n), NEW m, TakesOne(n, n, m),
         m.op = "MAKE_PARTNER", m.pid = Len(srows), desc[latest] = n
  PROVE  CalmInv'
<1>1. /\ desc[th[n].fd] = n /\ n \in 1 .. Len(owner) /\ running /\ ThreadInv /\ MakerInv /\ LineInv
      /\ PartnersTypeOK /\ Ordered(n) /\ th[n].pc = "recv" /\ 1 .. Len(owner) \subseteq Conns
  BY OwnStream, PartnersTyped
<1> PICK p : p = m.pid
  OBVIOUS
<1>2. /\ m \in Msg /\ p \in Pids /\ p \in Slots /\ 1 \in 1 .. Len(toS[n]) /\ m = toS[n][1]
      /\ 1 \in DOMAIN toS[n] /\ Handle(n, m)
  BY PartnerNumbers DEF TakesOne, Msg
<1>3. MakePartner(n, m) /\ maker' = [maker EXCEPT ![p] = n]
  BY <1>1, <1>2 DEF Handle
<1>4. /\ UNCHANGED <<running, toC, desc>> /\ spart'[p] = ServerEntry(p, latest)
      /\ srel'[p].state = "IN_USE"
      /\ \A q \in Slots : q # p => spart'[q] = spart[q] /\ srel'[q] = srel[q]
      /\ Len(srows) \in Nat /\ Len(srows') = Len(srows) + 1
  BY <1>1, <1>2, <1>3, MakePartnerDoes
<1>5. UNCHANGED <<cpart, ctl, owner, hungUp, accepted, latest, arg>>
  BY <1>2 DEF Handle, clientVars
<1>6. /\ th'[n].last = m /\ th'[n].pc = "recv" /\ th'[n].fd = th[n].fd
      /\ \A j \in Conns : j # n => th'[j] = th[j] /\ toS'[j] = toS[j]
  BY DEF TakesOne
<1>7. p = Len(srows) /\ p < Len(srows') /\ \A q \in Slots : q < Len(srows) => q < Len(srows') /\ q # p
  <2>1. \A q \in Slots : q \in Nat
    BY PartnerNumbers
  <2>2. Len(srows) \in Nat /\ Len(srows') = Len(srows) + 1
    BY <1>4
  <2>3. p = Len(srows)
    OBVIOUS
  <2> QED BY <2>1, <2>2, <2>3
<1>8. maker'[p] = n /\ \A q \in Slots : q # p => maker'[q] = maker[q]
  <2>1. maker \in [Slots -> Conns \union {0}]
    BY <1>1 DEF PartnersTypeOK
  <2> QED BY <1>2, <1>3, <2>1
<1>9. spart'[p].ops /\ spart'[p].id = p /\ spart'[p].sock = latest
  BY <1>4 DEF ServerEntry
<1>10. ~spart[p].ops
  BY <1>1, <1>2, <1>4, <1>7 DEF MakerInv
<1>11. th[n].last.op = "none"
  BY <1>1, <1>2 DEF Ordered
<1>12. ThreadInv'
  <2>1. \A j \in Conns : th[j].pc \notin {"new", "set"}
    BY <1>1 DEF ThreadInv
  <2> QED BY <1>1, <1>4, <1>5, <1>6, <2>1, ThreadsOfOne
<1>13. MakerInv'
  <2>1. \A q \in Slots : q # p /\ spart[q].ops => maker[q] # n
    BY <1>1, <1>11 DEF MakerInv
  <2>2. ASSUME NEW q \in Slots, spart'[q].ops
        PROVE  /\ q < Len(srows') /\ spart'[q].id = q
               /\ maker'[q] \in Conns /\ desc[spart'[q].sock] = maker'[q]
               /\ th'[maker'[q]].last.op # "none"
               /\ \A r \in Slots : spart'[r].ops /\ maker'[r] = maker'[q] => r = q
    <3>1. CASE q = p
      <4>1. \A r \in Slots : r # p /\ spart'[r].ops => maker'[r] # n
        BY <1>4, <1>8, <2>1
      <4> QED BY <1>6, <1>7, <1>8, <1>9, <3>1, <4>1
    <3>2. CASE q # p
      <4>1. spart'[q] = spart[q] /\ maker'[q] = maker[q] /\ spart[q].ops
        BY <1>4, <1>8, <2>2, <3>2
      <4>2. /\ q < Len(srows) /\ spart[q].id = q /\ maker[q] \in Conns
            /\ desc[spart[q].sock] = maker[q] /\ th[maker[q]].last.op # "none"
            /\ \A r \in Slots : spart[r].ops /\ maker[r] = maker[q] => r = q
        BY <1>1, <4>1 DEF MakerInv
      <4>3. maker[q] # n
        BY <2>1, <3>2, <4>1
      <4>4. th'[maker[q]] = th[maker[q]]
        BY <1>6, <4>2, <4>3
      <4>5. \A r \in Slots : spart'[r].ops /\ maker'[r] = maker[q] => r = q
        BY <1>4, <1>8, <4>2, <4>3
      <4> QED BY <1>7, <4>1, <4>2, <4>4, <4>5
    <3> QED BY <3>1, <3>2
  <2> QED BY <1>4, <2>2 DEF MakerInv
<1>14. LineInv'
  <2>1. AwaitsAck(n)' <=> AwaitsAck(n)
    BY <1>5 DEF AwaitsAck
  <2>2. Ordered(n)'
    BY <1>1, <1>4, <1>5, <2>1, TailOrdered
  <2>3. PICK r \in Pids : Serves(n, r)
    BY <1>1 DEF LineInv
  <2>4. r = p
    BY <1>2, <2>3 DEF Serves
  <2>5. Serves(n, p)'
    BY <1>4, <1>5, <1>7, <1>8, <1>9, <2>3, <2>4, TailServes
  <2>6. ASSUME NEW j \in 1 .. Len(owner), NEW q \in Pids, j # n, Serves(j, q) PROVE Serves(j, q)'
    <3>1. q \in Slots /\ j \in Conns
      BY <1>1, PartnerNumbers
    <3>2. srel[q].state # "FREE" => srel'[q].state # "FREE"
      BY <1>4, <3>1
    <3>3. spart[q].ops /\ maker[q] = j => spart'[q].ops /\ maker'[q] = j
      BY <1>4, <1>8, <1>10, <3>1
    <3>4. toS'[j] = toS[j] /\ th'[j].last = th[j].last
      BY <1>6, <2>6, <3>1
    <3> QED BY <1>5, <1>7, <2>6, <3>1, <3>2, <3>3, <3>4, ServesSame
  <2> QED BY <1>1, <1>2, <1>4, <1>5, <1>6, <2>2, <2>5, <2>6, LineOfOne
<1> QED BY <1>1, <1>4, <1>12, <1>13, <1>14 DEF CalmInv

\* A message that leaves descriptors, rows and entries as they are.
LEMMA QuietCalm ==
  ASSUME PartnersInv, Calm, NEW n \in Conns, Open(n), NEW m, TakesOne(n, n, m),
         m.op \notin {"MAKE_PARTNER", "REMOVE_PARTNER"},
         UNCHANGED <<running, spart, srows, desc, connFd, maker>>,
         \A q \in Slots : srel[q].state # "FREE" => srel'[q].state # "FREE",
         \A j \in Conns : j # n => toC'[j] = toC[j],
         m.op # "SYN" => toC'[n] = toC[n],
         m.op = "SYN" => toC'[n] # <<>> /\ Len(toC'[n]) = 1
  PROVE  CalmInv'
<1>1. /\ desc[th[n].fd] = n /\ n \in 1 .. Len(owner) /\ running /\ ThreadInv /\ MakerInv /\ LineInv
      /\ PartnersTypeOK /\ Ordered(n) /\ th[n].pc = "recv" /\ 1 .. Len(owner) \subseteq Conns
  BY OwnStream, PartnersTyped
<1>2. m \in Msg /\ Handle(n, m)
  BY DEF TakesOne
<1>3. UNCHANGED <<cpart, ctl, owner, hungUp, accepted, latest, arg>>
  BY <1>2 DEF Handle, clientVars
<1>4. /\ th'[n].last = m /\ th'[n].pc = "recv" /\ th'[n].fd = th[n].fd
      /\ \A j \in Conns : j # n => th'[j] = th[j] /\ toS'[j] = toS[j]
  BY DEF TakesOne
<1>5. m.op # "none" /\ \E p \in Pids : /\ Serves(n, p) /\ spart[p].ops /\ maker[p] = n /\ p < Len(srows)
                                       /\ srel[p].state # "FREE"
  BY LaterMessage
<1>6. ThreadInv'
  BY <1>1, <1>3, <1>4, ThreadsOfOne
<1>7. MakerInv'
  <2>1. \A k \in Conns : th[k].last.op # "none" => th'[k].last.op # "none"
    BY <1>4, <1>5
  <2> QED BY <1>1, <2>1 DEF MakerInv
<1>8. LineInv'
  <2>1. AwaitsAck(n)' <=> AwaitsAck(n)
    BY <1>3 DEF AwaitsAck
  <2>2. Ordered(n)'
    BY <1>1, <1>3, <2>1, TailOrdered
  <2>3. PICK p \in Pids : /\ Serves(n, p) /\ spart[p].ops /\ maker[p] = n /\ p < Len(srows)
                          /\ srel[p].state # "FREE"
    BY <1>5
  <2>4. Serves(n, p)'
    BY <1>3, <1>5, <2>3, PartnerNumbers, TailServes
  <2>5. ASSUME NEW j \in 1 .. Len(owner), NEW q \in Pids, j # n, Serves(j, q) PROVE Serves(j, q)'
    <3>1. q \in Slots /\ j \in Conns
      BY <1>1, PartnerNumbers
    <3>2. srel[q].state # "FREE" => srel'[q].state # "FREE"
      BY <3>1
    <3>3. toS'[j] = toS[j] /\ th'[j].last = th[j].last
      BY <1>4, <2>5, <3>1
    <3> QED BY <1>3, <2>5, <3>2, <3>3, ServesSame
  <2> QED BY <1>1, <1>3, <1>4, <2>2, <2>4, <2>5, LineOfOne
<1> QED BY <1>1, <1>6, <1>7, <1>8 DEF CalmInv

\* A partner is removed: its descriptor is the one its thread receives on.
LEMMA RemovedCalm ==
  ASSUME PartnersInv, Calm, NEW n \in Conns, Open(n), NEW m, TakesOne(n, n, m),
         m.op = "REMOVE_PARTNER"
  PROVE  CalmInv'
<1>1. /\ desc[th[n].fd] = n /\ n \in 1 .. Len(owner) /\ running /\ ThreadInv /\ MakerInv /\ LineInv
      /\ PartnersTypeOK /\ Ordered(n) /\ th[n].pc = "recv" /\ 1 .. Len(owner) \subseteq Conns
      /\ th[n].fd \in Fds
  BY OwnStream, PartnersTyped
<1>2. m \in Msg /\ Handle(n, m)
  BY DEF TakesOne
<1>3. UNCHANGED <<cpart, ctl, owner, hungUp, accepted, latest, arg>> /\ latest \in Fds
  BY <1>1, <1>2 DEF Handle, clientVars, PartnersTypeOK
<1>4. /\ th'[n].last = m /\ th'[n].pc = "recv" /\ th'[n].fd = th[n].fd
      /\ \A j \in Conns : j # n => th'[j] = th[j] /\ toS'[j] = toS[j]
  BY DEF TakesOne
<1>5. PICK p \in Pids : /\ Serves(n, p) /\ spart[p].ops /\ maker[p] = n /\ p < Len(srows)
                        /\ srel[p].state # "FREE" /\ m.pid = p
  BY LaterMessage
<1>6. RemovePartner(n, m) /\ UNCHANGED maker
  BY <1>2 DEF Handle
<1> PICK f : f = spart[p].sock
  OBVIOUS
<1>7. p \in Slots /\ f \in Fds /\ desc[f] = n /\ f = th[n].fd
  <2>1. p \in Slots
    BY PartnerNumbers
  <2>2. f \in Fds
    BY <1>1, <2>1 DEF PartnersTypeOK
  <2>3. desc[f] = n
    BY <1>1, <1>5, <2>1 DEF MakerInv
  <2> QED BY <2>1, <2>2, <2>3, OwnStream
<1>8. /\ UNCHANGED <<running, srows, connFd, toC>> /\ desc'[f] = Shut /\ ~spart'[p].ops
      /\ \A g \in Fds : g # f => desc'[g] = desc[g]
      /\ \A q \in Slots : q # p => spart'[q] = spart[q]
      /\ \A q \in Slots : srel[q].state # "FREE" => srel'[q].state # "FREE"
  BY <1>1, <1>2, <1>5, <1>6, RemovePartnerDoes
<1>9. ThreadInv'
  <2>1. \A j \in Conns : j # n /\ th[j].pc = "recv" => desc'[th[j].fd] = desc[th[j].fd]
    <3> SUFFICES ASSUME NEW j \in Conns, j # n, th[j].pc = "recv" PROVE desc'[th[j].fd] = desc[th[j].fd]
      OBVIOUS
    <3>1. th[j].fd \in Fds /\ desc[th[j].fd] \in {j, Shut}
      BY <1>1, PartnersTyped DEF ThreadInv
    <3>2. th[j].fd # f
      BY <1>7, <3>1, PartnerNumbers
    <3> QED BY <1>8, <3>1, <3>2
  <2>2. \A j \in Conns : th[j].pc \in {"new", "set"} => desc'[latest] = desc[latest]
    <3> SUFFICES ASSUME NEW j \in Conns, th[j].pc \in {"new", "set"} PROVE desc'[latest] = desc[latest]
      OBVIOUS
    <3>1. desc[latest] = j /\ j # n
      BY <1>1 DEF ThreadInv
    <3> QED BY <1>3, <1>7, <1>8, <3>1
  <2>3. desc'[th'[n].fd] = IF th'[n].last.op = "REMOVE_PARTNER" THEN Shut ELSE n
    BY <1>4, <1>7, <1>8
  <2> QED BY <1>1, <1>3, <1>4, <1>8, <2>1, <2>2, <2>3, ThreadsOfOne
<1>10. MakerInv'
  <2> SUFFICES ASSUME NEW q \in Slots, spart'[q].ops
               PROVE  /\ q < Len(srows) /\ spart'[q].id = q
                      /\ maker[q] \in Conns /\ desc'[spart'[q].sock] = maker[q]
                      /\ th'[maker[q]].last.op # "none"
                      /\ \A r \in Slots : spart'[r].ops /\ maker[r] = maker[q] => r = q
    BY <1>6, <1>8 DEF MakerInv
  <2>1. q # p /\ spart'[q] = spart[q] /\ spart[q].ops
    BY <1>8
  <2>2. /\ q < Len(srows) /\ spart[q].id = q /\ maker[q] \in Conns
        /\ desc[spart[q].sock] = maker[q] /\ th[maker[q]].last.op # "none"
        /\ \A r \in Slots : spart[r].ops /\ maker[r] = maker[q] => r = q
    BY <1>1, <2>1 DEF MakerInv
  <2>3. maker[q] # n
    BY <1>5, <1>7, <2>1, <2>2
  <2>4. spart[q].sock \in Fds /\ spart[q].sock # f
    BY <1>1, <1>7, <2>2, <2>3 DEF PartnersTypeOK
  <2>5. th'[maker[q]] = th[maker[q]]
    BY <1>4, <2>2, <2>3
  <2>6. \A r \in Slots : spart'[r].ops => spart[r].ops
    BY <1>8
  <2> QED BY <1>8, <2>1, <2>2, <2>4, <2>5, <2>6
<1>11. LineInv'
  <2>1. AwaitsAck(n)' <=> AwaitsAck(n)
    BY <1>3 DEF AwaitsAck
  <2>2. Ordered(n)'
    BY <1>1, <1>3, <1>8, <2>1, TailOrdered
  <2>3. Serves(n, p)'
    BY <1>3, <1>5, <1>7, <1>8, TailServes
  <2>4. ASSUME NEW j \in 1 .. Len(owner), NEW q \in Pids, j # n, Serves(j, q) PROVE Serves(j, q)'
    <3>1. q \in Slots /\ j \in Conns
      BY <1>1, PartnerNumbers
    <3>2. srel[q].state # "FREE" => srel'[q].state # "FREE"
      BY <1>8, <3>1
    <3>3. spart[q].ops /\ maker[q] = j => spart'[q].ops /\ maker'[q] = j
      BY <1>5, <1>6, <1>8, <2>4, <3>1
    <3>4. toS'[j] = toS[j] /\ th'[j].last = th[j].last
      BY <1>4, <2>4, <3>1
    <3> QED BY <1>3, <1>8, <2>4, <3>2, <3>3, <3>4, ServesSame
  <2> QED BY <1>1, <1>3, <1>4, <1>8, <2>2, <2>3, <2>4, LineOfOne
<1> QED BY <1>1, <1>8, <1>9, <1>10, <1>11 DEF CalmInv

\* A message is taken.
LEMMA PartnerRecvKeeps ==
  ASSUME PartnersInv, NEW n \in Conns, Recv(n) PROVE PartnersInv'
<1> PICK k, m : k = desc[th[n].fd] /\ m = toS[k][1]
  OBVIOUS
<1>1. PartnersTypeOK /\ DescInv /\ RowsInv /\ Open(n) /\ desc[th[n].fd] \in Conns
  BY DEF PartnersInv, Recv, Open
<1>2. TakesOne(n, k, m)
  BY <1>1, RecvTakes
<1>3. /\ m \in Msg /\ Handle(n, m) /\ toS' \in [Conns -> Seq(Msg)]
      /\ th' \in [Conns -> [pc : {"none", "new", "set", "recv", "gone"}, slot : Slots,
                            fd : Fds, pid : {0}, last : Msg]]
  BY <1>2 DEF TakesOne
<1>4. RowsInv'
  BY <1>1, RecvRows
<1>5. srows' \in Seq(Pids) /\ owner' = owner
  BY <1>1, <1>3, HandleRows
<1>6. replays' \in 0 .. MaxReplays
  BY <1>1 DEF Recv, PartnersTypeOK
<1>7. Len(srows') + 1 \in Slots
  BY <1>1, <1>4, <1>5, <1>6, RoomForRows
<1>8. PartnersTypeOK'
  BY <1>1, <1>3, <1>6, <1>7, HandleTyped
<1>9. DescInv'
  BY <1>1, <1>3, HandleDesc
<1>10. ASSUME Calm' PROVE CalmInv'
  <2>1. Calm /\ (m.op = "MAKE_PARTNER" => m.pid = Len(srows) /\ desc[latest] = desc[th[n].fd])
    BY <1>1, <1>3, <1>10, HandleCalm
  <2>2. k = n /\ TakesOne(n, n, m)
    BY <1>1, <1>2, <2>1, OwnStream
  <2>3. CASE m.op = "MAKE_PARTNER"
    BY <1>1, <2>1, <2>2, <2>3, MadeCalm
  <2>4. CASE m.op = "REMOVE_PARTNER"
    BY <1>1, <2>1, <2>2, <2>4, RemovedCalm
  <2>5. CASE m.op = "SYN"
    <3>1. SynReceived(n, m) /\ UNCHANGED maker
      BY <1>3, <2>5 DEF Handle
    <3>2. PICK p \in Pids : spart[p].ops /\ maker[p] = n /\ m.pid = p
      BY <1>1, <2>1, <2>2, <2>5, LaterMessage
    <3>3. n \notin hungUp /\ toC[n] = <<>>
      BY <1>1, <2>1, <2>2, <2>5, LaterMessage
    <3>4. desc[spart[m.pid].sock] = n
      BY <2>1, <3>2, PartnerNumbers DEF PartnersInv, MakerInv
    <3>5. /\ \A q \in Slots : srel'[q].state = srel[q].state
          /\ UNCHANGED <<spart, srows, shdr, connFd, desc, running>>
          /\ \A j \in Conns : j # n => toC'[j] = toC[j]
          /\ Len(toC[n]) \in Nat /\ Len(toC'[n]) = Len(toC[n]) + 1
      BY <1>1, <1>3, <3>1, <3>3, <3>4, SynDoes
    <3>6. Len(toC'[n]) = 1 /\ toC'[n] # <<>>
      <4>1. Len(toC'[n]) = 1
        BY <3>3, <3>5
      <4> QED BY <4>1
    <3> QED BY <1>1, <2>1, <2>2, <2>5, <3>1, <3>5, <3>6, QuietCalm
  <2>6. CASE m.op = "RM_RELATION"
    <3>1. RemoveRelation(n, m) /\ UNCHANGED maker
      BY <1>3, <2>6 DEF Handle
    <3>2. srel[m.pid].state # "FREE"
      BY <1>1, <2>1, <2>2, <2>6, LaterMessage
    <3>3. /\ UNCHANGED <<running, spart, srows, connFd, desc, toC>>
          /\ \A q \in Slots : srel[q].state # "FREE" => srel'[q].state # "FREE"
      BY <1>1, <1>3, <3>1, <3>2, RemoveRelationDoes
    <3> QED BY <1>1, <2>1, <2>2, <2>6, <3>1, <3>3, QuietCalm
  <2>7. CASE m.op \in {"ACK", "none"}
    <3>1. UNCHANGED <<running, spart, srel, srows, connFd, desc, toC, maker>>
      BY <1>3, <2>7 DEF Handle, tableVars
    <3> QED BY <1>1, <2>1, <2>2, <2>7, <3>1, QuietCalm
  <2> QED BY <1>3, <2>3, <2>4, <2>5, <2>6, <2>7 DEF Handle
<1> QED BY <1>4, <1>8, <1>9, <1>10 DEF PartnersInv, CalmInv

\* A message is executed again: in a calm state only RM_RELATION can be.
LEMMA RecvAgainKeeps ==
  ASSUME PartnersInv, NEW n \in Conns, RecvAgain(n) PROVE PartnersInv'
<1> PICK m : m = th[n].last
  OBVIOUS
<1>1. PartnersTypeOK /\ DescInv /\ RowsInv /\ Open(n) /\ desc[th[n].fd] \in Conns
  BY DEF PartnersInv, RecvAgain, Open
<1>2. RowsInv' /\ replays' \in 0 .. MaxReplays /\ Handle(n, m) /\ m \in Msg
  BY <1>1, AgainRows
<1>3. srows' \in Seq(Pids) /\ owner' = owner
  BY <1>1, <1>2, HandleRows
<1>4. Len(srows') + 1 \in Slots
  BY <1>1, <1>2, <1>3, RoomForRows
<1>5. toS' = toS /\ th' = th /\ m.op \notin {"none", "ACK"}
  BY DEF RecvAgain
<1>6. PartnersTypeOK'
  <2>1. /\ toS' \in [Conns -> Seq(Msg)]
        /\ th' \in [Conns -> [pc : {"none", "new", "set", "recv", "gone"}, slot : Slots,
                              fd : Fds, pid : {0}, last : Msg]]
    BY <1>1, <1>5 DEF PartnersTypeOK
  <2> QED BY <1>1, <1>2, <1>4, <2>1, HandleTyped
<1>7. DescInv'
  BY <1>1, <1>2, HandleDesc
<1>8. ASSUME Calm' PROVE CalmInv'
  <2>1. Calm /\ (m.op = "MAKE_PARTNER" => m.pid = Len(srows))
    BY <1>1, <1>2, <1>8, HandleCalm
  <2>2. /\ desc[th[n].fd] = n /\ n \in 1 .. Len(owner) /\ running /\ ThreadInv /\ MakerInv /\ LineInv
        /\ Ordered(n) /\ m.op # "REMOVE_PARTNER"
    BY <1>1, <2>1, OwnStream
  <2>3. toS[n] = <<>> /\ n \in hungUp
    BY <2>2 DEF RecvAgain
  <2>4. PICK p \in Pids : Serves(n, p)
    BY <2>2 DEF LineInv
  <2>5. m.pid = p /\ p < Len(srows) /\ srel[p].state # "FREE"
    BY <1>5, <2>4 DEF Serves
  <2>6. m.op # "MAKE_PARTNER"
    <3>1. p \in Nat /\ Len(srows) \in Nat
      BY <1>1, PartnerNumbers, LenProperties DEF PartnersTypeOK
    <3> QED BY <2>1, <2>5, <3>1
  <2>7. m.op # "SYN"
    <3>1. Len(toS[n]) = 0
      BY <2>3
    <3>2. m.op = "SYN" => AwaitsAck(n)
      BY <2>2, <3>1 DEF Ordered
    <3> QED BY <2>1, <2>2, <2>3, <3>2, WaitingOn
  <2>8. RemoveRelation(n, m) /\ UNCHANGED maker
    BY <1>2, <1>5, <2>2, <2>6, <2>7 DEF Handle
  <2>9. /\ UNCHANGED <<running, spart, srows, connFd, desc, toC>>
        /\ \A q \in Slots : srel[q].state # "FREE" => srel'[q].state # "FREE"
    BY <1>1, <1>2, <2>5, <2>8, RemoveRelationDoes
  <2>10. UNCHANGED <<cpart, ctl, owner, hungUp, accepted, latest, arg>>
    BY <1>2 DEF Handle, clientVars
  <2>11. ThreadInv'
    BY <1>5, <2>2, <2>9, <2>10 DEF ThreadInv
  <2>12. MakerInv'
    BY <1>5, <2>2, <2>8, <2>9 DEF MakerInv
  <2>13. LineInv'
    <3>1. \A k : AwaitsAck(k)' <=> AwaitsAck(k)
      BY <2>10 DEF AwaitsAck
    <3>2. \A k \in 1 .. Len(owner) : Ordered(k)'
      BY <1>5, <2>2, <2>9, <2>10, <3>1, OrderedSame DEF LineInv
    <3>3. \A k \in 1 .. Len(owner) : \A q \in Pids : Serves(k, q) => Serves(k, q)'
      BY <1>5, <2>8, <2>9, <2>10, PartnerNumbers, ServesSame
    <3>4. \A k \in 1 .. Len(owner) : \E q \in Pids : Serves(k, q)'
      BY <2>2, <3>3 DEF LineInv
    <3> QED BY <2>2, <2>9, <2>10, <3>2, <3>4 DEF LineInv
  <2> QED BY <2>2, <2>9, <2>11, <2>12, <2>13 DEF CalmInv
<1> QED BY <1>2, <1>6, <1>7, <1>8 DEF PartnersInv, CalmInv

-----------------------------------------------------------------------------
(* The invariant and what follows from it.                                 *)

\* The first state of the daemons.
LEMMA PartnersStart == PartnersInit => PartnersInv
<1> SUFFICES ASSUME PartnersInit PROVE PartnersInv
  OBVIOUS
<1>1. NoMsg \in Msg /\ NoThread.last = NoMsg /\ NoThread.pc = "none" /\ NoThread.pid = 0
  BY NoMsgIsMsg DEF NoThread
<1>2. owner = <<>> /\ Len(owner) = 0 /\ DOMAIN owner = {} /\ owner \in Seq(Clients) /\ 1 .. Len(owner) = {}
  BY DEF PartnersInit
<1>3. srows = <<>> /\ Len(srows) = 0 /\ DOMAIN srows = {} /\ srows \in Seq(Pids)
  BY DEF PartnersInit
<1>4. \A k \in Conns : toS[k] = <<>> /\ toC[k] = <<>> /\ th[k] = NoThread
  BY DEF PartnersInit
<1>5. PartnersTypeOK
  <2>1. cpart \in [Clients -> [Pids -> [id : Pids, state : States, sock : 0 .. MaxConns]]]
    BY PartnerNumbers DEF PartnersInit, FreePartner, States
  <2>2. /\ crows \in [Clients -> Seq(Pids)]
        /\ ctl \in [Clients -> [pc : {"idle", "syn", "down"}, pid : Pids]]
    BY PartnerNumbers DEF PartnersInit
  <2>3. /\ \A c \in Clients, p \in Pids : cpart[c][p].sock <= Len(owner)
        /\ \A c \in Clients : ctl[c].pc # "syn"
    BY <1>2 DEF PartnersInit, FreePartner
  <2>4. toS \in [Conns -> Seq(Msg)] /\ toC \in [Conns -> Seq(Msg)]
    BY DEF PartnersInit
  <2>5. /\ running \in BOOLEAN /\ accepted = 0 /\ accepted \in 0 .. Len(owner) /\ latest \in Fds
        /\ desc \in [Fds -> Conns \union {0, Shut}]
    BY <1>2, PartnerNumbers DEF PartnersInit, Stdin
  <2>6. spart \in [Slots -> [id : Pids, state : States, sock : Fds, ops : BOOLEAN]]
    BY PartnerNumbers DEF PartnersInit, States
  <2>7. /\ srel \in [Slots -> [state : States, answered : BOOLEAN]]
        /\ shdr \in [Slots -> Sizes \union {0}]
    BY DEF PartnersInit, States
  <2>8. arg \in [Slots -> [fd : Fds, pid : {0}]] /\ connFd \in [Slots -> Fds]
    BY PartnerNumbers DEF PartnersInit
  <2>9. th \in [Conns -> [pc : {"none", "new", "set", "recv", "gone"}, slot : Slots,
                          fd : Fds, pid : {0}, last : Msg]]
    BY <1>1, PartnerNumbers DEF PartnersInit, NoThread
  <2>10. maker \in [Slots -> Conns \union {0}] /\ replays \in 0 .. MaxReplays /\ hungUp = {}
    BY PartnerNumbers DEF PartnersInit
  <2>11. Len(srows) + 1 \in Slots /\ Len(owner) <= MaxConns
    BY <1>2, <1>3, PartnerNumbers
  <2> QED BY <1>2, <1>3, <2>1, <2>2, <2>3, <2>4, <2>5, <2>6, <2>7, <2>8, <2>9, <2>10, <2>11
          DEF PartnersTypeOK
<1>6. DescInv
  <2>1. \A f \in Fds : desc[f] \notin Conns /\ (desc[f] = 0 => f = Stdin)
    BY PartnerNumbers DEF PartnersInit
  <2>2. desc[latest] \in {accepted, Shut}
    BY PartnerNumbers DEF PartnersInit, Stdin
  <2> QED BY <2>1, <2>2 DEF DescInv
<1>7. RowsInv
  <2>1. replays = 0
    BY DEF PartnersInit
  <2>2. {k \in 1 .. Len(owner) : ~Asked(k)} = {}
    BY <1>2
  <2>3. Cardinality({}) = 0
    BY FS_EmptySet
  <2>4. Len(srows) <= replays + Cardinality({k \in 1 .. Len(owner) : ~Asked(k)})
    <3>1. Cardinality({k \in 1 .. Len(owner) : ~Asked(k)}) = 0
      BY <2>2, <2>3, Zenon
    <3> QED BY <1>3, <2>1, <3>1
  <2> QED BY <1>4, <2>4 DEF RowsInv
<1>8. running /\ \A p \in Slots : spart[p].ops = FALSE
  BY DEF PartnersInit
<1>9. ThreadInv
  <2>1. accepted = 0 /\ \A k \in Conns : k > accepted
    BY DEF PartnersInit, Conns
  <2> QED BY <1>1, <1>4, <2>1 DEF ThreadInv
<1>10. MakerInv
  BY <1>8 DEF MakerInv
<1>11. LineInv
  <2>1. hungUp = {}
    BY DEF PartnersInit
  <2> QED BY <1>2, <1>4, <2>1 DEF LineInv
<1> QED BY <1>5, <1>6, <1>7, <1>8, <1>9, <1>10, <1>11 DEF PartnersInv

\* A step that changes nothing.
LEMMA PartnersStay ==
  ASSUME PartnersInv, UNCHANGED partnersVars PROVE PartnersInv'
<1> USE DEF partnersVars, clientVars, netVars, tableVars, connVars, histVars
<1>1. ServerAlone
  BY DEF ServerAlone
<1>2. PartnersTypeOK'
  BY DEF PartnersInv, PartnersTypeOK
<1>3. RowsInv'
  BY DEF PartnersInv, RowsInv, Asked
<1>4. Calm => LineInv'
  BY SMTT(60) DEF PartnersInv, LineInv, Ordered, Serves, AwaitsAck
<1> QED BY <1>1, <1>2, <1>3, <1>4, AloneKeeps

\* The invariant of partners and relations: PartnersInv holds in every state, for
\* any number of clients, partners, connections and commands.
THEOREM PartnersInvariant == PartnersSpec => []PartnersInv
<1>1. PartnersInit => PartnersInv
  BY PartnersStart
<1>2. PartnersInv /\ [PartnersNext]_partnersVars => PartnersInv'
  <2> SUFFICES ASSUME PartnersInv, [PartnersNext]_partnersVars PROVE PartnersInv'
    OBVIOUS
  <2>1. ASSUME NEW c \in Clients, ClientStep(c) PROVE PartnersInv'
    BY <2>1, ClientStepKeeps
  <2>2. ASSUME Accept PROVE PartnersInv'
    BY <2>2, AcceptKeeps
  <2>3. ASSUME NEW n \in Conns, ThreadStep(n) PROVE PartnersInv'
    BY <2>3, ThreadStartKeeps, ThreadListenKeeps, PartnerRecvKeeps, RecvAgainKeeps, RecvErrorKeeps
    DEF ThreadStep
  <2>4. ASSUME NEW p \in Pids, NEW s \in Sizes, MkRelationServer(p, s) PROVE PartnersInv'
    BY <2>4, MkRelationServerKeeps
  <2>5. ASSUME UNCHANGED partnersVars PROVE PartnersInv'
    BY <2>5, PartnersStay
  <2> QED BY <2>1, <2>2, <2>3, <2>4, <2>5 DEF PartnersNext
<1> QED BY <1>1, <1>2, PTL DEF PartnersSpec

\* Tables, descriptors, messages and threads keep their kinds, and there is a slot
\* to spare for every row (the entry that accept takes when none is left uncreated).
THEOREM PartnersTypeCorrect == PartnersSpec => []PartnersTypeOK
<1>1. PartnersInv => PartnersTypeOK
  BY DEF PartnersInv
<1> QED BY <1>1, PartnersInvariant, PTL

\* While it is calm, the entry of a partner leads back to the connection it was
\* made over, however accept rereads the table and reuses descriptors.
THEOREM PartnersOwnSocket == PartnersSpec => []OwnSocket
<1>1. PartnersInv => OwnSocket
  BY PartnerNumbers DEF PartnersInv, MakerInv, OwnSocket
<1> QED BY <1>1, PartnersInvariant, PTL

\* A client runs into the timeout of its SYN only after a disturbance.
THEOREM PartnersStarved == PartnersSpec => []StarvedOnlyIfDisturbed
  BY NotStarved, PartnersInvariant, PTL

\* Commands of the clients bring the server down only after a disturbance: no
\* answer goes to a closed connection, no relation that was never made and no
\* partner that is gone is removed.
THEOREM PartnersServerSurvives == PartnersSpec => []ServerSurvives
<1>1. PartnersInv => ServerSurvives
  BY DEF PartnersInv, ServerSurvives
<1> QED BY <1>1, PartnersInvariant, PTL
=============================================================================
