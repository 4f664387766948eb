--------------------------- MODULE ClientRestart ---------------------------
(***************************************************************************)
(* What the client keeps over a crash, and how it starts again: the        *)
(* partner and resync tables, the stored bitmap of a round, and db_init,   *)
(* which restores connections and resync threads from them.                *)
(*                                                                         *)
(* user/atdr_linux/atdr_db.c, atdr_daemon.c (commands), atdr_resync.c (the *)
(* rows a resync writes), atdr_bitmap_client.c, atdr_disk_target.c.        *)
(*                                                                         *)
(* The tables are keyed by partner id, but db_init fills the arrays in     *)
(* memory by ROW NUMBER; both are slots here.  A grain is copied in one    *)
(* step and connections do not fail (ResyncLoop has both).  The server is  *)
(* external: it answers while the round is active and is silent after a    *)
(* terminate.  MySQL returns rows in the order of insertion.               *)
(***************************************************************************)
EXTENDS Integers, Sequences, FiniteSets

CONSTANTS
  NumPartners,  \* partners made before the model starts, ids from 0
  NumBits,      \* bits of a bitmap, one per grain
  FirstWord,    \* grains in the first word of the bitmap
  Bitmaps,      \* bitmaps the server may send
  MaxRows,      \* bound: rows of the resync table
  MaxRounds,    \* bound: --metadata commands for a partner
  MaxPauses,    \* bound: --pause commands for a partner
  MaxCrashes    \* bound: crashes

Partners == 0 .. NumPartners - 1
Slots    == 0 .. MaxRows - 1
Grains   == 0 .. NumBits - 1
NoFile   == {-1}
NoDisk   == -1

ASSUME SizeAssumption ==
  /\ NumBits \in Nat \ {0} /\ NumPartners \in Nat \ {0}
  /\ MaxRows \in Nat /\ MaxRows >= NumPartners
  /\ FirstWord \subseteq Grains /\ Bitmaps \subseteq SUBSET Grains
ASSUME LimitAssumption ==
  MaxRounds \in Nat /\ MaxPauses \in Nat /\ MaxCrashes \in Nat

VARIABLES
  \* On disk.
  partnerRows,  \* table partner: pid, state
  resyncRows,   \* table resync: pid, last_resynced_bit, state
  file,         \* BITMAP_FILE of each partner
  good,         \* grains of each partner's target that equal the image
  \* The server.
  want,         \* the bitmap it sent for the round
  srv,          \* the round: idle, active, or released by terminate
  \* In memory.
  daemon,       \* up; down; boot: in db_init, which holds db_lock; hung: there
                \* for ever; failed: stop_work in db_init
  boot,         \* row that db_init restores next
  slot,         \* all_partner_clients: id, obj_state, and whether ip is set
  last,         \* replic_client_obj.last_resynced_bit
  rep,          \* replic_client_obj.rep_state
  recovery,     \* recovery_mode
  target,       \* whose disk ebdr_disk_target_obj.name is
  bits,         \* bitmap_client_obj.bitmap_area
  conn,         \* there is a connection and a replication object
  th,           \* resync thread of a partner: control point, bit_pos
  ctl,          \* control thread: the command it is in
  \* The operator.
  asked,        \* last of --metadata and --resync for a partner
  \* History.
  rounds,       \* --metadata commands for a partner
  pauses,       \* --pause commands for a partner
  crashes,      \* crashes
  misplaced     \* a restart read a row into the slot of another partner

diskVars == <<partnerRows, resyncRows, file, good>>
srvVars  == <<want, srv>>
memVars  == <<slot, last, rep, recovery, target, bits, conn>>
histVars == <<rounds, pauses, crashes, misplaced>>
vars == <<diskVars, srvVars, daemon, boot, memVars, th, ctl, asked, histVars>>

ZeroSlot   == [id |-> 0, state |-> "FREE", ip |-> FALSE]
IdleThread == [pc |-> "idle", bit |-> 0]
IdleCtl    == [op |-> "none", pid |-> 0, pc |-> "idle"]

\* Partners and relations have been made (--mkpartner, --mkrelationpeer).
Init ==
  /\ partnerRows = [i \in 1 .. NumPartners |->
                      [pid |-> i - 1, state |-> "IN_USE"]]
  /\ resyncRows = <<>>
  /\ file = [p \in Partners |-> NoFile]
  /\ good = [p \in Partners |-> {}] /\ want = [p \in Partners |-> {}]
  /\ srv = [p \in Partners |-> "idle"]
  /\ daemon = "up" /\ boot = 0
  /\ slot = [i \in Slots |-> IF i \in Partners
               THEN [id |-> i, state |-> "IN_USE", ip |-> TRUE]
               ELSE ZeroSlot]
  /\ last = [i \in Slots |-> 0]
  /\ rep = [i \in Slots |-> "IN_PROGRESS"]
  /\ recovery = [i \in Slots |-> FALSE]
  /\ target = [i \in Slots |-> IF i \in Partners THEN i ELSE NoDisk]
  /\ bits = [p \in Partners |-> {}]
  /\ conn = [p \in Partners |-> TRUE]
  /\ th = [p \in Partners |-> IdleThread]
  /\ ctl = IdleCtl
  /\ asked = [p \in Partners |-> "nothing"]
  /\ rounds = [p \in Partners |-> 0] /\ pauses = [p \in Partners |-> 0]
  /\ crashes = 0 /\ misplaced = FALSE

\* UPDATE ... SET state WHERE pid, in either table.
SetState(rows, p, state) ==
  [i \in DOMAIN rows |->
     IF rows[i].pid = p THEN [rows[i] EXCEPT !.state = state] ELSE rows[i]]

\* db_init holds db_lock from its first to its last line.
Locked == daemon \in {"boot", "hung"}

ResyncInit(p, from) == th' = [th EXCEPT ![p] = [pc |-> "new", bit |-> from]]

-----------------------------------------------------------------------------
(* Commands, on the control thread.  They touch memory first and then the  *)
(* tables, one statement at a time; a crash may come in between.           *)

Command(p) ==
  /\ daemon = "up" /\ ctl = IdleCtl /\ conn[p]
  /\ \E i \in Slots : slot[i].id = p

Begin(op, p, pc) == ctl' = [op |-> op, pid |-> p, pc |-> pc]

\* request_server_for_metadata up to the database.  The operator starts a round
\* when the last one is over.
Metadata(p) ==
  /\ Command(p)
  /\ \/ asked[p] = "nothing"
     \/ asked[p] = "resync" /\ rep[p] = "COMPLETED" /\ th[p].pc = "idle"
  /\ rounds[p] < MaxRounds /\ rounds' = [rounds EXCEPT ![p] = @ + 1]
  /\ asked' = [asked EXCEPT ![p] = "metadata"]
  /\ IF slot[p].state = "RELEASED"
       THEN slot' = [slot EXCEPT ![p].state = "IN_USE"]
            /\ Begin("metadata", p, "partner")
       ELSE Begin("metadata", p, "recv") /\ UNCHANGED slot
  /\ UNCHANGED <<diskVars, srvVars, daemon, boot, last, rep, recovery, target,
                 bits, conn, th, pauses, crashes, misplaced>>

\* The bitmap arrives; it is stored only if its first word is not zero.
MetadataRecv ==
  LET p == ctl.pid
  IN /\ ctl.pc = "recv"
     /\ \E b \in Bitmaps :
          /\ want' = [want EXCEPT ![p] = b]
          /\ good' = [good EXCEPT ![p] = @ \ b]
          /\ bits' = [bits EXCEPT ![p] = b]
          /\ file' = IF b \cap FirstWord # {} THEN [file EXCEPT ![p] = b]
                                              ELSE file
     /\ srv' = [srv EXCEPT ![p] = "active"]
     /\ ctl' = IdleCtl
     /\ UNCHANGED <<partnerRows, resyncRows, daemon, boot, slot, last, rep,
                    recovery, target, conn, th, asked, histVars>>

\* --resync: resync_init(pid, 0).
Resync(p) ==
  /\ Command(p) /\ asked[p] = "metadata"
  /\ asked' = [asked EXCEPT ![p] = "resync"]
  /\ ResyncInit(p, 0)
  /\ UNCHANGED <<diskVars, srvVars, daemon, boot, memVars, ctl, histVars>>

\* --pause, refused while the position is 0.
Pause(p) ==
  /\ Command(p) /\ last[p] # 0
  /\ pauses[p] < MaxPauses /\ pauses' = [pauses EXCEPT ![p] = @ + 1]
  /\ slot' = [slot EXCEPT ![p].state = "PAUSE"]
  /\ rep' = [rep EXCEPT ![p] = "PAUSE"]
  /\ Begin("pause", p, "partner")
  /\ UNCHANGED <<diskVars, srvVars, daemon, boot, last, recovery, target, bits,
                 conn, th, asked, rounds, crashes, misplaced>>

\* --resume, when the paused thread is gone.
Resume(p) ==
  /\ Command(p) /\ rep[p] # "COMPLETED"
  /\ slot[p].state = "PAUSE" /\ th[p].pc = "idle"
  /\ slot' = [slot EXCEPT ![p].state = "RESUME"]
  /\ rep' = [rep EXCEPT ![p] = "RESUME"]
  /\ Begin("resume", p, "partner")
  /\ UNCHANGED <<diskVars, srvVars, daemon, boot, last, recovery, target, bits,
                 conn, th, asked, histVars>>

\* update_into_partner with the state the slot has now.
CommandPartner ==
  /\ ctl.pc = "partner"
  /\ partnerRows' = SetState(partnerRows, ctl.pid, slot[ctl.pid].state)
  /\ ctl' = [ctl EXCEPT !.pc = IF ctl.op = "metadata" THEN "recv" ELSE "rows"]
  /\ UNCHANGED <<resyncRows, file, good, srvVars, daemon, boot, memVars, th,
                 asked, histVars>>

\* update_resync_state, which changes every row of the partner; a resume then
\* starts a thread at last_resynced_bit.
CommandRows ==
  /\ ctl.pc = "rows"
  /\ resyncRows' = SetState(resyncRows, ctl.pid, rep[ctl.pid])
  /\ IF ctl.op = "resume" THEN ResyncInit(ctl.pid, last[ctl.pid])
                          ELSE UNCHANGED th
  /\ ctl' = IdleCtl
  /\ UNCHANGED <<partnerRows, file, good, srvVars, daemon, boot, memVars,
                 asked, histVars>>

-----------------------------------------------------------------------------
(* The resync thread of a partner, as far as the tables see it.            *)

At(p, pc)   == th[p].pc = pc
GoTo(p, pc) == th' = [th EXCEPT ![p].pc = pc]

\* restart_resync up to the loop: a restored thread has a row, another one that
\* starts at bit 0 inserts one.
Start(p) ==
  /\ At(p, "new")
  /\ GoTo(p, "loop")
  /\ \/ /\ recovery[p]
        /\ recovery' = [recovery EXCEPT ![p] = FALSE]
        /\ UNCHANGED <<resyncRows, rep>>
     \/ /\ ~recovery[p] /\ th[p].bit = 0
        /\ ~Locked /\ Len(resyncRows) < MaxRows
        /\ resyncRows' = Append(resyncRows, [pid |-> p, last |-> 0,
                                             state |-> "IN_PROGRESS"])
        /\ rep' = [rep EXCEPT ![p] = "IN_PROGRESS"]
        /\ UNCHANGED recovery
     \/ /\ ~recovery[p] /\ th[p].bit # 0
        /\ UNCHANGED <<resyncRows, rep, recovery>>
  /\ UNCHANGED <<partnerRows, file, good, srvVars, daemon, boot, slot, last,
                 target, bits, conn, ctl, asked, histVars>>

Paused(p) == slot[p].state = "PAUSE"

\* The loop condition, and the iteration of a bit that is not set.  A paused
\* thread cancels itself after the loop.
LoopTest(p) ==
  /\ At(p, "loop")
  /\ \/ /\ Paused(p)
        /\ th' = [th EXCEPT ![p] = IdleThread]
        /\ UNCHANGED last
     \/ /\ ~Paused(p) /\ th[p].bit >= NumBits
        /\ GoTo(p, "term")
        /\ UNCHANGED last
     \/ /\ ~Paused(p) /\ th[p].bit \in bits[p]
        /\ GoTo(p, "copy")
        /\ UNCHANGED last
     \/ /\ ~Paused(p) /\ th[p].bit \in Grains \ bits[p]
        /\ last' = [last EXCEPT ![p] = th[p].bit]
        /\ th' = [th EXCEPT ![p].bit = @ + 1]
  /\ UNCHANGED <<diskVars, srvVars, daemon, boot, slot, rep, recovery, target,
                 bits, conn, ctl, asked, histVars>>

\* The chunks of a grain, read from the partner's image and written to the disk
\* the slot names; a pause leaves the grain incomplete.
Copy(p) ==
  LET bit == th[p].bit
  IN /\ At(p, "copy")
     /\ GoTo(p, "grain")
     /\ \/ Paused(p) /\ UNCHANGED good
        \/ /\ ~Paused(p) /\ srv[p] = "active"
           /\ IF target[p] = p
                THEN good' = [good EXCEPT ![p] = @ \cup {bit}]
                ELSE good' = [good EXCEPT ![target[p]] = @ \ {bit}]
     /\ UNCHANGED <<partnerRows, resyncRows, file, srvVars, daemon, boot,
                    memVars, ctl, asked, histVars>>

\* update_into_resync: the rows of this partner whose state is rep_state.
GrainDone(p) ==
  /\ At(p, "grain") /\ ~Locked
  /\ resyncRows' = [i \in DOMAIN resyncRows |->
       IF resyncRows[i].pid = p /\ resyncRows[i].state = rep[p]
         THEN [resyncRows[i] EXCEPT !.last = th[p].bit] ELSE resyncRows[i]]
  /\ last' = [last EXCEPT ![p] = th[p].bit]
  /\ th' = [th EXCEPT ![p].pc = "loop", ![p].bit = @ + 1]
  /\ UNCHANGED <<partnerRows, file, good, srvVars, daemon, boot, slot, rep,
                 recovery, target, bits, conn, ctl, asked, histVars>>

\* replication_terminate: the message, on which the server clears its marks,
\* and the release of the objects.
Terminate(p) ==
  /\ At(p, "term")
  /\ IF rep[p] = "COMPLETED"
       THEN /\ th' = [th EXCEPT ![p] = IdleThread]
            /\ UNCHANGED <<srv, slot, last, rep>>
       ELSE /\ srv' = [srv EXCEPT ![p] = "released"]
            /\ last' = IF Paused(p) THEN last ELSE [last EXCEPT ![p] = 0]
            /\ slot' = [slot EXCEPT ![p].state = "RELEASED"]
            /\ rep' = [rep EXCEPT ![p] = "COMPLETED"]
            /\ GoTo(p, "release")
  /\ UNCHANGED <<diskVars, want, daemon, boot, recovery, target, bits, conn,
                 ctl, asked, histVars>>

\* Its two updates: first the partner table, then the resync table.
ReleasePartner(p) ==
  /\ At(p, "release") /\ ~Locked
  /\ partnerRows' = SetState(partnerRows, p, slot[p].state)
  /\ GoTo(p, "complete")
  /\ UNCHANGED <<resyncRows, file, good, srvVars, daemon, boot, memVars, ctl,
                 asked, histVars>>

CompleteRows(p) ==
  /\ At(p, "complete") /\ ~Locked
  /\ resyncRows' = SetState(resyncRows, p, rep[p])
  /\ th' = [th EXCEPT ![p] = IdleThread]
  /\ UNCHANGED <<partnerRows, file, good, srvVars, daemon, boot, memVars, ctl,
                 asked, histVars>>

-----------------------------------------------------------------------------
(* Crash and restart.                                                      *)

\* The process ends: everything in memory is gone.
LoseMemory(state) ==
  /\ daemon' = state /\ boot' = 0
  /\ slot' = [i \in Slots |-> ZeroSlot]
  /\ last' = [i \in Slots |-> 0]
  /\ rep' = [i \in Slots |-> "IN_PROGRESS"]
  /\ recovery' = [i \in Slots |-> FALSE]
  /\ target' = [i \in Slots |-> NoDisk]
  /\ bits' = [p \in Partners |-> {}]
  /\ conn' = [p \in Partners |-> FALSE]
  /\ th' = [p \in Partners |-> IdleThread]
  /\ ctl' = IdleCtl

\* The tables, the files and the target disks survive a crash.
Crash ==
  /\ daemon \in {"up", "boot", "hung"}
  /\ crashes < MaxCrashes /\ crashes' = crashes + 1
  /\ LoseMemory("down")
  /\ UNCHANGED <<diskVars, srvVars, asked, rounds, pauses, misplaced>>

\* What the two SELECTs of db_init return, as places in the tables; a result has
\* the order of the table, and the code numbers its rows from 0.
LivePartners ==
  {k \in DOMAIN partnerRows : partnerRows[k].state # "RELEASED"}

\* Fault: completed resyncs are retrieved as well.
AllResyncs  == DOMAIN resyncRows

OpenResyncs == {k \in DOMAIN resyncRows : resyncRows[k].state # "COMPLETED"}

Number(S, k) == Cardinality({j \in S : j < k})
RowAt(S, i)  == CHOOSE k \in S : Number(S, k) = i

\* Fault: recovery_mode is never set.
NoRecovery   == [i \in Slots |-> FALSE]

RecoveryMode ==
  [i \in Slots |-> \E k \in LivePartners : partnerRows[k].pid = i]

\* Row i of a result is not that of partner i.
Misplaced ==
  \/ \E k \in LivePartners :
       Number(LivePartners, k) # partnerRows[k].pid
  \/ \E k \in OpenResyncs :
       Number(OpenResyncs, k) \in Partners \ {resyncRows[k].pid}

\* db_init up to the restart of the resyncs: row number i of a table fills slot
\* i.  The name of a target disk comes from the disk table, which has a row per
\* partner, and then from the resync table.
Boot ==
  /\ daemon \in {"down", "failed"}
  /\ daemon' = "boot" /\ boot' = 0
  /\ slot' = [i \in Slots |->
       IF i < Cardinality(LivePartners)
         THEN LET r == partnerRows[RowAt(LivePartners, i)]
              IN [id |-> r.pid, state |-> r.state, ip |-> TRUE]
         ELSE ZeroSlot]
  /\ recovery' = RecoveryMode
  /\ LET Row(i)  == resyncRows[RowAt(OpenResyncs, i)]
         Read(i) == i < Cardinality(OpenResyncs)
     IN /\ last' = [i \in Slots |-> IF Read(i) THEN Row(i).last ELSE 0]
        /\ rep' = [i \in Slots |-> IF Read(i) THEN Row(i).state
                                              ELSE "IN_PROGRESS"]
        /\ target' = [i \in Slots |-> IF Read(i) THEN Row(i).pid
                                      ELSE IF i \in Partners THEN i ELSE NoDisk]
  /\ misplaced' = (misplaced \/ Misplaced)
  /\ UNCHANGED <<diskVars, srvVars, bits, conn, th, ctl, asked, rounds, pauses,
                 crashes>>

\* Fault: the thread is not started.
RestartForgotten(p) == UNCHANGED th

\* The last lines of the loop body: resync_init at the stored position.
RestartFrom(p) == ResyncInit(p, last[p])

\* Fault: the stored bitmap is not read back.
LoadNothing(p) == {}

\* load_bitmap_from_disk.
LoadBitmap(p) == file[p]

\* The row that is restored next, by its number, and the partner in that slot.
Restoring == daemon = "boot" /\ boot < Cardinality(OpenResyncs)

\* No address to connect to (that of slot pid, not of the row), or no bitmap
\* file: stop_work.
RestoreFails ==
  LET p == slot[boot].id
  IN /\ Restoring
     /\ \/ ~slot[p].ip
        \/ recovery[boot] /\ rep[p] # "COMPLETED" /\ file[p] = NoFile
     /\ LoseMemory("failed")
     /\ UNCHANGED <<diskVars, srvVars, asked, histVars>>

\* disk_target_create takes dt_count, here the row number, for the partner and
\* inserts a disk row unless that one is recovering: db_lock is taken twice.
RestoreHangs ==
  LET p == slot[boot].id
  IN /\ Restoring /\ slot[p].ip /\ ~recovery[boot]
     /\ daemon' = "hung"
     /\ conn' = [conn EXCEPT ![p] = TRUE]
     /\ UNCHANGED <<diskVars, srvVars, boot, slot, last, rep, recovery, target,
                    bits, th, ctl, asked, histVars>>

\* Connection, bitmap and thread of the partner.
Restore ==
  LET p == slot[boot].id
  IN /\ Restoring /\ slot[p].ip /\ recovery[boot]
     /\ conn' = [conn EXCEPT ![p] = TRUE]
     /\ boot' = boot + 1
     /\ IF rep[p] = "COMPLETED"
          THEN UNCHANGED <<bits, th>>
          ELSE /\ file[p] # NoFile
               /\ bits' = [bits EXCEPT ![p] = LoadBitmap(p)]
               /\ RestartFrom(p)
     /\ UNCHANGED <<diskVars, srvVars, daemon, slot, last, rep, recovery,
                    target, ctl, asked, histVars>>

\* db_init returns and releases db_lock; commands are read from now on.
BootDone ==
  /\ daemon = "boot" /\ boot = Cardinality(OpenResyncs)
  /\ daemon' = "up"
  /\ UNCHANGED <<diskVars, srvVars, boot, memVars, th, ctl, asked, histVars>>

-----------------------------------------------------------------------------
Thread(p) ==
  \/ Start(p) \/ LoopTest(p) \/ Copy(p) \/ GrainDone(p)
  \/ Terminate(p) \/ ReleasePartner(p) \/ CompleteRows(p)

Control == MetadataRecv \/ CommandPartner \/ CommandRows
DbInit  == Boot \/ RestoreFails \/ RestoreHangs \/ Restore \/ BootDone

Next ==
  \/ \E p \in Partners :
       Metadata(p) \/ Resync(p) \/ Pause(p) \/ Resume(p) \/ Thread(p)
  \/ Control \/ DbInit \/ Crash

\* Threads are scheduled and a daemon that went down is started again; the
\* operator gives commands if he likes.
Fairness ==
  /\ \A p \in Partners : WF_vars(Thread(p))
  /\ WF_vars(Control) /\ WF_vars(DbInit)

Spec == Init /\ [][Next]_vars /\ Fairness

-----------------------------------------------------------------------------
(* Properties.                                                             *)

RowStates == {"IN_PROGRESS", "PAUSE", "RESUME", "COMPLETED"}
PartnerStates == {"IN_USE", "PAUSE", "RESUME", "RELEASED"}

ThreadPoints == {"idle", "new", "loop", "copy", "grain", "term", "release",
                 "complete"}

TypeOK ==
  /\ partnerRows \in Seq([pid : Partners, state : PartnerStates])
  /\ resyncRows \in Seq([pid : Partners, last : Grains, state : RowStates])
  /\ Len(resyncRows) <= MaxRows
  /\ file \in [Partners -> (SUBSET Grains) \cup {NoFile}]
  /\ good \in [Partners -> SUBSET Grains] /\ want \in [Partners -> SUBSET Grains]
  /\ srv \in [Partners -> {"idle", "active", "released"}]
  /\ daemon \in {"up", "down", "boot", "hung", "failed"} /\ boot \in Nat
  /\ slot \in [Slots -> [id : Partners, state : PartnerStates \cup {"FREE"},
                         ip : BOOLEAN]]
  /\ last \in [Slots -> Grains] /\ rep \in [Slots -> RowStates]
  /\ recovery \in [Slots -> BOOLEAN]
  /\ target \in [Slots -> Partners \cup {NoDisk}]
  /\ bits \in [Partners -> SUBSET Grains] /\ conn \in [Partners -> BOOLEAN]
  /\ th \in [Partners -> [pc : ThreadPoints, bit : 0 .. NumBits]]
  /\ ctl \in [op : {"none", "metadata", "pause", "resume"}, pid : Partners,
              pc : {"idle", "partner", "rows", "recv"}]
  /\ asked \in [Partners -> {"nothing", "metadata", "resync"}]
  /\ rounds \in [Partners -> Nat] /\ pauses \in [Partners -> Nat]
  /\ crashes \in Nat /\ misplaced \in BOOLEAN

\* A pause reaches into the other rounds: it writes its state into every row of
\* the partner, those of completed rounds included, and one that comes between
\* the loop and replication_terminate leaves the position to the next round.
NoMixedPause(p) == rounds[p] <= 1 \/ pauses[p] = 0

\* The file holds the bitmap of the round in hand: a bitmap whose first word is
\* zero is not stored.
Stored(p) == file[p] = want[p]

\* At most one open resync per partner.  A resume at position 0 inserts a second
\* row for the same round.
OneRowEach == Cardinality(OpenResyncs) <= Cardinality(LivePartners)

\* A round the server was told is over has put every grain of its bitmap on
\* the partner's own target, whatever crashes and restarts there were: the
\* server has cleared its marks by then.  The exceptions are a crash in a round
\* whose bitmap was not stored, pauses in one of several rounds, and a restart
\* that took the row of one partner for another's.
CompletedMeansCopied ==
  ~misplaced => \A p \in Partners :
    srv[p] = "released" /\ NoMixedPause(p) /\ (crashes = 0 \/ Stored(p))
      => want[p] \subseteq good[p]

\* Wherever a crash comes, the stored position of an open resync is one to
\* restart from: the grains before it are on the target.
RestartPointSafe ==
  ~misplaced => \A k \in OpenResyncs :
    LET r == resyncRows[k]
    IN NoMixedPause(r.pid) /\ Stored(r.pid) =>
         \A g \in want[r.pid] : g < r.last => g \in good[r.pid]

\* A restored thread starts where the tables say its own partner's current
\* resync, the last row of the partner, had got to.
RecoveredPosition ==
  \A p \in Partners :
    NoMixedPause(p) /\ OneRowEach /\ ~misplaced /\ At(p, "new") /\ recovery[p] =>
      \E i \in DOMAIN resyncRows :
        /\ resyncRows[i].pid = p /\ resyncRows[i].last = th[p].bit
        /\ \A k \in DOMAIN resyncRows : resyncRows[k].pid = p => k <= i

\* Every resync thread writes to its own partner's target disk.
OwnDisk == \A p \in Partners : th[p].pc # "idle" => target[p] = p

\* Starting again waits for itself, db_init taking db_lock twice, only when more
\* resyncs than partners are open, or the numbers of rows and partners differ.
NoSelfLock == daemon = "hung" => ~OneRowEach \/ misplaced

\* A restart finds the address and the bitmap of every resync it takes up,
\* unless the crash came between the two updates of replication_terminate or
\* its bitmap has a zero first word.
RestartConnects ==
  daemon = "failed" /\ (\A p \in Partners : NoMixedPause(p)) =>
    \E i \in OpenResyncs :
      \/ \A k \in LivePartners : partnerRows[k].pid # resyncRows[i].pid
      \/ want[resyncRows[i].pid] \cap FirstWord = {}

\* A resync that is in the table ends, crashes or not, unless the operator
\* leaves it paused, its restart has no bitmap to load, or there are two rows
\* of it.
RoundEnds ==
  \A p \in Partners :
    (\E k \in OpenResyncs : resyncRows[k].pid = p)
      ~> \/ srv[p] = "released"
         \/ slot[p].state = "PAUSE" \/ ~OneRowEach
         \/ crashes > 0 /\ file[p] = NoFile

-----------------------------------------------------------------------------
(* The inductive invariant of the proofs.                                  *)

\* What threads, commands and the states of the daemon have to do with each
\* other, wherever the rows are.
ShapeInv ==
  /\ daemon \in {"down", "failed"} =>
       \A p \in Partners : ~conn[p] /\ th[p].pc = "idle"
  /\ daemon # "up" => ctl = IdleCtl /\ crashes > 0
  /\ \A p \in Partners :
       /\ th[p].pc # "idle" => conn[p]
       /\ th[p].pc \in {"copy", "grain"} => th[p].bit \in Grains
       /\ th[p].pc = "term" => th[p].bit = NumBits
       /\ th[p].pc = "release" => slot[p].state # "FREE"
       /\ asked[p] = "nothing" => rounds[p] = 0
       /\ asked[p] # "nothing" => rounds[p] > 0
  /\ ctl.pc = "partner" => slot[ctl.pid].state # "FREE"
  /\ ctl.pc = "recv" => ctl.op = "metadata"
  /\ ctl.pc = "rows" => ctl.op \in {"pause", "resume"}
  /\ ctl.op = "none" => ctl.pc = "idle"
  /\ ctl.op # "none" => conn[ctl.pid]
  /\ ctl.op = "metadata" => asked[ctl.pid] = "metadata"

\* db_init, as long as every row was read into its own partner's slot.
BootInv ==
  /\ daemon = "hung" => misplaced \/ ~OneRowEach
  /\ ~misplaced /\ daemon \in {"up", "boot", "hung"} =>
       \A p \in Partners : target[p] = p
  /\ ~misplaced /\ daemon = "boot" =>
       /\ ~Misplaced
       /\ \A i \in Slots : i >= boot /\ recovery[i] => i \in Partners /\ slot[i].id = i
       /\ \A i \in Slots : i >= boot =>
            IF i < Cardinality(LivePartners) THEN recovery[i]
                                             ELSE slot[i].id = 0 /\ ~slot[i].ip
       /\ \A p \in Partners :
            /\ p < boot => conn[p]
            /\ p >= boot => ~conn[p] /\ th[p].pc = "idle" /\ rep[p] # "COMPLETED"

RowsOf(p) == {k \in DOMAIN resyncRows : resyncRows[k].pid = p}
Placed(p) == ~misplaced /\ NoMixedPause(p)
AllCompleted(p) == \A k \in RowsOf(p) : resyncRows[k].state = "COMPLETED"

\* The rounds of a partner follow each other: nothing of the last one is open
\* when the bitmap of the next arrives.
RoundInv(p) ==
  Placed(p) =>
    /\ asked[p] # "resync" =>
         /\ th[p].pc = "idle" /\ last[p] = 0 /\ pauses[p] = 0 /\ AllCompleted(p)
         /\ rounds[p] <= 1 => RowsOf(p) = {}
    /\ recovery[p] /\ conn[p] =>
         th[p].pc = "new" /\ asked[p] = "resync" /\ rep[p] # "COMPLETED"
    /\ asked[p] = "metadata" /\ conn[p] /\ ~(ctl.op = "metadata" /\ ctl.pid = p)
         => bits[p] = want[p]

\* A partner that was never paused.
PauseStates == {"PAUSE", "RESUME"}
UnpausedInv(p) ==
  Placed(p) /\ pauses[p] = 0 =>
    /\ slot[p].state \notin PauseStates /\ rep[p] \notin PauseStates
    /\ \A k \in DOMAIN partnerRows :
         partnerRows[k].pid = p => partnerRows[k].state \notin PauseStates
    /\ \A k \in RowsOf(p) : resyncRows[k].state \notin PauseStates
    /\ ctl.op \in {"pause", "resume"} => ctl.pid # p
    /\ rep[p] = "COMPLETED" =>
         /\ last[p] = 0
         /\ \/ th[p].pc \in {"release", "complete"}
            \/ th[p].pc = "idle" /\ AllCompleted(p)
            \/ th[p].pc = "new" /\ th[p].bit = 0 /\ AllCompleted(p)
    /\ th[p].pc \in {"release", "complete"} => rep[p] = "COMPLETED"

\* The grains before b are on the target.
Safe(p, b) == \A g \in want[p] : g < b => g \in good[p]

\* Every position that a resync may go on from is safe.
CopyInv(p) ==
  Placed(p) /\ (crashes = 0 \/ Stored(p)) =>
    /\ asked[p] = "resync" /\ conn[p] => want[p] \subseteq bits[p]
    /\ Safe(p, last[p])
    /\ \A k \in RowsOf(p) :
         resyncRows[k].state # "COMPLETED" \/ rounds[p] <= 1
           => Safe(p, resyncRows[k].last)
    /\ \/ th[p].pc \in {"new", "copy", "grain", "term"}
       \/ th[p].pc = "loop" /\ ~Paused(p)
       => Safe(p, th[p].bit)
    /\ th[p].pc = "grain" /\ ~Paused(p) => th[p].bit \in good[p]
    /\ srv[p] = "released" => want[p] \subseteq good[p]

RestartInv ==
  /\ TypeOK /\ ShapeInv /\ BootInv
  /\ \A p \in Partners : RoundInv(p) /\ UnpausedInv(p) /\ CopyInv(p)
=============================================================================
