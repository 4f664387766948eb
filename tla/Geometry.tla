------------------------------ MODULE Geometry ------------------------------
(***************************************************************************)
(* Addresses, sector by sector: which bits the kernel sets for a write,    *)
(* which sizes client and server agree on, and which sectors the transfers *)
(* of a marked grain read on the source and write on the target.           *)
(*                                                                         *)
(* kernel/atdr_linux/atdr_bitmap.c (kernel), user/atdr_linux/              *)
(* atdr_replic_header_server.c, replic_server.c, atdr_io_engine_server.c   *)
(* (server), atdr_daemon.c, atdr_resync.c, atdr_io_engine_client.c         *)
(* (client).                                                               *)
(*                                                                         *)
(* Each of the three parties computes with sizes of its own: the kernel    *)
(* with the grain given to --create, the server with the sizes of          *)
(* --mkpartner or --mkrelation, the client with what the server answered.  *)
(* One round is sequential here; the interleavings are in DirtyTracking.   *)
(***************************************************************************)
EXTENDS Integers

CONSTANTS
  MapBits,      \* bits of the bitmap
  Grain,        \* u_grain_size >> 9: sectors of a grain, as the kernel has it
  Chunk,        \* the chunk_size the server is given, in sectors
  Buf,          \* BUF_SIZE_IN_BYTES in sectors: what one transfer moves
  ClientSizes,  \* sizes the client may be given with --mkrelationpeer
  MaxWrite,     \* bound: sectors of one write
  MaxBios       \* bound: writes in a behaviour

\* The set-up HowtoRun and atdr_run.sh give: a grain is a whole number of
\* chunks and a transfer moves at least a chunk.
ASSUME SizesAssumption ==
  /\ MapBits \in Nat \ {0} /\ Grain \in Nat \ {0}
  /\ Chunk \in Nat \ {0} /\ Buf \in Nat
  /\ Chunk <= Buf
  /\ \E k \in 1 .. Grain : Grain = k * Chunk
ASSUME WritesAssumption == MaxWrite \in Nat /\ MaxBios \in Nat

Sizes     == [grain |-> Grain, chunk |-> Chunk]
Bits      == 0 .. MapBits - 1
Sectors   == 0 .. MapBits * Grain - 1   \* the bitmap stands for the whole disk
OutOfDate == -1

VARIABLES
  shdr,     \* replic_hdr_server_obj[pid]: grain and chunk size, in sectors
  chdr,     \* replic_hdr_client_obj[pid]: grain and chunk size, in sectors
  related,  \* the relation was negotiated
  marks,    \* the bits the kernel has set
  held,     \* sector of the target -> sector of the source it is a copy of
  pc,       \* write: before the resync; scan: in its loop; done
  bit,      \* restart_resync's bit_pos
  chunk,    \* restart_resync's chunk_id
  writes    \* writes so far

sectorVars == <<shdr, chdr, related, marks, held, pc, bit, chunk, writes>>

SectorInit ==
  /\ shdr = [grain |-> 0, chunk |-> 0] /\ chdr = [grain |-> 0, chunk |-> 0]
  /\ related = FALSE
  /\ marks = {}
  /\ held = [s \in Sectors |-> s]
  /\ pc = "write" /\ bit = 0 /\ chunk = 0 /\ writes = 0

-----------------------------------------------------------------------------
(* Setting up: the server's sizes, then the negotiation.                   *)

\* The MAKE_PARTNER message and --mkrelation: replic_hdr_server_setup.
MakeRelation ==
  /\ shdr' = Sizes
  /\ UNCHANGED <<chdr, related, marks, held, pc, bit, chunk, writes>>

\* --mkrelationpeer: the client sends its own sizes with SYN, the server puts
\* its own in the SYN_ACK and the client takes them over.  SYN follows
\* MAKE_PARTNER on the same connection.
Negotiate(own) ==
  /\ shdr = Sizes /\ pc = "write"
  /\ chdr' = shdr
  /\ related' = TRUE
  /\ UNCHANGED <<shdr, marks, held, pc, bit, chunk, writes>>

-----------------------------------------------------------------------------
(* Kernel: the bits of a write.                                            *)

\* Fault: the boundary sector is counted to the grain before it.
FindPosLate(addr) ==
  LET hits == {cur \in Bits : addr <= (cur + 1) * Grain}
  IN IF hits = {} THEN MapBits - 1
     ELSE CHOOSE cur \in hits : \A other \in hits : cur <= other

\* ebdr_find_pos: the first bit whose grain ends behind the address, or the
\* last bit.
FindPos(addr) ==
  LET hits == {cur \in Bits : addr < (cur + 1) * Grain}
  IN IF hits = {} THEN MapBits - 1
     ELSE CHOOSE cur \in hits : \A other \in hits : cur <= other

\* ebdr_set_bitmap: bio_end_sector is the sector after the write.
MarkRange(start, len) == FindPos(start) .. FindPos(start + len)

\* A write of len sectors makes the target's copy of them out of date.
WriteSectors(start, len) ==
  /\ pc = "write" /\ writes < MaxBios
  /\ start + len \in 0 .. MapBits * Grain
  /\ writes' = writes + 1
  /\ marks' = marks \cup MarkRange(start, len)
  /\ held' = [s \in Sectors |->
                IF start <= s /\ s < start + len THEN OutOfDate ELSE held[s]]
  /\ UNCHANGED <<shdr, chdr, related, pc, bit, chunk>>

-----------------------------------------------------------------------------
(* Client and server: the transfers of a resync.                           *)

\* start_lba as either side computes it for a header's curr_pos, chunk_pos.
StartLba(hdr, pos, chunk_pos) == pos * hdr.grain + chunk_pos * hdr.chunk

StartTransfers ==
  /\ pc = "write" /\ related
  /\ pc' = "scan" /\ bit' = 0 /\ chunk' = 0
  /\ UNCHANGED <<shdr, chdr, related, marks, held, writes>>

\* Fault: total_iterations is one short.
TotalIterationsShort == chdr.grain \div chdr.chunk - 1

TotalIterations == chdr.grain \div chdr.chunk

\* One transfer: chunk_read_server reads Buf sectors from the server's address,
\* chunk_write_client writes them to the client's.
CopyChunk ==
  /\ pc = "scan" /\ bit \in marks /\ chunk < TotalIterations
  /\ LET to   == StartLba(chdr, bit, chunk)
         from == StartLba(shdr, bit, chunk)
     IN held' = [s \in Sectors |->
                   IF to <= s /\ s < to + Buf THEN from + (s - to) ELSE held[s]]
  /\ chunk' = chunk + 1
  /\ UNCHANGED <<shdr, chdr, related, marks, pc, bit, writes>>

\* The next bit: this one is not set, or its chunks are done.
NextBit ==
  /\ pc = "scan" /\ bit < MapBits
  /\ bit \in marks => chunk >= TotalIterations
  /\ bit' = bit + 1
  /\ chunk' = 0
  /\ UNCHANGED <<shdr, chdr, related, marks, held, pc, writes>>

\* The end of the loop: the round is over and the bits are cleared.
Finish ==
  /\ pc = "scan" /\ bit >= MapBits
  /\ pc' = "done" /\ marks' = {}
  /\ UNCHANGED <<shdr, chdr, related, held, bit, chunk, writes>>

SectorNext ==
  \/ MakeRelation
  \/ \E own \in ClientSizes : Negotiate(own)
  \/ \E start \in Sectors, len \in 1 .. MaxWrite : WriteSectors(start, len)
  \/ StartTransfers \/ CopyChunk \/ NextBit \/ Finish

SectorSpec == SectorInit /\ [][SectorNext]_sectorVars

-----------------------------------------------------------------------------
(* Properties.                                                             *)

SectorTypeOK ==
  /\ shdr \in [grain : Nat, chunk : Nat] /\ chdr \in [grain : Nat, chunk : Nat]
  /\ related \in BOOLEAN
  /\ marks \subseteq Bits
  /\ held \in [Sectors -> Sectors \cup {OutOfDate}]
  /\ pc \in {"write", "scan", "done"}
  /\ bit \in 0 .. MapBits /\ chunk \in Nat /\ writes \in 0 .. MaxBios

\* A resync puts every sector that was written where it belongs: the kernel's
\* bits, the server's read addresses and the client's write addresses agree,
\* whatever sizes the client was given.
EverySectorCopied == pc = "done" => \A s \in Sectors : held[s] = s

\* The cost of rounding: a bit is set only if a sector of its grain, or the
\* last one before it, was written.
MarksTight ==
  pc = "write" =>
    \A b \in marks : \E s \in Sectors :
      held[s] = OutOfDate /\ b * Grain - 1 <= s /\ s < (b + 1) * Grain

-----------------------------------------------------------------------------
(* The inductive invariant.                                                *)

InGrain(s, g) == g * Grain <= s /\ s < (g + 1) * Grain

\* A sector the scan has yet to copy: its bit is set and the scan is before it.
Ahead(s) ==
  \E g \in marks :
    /\ InGrain(s, g)
    /\ \/ bit < g
       \/ bit = g /\ g * Grain + chunk * Chunk <= s

SizesInv == /\ related => shdr = Sizes /\ chdr = Sizes
            /\ pc # "write" => related
            /\ pc = "write" => bit = 0 /\ chunk = 0

CopyInv == pc # "done" => \A s \in Sectors : held[s] = s \/ Ahead(s)

SectorInv == SectorTypeOK /\ SizesInv /\ CopyInv /\ EverySectorCopied
=============================================================================
