--------------------------- MODULE Fat32Transfer ---------------------------
(***************************************************************************)
(* Reads and writes of a FAT32 file (fat32_fs_read_write in                *)
(* s_block_device/src/fat32_file_sys.c over fat32_read_write and           *)
(* fat32_read_write_piece in fat32.c), one access to the disk at a time:   *)
(* the rest of a first sector, whole sectors by the cluster, and the       *)
(* beginning of a last sector.  An access may fail, which ends the call.   *)
(***************************************************************************)
EXTENDS Naturals, Sequences, FiniteSets

CONSTANTS
    SectorSize, SectorsPerCluster,
    Clusters,           \* the clusters of the file, in order
    FileSize,           \* its size in bytes
    Offsets, Lengths,   \* what is asked for
    CountValues         \* the values of sectors_to_process, a byte: 256 in the code

ASSUME TransferAssumption ==
    /\ SectorSize \in Nat \ {0} /\ SectorsPerCluster \in Nat \ {0} /\ CountValues \in Nat \ {0}
    /\ Offsets \subseteq Nat /\ Lengths \subseteq Nat

VARIABLES
    pc,         \* the part of the call that comes next, or its answer
    req,        \* [offset, bytes]
    processed,  \* the bytes of the parts that are done
    sectors,    \* sectors_processed of the whole sectors
    link,       \* cluster_iter: its place in the chain
    moved       \* the bytes moved so far: place in the buffer, cluster, and
                \* byte of the cluster

transferVars == <<pc, req, processed, sectors, link, moved>>

Answers == {"none", "success", "error", "range"}

TransferInit ==
    /\ pc = "none" /\ req = [offset |-> 0, bytes |-> 0]
    /\ processed = 0 /\ sectors = 0 /\ link = 1 /\ moved = {}

(* Accessing len bytes from byte b of sector s of the cluster at place l,  *)
(* to or from place i of the buffer.                                       *)
Span(i, l, s, b, len) ==
    {<<i + k, Clusters[l], s * SectorSize + b + k>> : k \in 0 .. len - 1}

Sector(byte) == byte \div SectorSize
LinkOf(sector) == sector \div SectorsPerCluster + 1
Shift(sector) == sector % SectorsPerCluster

Fails == pc' = "error" /\ UNCHANGED <<req, processed, sectors, link, moved>>

(* A range outside of the file is refused, and nothing is done for none.   *)
Ask ==
    \E o \in Offsets, n \in Lengths :
        /\ pc \in Answers /\ o + n <= FileSize
        /\ pc' = IF o % SectorSize > 0 THEN "first" ELSE "middle"
        /\ req' = [offset |-> o, bytes |-> n]
        /\ processed' = 0 /\ sectors' = 0 /\ link' = 1 /\ moved' = {}

(* fat32_read_write_piece *)
Piece(byte, b, len) ==
    /\ moved' = moved \cup Span(processed, LinkOf(Sector(byte)), Shift(Sector(byte)), b, len)
    /\ processed' = processed + len
    /\ UNCHANGED <<req, sectors, link>>

(* Variant for a mutant: the first piece is always the rest of its sector. *)
InitialAmt_Rest(rem, bytes) == SectorSize - rem

InitialAmt(rem, bytes) ==
    IF SectorSize - rem > bytes THEN bytes ELSE SectorSize - rem

FirstPiece ==
    LET rem == req.offset % SectorSize IN
    /\ pc = "first"
    /\ \/ Piece(req.offset, rem, InitialAmt(rem, req.bytes)) /\ pc' = "middle"
       \/ Fails

(* num_middle_sectors *)
Middle == (req.bytes - processed) \div SectorSize

FirstSector == Sector(req.offset + processed)

(* fat32_read_write finds its first cluster. *)
Traverse ==
    /\ pc = "middle"
    /\ \/ /\ Middle > 0 /\ pc' = "sectors"
          /\ link' = LinkOf(FirstSector) /\ UNCHANGED <<req, processed, sectors, moved>>
       \/ Middle > 0 /\ Fails
       \/ /\ Middle = 0 /\ pc' = "last"
          /\ UNCHANGED <<req, processed, sectors, link, moved>>

(* sectors_to_process is a byte. *)
Count(shift) ==
    LET left == (Middle - sectors) % CountValues IN
    IF left > SectorsPerCluster - shift THEN SectorsPerCluster - shift ELSE left

(* One round of the loop of fat32_read_write: what is wanted of a cluster. *)
ClusterSectors ==
    LET shift == IF sectors = 0 THEN Shift(FirstSector) ELSE 0
        count == Count(shift)
        done == sectors + count
    IN  /\ pc = "sectors"
        /\ \/ /\ moved' = moved \cup Span(processed + sectors * SectorSize, link, shift,
                                           0, count * SectorSize)
              /\ IF done = Middle
                 THEN /\ pc' = "last" /\ processed' = processed + done * SectorSize
                      /\ UNCHANGED <<link, sectors>>
                 ELSE /\ sectors' = done /\ UNCHANGED processed
                      /\ IF link = Len(Clusters) THEN pc' = "range" /\ UNCHANGED link
                         ELSE link' = link + 1 /\ UNCHANGED pc
              /\ UNCHANGED req
           \/ Fails

(* After the last piece a write enters its time, which may fail as well.   *)
LastPiece ==
    LET len == req.bytes - processed IN
    /\ pc = "last"
    /\ \/ /\ len = 0 /\ pc' \in {"success", "error"}
          /\ UNCHANGED <<req, processed, sectors, link, moved>>
       \/ len > 0 /\ Piece(req.offset + processed, 0, len) /\ pc' \in {"success", "error"}
       \/ len > 0 /\ Fails

TransferNext == Ask \/ FirstPiece \/ Traverse \/ ClusterSectors \/ LastPiece

TransferSpec == TransferInit /\ [][TransferNext]_transferVars

-----------------------------------------------------------------------------
(* Where byte i of the request lies, if the file is its clusters in a row. *)
ByteOfFile(i) ==
    LET clusterSize == SectorSize * SectorsPerCluster
        f == req.offset + i
    IN  <<i, Clusters[f \div clusterSize + 1], f % clusterSize>>

(***************************************************************************)
(* Each byte of the buffer is moved to or from the byte of the file that   *)
(* it stands for, however the request lies across sectors and clusters,    *)
(* none outside of the request is touched, and a call that succeeds has    *)
(* moved all (file_sys.h:380 "On success, FOS_E_SUCCESS is returned,       *)
(* exactly `bytes` bytes will be written to the given file from `src`      *)
(* starting at offset `offset` within the file").                          *)
(***************************************************************************)
BytesInPlace ==
    LET asked == {ByteOfFile(i) : i \in 0 .. req.bytes - 1} IN
    /\ moved \subseteq asked
    /\ pc = "success" => moved = asked
=============================================================================
