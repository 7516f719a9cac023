----------------------------- MODULE BlockCache -----------------------------
(***************************************************************************)
(* The cached block device of s_block_device/src/cached_block_device.c     *)
(* over a device that may fail: pieces go through the cache, ranges use    *)
(* the cache only for sectors it has.  A failed call of the device below   *)
(* is an error of the call, at the point it had reached.                   *)
(***************************************************************************)
EXTENDS Naturals, Functions, FiniteSets

CONSTANTS
    NumSectors, Pieces, Bytes,
    Entries,    \* the cache's entries
    Faults      \* which calls may fail: "read", "write" of the device, "put"

VARIABLES
    disk,       \* the wrapped device
    cache,      \* entry -> [sector_ind, sector]
    fill,       \* cache_fill, as the set of entries handed out
    sector_map,
    answer

cacheVars == <<disk, cache, fill, sector_map, answer>>

Sectors == 0 .. NumSectors - 1
(* What a range writes: sectors whose pieces are alike, which is enough to *)
(* tell writes apart; pieces differ once one is written alone.             *)
Contents == {[p \in Pieces |-> b] : b \in Bytes}
Ranges == {r \in Sectors \X (0 .. NumSectors) : r[1] + r[2] <= NumSectors}
Of(r) == r[1] .. r[1] + r[2] - 1
Cached == DOMAIN sector_map

Ok       == answer' = "ok"
Fault(f) == f \in Faults /\ answer' = "error"

(* new_cached_block_device: the memory of the entries is not cleared, and  *)
(* none is read before it is filled; all start alike.                      *)
CacheInit ==
    /\ disk \in [Sectors -> Contents]
    /\ \E c \in Contents : cache = [e \in Entries |-> [sector_ind |-> 0, sector |-> c]]
    /\ fill = {} /\ sector_map = << >> /\ answer = "ok"

(* What a read finds in sector s. *)
Seen(s) == IF s \in Cached THEN cache[sector_map[s]].sector ELSE disk[s]

-----------------------------------------------------------------------------
(* Ranges *)

(* cbd_read: nothing but dest changes, also when it fails. *)
Read(r) ==
    /\ Ok \/ (Of(r) \ Cached # {} /\ Fault("read"))
    /\ UNCHANGED <<disk, cache, fill, sector_map>>

(* What bd_write of the groups of misses, and mem_cpy of the hits, has     *)
(* done once the sectors of done are written.                              *)
Written(done, c) ==
    /\ disk' = [s \in Sectors |-> IF s \in done \ Cached THEN c ELSE disk[s]]
    /\ cache' = [e \in Entries |->
                   IF \E s \in done \cap Cached : sector_map[s] = e
                   THEN [cache[e] EXCEPT !.sector = c] ELSE cache[e]]

(* cbd_write: in order, and a group that fails leaves the rest alone.  The *)
(* group itself may have been written in part.                             *)
Write(r, c) ==
    /\ UNCHANGED <<fill, sector_map>>
    /\ \/ Ok /\ Written(Of(r), c)
       \/ Fault("write") /\ \E s \in Of(r) \ Cached : Written({q \in Of(r) : q < s}, c)

-----------------------------------------------------------------------------
(* Pieces *)

(* Variant for a mutant: the victim is dropped, not written. *)
Evicted_Dropped(e) == disk

(* The disk once entry e, with the sector it says it has, is written out. *)
Evicted(e) == [disk EXCEPT ![cache[e].sector_ind] = cache[e].sector]

(* The entries the next miss may take: the next unused, or any of them. *)
Victims == IF fill # Entries THEN {CHOOSE e \in Entries \ fill : TRUE} ELSE Entries

(* cbd_get_cache_entry_ind on a miss, and then the piece p of the sector   *)
(* is read (b = "none") or set to b.  The map names the entry before the   *)
(* sector is in it.                                                        *)
Loads(s, e, p, b) ==
    LET full  == fill = Entries
        disk2 == IF full THEN Evicted(e) ELSE disk
        gone  == IF full THEN {cache[e].sector_ind} ELSE {}
        kept  == [q \in Cached \ gone |-> sector_map[q]]
        held(c) == [cache EXCEPT ![e] = [sector_ind |-> s, sector |-> c]]
        named == held(cache[e].sector)
        mapped == [q \in DOMAIN kept \cup {s} |-> IF q = s THEN e ELSE kept[q]]
        got   == disk2[s]
    IN
    \/ full /\ Fault("write") /\ UNCHANGED <<disk, cache, fill, sector_map>>
    \/ /\ disk' = disk2 /\ fill' = fill \cup {e}
       /\ \/ Fault("put") /\ cache' = named /\ sector_map' = kept
          \/ Fault("read") /\ cache' = named /\ sector_map' = mapped
          \/ /\ sector_map' = mapped
             /\ Ok
             /\ cache' = held(IF b = "none" THEN got ELSE [got EXCEPT ![p] = b])

Misses(s, p, b) == s \notin Cached /\ \E e \in Victims : Loads(s, e, p, b)

(* cbd_read_piece *)
ReadPiece(s, p) ==
    \/ Misses(s, p, "none")
    \/ /\ s \in Cached /\ Ok
       /\ UNCHANGED <<disk, cache, fill, sector_map>>

(* cbd_write_piece *)
WritePiece(s, p, b) ==
    \/ Misses(s, p, b)
    \/ /\ s \in Cached /\ Ok
       /\ cache' = [cache EXCEPT ![sector_map[s]].sector[p] = b]
       /\ UNCHANGED <<disk, fill, sector_map>>

-----------------------------------------------------------------------------
(* cbd_flush: all is written, in the order of the map, and then the cache  *)
(* is empty; a write that fails leaves the cache as it is.                 *)
Flushed(done) == [s \in Sectors |-> IF s \in done THEN Seen(s) ELSE disk[s]]

Flush ==
    \/ /\ disk' = Flushed(Cached) /\ fill' = {} /\ sector_map' = << >>
       /\ Ok /\ UNCHANGED cache
    \/ /\ \E done \in SUBSET Cached : done # Cached /\ disk' = Flushed(done)
       /\ Fault("write") /\ UNCHANGED <<cache, fill, sector_map>>

CacheNext ==
    \/ \E r \in Ranges : Read(r) \/ \E c \in Contents : Write(r, c)
    \/ \E s \in Sectors, p \in Pieces :
          ReadPiece(s, p) \/ \E b \in Bytes : WritePiece(s, p, b)
    \/ Flush

CacheSpec == CacheInit /\ [][CacheNext]_cacheVars

-----------------------------------------------------------------------------
Device == INSTANCE BlockDevice WITH
    store <- [s \in Sectors |-> Seen(s)], answer <- answer

(* The cache is transparent: each call does to what its callers see what   *)
(* the same call of a block device does, whatever is evicted, flushed,     *)
(* missed or hit, and whichever writes of the disk fail.  In particular a  *)
(* failed flush or eviction loses nothing that was written, and a range    *)
(* that is half cached reads as the last writes left it                    *)
(* (block_device.h:120-123).                                               *)
ActsAsDevice ==
    /\ \A r \in Ranges : Read(r) => Device!Read
    /\ \A r \in Ranges, c \in Contents : Write(r, c) => Device!Write(r, c)
    /\ \A s \in Sectors, p \in Pieces : ReadPiece(s, p) => Device!Read
    /\ \A s \in Sectors, p \in Pieces, b \in Bytes :
          WritePiece(s, p, b) => Device!WritePiece(s, p, b)
    /\ Flush => Device!Flush

Transparent == Device!Init /\ [][cacheVars' # cacheVars => ActsAsDevice]_cacheVars
=============================================================================
