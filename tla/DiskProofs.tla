----------------------------- MODULE DiskProofs -----------------------------
(***************************************************************************)
(* The disk and the file system on it, for any size of them: the cached    *)
(* disk does what a disk does, a transfer moves the bytes it was asked     *)
(* for, a failing disk gives no cluster to two files, and on one that does *)
(* not fail the calls on chains do what their operators say.               *)
(***************************************************************************)
EXTENDS BlockCache, Fat32Transfer, Fat32Chains,
        QueueLemmas, FiniteSetTheorems, SequenceTheorems, TLAPS

-----------------------------------------------------------------------------
(* The cached block device implements a block device, for any number of    *)
(* sectors, pieces and entries, when its reads do not fail and it has      *)
(* memory: the map and the entries name each other, which is what makes    *)
(* every call of the cache a call of the device.                           *)

SectorData == [Pieces -> Bytes]

CacheTypes ==
    /\ disk \in [Sectors -> SectorData]
    /\ cache \in [Entries -> [sector_ind : Nat, sector : SectorData]]
    /\ fill \subseteq Entries
    /\ Cached \subseteq Sectors /\ sector_map \in [Cached -> fill]

(* A sector is found in the entry that says it has it, and every entry     *)
(* handed out is the one of a sector.                                      *)
MapAndEntriesAgree ==
    /\ \A s \in Cached : cache[sector_map[s]].sector_ind = s
    /\ \A e \in fill : /\ cache[e].sector_ind \in Cached
                       /\ sector_map[cache[e].sector_ind] = e

CacheInv == CacheTypes /\ MapAndEntriesAgree

(* The assumptions: only writes of the device below fail (a read that      *)
(* fails breaks the cache), and "none", which stands for a read of a       *)
(* piece, is not a byte.                                                   *)
Assumed == NumSectors \in Nat /\ Faults \subseteq {"write"} /\ "none" \notin Bytes

LEMMA CacheStart == ASSUME Assumed PROVE CacheInit => CacheInv
<1> SUFFICES ASSUME CacheInit PROVE CacheInv
    OBVIOUS
<1>1. Contents \subseteq SectorData
    BY DEF Contents, SectorData
<1>2. Cached = {} /\ fill = {} /\ sector_map = << >>
    BY DEF CacheInit, Cached
<1>3. sector_map \in [Cached -> fill]
    BY <1>2
<1>4. disk \in [Sectors -> SectorData]
    BY <1>1 DEF CacheInit
<1>5. cache \in [Entries -> [sector_ind : Nat, sector : SectorData]]
    BY <1>1 DEF CacheInit
<1>6. QED BY <1>2, <1>3, <1>4, <1>5 DEF CacheInv, CacheTypes, MapAndEntriesAgree

(* Nothing but the disk, the cache and the map decides what is seen.       *)
LEMMA SeenStays ==
    ASSUME UNCHANGED <<disk, cache, sector_map>>
    PROVE  [s \in Sectors |-> Seen(s)]' = [s \in Sectors |-> Seen(s)]
BY DEF Seen, Cached, Sectors

-----------------------------------------------------------------------------
(* Ranges: the sectors written, and no others, are seen to have changed.   *)
LEMMA WrittenIs ==
    ASSUME CacheInv, NEW done \in SUBSET Sectors, NEW c \in Contents,
           Written(done, c), UNCHANGED <<fill, sector_map>>
    PROVE  /\ CacheInv'
           /\ \A s \in Sectors : Seen(s)' = IF s \in done THEN c ELSE Seen(s)
<1>1. c \in SectorData /\ Cached' = Cached
    BY DEF Contents, SectorData, Cached
<1>2. ASSUME NEW e \in Entries
      PROVE  cache'[e] = IF \E s \in done \cap Cached : sector_map[s] = e
                         THEN [sector_ind |-> cache[e].sector_ind, sector |-> c] ELSE cache[e]
    BY DEF Written, CacheInv, CacheTypes
<1>3. ASSUME NEW e \in Entries
      PROVE  /\ cache'[e] \in [sector_ind : Nat, sector : SectorData]
             /\ cache'[e].sector_ind = cache[e].sector_ind
  <2>1. cache[e] \in [sector_ind : Nat, sector : SectorData]
    BY DEF CacheInv, CacheTypes
  <2>2. CASE \E s \in done \cap Cached : sector_map[s] = e
    <3>1. cache'[e] = [sector_ind |-> cache[e].sector_ind, sector |-> c]
        BY <1>2, <2>2
    <3>2. QED BY <1>1, <2>1, <3>1
  <2>3. CASE ~\E s \in done \cap Cached : sector_map[s] = e
    BY <1>2, <2>1, <2>3
  <2>4. QED BY <2>2, <2>3
<1>4. CacheTypes'
  <2>1. cache' = [e \in Entries |-> cache'[e]]
    BY DEF Written
  <2>2. cache' \in [Entries -> [sector_ind : Nat, sector : SectorData]]
    BY <1>3, <2>1
  <2>3. disk' \in [Sectors -> SectorData]
    BY <1>1 DEF Written, CacheInv, CacheTypes
  <2>4. QED BY <1>1, <2>2, <2>3 DEF CacheInv, CacheTypes
<1>5. MapAndEntriesAgree'
    BY <1>1, <1>3 DEF CacheInv, CacheTypes, MapAndEntriesAgree
<1>6. ASSUME NEW s \in Sectors
      PROVE  Seen(s)' = IF s \in done THEN c ELSE Seen(s)
  <2>1. CASE s \in Cached
    <3>1. sector_map[s] \in Entries /\ sector_map' = sector_map
        BY <2>1 DEF CacheInv, CacheTypes
    <3>2. \A q \in Cached : sector_map[q] = sector_map[s] => q = s
        BY <2>1 DEF CacheInv, MapAndEntriesAgree
    <3>3. cache'[sector_map[s]].sector = IF s \in done THEN c ELSE cache[sector_map[s]].sector
      <4>1. CASE s \in done
        <5>1. \E q \in done \cap Cached : sector_map[q] = sector_map[s]
            BY <2>1, <4>1
        <5>2. cache'[sector_map[s]] = [sector_ind |-> cache[sector_map[s]].sector_ind, sector |-> c]
            BY <1>2, <3>1, <5>1
        <5>3. QED BY <4>1, <5>2
      <4>2. CASE s \notin done
        <5>1. ~\E q \in done \cap Cached : sector_map[q] = sector_map[s]
            BY <3>2, <4>2
        <5>2. cache'[sector_map[s]] = cache[sector_map[s]]
            BY <1>2, <3>1, <5>1
        <5>3. QED BY <4>2, <5>2
      <4>3. QED BY <4>1, <4>2
    <3>4. QED BY <1>1, <2>1, <3>1, <3>3 DEF Seen
  <2>2. CASE s \notin Cached
    BY <1>1, <2>2 DEF Seen, Written
  <2>3. QED BY <2>1, <2>2
<1>7. QED BY <1>4, <1>5, <1>6 DEF CacheInv

LEMMA RangeIn ==
    ASSUME Assumed, NEW r \in Ranges
    PROVE  Of(r) \subseteq Sectors
BY DEF Assumed, Ranges, Of, Sectors

LEMMA StepWrite ==
    ASSUME Assumed, CacheInv, NEW r \in Ranges, NEW c \in Contents, Write(r, c)
    PROVE  CacheInv' /\ Device!Write(r, c)
<1> DEFINE store == [s \in Sectors |-> Seen(s)]
<1>1. Of(r) \subseteq Sectors /\ Device!Of(r) = Of(r) /\ Device!Sectors = Sectors
    BY RangeIn DEF Device!Of, Of, Device!Sectors, Sectors
<1>2. CASE answer' = "ok" /\ Written(Of(r), c) /\ UNCHANGED <<fill, sector_map>>
  <2>1. /\ CacheInv'
        /\ \A s \in Sectors : Seen(s)' = IF s \in Of(r) THEN c ELSE Seen(s)
    BY <1>1, <1>2, WrittenIs
  <2>2. store' = [s \in Sectors |-> IF s \in Of(r) THEN c ELSE store[s]]
    BY <2>1 DEF Sectors
  <2>3. QED BY <1>1, <1>2, <2>1, <2>2 DEF Device!Write, Device!Stored, Device!Ok
<1>3. ASSUME NEW last \in Of(r) \ Cached, Fault("write"),
             Written({q \in Of(r) : q < last}, c), UNCHANGED <<fill, sector_map>>
      PROVE  CacheInv' /\ Device!Write(r, c)
  <2> DEFINE done == {q \in Of(r) : q < last}
  <2>1. done \in SUBSET Of(r) /\ done \in SUBSET Sectors /\ Written(done, c)
    BY <1>1, <1>3
  <2> HIDE DEF done
  <2>2. /\ CacheInv'
        /\ \A s \in Sectors : Seen(s)' = IF s \in done THEN c ELSE Seen(s)
    BY <1>3, <2>1, WrittenIs
  <2>3. store' = [s \in Sectors |-> IF s \in done THEN c ELSE store[s]]
    BY <2>2 DEF Sectors
  <2>4. Device!Stored(done, c) /\ Device!Error
    BY <1>1, <1>3, <2>3 DEF Device!Stored, Device!Error, Fault
  <2>5. QED BY <1>1, <2>1, <2>2, <2>4 DEF Device!Write
<1>4. QED BY <1>2, <1>3 DEF Write, Ok

-----------------------------------------------------------------------------
(* Pieces: what a miss leaves in the cache when it finds the sector.       *)

(* The entry a miss takes is an unused one, or, when all are used, any.    *)
LEMMA VictimIs ==
    ASSUME CacheInv, NEW e \in Victims
    PROVE  e \in Entries /\ (fill # Entries => e \notin fill)
<1>1. fill \subseteq Entries
    BY DEF CacheInv, CacheTypes
<1>2. CASE fill # Entries
  <2>1. \E x : x \in Entries \ fill
    BY <1>1, <1>2
  <2>2. QED BY <1>2, <2>1 DEF Victims
<1>3. QED BY <1>2 DEF Victims

(* A miss that succeeds loads sector s into e, and writes what e had back  *)
(* to the disk.                                                            *)
Loaded(s, e, got) ==
    LET disk2 == IF fill = Entries THEN Evicted(e) ELSE disk
        gone  == IF fill = Entries THEN {cache[e].sector_ind} ELSE {}
    IN
    /\ disk' = disk2 /\ fill' = fill \cup {e}
    /\ sector_map' = [q \in (Cached \ gone) \cup {s} |-> IF q = s THEN e ELSE sector_map[q]]
    /\ cache' = [cache EXCEPT ![e] = [sector_ind |-> s, sector |-> got]]

LEMMA LoadedIs ==
    ASSUME CacheInv, NEW s \in Sectors \ Cached, NEW e \in Victims,
           NEW got \in SectorData, Loaded(s, e, got), Assumed
    PROVE  /\ CacheInv'
           /\ \A q \in Sectors : Seen(q)' = IF q = s THEN got ELSE Seen(q)
<1> DEFINE full == fill = Entries
           v == cache[e].sector_ind
           gone == IF full THEN {v} ELSE {}
<1>1. e \in Entries /\ (~full => e \notin fill) /\ (full => e \in fill)
    BY VictimIs
<1>2. full => v \in Cached /\ v \in Sectors /\ v # s /\ sector_map[v] = e
    BY <1>1 DEF CacheInv, CacheTypes, MapAndEntriesAgree
<1>3. /\ disk' = (IF full THEN [disk EXCEPT ![v] = cache[e].sector] ELSE disk)
      /\ fill' = fill \cup {e} /\ Cached' = (Cached \ gone) \cup {s}
      /\ sector_map' = [q \in (Cached \ gone) \cup {s} |-> IF q = s THEN e ELSE sector_map[q]]
      /\ cache' = [cache EXCEPT ![e] = [sector_ind |-> s, sector |-> got]]
    BY DEF Loaded, Evicted, Cached
<1>4. /\ cache'[e] = [sector_ind |-> s, sector |-> got]
      /\ \A x \in Entries : x # e => cache'[x] = cache[x]
      /\ cache' \in [Entries -> [sector_ind : Nat, sector : SectorData]]
  <2>1. s \in Nat
    BY DEF Sectors, Assumed
  <2>2. [sector_ind |-> s, sector |-> got] \in [sector_ind : Nat, sector : SectorData]
    BY <2>1
  <2>3. QED BY <1>1, <1>3, <2>2 DEF CacheInv, CacheTypes
<1>5. \A q \in Cached \ gone : /\ q # s /\ q \in Sectors /\ sector_map[q] \in fill
                               /\ sector_map[q] \in Entries /\ sector_map[q] # e
                               /\ cache[sector_map[q]].sector_ind = q
  <2> SUFFICES ASSUME NEW q \in Cached \ gone
               PROVE  /\ q # s /\ q \in Sectors /\ sector_map[q] \in fill
                      /\ sector_map[q] \in Entries /\ sector_map[q] # e
                      /\ cache[sector_map[q]].sector_ind = q
    OBVIOUS
  <2>1. /\ q # s /\ q \in Sectors /\ sector_map[q] \in fill /\ sector_map[q] \in Entries
        /\ cache[sector_map[q]].sector_ind = q
    BY DEF CacheInv, CacheTypes, MapAndEntriesAgree
  <2>2. sector_map[q] # e
    BY <1>1, <2>1
  <2>3. QED BY <2>1, <2>2
<1>6. /\ sector_map'[s] = e
      /\ \A q \in Cached \ gone : sector_map'[q] = sector_map[q]
    BY <1>3, <1>5
<1>7. CacheTypes'
  <2>1. disk' \in [Sectors -> SectorData]
    BY <1>1, <1>2, <1>3 DEF CacheInv, CacheTypes
  <2>2. fill' \subseteq Entries /\ Cached' \subseteq Sectors
    BY <1>1, <1>3, <1>5 DEF CacheInv, CacheTypes
  <2>3. sector_map' \in [Cached' -> fill']
    BY <1>3, <1>5
  <2>4. QED BY <1>4, <2>1, <2>2, <2>3 DEF CacheTypes
<1>8. MapAndEntriesAgree'
  <2>1. ASSUME NEW q \in Cached' PROVE cache'[sector_map'[q]].sector_ind = q
    BY <2>1, <1>3, <1>4, <1>5, <1>6
  <2>2. ASSUME NEW x \in fill'
        PROVE  cache'[x].sector_ind \in Cached' /\ sector_map'[cache'[x].sector_ind] = x
    <3>1. CASE x = e
        BY <3>1, <1>3, <1>4, <1>6
    <3>2. CASE x # e
      <4>1. x \in fill /\ x \in Entries
        BY <3>2, <1>3 DEF CacheInv, CacheTypes
      <4>2. cache[x].sector_ind \in Cached /\ sector_map[cache[x].sector_ind] = x
        BY <4>1 DEF CacheInv, MapAndEntriesAgree
      <4>3. cache[x].sector_ind \notin gone
        BY <3>2, <4>2, <1>2
      <4>4. QED BY <3>2, <4>1, <4>2, <4>3, <1>3, <1>4, <1>6
    <3>3. QED BY <3>1, <3>2
  <2>3. QED BY <2>1, <2>2 DEF MapAndEntriesAgree
<1>9. ASSUME NEW q \in Sectors
      PROVE  Seen(q)' = IF q = s THEN got ELSE Seen(q)
  <2>1. CASE q = s
    BY <2>1, <1>3, <1>4, <1>6 DEF Seen
  <2>2. CASE q # s /\ q \in Cached \ gone
    BY <2>2, <1>3, <1>4, <1>5, <1>6 DEF Seen
  <2>3. CASE q # s /\ q \in gone
    <3>1. full /\ q = v
        BY <2>3
    <3>2. disk'[q] = cache[e].sector /\ q \notin Cached'
        BY <2>3, <3>1, <1>3 DEF CacheInv, CacheTypes
    <3>3. Seen(q) = cache[e].sector
        BY <3>1, <1>2 DEF Seen
    <3>4. QED BY <2>3, <3>2, <3>3 DEF Seen
  <2>4. CASE q # s /\ q \notin Cached
    <3>1. q \notin Cached'
        BY <2>4, <1>3
    <3>2. disk'[q] = disk[q]
        BY <2>4, <1>2, <1>3 DEF CacheInv, CacheTypes
    <3>3. QED BY <2>4, <3>1, <3>2 DEF Seen
  <2>5. QED BY <2>1, <2>2, <2>3, <2>4
<1>10. QED BY <1>7, <1>8, <1>9 DEF CacheInv

(* A sector and a piece that misses: the call fails in its eviction and    *)
(* changes nothing, or the sector is loaded, and the piece set if asked.   *)
LEMMA LoadsIs ==
    ASSUME Assumed, CacheInv, NEW s \in Sectors \ Cached, NEW p \in Pieces,
           NEW b \in Bytes \cup {"none"}, NEW e \in Victims, Loads(s, e, p, b)
    PROVE  \/ answer' = "error" /\ UNCHANGED <<disk, cache, fill, sector_map>>
           \/ /\ answer' = "ok"
              /\ Loaded(s, e, IF b = "none" THEN Seen(s) ELSE [Seen(s) EXCEPT ![p] = b])
<1> DEFINE full == fill = Entries
           disk2 == IF full THEN Evicted(e) ELSE disk
           got == IF b = "none" THEN disk2[s] ELSE [disk2[s] EXCEPT ![p] = b]
<1>1. CASE full /\ Fault("write") /\ UNCHANGED <<disk, cache, fill, sector_map>>
    BY <1>1 DEF Fault
<1>2. CASE /\ disk' = disk2 /\ fill' = fill \cup {e} /\ answer' = "ok"
           /\ sector_map' = [q \in (Cached \ (IF full THEN {cache[e].sector_ind} ELSE {})) \cup {s} |->
                                IF q = s THEN e ELSE sector_map[q]]
           /\ cache' = [cache EXCEPT ![e] = [sector_ind |-> s, sector |-> got]]
  <2>1. full => cache[e].sector_ind \in Cached
    BY VictimIs DEF CacheInv, MapAndEntriesAgree
  <2>2. disk2[s] = Seen(s)
    <3>1. CASE full
        BY <2>1, <3>1 DEF Evicted, Seen, CacheInv, CacheTypes
    <3>2. CASE ~full
        BY <3>2 DEF Seen
    <3>3. QED BY <3>1, <3>2
  <2>3. got = IF b = "none" THEN Seen(s) ELSE [Seen(s) EXCEPT ![p] = b]
    BY <2>2
  <2>4. QED BY <1>2, <2>3 DEF Loaded
<1>3. CASE /\ disk' = disk2 /\ fill' = fill \cup {e} /\ answer' = "ok"
           /\ sector_map' = [q \in DOMAIN [r \in Cached \ (IF full THEN {cache[e].sector_ind} ELSE {})
                                              |-> sector_map[r]] \cup {s} |->
                                IF q = s THEN e
                                ELSE [r \in Cached \ (IF full THEN {cache[e].sector_ind} ELSE {})
                                        |-> sector_map[r]][q]]
           /\ cache' = [cache EXCEPT ![e] = [sector_ind |-> s, sector |-> got]]
  <2> DEFINE K == Cached \ (IF full THEN {cache[e].sector_ind} ELSE {})
             kept == [r \in K |-> sector_map[r]]
  <2>1. /\ DOMAIN kept = K /\ \A q \in K : kept[q] = sector_map[q]
    OBVIOUS
  <2>2. sector_map' = [q \in K \cup {s} |-> IF q = s THEN e ELSE sector_map[q]]
    BY <1>3, <2>1
  <2>3. QED BY <1>2, <1>3, <2>2
<1>4. QED BY <1>1, <1>3 DEF Loads, Fault, Ok, Assumed

(* A step in which nothing of the cache changes.                           *)
LEMMA CacheStays ==
    ASSUME CacheInv, UNCHANGED <<disk, cache, fill, sector_map>>
    PROVE  CacheInv' /\ [s \in Sectors |-> Seen(s)]' = [s \in Sectors |-> Seen(s)]
BY SeenStays DEF CacheInv, CacheTypes, MapAndEntriesAgree, Cached

LEMMA StepRead ==
    ASSUME CacheInv, NEW r \in Ranges, Read(r)
    PROVE  CacheInv' /\ Device!Read
BY CacheStays DEF Read, Device!Read, Device!Ok, Device!Error, Ok, Fault

LEMMA StepReadPiece ==
    ASSUME Assumed, CacheInv, NEW s \in Sectors, NEW p \in Pieces, ReadPiece(s, p)
    PROVE  CacheInv' /\ Device!Read
<1> USE DEF Device!Read, Device!Ok, Device!Error, Ok
<1>1. CASE s \in Cached /\ Ok /\ UNCHANGED <<disk, cache, fill, sector_map>>
    BY <1>1, CacheStays
<1>2. ASSUME s \notin Cached, NEW e \in Victims, Loads(s, e, p, "none")
      PROVE  CacheInv' /\ Device!Read
  <2>1. \/ answer' = "error" /\ UNCHANGED <<disk, cache, fill, sector_map>>
        \/ answer' = "ok" /\ Loaded(s, e, Seen(s))
    BY <1>2, LoadsIs
  <2>2. Seen(s) \in SectorData
    BY <1>2 DEF Seen, CacheInv, CacheTypes
  <2>3. CASE answer' = "ok" /\ Loaded(s, e, Seen(s))
    <3>1. /\ CacheInv'
          /\ \A q \in Sectors : Seen(q)' = IF q = s THEN Seen(s) ELSE Seen(q)
        BY <1>2, <2>2, <2>3, LoadedIs
    <3>2. \A q \in Sectors : Seen(q)' = Seen(q)
        BY <3>1
    <3>3. [q \in Sectors |-> Seen(q)]' = [q \in Sectors |-> Seen(q)]
        BY <3>2 DEF Sectors
    <3>4. QED BY <2>3, <3>1, <3>3
  <2>4. QED BY <2>1, <2>3, CacheStays
<1>3. QED BY <1>1, <1>2 DEF ReadPiece, Misses

LEMMA StepWritePiece ==
    ASSUME Assumed, CacheInv, NEW s \in Sectors, NEW p \in Pieces, NEW b \in Bytes,
           WritePiece(s, p, b)
    PROVE  CacheInv' /\ Device!WritePiece(s, p, b)
<1> DEFINE store == [q \in Sectors |-> Seen(q)]
           got == [Seen(s) EXCEPT ![p] = b]
<1>1. Seen(s) \in SectorData
    BY DEF Seen, CacheInv, CacheTypes
<1>2. got \in SectorData
    BY <1>1 DEF SectorData
<1>3. ASSUME answer' = "ok", CacheInv',
             \A q \in Sectors : Seen(q)' = IF q = s THEN got ELSE Seen(q)
      PROVE  CacheInv' /\ Device!WritePiece(s, p, b)
  <2>1. store' = [q \in Sectors |-> IF q = s THEN got ELSE Seen(q)]
    BY <1>3 DEF Sectors
  <2>2. store' = [store EXCEPT ![s] = got]
    BY <2>1
  <2>3. [store EXCEPT ![s] = got] = [store EXCEPT ![s][p] = b]
    OBVIOUS
  <2>4. QED BY <1>3, <2>2, <2>3 DEF Device!WritePiece, Device!Ok
<1>4. CASE /\ s \in Cached /\ Ok /\ UNCHANGED <<disk, fill, sector_map>>
           /\ cache' = [cache EXCEPT ![sector_map[s]].sector[p] = b]
  <2> DEFINE e == sector_map[s]
  <2>1. e \in Entries /\ Cached' = Cached /\ sector_map' = sector_map /\ disk' = disk
    BY <1>4 DEF CacheInv, CacheTypes, Cached
  <2>2. /\ cache'[e] = [sector_ind |-> cache[e].sector_ind, sector |-> got]
        /\ \A x \in Entries : x # e => cache'[x] = cache[x]
        /\ cache' \in [Entries -> [sector_ind : Nat, sector : SectorData]]
    <3>1. Seen(s) = cache[e].sector
        BY <1>4 DEF Seen
    <3>2. cache[e] \in [sector_ind : Nat, sector : SectorData]
        BY <2>1 DEF CacheInv, CacheTypes
    <3>3. cache' = [cache EXCEPT ![e] = [sector_ind |-> cache[e].sector_ind, sector |-> got]]
      <4>1. cache[e] = [sector_ind |-> cache[e].sector_ind, sector |-> cache[e].sector]
        BY <3>2
      <4>2. [cache[e] EXCEPT !.sector[p] = b] =
                [sector_ind |-> cache[e].sector_ind, sector |-> [cache[e].sector EXCEPT ![p] = b]]
        BY <4>1
      <4>3. cache' = [cache EXCEPT ![e] = [cache[e] EXCEPT !.sector[p] = b]]
        BY <1>4
      <4>4. QED BY <3>1, <4>2, <4>3
    <3>4. [sector_ind |-> cache[e].sector_ind, sector |-> got] \in [sector_ind : Nat, sector : SectorData]
        BY <1>2, <3>2
    <3>5. QED BY <2>1, <3>3, <3>4 DEF CacheInv, CacheTypes
  <2> HIDE DEF e, got
  <2>3. \A x \in Entries : cache'[x].sector_ind = cache[x].sector_ind
    BY <2>1, <2>2
  <2>4. CacheInv'
    BY <1>4, <2>1, <2>2, <2>3 DEF CacheInv, CacheTypes, MapAndEntriesAgree
  <2>5. \A q \in Cached : q # s => sector_map[q] # e
    BY <1>4 DEF e, CacheInv, MapAndEntriesAgree
  <2>6. ASSUME NEW q \in Sectors
        PROVE  Seen(q)' = IF q = s THEN got ELSE Seen(q)
    <3>1. CASE q \in Cached /\ q # s
      <4>1. sector_map[q] \in Entries /\ sector_map[q] # e
        BY <3>1, <2>5 DEF CacheInv, CacheTypes
      <4>2. QED BY <3>1, <4>1, <2>1, <2>2 DEF Seen
    <3>2. CASE q \notin Cached
        BY <3>2, <1>4, <2>1 DEF Seen
    <3>3. CASE q = s
        BY <3>3, <1>4, <2>1, <2>2 DEF Seen, e
    <3>4. QED BY <3>1, <3>2, <3>3
  <2>7. QED BY <1>3, <1>4, <2>4, <2>6 DEF Ok
<1>5. ASSUME s \notin Cached, NEW e \in Victims, Loads(s, e, p, b)
      PROVE  CacheInv' /\ Device!WritePiece(s, p, b)
  <2>1. \/ answer' = "error" /\ UNCHANGED <<disk, cache, fill, sector_map>>
        \/ answer' = "ok" /\ Loaded(s, e, got)
    BY <1>5, LoadsIs DEF Assumed
  <2>2. CASE answer' = "error" /\ UNCHANGED <<disk, cache, fill, sector_map>>
    BY <2>2, CacheStays DEF Device!WritePiece, Device!Error
  <2>3. CASE answer' = "ok" /\ Loaded(s, e, got)
    BY <1>2, <1>3, <1>5, <2>3, LoadedIs
  <2>4. QED BY <2>1, <2>2, <2>3
<1>6. QED BY <1>4, <1>5 DEF WritePiece, Misses

-----------------------------------------------------------------------------
(* A flush leaves what is seen where it was: on the disk, and, while the   *)
(* cache is not emptied, still in the cache.                               *)
LEMMA StepFlush ==
    ASSUME CacheInv, Flush
    PROVE  CacheInv' /\ Device!Flush
<1>1. \A s \in Sectors : Seen(s) \in SectorData
    BY DEF Seen, CacheInv, CacheTypes
<1>2. ASSUME NEW done PROVE Flushed(done) \in [Sectors -> SectorData]
    BY <1>1 DEF Flushed, CacheInv, CacheTypes
<1>3. CASE /\ disk' = Flushed(Cached) /\ fill' = {} /\ sector_map' = << >>
           /\ Ok /\ UNCHANGED cache
  <2>1. Cached' = {} /\ sector_map' \in [Cached' -> fill']
    BY <1>3 DEF Cached
  <2>2. CacheInv'
    BY <1>2, <1>3, <2>1 DEF CacheInv, CacheTypes, MapAndEntriesAgree
  <2>3. \A s \in Sectors : Seen(s)' = Seen(s)
    BY <1>3, <2>1 DEF Seen, Flushed
  <2>4. [s \in Sectors |-> Seen(s)]' = [s \in Sectors |-> Seen(s)]
    BY <2>3 DEF Sectors
  <2>5. QED BY <1>3, <2>2, <2>4 DEF Device!Flush, Device!Ok, Ok
<1>4. ASSUME NEW done \in SUBSET Cached, disk' = Flushed(done), Fault("write"),
             UNCHANGED <<cache, fill, sector_map>>
      PROVE  CacheInv' /\ Device!Flush
  <2>1. Cached' = Cached
    BY <1>4 DEF Cached
  <2>2. CacheInv'
    BY <1>2, <1>4, <2>1 DEF CacheInv, CacheTypes, MapAndEntriesAgree
  <2>3. \A s \in Sectors : Seen(s)' = Seen(s)
    BY <1>4, <2>1 DEF Seen, Flushed
  <2>4. [s \in Sectors |-> Seen(s)]' = [s \in Sectors |-> Seen(s)]
    BY <2>3 DEF Sectors
  <2>5. QED BY <1>4, <2>2, <2>4 DEF Device!Flush, Device!Error, Fault
<1>5. QED BY <1>3, <1>4 DEF Flush

-----------------------------------------------------------------------------
(* Each call of the cached device does to what is seen what the same call  *)
(* of a block device does, in every state the cache can be in.             *)
THEOREM CacheIsTransparent ==
    ASSUME Assumed
    PROVE  CacheSpec => Transparent
<1>1. CacheInit => CacheInv
    BY CacheStart
<1>2. CacheInv /\ [CacheNext]_cacheVars => CacheInv'
  <2>1. CASE UNCHANGED cacheVars
    BY <2>1, CacheStays DEF cacheVars
  <2>2. QED BY <2>1, StepRead, StepWrite, StepReadPiece, StepWritePiece, StepFlush
            DEF CacheNext
<1>3. CacheInv => (cacheVars' # cacheVars => ActsAsDevice)
    BY StepRead, StepWrite, StepReadPiece, StepWritePiece, StepFlush DEF ActsAsDevice
<1>4. CacheInit => Device!Init
  <2> SUFFICES ASSUME CacheInit PROVE Device!Init
    OBVIOUS
  <2>1. Cached = {} /\ disk \in [Sectors -> Contents] /\ answer = "ok"
    BY DEF CacheInit, Cached
  <2>2. [s \in Sectors |-> Seen(s)] \in [Sectors -> Contents]
    BY <2>1 DEF Seen
  <2>3. QED BY <2>1, <2>2 DEF Device!Init, Device!Sectors, Sectors, Device!Contents, Contents
<1>5. QED BY <1>1, <1>2, <1>3, <1>4, PTL DEF CacheSpec, Transparent

-----------------------------------------------------------------------------
(* Transfers of a file, for sectors and clusters of any size, files of any *)
(* chain, and any request.                                                 *)

(* Division, where the divisor is no number the provers know. *)
LEMMA Divided ==
    ASSUME NEW a \in Nat, NEW n \in Nat \ {0}
    PROVE  a \div n \in Nat /\ a % n \in 0 .. n - 1 /\ a = n * (a \div n) + (a % n)
<1>1. a \div n \in Nat
    OBVIOUS
<1>2. a % n \in 0 .. n - 1
    OBVIOUS
<1>3. a = n * (a \div n) + (a % n)
    OBVIOUS
<1>4. QED BY <1>1, <1>2, <1>3

LEMMA NoTwoQuotients ==
    ASSUME NEW n \in Nat \ {0}, NEW q \in Nat, NEW p \in Nat,
           NEW r \in 0 .. n - 1, NEW t \in 0 .. n - 1, n * q + r = n * p + t
    PROVE  ~(q < p)
<1> SUFFICES ASSUME q < p PROVE FALSE
    OBVIOUS
<1> DEFINE d == p - q - 1
<1>1. d \in Nat /\ p = q + 1 + d
    OBVIOUS
<1> HIDE DEF d
<1>2. n * p = n * q + n + n * d
    BY <1>1
<1>3. n * d \in Nat /\ n * q \in Nat
    BY <1>1
<1>4. QED BY <1>2, <1>3

LEMMA Quotient ==
    ASSUME NEW n \in Nat \ {0}, NEW q \in Nat, NEW r \in 0 .. n - 1
    PROVE  (n * q + r) \div n = q /\ (n * q + r) % n = r
<1> DEFINE a == n * q + r
           p == a \div n
           t == a % n
<1>1. a \in Nat
    OBVIOUS
<1> HIDE DEF a
<1>2. p \in Nat /\ t \in 0 .. n - 1 /\ a = n * p + t
    BY <1>1, Divided
<1> HIDE DEF p, t
<1>3. n * q + r = n * p + t
    BY <1>2 DEF a
<1>4. ~(q < p) /\ ~(p < q)
    BY <1>2, <1>3, NoTwoQuotients
<1>5. p = q
    BY <1>2, <1>4
<1>6. t = r
    BY <1>2, <1>3, <1>5
<1>7. QED BY <1>5, <1>6 DEF p, t, a

LEMMA Times3 ==
    ASSUME NEW a \in Nat, NEW b \in Nat, NEW n \in Nat, a <= b
    PROVE  a * n <= b * n /\ a * n \in Nat
<1> DEFINE d == b - a
<1>1. d \in Nat /\ b = a + d
    OBVIOUS
<1> HIDE DEF d
<1>2. b * n = a * n + d * n /\ d * n \in Nat /\ a * n \in Nat
    BY <1>1
<1>3. QED BY <1>2

(* Where byte i of a request from offset o lies, and its first n bytes. *)
ClusterSize  == SectorSize * SectorsPerCluster
PlaceOf(o, i) == <<i, Clusters[(o + i) \div ClusterSize + 1], (o + i) % ClusterSize>>
Places(o, i, n) == {PlaceOf(o, j) : j \in i .. i + n - 1}
Prefix(o, n)  == {PlaceOf(o, i) : i \in 0 .. n - 1}

LEMMA SizesAre ==
    /\ SectorSize \in Nat \ {0} /\ SectorsPerCluster \in Nat \ {0} /\ CountValues \in Nat \ {0}
    /\ ClusterSize \in Nat \ {0} /\ Offsets \subseteq Nat /\ Lengths \subseteq Nat
<1>1. ClusterSize \in Nat /\ ClusterSize # 0
    BY TransferAssumption DEF ClusterSize
<1>2. QED BY <1>1, TransferAssumption

(* A sector is one of its cluster. *)
LEMMA SectorIs ==
    ASSUME NEW s \in Nat
    PROVE  /\ LinkOf(s) \in Nat \ {0} /\ LinkOf(s) - 1 \in Nat
           /\ Shift(s) \in 0 .. SectorsPerCluster - 1
           /\ s = SectorsPerCluster * (LinkOf(s) - 1) + Shift(s)
<1>1. /\ s \div SectorsPerCluster \in Nat
      /\ s % SectorsPerCluster \in 0 .. SectorsPerCluster - 1
      /\ s = SectorsPerCluster * (s \div SectorsPerCluster) + (s % SectorsPerCluster)
    BY SizesAre, Divided
<1> DEFINE q == s \div SectorsPerCluster
<1>2. LinkOf(s) = q + 1 /\ Shift(s) = s % SectorsPerCluster
    BY DEF LinkOf, Shift
<1> HIDE DEF q
<1>3. q \in Nat
    BY <1>1 DEF q
<1>4. LinkOf(s) - 1 = q /\ LinkOf(s) \in Nat \ {0}
    BY <1>2, <1>3
<1>5. QED BY <1>1, <1>2, <1>3, <1>4 DEF q

(* Byte i of a request from o is byte b of sector s, and the n bytes from  *)
(* there are in one cluster.                                               *)
Begins(o, i, s, b)  == o + i = s * SectorSize + b
Within(s, b, n)     == Shift(s) * SectorSize + b + n <= SectorsPerCluster * SectorSize

(* An access within a cluster moves the bytes it should. *)
LEMMA SpanIs ==
    ASSUME NEW o \in Nat, NEW i \in Nat, NEW s \in Nat, NEW b \in Nat, NEW len \in Nat,
           Begins(o, i, s, b), Within(s, b, len)
    PROVE  Span(i, LinkOf(s), Shift(s), b, len) = Places(o, i, len)
<1> DEFINE l == LinkOf(s) - 1
           h == Shift(s)
<1>1. /\ LinkOf(s) \in Nat /\ LinkOf(s) = l + 1 /\ l \in Nat /\ h \in Nat
      /\ s = SectorsPerCluster * l + h
    BY SectorIs
<1> HIDE DEF l, h
<1>2. h * SectorSize \in Nat /\ ClusterSize * l \in Nat
      /\ h * SectorSize + b + len <= ClusterSize
    BY <1>1, SizesAre DEF h, ClusterSize, Within
<1>3. s * SectorSize = ClusterSize * l + h * SectorSize
    BY <1>1, SizesAre DEF ClusterSize
<1>4. ASSUME NEW k \in 0 .. len - 1
      PROVE  PlaceOf(o, i + k) = <<i + k, Clusters[LinkOf(s)], h * SectorSize + b + k>>
  <2> DEFINE r == h * SectorSize + b + k
             a == ClusterSize * l
  <2>1. r \in 0 .. ClusterSize - 1
    BY <1>2, SizesAre
  <2>2. o + (i + k) = a + r
    BY <1>2, <1>3 DEF Begins
  <2> HIDE DEF r
  <2>3. (a + r) \div ClusterSize = l /\ (a + r) % ClusterSize = r
    BY <1>1, <2>1, SizesAre, Quotient
  <2> HIDE DEF a
  <2>4. (o + (i + k)) \div ClusterSize = l /\ (o + (i + k)) % ClusterSize = r
    BY <2>2, <2>3
  <2>5. (o + (i + k)) \div ClusterSize + 1 = LinkOf(s)
    BY <1>1, <2>4
  <2>6. PlaceOf(o, i + k) = <<i + k, Clusters[LinkOf(s)], r>>
    BY <2>4, <2>5 DEF PlaceOf
  <2>7. QED BY <2>6 DEF r
<1>5. Span(i, LinkOf(s), Shift(s), b, len) =
        {<<i + k, Clusters[LinkOf(s)], h * SectorSize + b + k>> : k \in 0 .. len - 1}
    BY DEF Span, h
<1>6. {<<i + k, Clusters[LinkOf(s)], h * SectorSize + b + k>> : k \in 0 .. len - 1} =
      {PlaceOf(o, i + k) : k \in 0 .. len - 1}
    BY <1>4
<1>7. \A x : x \in {PlaceOf(o, i + k) : k \in 0 .. len - 1} <=>
             x \in {PlaceOf(o, j) : j \in i .. i + len - 1}
  <2> TAKE x
  <2>1. ASSUME NEW k \in 0 .. len - 1, x = PlaceOf(o, i + k)
        PROVE  x \in {PlaceOf(o, j) : j \in i .. i + len - 1}
    <3>1. i + k \in i .. i + len - 1
        OBVIOUS
    <3>2. QED BY <2>1, <3>1
  <2>2. ASSUME NEW j \in i .. i + len - 1, x = PlaceOf(o, j)
        PROVE  x \in {PlaceOf(o, i + k) : k \in 0 .. len - 1}
    <3>1. j - i \in 0 .. len - 1 /\ i + (j - i) = j
        OBVIOUS
    <3>2. PlaceOf(o, i + (j - i)) = x
        BY <2>2, <3>1
    <3>3. QED BY <3>1, <3>2
  <2>3. QED BY <2>1, <2>2
<1>8. QED BY <1>5, <1>6, <1>7 DEF Places

LEMMA PrefixGrows ==
    ASSUME NEW o, NEW n \in Nat, NEW len \in Nat
    PROVE  Prefix(o, n) \cup Places(o, n, len) = Prefix(o, n + len)
<1>1. 0 .. (n + len) - 1 = (0 .. n - 1) \cup (n .. n + len - 1)
    OBVIOUS
<1>2. QED BY <1>1 DEF Prefix, Places

-----------------------------------------------------------------------------
(* The invariant: what was moved is a beginning of the request, as long as *)
(* the call has counted, and what remains begins with a sector.            *)

Aligned(o) == o % SectorSize = 0

TransferTypes ==
    /\ req.offset \in Nat /\ req.bytes \in Nat /\ processed \in Nat /\ sectors \in Nat

(* The rounds are where the next sector is; or the count of what is left,  *)
(* in a byte, is zero, and the loop runs to the end of the chain.          *)
Stuck(n) == n % CountValues = 0

InRounds ==
    /\ Aligned(req.offset + processed) /\ processed <= req.bytes
    /\ sectors < Middle /\ sectors * SectorSize + processed <= req.bytes
    /\ moved = Prefix(req.offset, processed + sectors * SectorSize)
    /\ \/ Stuck(Middle - sectors)
       \/ /\ link = LinkOf(FirstSector + sectors)
          /\ sectors = 0 \/ Shift(FirstSector + sectors) = 0

TransferInv ==
    /\ TransferTypes
    /\ pc \in {"first", "middle", "sectors", "last"} \cup Answers
    /\ pc \in Answers => \E n \in 0 .. req.bytes : moved = Prefix(req.offset, n)
    /\ pc = "success" => moved = Prefix(req.offset, req.bytes)
    /\ pc = "first" => processed = 0 /\ sectors = 0 /\ moved = Prefix(req.offset, 0)
    /\ pc \in {"middle", "last"} =>
          /\ processed <= req.bytes /\ moved = Prefix(req.offset, processed)
          /\ Aligned(req.offset + processed) \/ processed = req.bytes
    /\ pc = "middle" => sectors = 0
    /\ pc = "sectors" => InRounds
    /\ pc = "last" => req.bytes - processed < SectorSize

LEMMA PrefixIs ==
    /\ \A i : ByteOfFile(i) = PlaceOf(req.offset, i)
    /\ \A o : Prefix(o, 0) = {}
    /\ \A o : \A n, m \in Nat : n <= m => Prefix(o, n) \subseteq Prefix(o, m)
<1>1. \A i : ByteOfFile(i) = PlaceOf(req.offset, i)
    BY DEF ByteOfFile, PlaceOf, ClusterSize
<1>2. \A o : Prefix(o, 0) = {}
    BY DEF Prefix
<1>3. \A n, m \in Nat : n <= m => 0 .. n - 1 \subseteq 0 .. m - 1
    OBVIOUS
<1>4. \A o : \A n, m \in Nat : n <= m => Prefix(o, n) \subseteq Prefix(o, m)
    BY <1>3 DEF Prefix
<1>5. QED BY <1>1, <1>2, <1>4

(* An aligned byte begins its sector. *)
LEMMA SectorHolds ==
    ASSUME NEW o \in Nat
    PROVE  /\ Sector(o) \in Nat /\ o % SectorSize \in 0 .. SectorSize - 1
           /\ o = Sector(o) * SectorSize + (o % SectorSize)
           /\ Aligned(o) => o = Sector(o) * SectorSize
<1>1. /\ o \div SectorSize \in Nat /\ o % SectorSize \in 0 .. SectorSize - 1
      /\ o = SectorSize * (o \div SectorSize) + (o % SectorSize)
    BY SizesAre, Divided
<1> DEFINE q == o \div SectorSize
           t == o % SectorSize
<1>2. Sector(o) = q
    BY DEF Sector
<1> HIDE DEF q
<1>3. SectorSize * q = q * SectorSize /\ q \in Nat /\ q * SectorSize \in Nat
    BY <1>1, SizesAre DEF q
<1>4. Aligned(o) => t = 0
    BY DEF Aligned
<1> HIDE DEF t
<1>5. o = q * SectorSize + t /\ t \in 0 .. SectorSize - 1
    BY <1>1, <1>3 DEF q, t
<1>6. Aligned(o) => o = q * SectorSize
    BY <1>3, <1>4, <1>5
<1>7. QED BY <1>2, <1>3, <1>5, <1>6 DEF t

(* A sector of a cluster has room in it. *)
LEMMA RoomIs ==
    ASSUME NEW h \in Nat, NEW n \in Nat, h + n <= SectorsPerCluster
    PROVE  h * SectorSize + n * SectorSize <= SectorsPerCluster * SectorSize
<1>1. (h + n) * SectorSize <= SectorsPerCluster * SectorSize
    BY SizesAre, Times3
<1>2. (h + n) * SectorSize = h * SectorSize + n * SectorSize
    BY SizesAre
<1>3. QED BY <1>1, <1>2

(* A piece of a sector, from byte o + i of the file on. *)
InSector(o, i, b, n) == b = (o + i) % SectorSize /\ b + n <= SectorSize
PieceAt(o, i, b, n)  == Span(i, LinkOf(Sector(o + i)), Shift(Sector(o + i)), b, n)

LEMMA PieceIs ==
    ASSUME NEW o \in Nat, NEW i \in Nat, NEW b \in Nat, NEW len \in Nat, InSector(o, i, b, len)
    PROVE  Prefix(o, i) \cup PieceAt(o, i, b, len) = Prefix(o, i + len)
<1> DEFINE a == o + i
           s == Sector(a)
<1>0. a \in Nat /\ b = a % SectorSize /\ b + len <= SectorSize
    BY DEF InSector
<1> HIDE DEF a
<1>1. s \in Nat /\ a = s * SectorSize + b
  <2>1. s \in Nat /\ a = s * SectorSize + (a % SectorSize)
    BY <1>0, SectorHolds, Zenon
  <2>2. QED BY <1>0, <2>1, Zenon
<1> HIDE DEF s
<1>2. Shift(s) \in Nat /\ Shift(s) + 1 <= SectorsPerCluster
  <2>1. s \in Nat
    BY <1>1
  <2>2. Shift(s) \in 0 .. SectorsPerCluster - 1
    BY <2>1, SectorIs, Zenon
  <2>3. QED BY <2>2, SizesAre
<1>3. Shift(s) * SectorSize + 1 * SectorSize <= SectorsPerCluster * SectorSize
    BY <1>2, RoomIs
<1>4. Shift(s) * SectorSize \in Nat /\ SectorsPerCluster * SectorSize \in Nat
    BY <1>2, SizesAre
<1>5. Within(s, b, len)
  <2> DEFINE x == Shift(s) * SectorSize
             y == SectorsPerCluster * SectorSize
  <2>1. x \in Nat /\ y \in Nat /\ x + SectorSize <= y /\ SectorSize \in Nat
    BY <1>3, <1>4, SizesAre
  <2> HIDE DEF x, y
  <2>2. x + b + len <= y
    BY <1>0, <2>1
  <2>3. QED BY <2>2 DEF x, y, Within
<1>6. Begins(o, i, s, b)
    BY <1>1 DEF a, Begins
<1>7. Span(i, LinkOf(s), Shift(s), b, len) = Places(o, i, len)
    BY <1>1, <1>5, <1>6, SpanIs
<1>8. Prefix(o, i) \cup Span(i, LinkOf(s), Shift(s), b, len) = Prefix(o, i + len)
    BY <1>7, PrefixGrows
<1>9. QED BY <1>8 DEF s, a, PieceAt

(* The sectors of a round. *)
LEMMA RoundIs ==
    ASSUME NEW o \in Nat, NEW i \in Nat, NEW s \in Nat, NEW n \in Nat,
           o + i = s * SectorSize, Shift(s) + n <= SectorsPerCluster
    PROVE  Prefix(o, i) \cup Span(i, LinkOf(s), Shift(s), 0, n * SectorSize)
             = Prefix(o, i + n * SectorSize)
<1>1. n * SectorSize \in Nat /\ s * SectorSize \in Nat /\ Shift(s) \in Nat
    BY SizesAre, SectorIs
<1>2. Shift(s) * SectorSize + n * SectorSize <= SectorsPerCluster * SectorSize
    BY <1>1, RoomIs
<1> DEFINE len == n * SectorSize
<1>3. len \in Nat /\ Within(s, 0, len) /\ Begins(o, i, s, 0)
  <2> DEFINE h == Shift(s) * SectorSize
             y == SectorsPerCluster * SectorSize
             z == s * SectorSize
  <2>1. h \in Nat /\ y \in Nat /\ z \in Nat /\ len \in Nat /\ h + len <= y /\ o + i = z
    BY <1>1, <1>2, SizesAre
  <2> HIDE DEF h, y, z, len
  <2>2. h + 0 + len <= y /\ o + i = z + 0
    BY <2>1
  <2>3. QED BY <2>1, <2>2 DEF h, y, z, Within, Begins
<1> HIDE DEF len
<1>4. Span(i, LinkOf(s), Shift(s), 0, len) = Places(o, i, len)
    BY <1>3, SpanIs
<1>5. Prefix(o, i) \cup Span(i, LinkOf(s), Shift(s), 0, len) = Prefix(o, i + len)
    BY <1>3, <1>4, PrefixGrows
<1>6. QED BY <1>5 DEF len

(* What is in whole sectors of n bytes, and what is behind them. *)
LEMMA WholeSectors ==
    ASSUME NEW n \in Nat
    PROVE  /\ n \div SectorSize \in Nat /\ (n \div SectorSize) * SectorSize \in Nat
           /\ (n \div SectorSize) * SectorSize <= n
           /\ n - (n \div SectorSize) * SectorSize < SectorSize
<1>1. /\ n \div SectorSize \in Nat /\ n % SectorSize \in 0 .. SectorSize - 1
      /\ n = SectorSize * (n \div SectorSize) + (n % SectorSize)
    BY SizesAre, Divided
<1> DEFINE q == n \div SectorSize
           t == n % SectorSize
<1> HIDE DEF q, t
<1>2. q \in Nat /\ t \in 0 .. SectorSize - 1 /\ n = SectorSize * q + t
    BY <1>1 DEF q, t
<1>3. SectorSize * q = q * SectorSize /\ q * SectorSize \in Nat
    BY <1>2, SizesAre
<1>4. QED BY <1>2, <1>3, SizesAre DEF q

(* A multiple of a sector behind an aligned byte is aligned. *)
LEMMA StillAligned ==
    ASSUME NEW o \in Nat, Aligned(o), NEW n \in Nat
    PROVE  Aligned(o + n * SectorSize) /\ Sector(o + n * SectorSize) = Sector(o) + n
<1> DEFINE q == Sector(o)
<1>1. q \in Nat /\ o = q * SectorSize
    BY SectorHolds
<1> HIDE DEF q
<1>2. o + n * SectorSize = SectorSize * (q + n) + 0
    BY <1>1, SizesAre
<1> DEFINE a == o + n * SectorSize
           m == q + n
<1>3. m \in Nat /\ 0 \in 0 .. SectorSize - 1 /\ a = SectorSize * m + 0
    BY <1>1, <1>2, SizesAre
<1> HIDE DEF a, m
<1>4. a \div SectorSize = m /\ a % SectorSize = 0
    BY <1>3, SizesAre, Quotient
<1>5. Aligned(a) /\ Sector(a) = m
    BY <1>4 DEF Aligned, Sector
<1>6. QED BY <1>5 DEF a, m, q

LEMMA AskOK == ASSUME TransferInv, Ask PROVE TransferInv'
<1>1. PICK o \in Offsets, n \in Lengths :
        /\ pc' = IF o % SectorSize > 0 THEN "first" ELSE "middle"
        /\ req' = [offset |-> o, bytes |-> n]
        /\ processed' = 0 /\ sectors' = 0 /\ link' = 1 /\ moved' = {}
    BY DEF Ask
<1>2. o \in Nat /\ n \in Nat
    BY SizesAre
<1>3. req'.offset = o /\ req'.bytes = n /\ Prefix(o, 0) = {}
    BY <1>1, PrefixIs
<1>4. o % SectorSize \in Nat
    BY <1>2, SectorHolds, SizesAre
<1>5. ~(o % SectorSize > 0) => Aligned(o + 0)
    BY <1>2, <1>4 DEF Aligned
<1>6. pc' \in {"first", "middle"}
    BY <1>1
<1>7. TransferTypes'
    BY <1>1, <1>2, <1>3 DEF TransferTypes
<1>8. pc' = "middle" => Aligned(req'.offset + processed')
    BY <1>1, <1>3, <1>5
<1>9. processed' <= req'.bytes /\ moved' = Prefix(req'.offset, processed')
    BY <1>1, <1>2, <1>3
<1>10. QED BY <1>1, <1>6, <1>7, <1>8, <1>9 DEF TransferInv, Answers

LEMMA FailsOK ==
    ASSUME TransferInv, Fails, NEW n \in 0 .. req.bytes, moved = Prefix(req.offset, n)
    PROVE  TransferInv'
BY DEF TransferInv, Fails, TransferTypes, Answers

LEMMA FirstOK == ASSUME TransferInv, FirstPiece PROVE TransferInv'
<1> DEFINE o == req.offset
           rem == o % SectorSize
           len == InitialAmt(rem, req.bytes)
<1>1. /\ TransferTypes /\ pc = "first"
      /\ processed = 0 /\ sectors = 0 /\ moved = Prefix(o, 0)
    BY DEF TransferInv, FirstPiece
<1>2. o \in Nat /\ req.bytes \in Nat /\ rem \in 0 .. SectorSize - 1
    BY <1>1, SectorHolds DEF TransferTypes
<1>3. CASE Piece(o, rem, len) /\ pc' = "middle"
  <2>1. len \in Nat /\ len <= req.bytes /\ rem + len <= SectorSize
        /\ (len = req.bytes \/ rem + len = SectorSize)
    BY <1>2, SizesAre DEF InitialAmt
  <2> HIDE DEF len
  <2>2. /\ moved' = Prefix(o, 0) \cup Span(0, LinkOf(Sector(o)), Shift(Sector(o)), rem, len)
        /\ processed' = len /\ req' = req /\ sectors' = 0
    BY <1>1, <1>3, <2>1 DEF Piece
  <2>3. moved' = Prefix(o, len)
    <3> DEFINE i == 0
    <3>1. i \in Nat /\ rem \in Nat /\ InSector(o, i, rem, len) /\ o + i = o /\ i + len = len
        BY <1>2, <2>1 DEF InSector
    <3> HIDE DEF rem, i
    <3>2. Prefix(o, i) \cup PieceAt(o, i, rem, len) = Prefix(o, i + len)
        BY <1>2, <2>1, <3>1, PieceIs
    <3>3. PieceAt(o, i, rem, len) = Span(i, LinkOf(Sector(o)), Shift(Sector(o)), rem, len)
        BY <3>1 DEF PieceAt
    <3>4. QED BY <2>2, <3>1, <3>2, <3>3 DEF i
  <2>4. rem + len = SectorSize => Aligned(o + len)
    <3> DEFINE q == Sector(o)
    <3>1. q \in Nat /\ o = q * SectorSize + rem
        BY <1>2, SectorHolds
    <3> HIDE DEF q, rem
    <3> SUFFICES ASSUME rem + len = SectorSize PROVE Aligned(o + len)
        OBVIOUS
    <3>2. o + len = SectorSize * (q + 1) + 0
        BY <1>2, <2>1, <3>1, SizesAre
    <3> DEFINE m == q + 1
               a == o + len
    <3>3. m \in Nat /\ 0 \in 0 .. SectorSize - 1 /\ a = SectorSize * m + 0
        BY <3>1, <3>2, SizesAre
    <3> HIDE DEF m, a
    <3>4. a % SectorSize = 0
        BY <3>3, SizesAre, Quotient
    <3>5. QED BY <3>4 DEF Aligned, a
  <2>5. TransferTypes'
    BY <1>1, <2>1, <2>2 DEF TransferTypes
  <2>6. Aligned(req'.offset + processed') \/ processed' = req'.bytes
    BY <2>1, <2>2, <2>4
  <2>7. processed' <= req'.bytes /\ moved' = Prefix(req'.offset, processed')
    BY <2>1, <2>2, <2>3
  <2>8. QED BY <1>3, <2>2, <2>5, <2>6, <2>7 DEF TransferInv, Answers
<1>4. CASE Fails
  <2>1. 0 \in 0 .. req.bytes
    BY <1>2
  <2>2. QED BY <1>1, <1>4, <2>1, FailsOK
<1>5. QED BY <1>3, <1>4 DEF FirstPiece

LEMMA TraverseOK == ASSUME TransferInv, Traverse PROVE TransferInv'
<1> DEFINE o == req.offset
<1>1. /\ TransferTypes /\ pc = "middle" /\ sectors = 0
      /\ processed <= req.bytes /\ moved = Prefix(o, processed)
      /\ Aligned(o + processed) \/ processed = req.bytes
    BY DEF TransferInv, Traverse
<1>2. /\ o \in Nat /\ req.bytes \in Nat /\ processed \in Nat /\ req.bytes - processed \in Nat
    BY <1>1 DEF TransferTypes
<1> DEFINE togo == req.bytes - processed
<1>3. /\ Middle \in Nat /\ Middle * SectorSize \in Nat /\ Middle * SectorSize <= togo
      /\ togo - Middle * SectorSize < SectorSize
  <2> HIDE DEF togo
  <2>1. togo \in Nat /\ Middle = togo \div SectorSize
    BY <1>2 DEF togo, Middle
  <2>2. QED BY <2>1, WholeSectors
<1>4. CASE /\ Middle > 0 /\ pc' = "sectors"
           /\ link' = LinkOf(FirstSector) /\ UNCHANGED <<req, processed, sectors, moved>>
  <2>1. processed # req.bytes
    <3> SUFFICES ASSUME processed = req.bytes PROVE FALSE
        OBVIOUS
    <3> DEFINE d == Middle
    <3>1. d * SectorSize <= 0 /\ d \in Nat \ {0} /\ d * SectorSize \in Nat
        BY <1>2, <1>3, <1>4
    <3> HIDE DEF d
    <3>2. SectorSize <= d * SectorSize
        BY <3>1, SizesAre, Times3
    <3>3. QED BY <3>1, <3>2, SizesAre
  <2>2. Aligned(o + processed) /\ sectors * SectorSize = 0
    BY <1>1, <2>1, SizesAre
  <2>3. /\ req' = req /\ processed' = processed /\ sectors' = 0 /\ moved' = moved
        /\ Middle' = Middle /\ FirstSector' = FirstSector
    BY <1>1, <1>4 DEF Middle, FirstSector
  <2>4. FirstSector \in Nat
    BY <1>2, SectorHolds DEF FirstSector
  <2>5. InRounds'
    <3>1. link' = LinkOf(FirstSector' + sectors')
        BY <1>4, <2>3, <2>4
    <3>2. moved' = Prefix(req'.offset, processed' + sectors' * SectorSize)
        BY <1>1, <1>2, <2>2, <2>3
    <3>3. sectors' * SectorSize + processed' <= req'.bytes /\ sectors' < Middle'
        BY <1>1, <1>2, <1>4, <2>2, <2>3
    <3>4. Aligned(req'.offset + processed') /\ processed' <= req'.bytes
        BY <1>1, <2>2, <2>3
    <3>5. QED BY <2>3, <3>1, <3>2, <3>3, <3>4 DEF InRounds
  <2>6. QED BY <1>1, <1>4, <2>3, <2>5 DEF TransferInv, TransferTypes, Answers
<1>5. CASE Middle > 0 /\ Fails
    BY <1>1, <1>2, <1>5, FailsOK
<1>6. CASE /\ Middle = 0 /\ pc' = "last"
           /\ UNCHANGED <<req, processed, sectors, link, moved>>
  <2>1. req.bytes - processed < SectorSize
    BY <1>2, <1>3, <1>6, SizesAre
  <2>2. QED BY <1>1, <1>6, <2>1 DEF TransferInv, TransferTypes, Answers
<1>7. QED BY <1>4, <1>5, <1>6 DEF Traverse

LEMMA LastOK == ASSUME TransferInv, LastPiece PROVE TransferInv'
<1> DEFINE o == req.offset
           len == req.bytes - processed
<1>1. /\ TransferTypes /\ pc = "last" /\ len < SectorSize
      /\ processed <= req.bytes /\ moved = Prefix(o, processed)
      /\ Aligned(o + processed) \/ processed = req.bytes
    BY DEF TransferInv, LastPiece
<1>2. /\ o \in Nat /\ req.bytes \in Nat /\ processed \in Nat /\ len \in Nat
    BY <1>1 DEF TransferTypes
<1>3. CASE /\ len = 0 /\ pc' \in {"success", "error"}
           /\ UNCHANGED <<req, processed, sectors, link, moved>>
  <2>1. processed = req.bytes
    BY <1>2, <1>3
  <2>2. QED BY <1>1, <1>2, <1>3, <2>1 DEF TransferInv, TransferTypes, Answers
<1>4. CASE len > 0 /\ Piece(o + processed, 0, len) /\ pc' \in {"success", "error"}
  <2>1. Aligned(o + processed) /\ processed + len = req.bytes
    BY <1>1, <1>2, <1>4
  <2> HIDE DEF len
  <2>2. moved' = Prefix(o, processed + len)
    <3> DEFINE b == 0
    <3>1. b \in Nat /\ InSector(o, processed, b, len)
        BY <1>1, <1>2, <2>1, SizesAre DEF Aligned, InSector
    <3>2. moved' = moved \cup PieceAt(o, processed, b, len)
        BY <1>4 DEF Piece, PieceAt
    <3> HIDE DEF b
    <3>3. Prefix(o, processed) \cup PieceAt(o, processed, b, len) = Prefix(o, processed + len)
        BY <1>2, <3>1, PieceIs
    <3>4. QED BY <1>1, <3>2, <3>3
  <2>3. req' = req /\ sectors' = sectors /\ processed' = processed + len
    BY <1>4 DEF Piece
  <2>4. TransferTypes' /\ moved' = Prefix(req'.offset, req'.bytes) /\ req'.bytes \in 0 .. req'.bytes
    BY <1>1, <1>2, <2>1, <2>2, <2>3 DEF TransferTypes
  <2>5. QED BY <1>4, <2>4 DEF TransferInv, Answers
<1>5. CASE len > 0 /\ Fails
    BY <1>1, <1>2, <1>5, FailsOK
<1>6. QED BY <1>3, <1>4, <1>5 DEF LastPiece

(* The count of a round: it does not leave the cluster, or the request;    *)
(* and if it neither fills the cluster nor ends, the byte has cut it.      *)
LEMMA CountIs ==
    ASSUME NEW h \in 0 .. SectorsPerCluster - 1, Middle - sectors \in Nat
    PROVE  /\ Count(h) \in Nat /\ h + Count(h) <= SectorsPerCluster
           /\ Count(h) <= Middle - sectors
           /\ Stuck(Middle - sectors) => Count(h) = 0
           /\ Count(h) = SectorsPerCluster - h \/ Stuck((Middle - sectors) - Count(h))
<1> DEFINE a == Middle - sectors
           q == a \div CountValues
           t == a % CountValues
           c == Count(h)
<1>1. c = IF t > SectorsPerCluster - h THEN SectorsPerCluster - h ELSE t
    BY DEF Count
<1>2. Stuck(a) => t = 0
    BY DEF Stuck
<1>3. a \in Nat
    OBVIOUS
<1> HIDE DEF a, c
<1>4. q \in Nat /\ t \in Nat /\ a = CountValues * q + t
    BY <1>3, SizesAre, Divided
<1> HIDE DEF q, t
<1>5. CountValues * q \in Nat
    BY <1>4, SizesAre
<1>6. c \in Nat /\ h + c <= SectorsPerCluster /\ c <= t /\ (t = 0 => c = 0)
      /\ (c = SectorsPerCluster - h \/ c = t)
    BY <1>1, <1>4, SizesAre
<1>7. t <= a
    BY <1>4, <1>5
<1>8. c <= a
    BY <1>3, <1>4, <1>6, <1>7
<1>9. c = t => Stuck(a - c)
  <2> SUFFICES ASSUME c = t PROVE Stuck(a - c)
    OBVIOUS
  <2> DEFINE b == a - c
  <2>1. b = CountValues * q + 0 /\ 0 \in 0 .. CountValues - 1
    BY <1>4, <1>5, <1>6, SizesAre
  <2> HIDE DEF b
  <2>2. b % CountValues = 0
    BY <1>4, <2>1, SizesAre, Quotient
  <2>3. QED BY <2>2 DEF Stuck, b
<1>10. QED BY <1>2, <1>6, <1>8, <1>9 DEF a, c

(* The first sector of the next cluster. *)
LEMMA NextCluster ==
    ASSUME NEW s \in Nat, NEW n \in Nat, n = SectorsPerCluster - Shift(s)
    PROVE  LinkOf(s + n) = LinkOf(s) + 1 /\ Shift(s + n) = 0
<1> DEFINE l == LinkOf(s)
           h == Shift(s)
           C == SectorsPerCluster
<1>1. l \in Nat /\ l - 1 \in Nat /\ h \in 0 .. C - 1 /\ s = C * (l - 1) + h
    BY SectorIs
<1> HIDE DEF l, h
<1>2. C * (l - 1) + C = C * l
    BY <1>1, SizesAre
<1>3. s + n = C * (l - 1) + C
  <2> DEFINE x == C * (l - 1)
  <2>1. x \in Nat /\ s = x + h /\ n = C - h
    BY <1>1, SizesAre DEF h
  <2> HIDE DEF x
  <2>2. s + n = x + C
    BY <1>1, <2>1, SizesAre
  <2>3. QED BY <2>2 DEF x
<1> DEFINE a == s + n
<1>4. a = C * l + 0 /\ 0 \in 0 .. C - 1
    BY <1>1, <1>2, <1>3, SizesAre
<1> HIDE DEF a
<1>5. a \div C = l /\ a % C = 0
    BY <1>1, <1>4, SizesAre, Quotient
<1>6. LinkOf(a) = l + 1 /\ Shift(a) = 0
    BY <1>5 DEF LinkOf, Shift
<1>7. QED BY <1>6 DEF a, l

LEMMA ClusterOK == ASSUME TransferInv, ClusterSectors PROVE TransferInv'
<1> DEFINE o     == req.offset
           start == processed + sectors * SectorSize
           s     == FirstSector + sectors
           h     == IF sectors = 0 THEN Shift(FirstSector) ELSE 0
           n     == Count(h)
           done  == sectors + n
<1>1. TransferTypes /\ InRounds /\ pc = "sectors"
    BY DEF TransferInv, ClusterSectors
<1>2. /\ o \in Nat /\ req.bytes \in Nat /\ processed \in Nat /\ sectors \in Nat
      /\ processed <= req.bytes /\ moved = Prefix(o, start)
    BY <1>1 DEF TransferTypes, InRounds
<1>3. /\ Middle \in Nat /\ Middle * SectorSize \in Nat
      /\ processed + Middle * SectorSize <= req.bytes
      /\ req.bytes - (processed + Middle * SectorSize) < SectorSize
  <2> DEFINE togo == req.bytes - processed
             w    == Middle * SectorSize
  <2>1. togo \in Nat /\ Middle = togo \div SectorSize
    BY <1>2 DEF Middle
  <2> HIDE DEF togo
  <2>2. Middle \in Nat /\ w \in Nat /\ w <= togo /\ togo - w < SectorSize
    BY <2>1, WholeSectors
  <2> HIDE DEF w
  <2>3. processed + w <= req.bytes /\ req.bytes - (processed + w) < SectorSize
    BY <1>2, <2>2, SizesAre DEF togo
  <2>4. QED BY <2>2, <2>3 DEF w
<1>4. sectors < Middle /\ Middle - sectors \in Nat
    BY <1>1, <1>2, <1>3 DEF InRounds
<1>5. /\ FirstSector \in Nat /\ s \in Nat
      /\ o + processed = FirstSector * SectorSize /\ Aligned(o + processed)
  <2> DEFINE a == o + processed
  <2>1. a \in Nat /\ Aligned(a) /\ FirstSector = Sector(a)
    BY <1>1, <1>2 DEF InRounds, FirstSector
  <2> HIDE DEF a
  <2>2. Sector(a) \in Nat /\ a = Sector(a) * SectorSize
    BY <2>1, SectorHolds
  <2>3. QED BY <1>2, <2>1, <2>2 DEF a
<1>6. /\ sectors * SectorSize \in Nat /\ start \in Nat /\ o + start = s * SectorSize
  <2>1. (FirstSector + sectors) * SectorSize = FirstSector * SectorSize + sectors * SectorSize
        /\ sectors * SectorSize \in Nat
    BY <1>2, <1>5, SizesAre
  <2>2. QED BY <1>2, <1>5, <2>1
<1>7. h \in 0 .. SectorsPerCluster - 1
  <2>1. FirstSector \in Nat
    BY <1>5
  <2>2. Shift(FirstSector) \in 0 .. SectorsPerCluster - 1
    BY <2>1, SectorIs, Zenon
  <2>3. 0 \in 0 .. SectorsPerCluster - 1
    BY SizesAre
  <2>4. QED BY <2>2, <2>3
<1> HIDE DEF h
<1>8. /\ n \in Nat /\ h + n <= SectorsPerCluster /\ n <= Middle - sectors
      /\ Stuck(Middle - sectors) => n = 0
      /\ n = SectorsPerCluster - h \/ Stuck((Middle - sectors) - n)
    BY <1>4, <1>7, CountIs
<1>9. Stuck(Middle - sectors) \/ (link = LinkOf(s) /\ h = Shift(s))
  <2>1. CASE Stuck(Middle - sectors)
    BY <2>1
  <2>2. CASE link = LinkOf(s) /\ (sectors = 0 \/ Shift(s) = 0)
    <3>1. sectors = 0 => s = FirstSector
        BY <1>5
    <3>2. QED BY <2>2, <3>1 DEF h
  <2>3. QED BY <1>1, <2>1, <2>2 DEF InRounds
<1> HIDE DEF n, s, start
<1>10. Prefix(o, start) \cup Span(start, link, h, 0, n * SectorSize) = Prefix(o, start + n * SectorSize)
  <2>1. CASE Stuck(Middle - sectors)
    <3>1. n * SectorSize = 0
        BY <1>8, <2>1, SizesAre
    <3>2. Span(start, link, h, 0, 0) = {}
        BY DEF Span
    <3>3. start + 0 = start
        BY <1>6
    <3>4. QED BY <3>1, <3>2, <3>3
  <2>2. CASE link = LinkOf(s) /\ h = Shift(s)
    <3>1. Shift(s) + n <= SectorsPerCluster
        BY <1>8, <2>2
    <3>2. Prefix(o, start) \cup Span(start, LinkOf(s), Shift(s), 0, n * SectorSize)
            = Prefix(o, start + n * SectorSize)
        BY <1>2, <1>5, <1>6, <1>8, <3>1, RoundIs
    <3>3. QED BY <2>2, <3>2
  <2>3. QED BY <1>9, <2>1, <2>2
<1>11. /\ done \in Nat /\ done <= Middle /\ done * SectorSize \in Nat
       /\ start + n * SectorSize = processed + done * SectorSize
       /\ processed + done * SectorSize <= req.bytes
  <2>1. done \in Nat /\ done <= Middle
    BY <1>2, <1>3, <1>4, <1>8
  <2>2. done * SectorSize <= Middle * SectorSize /\ done * SectorSize \in Nat
    BY <1>3, <2>1, SizesAre, Times3
  <2>3. done * SectorSize = sectors * SectorSize + n * SectorSize /\ n * SectorSize \in Nat
    BY <1>2, <1>8, SizesAre
  <2>4. start + n * SectorSize = processed + done * SectorSize
    BY <1>2, <1>6, <2>2, <2>3 DEF start
  <2>5. processed + done * SectorSize <= req.bytes
    BY <1>2, <1>3, <2>2
  <2>6. QED BY <2>1, <2>2, <2>4, <2>5
<1>12. CASE Fails
  <2>1. start \in 0 .. req.bytes
    BY <1>1, <1>2, <1>6 DEF InRounds, start
  <2>2. QED BY <1>2, <1>12, <2>1, FailsOK
<1> DEFINE Round ==
        /\ moved' = moved \cup Span(processed + sectors * SectorSize, link, h, 0, n * SectorSize)
        /\ IF done = Middle
           THEN /\ pc' = "last" /\ processed' = processed + done * SectorSize
                /\ UNCHANGED <<link, sectors>>
           ELSE /\ sectors' = done /\ UNCHANGED processed
                /\ IF link = Len(Clusters) THEN pc' = "range" /\ UNCHANGED link
                   ELSE link' = link + 1 /\ UNCHANGED pc
        /\ UNCHANGED req
<1>13. Round \/ Fails
    BY DEF ClusterSectors, h, n
<1>14. ASSUME Round PROVE req' = req /\ moved' = Prefix(o, processed + done * SectorSize)
    BY <1>2, <1>10, <1>11, <1>14 DEF start
<1>15. CASE Round /\ done = Middle
  <2> DEFINE p == processed + done * SectorSize
  <2>1. processed' = p /\ pc' = "last" /\ sectors' = sectors /\ req' = req
    BY <1>15
  <2>2. p \in Nat /\ p <= req.bytes /\ req.bytes - p < SectorSize
    BY <1>2, <1>3, <1>11, <1>15
  <2>3. Aligned(o + p)
    <3> DEFINE a == o + processed
    <3>1. a \in Nat /\ Aligned(a) /\ done \in Nat
        BY <1>2, <1>5, <1>11
    <3> HIDE DEF a, done
    <3>2. Aligned(a + done * SectorSize)
        BY <3>1, StillAligned
    <3>3. a + done * SectorSize = o + p
        BY <1>2, <1>11 DEF a
    <3>4. QED BY <3>2, <3>3
  <2>4. moved' = Prefix(o, p)
    BY <1>14, <1>15
  <2> HIDE DEF p
  <2>5. TransferTypes'
    BY <1>2, <2>1, <2>2 DEF TransferTypes
  <2>6. QED BY <2>1, <2>2, <2>3, <2>4, <2>5 DEF TransferInv, Answers
<1>16. CASE Round /\ done # Middle
  <2>1. sectors' = done /\ processed' = processed /\ req' = req
        /\ Middle' = Middle /\ FirstSector' = FirstSector
    BY <1>16 DEF Middle, FirstSector
  <2>2. TransferTypes'
    BY <1>2, <1>11, <2>1 DEF TransferTypes
  <2>3. moved' = Prefix(o, processed + done * SectorSize)
    BY <1>14, <1>16
  <2>4. CASE pc' = "range"
    <3> DEFINE p == processed + done * SectorSize
    <3>1. p \in 0 .. req'.bytes /\ moved' = Prefix(req'.offset, p)
        BY <1>2, <1>11, <2>1, <2>3
    <3> HIDE DEF p
    <3>2. \E k \in 0 .. req'.bytes : moved' = Prefix(req'.offset, k)
        BY <3>1
    <3>3. QED BY <2>2, <2>4, <3>2 DEF TransferInv, Answers
  <2>5. CASE link' = link + 1 /\ pc' = pc
    <3>1. Stuck(Middle - done) \/ (LinkOf(FirstSector + done) = link + 1 /\ Shift(FirstSector + done) = 0)
      <4>1. CASE Stuck(Middle - sectors)
        <5>1. done = sectors
            BY <1>2, <1>8, <4>1
        <5>2. QED BY <4>1, <5>1
      <4>2. CASE Stuck((Middle - sectors) - n)
        <5>1. (Middle - sectors) - n = Middle - done
            BY <1>2, <1>3, <1>8
        <5>2. QED BY <4>2, <5>1
      <4>3. CASE n = SectorsPerCluster - h /\ link = LinkOf(s) /\ h = Shift(s)
        <5>1. n = SectorsPerCluster - Shift(s)
            BY <4>3
        <5>2. LinkOf(s + n) = LinkOf(s) + 1 /\ Shift(s + n) = 0
            BY <1>5, <1>8, <5>1, NextCluster
        <5>3. s + n = FirstSector + done
            BY <1>2, <1>5, <1>8 DEF s
        <5>4. QED BY <4>3, <5>2, <5>3
      <4>4. QED BY <1>8, <1>9, <4>1, <4>2, <4>3
    <3> HIDE DEF done
    <3>2. done < Middle
        BY <1>3, <1>11, <1>16
    <3>3. done * SectorSize + processed <= req.bytes
        BY <1>2, <1>11
    <3>4. InRounds'
        BY <1>2, <1>5, <2>1, <2>3, <2>5, <3>1, <3>2, <3>3 DEF InRounds
    <3>5. QED BY <1>1, <2>2, <2>5, <3>4 DEF TransferInv, Answers
  <2>6. QED BY <1>16, <2>4, <2>5
<1>17. QED BY <1>12, <1>13, <1>15, <1>16

LEMMA TransferInductive == TransferSpec => []TransferInv
<1>1. TransferInit => TransferInv
  <2> SUFFICES ASSUME TransferInit PROVE TransferInv
    OBVIOUS
  <2>1. moved = Prefix(0, 0) /\ 0 \in 0 .. 0
    BY PrefixIs DEF TransferInit
  <2>2. QED BY <2>1 DEF TransferInit, TransferInv, TransferTypes, Answers
<1>2. TransferInv /\ [TransferNext]_transferVars => TransferInv'
  <2> SUFFICES ASSUME TransferInv, [TransferNext]_transferVars PROVE TransferInv'
    OBVIOUS
  <2>1. CASE UNCHANGED transferVars
    BY <2>1 DEF transferVars, TransferInv, TransferTypes, InRounds, Middle, FirstSector
  <2>2. QED BY <2>1, AskOK, FirstOK, TraverseOK, ClusterOK, LastOK DEF TransferNext
<1>3. QED BY <1>1, <1>2, PTL DEF TransferSpec

(* Every byte of a read or write goes to its place, however the request    *)
(* lies across sectors and clusters and whatever access fails, and success *)
(* means that all have: fat32_fs_read_write.                               *)
THEOREM BytesGoToTheirPlaces == TransferSpec => []BytesInPlace
<1>1. TransferInv => BytesInPlace
  <2> SUFFICES ASSUME TransferInv PROVE BytesInPlace
    OBVIOUS
  <2> DEFINE asked == Prefix(req.offset, req.bytes)
  <2>1. {ByteOfFile(i) : i \in 0 .. req.bytes - 1} = asked
    BY PrefixIs DEF Prefix
  <2>2. /\ req.bytes \in Nat /\ req.offset \in Nat /\ processed \in Nat /\ sectors \in Nat
    BY DEF TransferInv, TransferTypes
  <2>3. \E n \in 0 .. req.bytes : moved = Prefix(req.offset, n)
    <3>1. CASE pc \in Answers
        BY <3>1 DEF TransferInv
    <3>2. CASE pc = "first"
        BY <2>2, <3>2 DEF TransferInv
    <3>3. CASE pc \in {"middle", "last"}
        BY <2>2, <3>3 DEF TransferInv
    <3>4. CASE pc = "sectors"
      <4> DEFINE p == processed + sectors * SectorSize
      <4>1. p \in 0 .. req.bytes /\ moved = Prefix(req.offset, p)
        <5>1. sectors * SectorSize \in Nat
            BY <2>2, SizesAre
        <5>2. QED BY <2>2, <3>4, <5>1 DEF TransferInv, InRounds
      <4> HIDE DEF p
      <4>2. QED BY <4>1
    <3>5. QED BY <3>1, <3>2, <3>3, <3>4 DEF TransferInv
  <2>4. moved \subseteq asked
    BY <2>2, <2>3, PrefixIs
  <2>5. pc = "success" => moved = asked
    BY DEF TransferInv
  <2>6. QED BY <2>1, <2>4, <2>5 DEF BytesInPlace
<1>2. QED BY <1>1, TransferInductive, PTL

-----------------------------------------------------------------------------
(* The chains of the FAT32 volume, for a table of any size, chains of any  *)
(* length and any number of files, on a device that fails wherever it      *)
(* likes.  The table is a forest: besides the chains of the files, those   *)
(* that the running call has and no file yet or no more, its loose ends.   *)

Fats == [Slots -> Slots \cup {FatFree, Eoc}]

Volumes == [fat : Fats, q : Seq(Slots), data : {[x \in Slots |-> JunkCluster]}]

Histories == [vol : Volumes, clean : BOOLEAN]

ChainAnswers == {"success", "no_space", "error"}
Ops     == {"none", "new", "resize", "free"}
CallPlaces  == {"idle", "walk", "cut", "pop", "taken", "link", "attach", "free"}

CallRecord == [op : Ops, file : Nat, want : Nat, len : Nat, pc : CallPlaces, iter : Nat, links : Nat,
               head : Nat, tail : Nat, curr : Nat, answer : ChainAnswers]

ChainTypes ==
    /\ vol \in Volumes
    /\ heads \subseteq Slots
    /\ call \in CallRecord
    /\ before \in Histories

(* The slots of c, from s to an end mark, as the links of the table say.   *)
RunsFrom(fat, s, c) ==
    /\ c \in Seq(Slots) /\ c # << >> /\ c[1] = s /\ NoDup(c)
    /\ \A i \in 1 .. Len(c) - 1 : fat[c[i]] = c[i + 1]
    /\ fat[EndOf(c)] = Eoc

(* Chains from each slot of R, with no slot in two of them.                *)
Forest(fat, R) ==
    /\ \A s \in R : RunsFrom(fat, s, ChainOf(fat, s))
    /\ \A s, t \in R : s # t => Items(ChainOf(fat, s)) \cap Items(ChainOf(fat, t)) = {}

Growing == {"pop", "taken", "link", "attach"}

(* Where the chains begin that the call has to itself.                     *)
Loose ==
    (IF call.pc \in Growing /\ call.head # None THEN {call.head} ELSE {})
        \cup (IF call.pc \in {"link", "free"} THEN {call.curr} ELSE {})

ChainNow(s) == ChainOf(vol.fat, s)
ChainThen(s) == ChainOf(before.vol.fat, s)

Trees ==
    /\ Forest(vol.fat, heads \cup Loose)
    /\ Loose \subseteq Slots \ heads
    /\ call.pc = "link" => call.head # call.curr

Queued == NoDup(vol.q) /\ \A x \in Items(vol.q) : vol.fat[x] = FatFree

(* What the call has reached.                                              *)
WalkOK ==
    call.pc = "walk" =>
        /\ call.op = "resize" /\ call.len = call.want /\ call.head = None
        /\ call.links \in 1 .. call.len /\ call.links <= Len(ChainNow(call.file))
        /\ call.iter = ChainNow(call.file)[call.links]

CutOK ==
    call.pc = "cut" =>
        /\ call.op = "resize" /\ call.want \in 1 .. Len(ChainNow(call.file)) - 1
        /\ call.iter = ChainNow(call.file)[call.want]
        /\ call.curr = ChainNow(call.file)[call.want + 1]

Segment == IF call.head = None THEN 0 ELSE Len(ChainNow(call.head))

GrowOK ==
    call.pc \in Growing =>
        /\ call.op \in {"new", "resize"}
        /\ call.head = None => call.pc = "pop"
        /\ call.head # None => call.tail = EndOf(ChainNow(call.head))
        /\ call.pc \in {"pop", "link"} => call.len > 0
        /\ call.pc = "link" => vol.fat[call.curr] = Eoc
        /\ call.pc = "attach" => call.op = "resize" /\ call.len = 0
        /\ call.op = "resize" =>
              /\ call.iter = EndOf(ChainNow(call.file))
              /\ Len(ChainNow(call.file)) + call.len + Segment = call.want

(* What was, is; and the file that is resized is as it was, or resized.    *)
OthersStay == \A s \in heads : s \in {call.file, call.head} \/ ChainNow(s) = ChainThen(s)

HasSize ==
    /\ Len(ChainNow(call.file)) = call.want
    /\ \/ Extends(ChainNow(call.file), ChainThen(call.file))
       \/ Extends(ChainThen(call.file), ChainNow(call.file))

ResizeOK ==
    call.op = "resize" =>
        /\ call.file \in heads
        /\ ChainNow(call.file) = ChainThen(call.file) \/ HasSize
        /\ call.pc \notin {"idle", "free"} => ChainNow(call.file) = ChainThen(call.file)
        /\ call.pc \in {"idle", "free"} =>
              /\ call.answer = "success" => Len(ChainNow(call.file)) = call.want
              /\ call.answer = "no_space" => ChainNow(call.file) = ChainThen(call.file)

ChainInv ==
    ChainTypes /\ Trees /\ Queued /\ WalkOK /\ CutOK /\ GrowOK /\ OthersStay /\ ResizeOK

-----------------------------------------------------------------------------
(* Chains in a table *)

(* No chain is longer than the table.                                      *)
LEMMA ShortOfTheTable ==
    ASSUME NEW c \in Seq(Slots), NoDup(c)
    PROVE  Len(c) <= NumSlots
<1>1. NumSlots \in Nat
    BY FatTableAssumption
<1>2. IsFiniteSet(0 .. NumSlots - 1) /\ Cardinality(0 .. NumSlots - 1) = NumSlots
  <2>1. NumSlots - 1 \in Int /\ (IF 0 > NumSlots - 1 THEN 0 ELSE (NumSlots - 1) - 0 + 1) = NumSlots
    BY <1>1
  <2>2. QED BY <2>1, FS_Interval
<1>3. IsFiniteSet(1 .. Len(c)) /\ Cardinality(1 .. Len(c)) = Len(c)
  <2>1. Len(c) \in Int /\ (IF 1 > Len(c) THEN 0 ELSE Len(c) - 1 + 1) = Len(c)
    OBVIOUS
  <2>2. QED BY <2>1, FS_Interval
<1>4. c \in Injection(1 .. Len(c), 0 .. NumSlots - 1)
  <2>1. c \in [1 .. Len(c) -> 0 .. NumSlots - 1]
    BY <1>1 DEF Slots
  <2>2. QED BY <2>1 DEF Injection, IsInjective, NoDup
<1>5. Cardinality(1 .. Len(c)) <= Cardinality(0 .. NumSlots - 1)
    BY <1>2, <1>3, <1>4, FS_Injection
<1>6. QED BY <1>2, <1>3, <1>5

(* One step of the recursion that defines ChainOf.                         *)
ChainStep(fat, s, u, n) ==
    IF n = 0 THEN << s >>
    ELSE LET c == u[n - 1] IN
         IF fat[EndOf(c)] \in Slots THEN Append(c, fat[EndOf(c)]) ELSE c

(* What runs along the links of the table is its chain.                    *)
LEMMA ChainIs ==
    ASSUME NEW fat, NEW s, NEW c, RunsFrom(fat, s, c)
    PROVE  ChainOf(fat, s) = c
<1> DEFINE m(n) == IF n < Len(c) THEN n + 1 ELSE Len(c)
           g == [n \in 0 .. NumSlots |-> SubSeq(c, 1, m(n))]
<1>1. /\ NumSlots \in Nat /\ c \in Seq(Slots) /\ Len(c) \in Nat /\ Len(c) >= 1 /\ Len(c) <= NumSlots
      /\ c[1] = s /\ fat[c[Len(c)]] = Eoc /\ Eoc \notin Slots
      /\ \A i \in 1 .. Len(c) - 1 : fat[c[i]] = c[i + 1]
  <2>1. c \in Seq(Slots) /\ c # << >> /\ NoDup(c)
    BY DEF RunsFrom
  <2>2. Len(c) \in Nat /\ Len(c) >= 1
    BY <2>1
  <2>3. Eoc \notin Slots
    BY FatTableAssumption DEF Eoc, Slots
  <2>4. QED BY <2>1, <2>2, <2>3, ShortOfTheTable, FatTableAssumption DEF RunsFrom, EndOf
<1>2. ASSUME NEW n \in 0 .. NumSlots
      PROVE  /\ m(n) \in 1 .. Len(c) /\ g[n] = SubSeq(c, 1, m(n))
             /\ g[n] \in Seq(Slots) /\ Len(g[n]) = m(n)
             /\ \A i \in 1 .. m(n) : g[n][i] = c[i]
    BY <1>1
<1>3. ASSUME NEW n \in 0 .. NumSlots PROVE g[n] = ChainStep(fat, s, g, n)
  <2>1. CASE n = 0
    <3>1. g[n] = << s >>
      <4>1. g[n] \in Seq(Slots) /\ Len(g[n]) = 1 /\ g[n][1] = s
        BY <1>1, <1>2, <2>1
      <4>2. << s >> \in Seq(Slots) /\ Len(<< s >>) = 1 /\ << s >>[1] = s
        BY <1>1
      <4> HIDE DEF g
      <4>3. \A i \in 1 .. Len(g[n]) : g[n][i] = << s >>[i]
        BY <4>1, <4>2
      <4>4. QED BY <4>1, <4>2, <4>3, SeqEqual
    <3>2. QED BY <2>1, <3>1 DEF ChainStep
  <2>2. CASE n # 0 /\ n < Len(c)
    <3>1. /\ n - 1 \in 0 .. NumSlots /\ m(n - 1) = n /\ m(n) = n + 1
          /\ n \in 1 .. Len(c) - 1 /\ n \in 1 .. Len(c) /\ n + 1 \in 1 .. Len(c)
        BY <1>1, <2>2
    <3>2. g[n - 1] \in Seq(Slots) /\ Len(g[n - 1]) = n /\ \A i \in 1 .. n : g[n - 1][i] = c[i]
        BY <1>2, <3>1
    <3>3. EndOf(g[n - 1]) = c[n] /\ fat[c[n]] = c[n + 1] /\ c[n + 1] \in Slots
        BY <1>1, <3>1, <3>2 DEF EndOf
    <3>4. g[n] \in Seq(Slots) /\ Len(g[n]) = n + 1 /\ \A i \in 1 .. n + 1 : g[n][i] = c[i]
        BY <1>2, <3>1
    <3> HIDE DEF g
    <3>5. g[n] = Append(g[n - 1], c[n + 1])
      <4> DEFINE a == Append(g[n - 1], c[n + 1])
      <4>1. /\ a \in Seq(Slots) /\ Len(a) = n + 1
            /\ \A i \in 1 .. n + 1 : a[i] = c[i]
        <5> DEFINE d == g[n - 1]
                   e == c[n + 1]
        <5>1. d \in Seq(Slots) /\ Len(d) = n /\ (\A i \in 1 .. n : d[i] = c[i]) /\ e \in Slots
            BY <3>2, <3>3
        <5> HIDE DEF d, e
        <5>2. /\ Append(d, e) \in Seq(Slots) /\ Len(Append(d, e)) = n + 1
              /\ \A i \in 1 .. n + 1 : Append(d, e)[i] = IF i = n + 1 THEN e ELSE d[i]
            BY <5>1
        <5>3. \A i \in 1 .. n + 1 : i = n + 1 \/ i \in 1 .. n
            BY <3>1
        <5>4. QED BY <5>1, <5>2, <5>3 DEF d, e
      <4> HIDE DEF a
      <4>2. g[n] = a
        BY <3>4, <4>1, SeqEqual
      <4>3. QED BY <4>2 DEF a
    <3>6. QED BY <2>2, <3>3, <3>5 DEF ChainStep
  <2>3. CASE n # 0 /\ ~(n < Len(c))
    <3>1. /\ n - 1 \in 0 .. NumSlots /\ m(n - 1) = Len(c) /\ m(n) = Len(c)
          /\ Len(c) \in 1 .. Len(c)
        BY <1>1, <2>3
    <3>2. g[n] = g[n - 1] /\ Len(g[n - 1]) = Len(c) /\ g[n - 1][Len(c)] = c[Len(c)]
        BY <1>2, <3>1
    <3>3. fat[EndOf(g[n - 1])] \notin Slots
        BY <1>1, <3>2 DEF EndOf
    <3>4. QED BY <2>3, <3>2, <3>3 DEF ChainStep
  <2>4. QED BY <2>1, <2>2, <2>3
<1> DEFINE F == CHOOSE u : u = [n \in 0 .. NumSlots |-> ChainStep(fat, s, u, n)]
<1>4. g = [n \in 0 .. NumSlots |-> ChainStep(fat, s, g, n)]
    BY <1>3
<1>5. F = [n \in 0 .. NumSlots |-> ChainStep(fat, s, F, n)]
  <2> HIDE DEF g
  <2>1. QED BY <1>4, ZenonT(60)
<1>6. ChainOf(fat, s) = F[NumSlots]
    BY DEF ChainOf, ChainStep
<1>7. g[NumSlots] = c
  <2>1. NumSlots \in 0 .. NumSlots /\ m(NumSlots) = Len(c)
    BY <1>1
  <2>2. QED BY <1>1, <1>2, <2>1
<1> HIDE DEF g, F
<1> DEFINE Same == {n \in 0 .. NumSlots : F[n] = g[n]}
<1>8. \A n \in 0 .. NumSlots : F[n] = ChainStep(fat, s, F, n)
    BY <1>5
<1>9. 0 \in Same
  <2>1. 0 \in 0 .. NumSlots
    BY <1>1
  <2>2. QED BY <1>3, <1>8, <2>1 DEF ChainStep
<1>10. ASSUME NEW n \in 1 .. NumSlots, n - 1 \in Same PROVE n \in Same
  <2>1. n \in 0 .. NumSlots /\ n # 0 /\ F[n - 1] = g[n - 1]
    BY <1>10
  <2>2. F[n] = g[n]
    BY <1>3, <1>8, <2>1 DEF ChainStep
  <2>3. QED BY <2>1, <2>2
<1>11. NumSlots \in Same
  <2> HIDE DEF Same
  <2>1. 0 .. NumSlots \subseteq Same
    BY <1>1, <1>9, <1>10, Upwards
  <2>2. QED BY <1>1, <2>1
<1>12. QED BY <1>6, <1>7, <1>11

(* So chains that run along the links, and share no slot, are a forest.    *)
AllRun(fat, R, D) == \A s \in R : RunsFrom(fat, s, D[s])
AllApart(R, D)    == \A s, t \in R : s # t => Items(D[s]) \cap Items(D[t]) = {}
AllAre(fat, R, D) == \A s \in R : ChainOf(fat, s) = D[s]

LEMMA ForestIs ==
    ASSUME NEW fat, NEW R, NEW D, AllRun(fat, R, D), AllApart(R, D)
    PROVE  AllAre(fat, R, D) /\ Forest(fat, R)
<1>1. AllAre(fat, R, D)
    BY ChainIs DEF AllRun, AllAre
<1>2. QED BY <1>1 DEF Forest, AllRun, AllApart, AllAre

LEMMA ForestLess ==
    ASSUME NEW fat, NEW R, Forest(fat, R), NEW T, T \subseteq R
    PROVE  Forest(fat, T)
BY DEF Forest

(* What a chain holds: slots in use, its first and its last among them.    *)
LEMMA RunsUse ==
    ASSUME NEW fat, NEW s, NEW c, RunsFrom(fat, s, c)
    PROVE  /\ c \in Seq(Slots) /\ NoDup(c) /\ Len(c) \in Nat /\ Len(c) >= 1 /\ c[1] = s
           /\ s \in Slots /\ s \in Items(c) /\ EndOf(c) \in Items(c) /\ Items(c) \subseteq Slots
           /\ \A x \in Items(c) : fat[x] # FatFree /\ (x # EndOf(c) => fat[x] \in Slots)
           /\ \A x \in Items(c) : fat[x] # s
<1>1. /\ c \in Seq(Slots) /\ NoDup(c) /\ c # << >> /\ c[1] = s /\ fat[c[Len(c)]] = Eoc
      /\ \A i \in 1 .. Len(c) - 1 : fat[c[i]] = c[i + 1]
    BY DEF RunsFrom, EndOf
<1>2. Len(c) \in Nat /\ Len(c) >= 1 /\ \A i \in 1 .. Len(c) : c[i] \in Slots
    BY <1>1
<1>3. s \in Slots /\ s \in Items(c) /\ EndOf(c) \in Items(c) /\ Items(c) \subseteq Slots
    BY <1>1, <1>2 DEF Items, EndOf
<1>4. FatFree \notin Slots /\ FatFree # Eoc /\ Eoc \notin Slots
    BY FatTableAssumption DEF Slots, FatFree, Eoc
<1>5. ASSUME NEW i \in 1 .. Len(c)
      PROVE  fat[c[i]] # FatFree /\ (c[i] # EndOf(c) => fat[c[i]] \in Slots) /\ fat[c[i]] # s
  <2>1. CASE i = Len(c)
    BY <1>1, <1>3, <1>4, <2>1 DEF EndOf
  <2>2. CASE i # Len(c)
    <3>1. i \in 1 .. Len(c) - 1 /\ i + 1 \in 1 .. Len(c) /\ 1 \in 1 .. Len(c) /\ i + 1 # 1
        BY <1>2, <2>2
    <3>2. fat[c[i]] = c[i + 1] /\ c[i + 1] \in Slots
        BY <1>1, <1>2, <3>1
    <3>3. c[i + 1] # c[1]
        BY <1>1, <3>1 DEF NoDup
    <3>4. QED BY <1>1, <1>4, <3>2, <3>3
  <2>3. QED BY <2>1, <2>2
<1>6. QED BY <1>1, <1>2, <1>3, <1>5 DEF Items

(* A chain stays as long as its slots stay as they are.                    *)
LEMMA RunsStay ==
    ASSUME NEW fat, NEW s, NEW c, RunsFrom(fat, s, c),
           NEW fat2, \A x \in Items(c) : fat2[x] = fat[x]
    PROVE  RunsFrom(fat2, s, c)
<1>1. /\ c \in Seq(Slots) /\ Len(c) \in Nat /\ Len(c) >= 1
      /\ \A i \in 1 .. Len(c) : c[i] \in Items(c)
    BY RunsUse DEF Items
<1>2. \A i \in 1 .. Len(c) : fat2[c[i]] = fat[c[i]]
    BY <1>1
<1>3. \A i \in 1 .. Len(c) - 1 : fat2[c[i]] = c[i + 1]
    BY <1>1, <1>2 DEF RunsFrom
<1>4. fat2[EndOf(c)] = Eoc
    BY <1>1, <1>2 DEF RunsFrom, EndOf
<1>5. QED BY <1>3, <1>4 DEF RunsFrom

(* One write to a slot of which no chain makes use.                        *)
LEMMA RunsStayPut ==
    ASSUME NEW fat \in Fats, NEW s, NEW c, RunsFrom(fat, s, c),
           NEW x \in Slots, x \notin Items(c), NEW y
    PROVE  RunsFrom([fat EXCEPT ![x] = y], s, c)
<1>1. Items(c) \subseteq Slots
    BY RunsUse
<1>2. \A z \in Items(c) : [fat EXCEPT ![x] = y][z] = fat[z]
    BY <1>1 DEF Fats
<1>3. QED BY <1>2, RunsStay

Wrote(fat, x, y) == [fat EXCEPT ![x] = y]

(* A free slot is taken: a chain of its own.                               *)
Taking(fat, R, x, fat2) ==
    /\ fat \in Fats /\ Forest(fat, R)
    /\ x \in Slots /\ fat[x] = FatFree /\ fat2 = Wrote(fat, x, Eoc)

HasTaken(fat, R, x, fat2) ==
    /\ x \notin R /\ fat2 \in Fats /\ Forest(fat2, R \cup {x})
    /\ \A s \in R : ChainOf(fat2, s) = ChainOf(fat, s)
    /\ ChainOf(fat2, x) = << x >>

LEMMA ForestTakes ==
    ASSUME NEW fat, NEW R, NEW x, NEW fat2, Taking(fat, R, x, fat2)
    PROVE  HasTaken(fat, R, x, fat2)
<1> SUFFICES ASSUME fat \in Fats, Forest(fat, R), x \in Slots, fat[x] = FatFree,
                    fat2 = [fat EXCEPT ![x] = Eoc]
             PROVE  HasTaken(fat, R, x, fat2)
    BY DEF Taking, Wrote
<1> DEFINE D == [s \in R \cup {x} |-> IF s = x THEN << x >> ELSE ChainOf(fat, s)]
<1>1. \A s \in R : RunsFrom(fat, s, ChainOf(fat, s))
    BY DEF Forest
<1>2. ASSUME NEW s \in R PROVE x \notin Items(ChainOf(fat, s)) /\ s \in Items(ChainOf(fat, s))
    BY <1>1, RunsUse
<1>3. x \notin R
    BY <1>2
<1>4. ASSUME NEW s \in R PROVE RunsFrom(fat2, s, ChainOf(fat, s))
    BY <1>1, <1>2, RunsStayPut
<1>5. RunsFrom(fat2, x, << x >>) /\ Items(<< x >>) = {x}
  <2>1. fat2[x] = Eoc
    BY DEF Fats
  <2>2. << x >> \in Seq(Slots) /\ << x >> # << >> /\ Len(<< x >>) = 1 /\ << x >>[1] = x
    OBVIOUS
  <2> DEFINE c == << x >>
  <2> HIDE DEF c
  <2>3. c \in Seq(Slots) /\ c # << >> /\ Len(c) = 1 /\ c[1] = x
    BY <2>2 DEF c
  <2>4. RunsFrom(fat2, x, c)
    BY <2>1, <2>3 DEF RunsFrom, NoDup, EndOf
  <2>5. Items(c) = {x}
    BY <2>3 DEF Items
  <2>6. QED BY <2>4, <2>5 DEF c
<1>6. \A s \in R : D[s] = ChainOf(fat, s)
    BY <1>3
<1>7. D[x] = << x >>
    OBVIOUS
<1> HIDE DEF D
<1>8. AllRun(fat2, R \cup {x}, D)
    BY <1>4, <1>5, <1>6, <1>7 DEF AllRun
<1>9. AllApart(R \cup {x}, D)
  <2>1. \A s, t \in R : s # t => Items(D[s]) \cap Items(D[t]) = {}
    BY <1>6 DEF Forest
  <2>2. \A s \in R : Items(D[s]) \cap Items(D[x]) = {}
    BY <1>2, <1>5, <1>6, <1>7
  <2>3. QED BY <2>1, <2>2 DEF AllApart
<1>10. AllAre(fat2, R \cup {x}, D) /\ Forest(fat2, R \cup {x})
    BY <1>8, <1>9, ForestIs
<1>11. fat2 \in Fats
    BY DEF Fats
<1>12. QED BY <1>3, <1>6, <1>7, <1>10, <1>11 DEF AllAre, HasTaken

(* The end of one chain is linked to the first slot of another.            *)
JoinRuns(fat, r, c, d) ==
    RunsFrom(fat, r, c \o d) /\ Items(c \o d) = Items(c) \cup Items(d)

LEMMA RunsJoin ==
    ASSUME NEW fat \in Fats, NEW r, NEW c, RunsFrom(fat, r, c), NEW t, NEW d, RunsFrom(fat, t, d),
           Items(c) \cap Items(d) = {}
    PROVE  JoinRuns(Wrote(fat, EndOf(c), t), r, c, d)
<1> DEFINE e == c \o d
           fat2 == Wrote(fat, EndOf(c), t)
<1>1. /\ c \in Seq(Slots) /\ NoDup(c) /\ Len(c) \in Nat /\ Len(c) >= 1 /\ c[1] = r
      /\ d \in Seq(Slots) /\ NoDup(d) /\ Len(d) \in Nat /\ Len(d) >= 1 /\ d[1] = t
      /\ EndOf(c) \in Items(c) /\ Items(c) \subseteq Slots /\ Items(d) \subseteq Slots
    BY RunsUse
<1>2. e \in Seq(Slots) /\ NoDup(e) /\ Items(e) = Items(c) \cup Items(d)
    BY <1>1, ConcatItems
<1>3. /\ Len(e) = Len(c) + Len(d)
      /\ \A k \in 1 .. Len(c) : e[k] = c[k]
      /\ \A k \in 1 .. Len(d) : e[Len(c) + k] = d[k]
    BY <1>1, ConcatIs
<1> HIDE DEF e
<1>4. fat2[EndOf(c)] = t /\ \A x \in (Items(c) \cup Items(d)) \ {EndOf(c)} : fat2[x] = fat[x]
    BY <1>1 DEF Fats, Wrote
<1> HIDE DEF fat2
<1>5. ASSUME NEW i \in 1 .. Len(c) - 1 PROVE fat2[e[i]] = e[i + 1]
  <2>1. /\ i \in 1 .. Len(c) /\ i + 1 \in 1 .. Len(c) /\ i # Len(c) /\ Len(c) \in 1 .. Len(c)
    BY <1>1
  <2>2. c[i] \in Items(c) /\ c[i] # EndOf(c)
    BY <1>1, <2>1 DEF Items, NoDup, EndOf
  <2>3. fat[c[i]] = c[i + 1]
    BY DEF RunsFrom
  <2>4. QED BY <1>3, <1>4, <2>1, <2>2, <2>3
<1>6. fat2[e[Len(c)]] = e[Len(c) + 1]
  <2>1. Len(c) \in 1 .. Len(c) /\ 1 \in 1 .. Len(d)
    BY <1>1
  <2>2. QED BY <1>1, <1>3, <1>4, <2>1 DEF EndOf
<1>7. ASSUME NEW i \in 1 .. Len(d) - 1 PROVE fat2[e[Len(c) + i]] = e[Len(c) + i + 1]
  <2>1. i \in 1 .. Len(d) /\ i + 1 \in 1 .. Len(d)
    BY <1>1
  <2>2. d[i] \in Items(d) /\ d[i] # EndOf(c)
    BY <1>1, <2>1 DEF Items
  <2>3. fat[d[i]] = d[i + 1]
    BY DEF RunsFrom
  <2>4. e[Len(c) + i] = d[i] /\ e[Len(c) + (i + 1)] = d[i + 1]
    BY <1>3, <2>1
  <2>5. Len(c) + (i + 1) = Len(c) + i + 1
    BY <1>1
  <2>6. QED BY <1>4, <2>2, <2>3, <2>4, <2>5
<1>8. fat2[EndOf(e)] = Eoc
  <2>1. Len(d) \in 1 .. Len(d)
    BY <1>1
  <2>2. d[Len(d)] \in Items(d) /\ d[Len(d)] # EndOf(c)
    BY <1>1, <2>1 DEF Items
  <2>3. QED BY <1>3, <1>4, <2>1, <2>2 DEF EndOf, RunsFrom
<1>9. \A i \in 1 .. Len(e) - 1 : fat2[e[i]] = e[i + 1]
  <2> TAKE i \in 1 .. Len(e) - 1
  <2>1. CASE i < Len(c)
    <3>1. i \in 1 .. Len(c) - 1
        BY <1>1, <1>3, <2>1
    <3>2. QED BY <1>5, <3>1
  <2>2. CASE i = Len(c)
    BY <1>6, <2>2
  <2>3. CASE i > Len(c)
    <3>1. i - Len(c) \in 1 .. Len(d) - 1 /\ Len(c) + (i - Len(c)) = i
        BY <1>1, <1>3, <2>3
    <3>2. QED BY <1>7, <3>1
  <2>4. QED BY <1>1, <1>3, <2>1, <2>2, <2>3
<1>10. e # << >> /\ e[1] = r
  <2>1. Len(e) >= 1 /\ 1 \in 1 .. Len(c)
    BY <1>1, <1>3
  <2>2. QED BY <1>1, <1>2, <1>3, <2>1
<1>11. QED BY <1>2, <1>8, <1>9, <1>10 DEF RunsFrom, JoinRuns, e, fat2

Joining(fat, R, r, t, fat2) ==
    /\ fat \in Fats /\ Forest(fat, R)
    /\ r \in R /\ t \in R /\ r # t /\ fat2 = Wrote(fat, EndOf(ChainOf(fat, r)), t)

HasJoined(fat, R, r, t, fat2) ==
    /\ fat2 \in Fats /\ Forest(fat2, R \ {t})
    /\ \A s \in R \ {r, t} : ChainOf(fat2, s) = ChainOf(fat, s)
    /\ ChainOf(fat2, r) = ChainOf(fat, r) \o ChainOf(fat, t)

LEMMA ForestJoins ==
    ASSUME NEW fat, NEW R, NEW r, NEW t, NEW fat2, Joining(fat, R, r, t, fat2)
    PROVE  HasJoined(fat, R, r, t, fat2)
<1> SUFFICES ASSUME fat \in Fats, Forest(fat, R), r \in R, t \in R, r # t,
                    fat2 = [fat EXCEPT ![EndOf(ChainOf(fat, r))] = t]
             PROVE  HasJoined(fat, R, r, t, fat2)
    BY DEF Joining, Wrote
<1> DEFINE c == ChainOf(fat, r)
           d == ChainOf(fat, t)
           D == [s \in R \ {t} |-> IF s = r THEN c \o d ELSE ChainOf(fat, s)]
<1>1. \A s \in R : RunsFrom(fat, s, ChainOf(fat, s))
    BY DEF Forest
<1>2. EndOf(c) \in Items(c) /\ Items(c) \subseteq Slots /\ t \in Slots
    BY <1>1, RunsUse
<1>3. \A s, u \in R : s # u => Items(ChainOf(fat, s)) \cap Items(ChainOf(fat, u)) = {}
    BY DEF Forest
<1>4. RunsFrom(fat2, r, c \o d) /\ Items(c \o d) = Items(c) \cup Items(d)
  <2>1. RunsFrom(fat, r, c) /\ RunsFrom(fat, t, d) /\ Items(c) \cap Items(d) = {}
    BY <1>1, <1>3
  <2> HIDE DEF c, d
  <2>2. fat2 = Wrote(fat, EndOf(c), t)
    BY DEF c, Wrote
  <2>3. JoinRuns(Wrote(fat, EndOf(c), t), r, c, d)
    BY <2>1, RunsJoin
  <2>4. QED BY <2>2, <2>3 DEF JoinRuns
<1>5. ASSUME NEW s \in R \ {r, t} PROVE RunsFrom(fat2, s, ChainOf(fat, s))
  <2>1. EndOf(c) \notin Items(ChainOf(fat, s))
    BY <1>2, <1>3
  <2>2. QED BY <1>1, <1>2, <2>1, RunsStayPut
<1>6. D[r] = c \o d /\ \A s \in R \ {r, t} : D[s] = ChainOf(fat, s)
    OBVIOUS
<1>7. fat2 \in Fats
    BY <1>2 DEF Fats
<1> HIDE DEF D
<1>8. AllRun(fat2, R \ {t}, D)
    BY <1>4, <1>5, <1>6 DEF AllRun
<1>9. ASSUME NEW s \in R \ {t}, NEW u \in R \ {t}, s # u PROVE Items(D[s]) \cap Items(D[u]) = {}
  <2>1. CASE s = r
    BY <1>3, <1>4, <1>6, <1>9, <2>1
  <2>2. CASE u = r
    BY <1>3, <1>4, <1>6, <1>9, <2>2
  <2>3. CASE s # r /\ u # r
    BY <1>3, <1>6, <1>9, <2>3
  <2>4. QED BY <2>1, <2>2, <2>3
<1>10. AllAre(fat2, R \ {t}, D) /\ Forest(fat2, R \ {t})
  <2>1. AllApart(R \ {t}, D)
    BY <1>9 DEF AllApart
  <2>2. QED BY <1>8, <2>1, ForestIs
<1>11. QED BY <1>6, <1>7, <1>10 DEF AllAre, HasJoined

(* A chain in two: its first k slots, when the last of them gets the end   *)
(* mark, and the rest of them, which runs as it did.                       *)
Front(c, k) == SubSeq(c, 1, k)
Back(c, k)  == SubSeq(c, k + 1, Len(c))

Halves(fat, r, c, k) ==
    /\ RunsFrom(fat, c[k + 1], Back(c, k))
    /\ RunsFrom(Wrote(fat, c[k], Eoc), r, Front(c, k))
    /\ Items(Front(c, k)) \subseteq Items(c) /\ Items(Back(c, k)) \subseteq Items(c)
    /\ Items(Front(c, k)) \cap Items(Back(c, k)) = {}
    /\ c[k] \in Items(Front(c, k)) /\ c[k + 1] \in Items(c) /\ c[k + 1] # r

LEMMA RunsCut ==
    ASSUME NEW fat \in Fats, NEW r, NEW c, RunsFrom(fat, r, c), NEW k \in 1 .. Len(c) - 1
    PROVE  Halves(fat, r, c, k)
<1> DEFINE a == Front(c, k)
           b == Back(c, k)
           n == Len(c) - k
           fat2 == Wrote(fat, c[k], Eoc)
<1>1. /\ c \in Seq(Slots) /\ NoDup(c) /\ Len(c) \in Nat /\ Len(c) >= 1 /\ c[1] = r
      /\ Items(c) \subseteq Slots
    BY RunsUse
<1>2. /\ k \in Nat /\ k >= 1 /\ k < Len(c) /\ n \in Nat /\ n >= 1
      /\ \A i \in 1 .. k : i \in 1 .. Len(c) /\ i # k + 1
      /\ \A i \in 1 .. n : k + i \in 1 .. Len(c) /\ k + i \notin 1 .. k
    BY <1>1
<1>3. /\ a \in Seq(Slots) /\ Len(a) = k /\ \A i \in 1 .. k : a[i] = c[i]
    BY <1>1, <1>2 DEF Front
<1>4. /\ b \in Seq(Slots) /\ Len(b) = n /\ \A i \in 1 .. n : b[i] = c[k + i]
  <2>1. /\ b \in Seq(Slots) /\ Len(b) = Len(c) - (k + 1) + 1
        /\ \A i \in 1 .. Len(c) - (k + 1) + 1 : b[i] = c[i + (k + 1) - 1]
    BY <1>1, <1>2 DEF Back
  <2>2. Len(c) - (k + 1) + 1 = n /\ \A i \in 1 .. n : i + (k + 1) - 1 = k + i
    BY <1>1, <1>2
  <2> HIDE DEF n, b
  <2>3. QED BY <2>1, <2>2
<1>5. fat2[c[k]] = Eoc /\ \A x \in Items(c) : x # c[k] => fat2[x] = fat[x]
  <2>1. c[k] \in Slots
    BY <1>1, <1>2
  <2>2. QED BY <1>1, <2>1 DEF Wrote, Fats
<1> HIDE DEF a, b, n, fat2
<1>6. NoDup(a) /\ NoDup(b)
  <2>1. NoDup(a)
    BY <1>1, <1>2, <1>3 DEF NoDup
  <2>2. ASSUME NEW i \in 1 .. n, NEW j \in 1 .. n, b[i] = b[j] PROVE i = j
    <3>1. c[k + i] = c[k + j] /\ k + i \in 1 .. Len(c) /\ k + j \in 1 .. Len(c)
        BY <1>2, <1>4, <2>2
    <3>2. k + i = k + j
        BY <1>1, <3>1 DEF NoDup
    <3>3. QED BY <1>2, <3>2
  <2>3. QED BY <1>4, <2>1, <2>2 DEF NoDup
<1>7. Items(a) \subseteq Items(c) /\ Items(b) \subseteq Items(c)
  <2>1. Items(a) \subseteq Items(c)
    BY <1>2, <1>3 DEF Items
  <2>2. Items(b) \subseteq Items(c)
    BY <1>2, <1>4 DEF Items
  <2>3. QED BY <2>1, <2>2
<1>8. ASSUME NEW i \in 1 .. k, NEW j \in 1 .. n PROVE a[i] # b[j]
  <2>1. i \in 1 .. Len(c) /\ k + j \in 1 .. Len(c) /\ i # k + j
    BY <1>2
  <2>2. c[i] # c[k + j]
    BY <1>1, <2>1 DEF NoDup
  <2>3. QED BY <1>3, <1>4, <2>2
<1>9. Items(a) \cap Items(b) = {}
    BY <1>3, <1>4, <1>8 DEF Items
<1>10. RunsFrom(fat, c[k + 1], b)
  <2>1. b # << >> /\ b[1] = c[k + 1]
    BY <1>2, <1>4
  <2>2. ASSUME NEW i \in 1 .. n - 1 PROVE fat[b[i]] = b[i + 1]
    <3>1. /\ i \in 1 .. n /\ i + 1 \in 1 .. n /\ k + i \in 1 .. Len(c) - 1
          /\ k + (i + 1) = (k + i) + 1
        BY <1>1, <1>2, n = Len(c) - k DEF n
    <3>2. fat[c[k + i]] = c[(k + i) + 1]
        BY <3>1 DEF RunsFrom
    <3>3. b[i] = c[k + i] /\ b[i + 1] = c[k + (i + 1)]
        BY <1>4, <3>1
    <3>4. QED BY <3>1, <3>2, <3>3
  <2>3. fat[EndOf(b)] = Eoc
    <3>1. n \in 1 .. n /\ k + n = Len(c)
        BY <1>1, <1>2 DEF n
    <3>2. EndOf(b) = c[Len(c)]
        BY <1>4, <3>1 DEF EndOf
    <3>3. QED BY <3>2 DEF RunsFrom, EndOf
  <2>4. QED BY <1>4, <1>6, <2>1, <2>2, <2>3 DEF RunsFrom
<1>11. RunsFrom(fat2, r, a)
  <2>1. a # << >> /\ a[1] = r
    BY <1>1, <1>2, <1>3
  <2>2. ASSUME NEW i \in 1 .. k - 1 PROVE fat2[a[i]] = a[i + 1]
    <3>1. /\ i \in 1 .. k /\ i + 1 \in 1 .. k /\ i \in 1 .. Len(c) - 1 /\ i # k
          /\ k \in 1 .. Len(c) /\ i \in 1 .. Len(c)
        BY <1>1, <1>2
    <3>2. fat[c[i]] = c[i + 1]
        BY <3>1 DEF RunsFrom
    <3>3. c[i] # c[k] /\ c[i] \in Items(c)
        BY <1>1, <3>1 DEF NoDup, Items
    <3>4. QED BY <1>3, <1>5, <3>1, <3>2, <3>3
  <2>3. fat2[EndOf(a)] = Eoc
    BY <1>2, <1>3, <1>5 DEF EndOf
  <2>4. QED BY <1>3, <1>6, <2>1, <2>2, <2>3 DEF RunsFrom
<1>12. c[k] \in Items(a) /\ c[k + 1] \in Items(c) /\ c[k + 1] # r
  <2>1. k \in 1 .. k /\ k + 1 \in 1 .. Len(c) /\ 1 \in 1 .. Len(c) /\ k + 1 # 1
    BY <1>1, <1>2
  <2>2. a[k] = c[k] /\ c[k + 1] # c[1]
    BY <1>1, <1>3, <2>1 DEF NoDup
  <2>3. QED BY <1>1, <1>3, <2>1, <2>2 DEF Items
<1>13. QED BY <1>7, <1>9, <1>10, <1>11, <1>12 DEF Halves, a, b, fat2

(* A chain is cut: the rest is a chain of its own.                         *)
Cutting(fat, R, r, k, x, y, fat2) ==
    /\ fat \in Fats /\ Forest(fat, R) /\ r \in R
    /\ k \in 1 .. Len(ChainOf(fat, r)) - 1
    /\ x = ChainOf(fat, r)[k] /\ y = ChainOf(fat, r)[k + 1] /\ fat2 = Wrote(fat, x, Eoc)

HasCut(fat, R, r, k, y, fat2) ==
    /\ fat2 \in Fats /\ y \in Slots \ R /\ Forest(fat2, R \cup {y})
    /\ \A s \in R \ {r} : ChainOf(fat2, s) = ChainOf(fat, s)
    /\ ChainOf(fat2, r) = Front(ChainOf(fat, r), k)

LEMMA ForestCuts ==
    ASSUME NEW fat, NEW R, NEW r, NEW k, NEW x, NEW y, NEW fat2,
           Cutting(fat, R, r, k, x, y, fat2)
    PROVE  HasCut(fat, R, r, k, y, fat2)
<1> SUFFICES ASSUME fat \in Fats, Forest(fat, R), r \in R,
                    k \in 1 .. Len(ChainOf(fat, r)) - 1,
                    x = ChainOf(fat, r)[k], y = ChainOf(fat, r)[k + 1],
                    fat2 = [fat EXCEPT ![x] = Eoc]
             PROVE  HasCut(fat, R, r, k, y, fat2)
    BY DEF Cutting, Wrote
<1> DEFINE c == ChainOf(fat, r)
           a == Front(c, k)
           b == Back(c, k)
           D == [s \in R \cup {y} |-> IF s = y THEN b ELSE IF s = r THEN a ELSE ChainOf(fat, s)]
<1>1. \A s \in R : RunsFrom(fat, s, ChainOf(fat, s))
    BY DEF Forest
<1>2. \A s, u \in R : s # u => Items(ChainOf(fat, s)) \cap Items(ChainOf(fat, u)) = {}
    BY DEF Forest
<1>3. Halves(fat, r, c, k)
  <2>1. RunsFrom(fat, r, c)
    BY <1>1
  <2> HIDE DEF c
  <2>2. k \in 1 .. Len(c) - 1
    BY DEF c
  <2>3. QED BY <2>1, <2>2, RunsCut
<1>4. /\ RunsFrom(fat, y, b) /\ RunsFrom(fat2, r, a)
      /\ Items(a) \subseteq Items(c) /\ Items(b) \subseteq Items(c) /\ Items(a) \cap Items(b) = {}
      /\ x \in Items(a) /\ y \in Items(c) /\ y # r
  <2> HIDE DEF c
  <2>1. x = c[k] /\ y = c[k + 1]
    BY DEF c
  <2>2. QED BY <1>3, <2>1 DEF Halves, Wrote
<1>5. Items(c) \subseteq Slots
    BY <1>1, RunsUse
<1>6. ASSUME NEW s \in R \ {r} PROVE s \in Items(ChainOf(fat, s)) /\ x \notin Items(ChainOf(fat, s))
  <2>1. Items(c) \cap Items(ChainOf(fat, s)) = {}
    BY <1>2
  <2>2. QED BY <1>1, <1>4, <2>1, RunsUse
<1>7. y \notin R
  <2>1. ASSUME y \in R PROVE FALSE
    <3>1. y \in R \ {r}
        BY <1>4, <2>1
    <3>2. y \in Items(ChainOf(fat, y)) /\ Items(c) \cap Items(ChainOf(fat, y)) = {}
        BY <1>2, <1>6, <3>1
    <3>3. QED BY <1>4, <3>2
  <2>2. QED BY <2>1
<1>8. RunsFrom(fat2, y, b) /\ \A s \in R \ {r} : RunsFrom(fat2, s, ChainOf(fat, s))
  <2>1. x \in Slots /\ x \notin Items(b)
    BY <1>4, <1>5
  <2>2. RunsFrom(fat2, y, b)
    <3> HIDE DEF b
    <3>1. QED BY <1>4, <2>1, RunsStayPut
  <2>3. \A s \in R \ {r} : RunsFrom(fat2, s, ChainOf(fat, s))
    BY <1>1, <1>6, <2>1, RunsStayPut
  <2>4. QED BY <2>2, <2>3
<1>9. D[y] = b /\ D[r] = a /\ \A s \in R \ {r} : D[s] = ChainOf(fat, s)
    BY <1>4, <1>7
<1>10. fat2 \in Fats /\ y \in Slots
    BY <1>4, <1>5 DEF Fats
<1>11. \A s \in R \ {r} : Items(c) \cap Items(ChainOf(fat, s)) = {}
    BY <1>2
<1> HIDE DEF D, a, b, c
<1>12. AllRun(fat2, R \cup {y}, D)
  <2>1. ASSUME NEW s \in R \cup {y} PROVE RunsFrom(fat2, s, D[s])
    <3>1. CASE s = y
        BY <1>8, <1>9, <3>1
    <3>2. CASE s = r
        BY <1>4, <1>9, <3>2
    <3>3. CASE s \in R \ {r}
        BY <1>8, <1>9, <3>3
    <3>4. QED BY <3>1, <3>2, <3>3
  <2>2. QED BY <2>1 DEF AllRun
<1>13. ASSUME NEW s \in R \cup {y}, NEW u \in R \cup {y}, s # u PROVE Items(D[s]) \cap Items(D[u]) = {}
  <2>1. CASE s \in {y, r} /\ u \in {y, r}
    BY <1>4, <1>9, <1>13, <2>1
  <2>2. CASE s \in {y, r} /\ u \notin {y, r}
    <3>1. Items(D[s]) \subseteq Items(c) /\ u \in R \ {r}
        BY <1>4, <1>9, <2>2
    <3>2. QED BY <1>9, <1>11, <3>1
  <2>3. CASE s \notin {y, r} /\ u \in {y, r}
    <3>1. Items(D[u]) \subseteq Items(c) /\ s \in R \ {r}
        BY <1>4, <1>9, <2>3
    <3>2. QED BY <1>9, <1>11, <3>1
  <2>4. CASE s \notin {y, r} /\ u \notin {y, r}
    BY <1>2, <1>9, <1>13, <2>4
  <2>5. QED BY <2>1, <2>2, <2>3, <2>4
<1>14. AllAre(fat2, R \cup {y}, D) /\ Forest(fat2, R \cup {y})
  <2>1. AllApart(R \cup {y}, D)
    BY <1>13 DEF AllApart
  <2>2. QED BY <1>12, <2>1, ForestIs
<1>15. QED BY <1>7, <1>9, <1>10, <1>14 DEF AllAre, HasCut, a, c

(* The first slot of a chain is freed: what is left of it is a chain.      *)
Freeing(fat, R, t, fat2) ==
    fat \in Fats /\ Forest(fat, R) /\ t \in R /\ fat2 = Wrote(fat, t, FatFree)

HasFreed(fat, R, t, fat2) ==
    /\ fat2 \in Fats
    /\ \A s \in R \ {t} : ChainOf(fat2, s) = ChainOf(fat, s)
    /\ fat[t] = Eoc => Forest(fat2, R \ {t})
    /\ fat[t] # Eoc => fat[t] \in Slots \ R /\ Forest(fat2, (R \ {t}) \cup {fat[t]})

LEMMA ForestFrees ==
    ASSUME NEW fat, NEW R, NEW t, NEW fat2, Freeing(fat, R, t, fat2)
    PROVE  HasFreed(fat, R, t, fat2)
<1> SUFFICES ASSUME fat \in Fats, Forest(fat, R), t \in R, fat2 = [fat EXCEPT ![t] = FatFree]
             PROVE  HasFreed(fat, R, t, fat2)
    BY DEF Freeing, Wrote
<1> DEFINE c == ChainOf(fat, t)
           y == fat[t]
           b == Back(c, 1)
           D == [s \in R \cup {y} |-> IF s \in R THEN ChainOf(fat, s) ELSE b]
           T == IF y = Eoc THEN R \ {t} ELSE (R \ {t}) \cup {y}
<1>1. \A s \in R : RunsFrom(fat, s, ChainOf(fat, s))
    BY DEF Forest
<1>2. \A s, u \in R : s # u => Items(ChainOf(fat, s)) \cap Items(ChainOf(fat, u)) = {}
    BY DEF Forest
<1>3. /\ t \in Slots /\ t \in Items(c) /\ Items(c) \subseteq Slots
      /\ c[1] = t /\ Len(c) \in Nat /\ Len(c) >= 1
    BY <1>1, RunsUse
<1>4. ASSUME NEW s \in R \ {t} PROVE s \in Items(ChainOf(fat, s)) /\ t \notin Items(ChainOf(fat, s))
  <2>1. Items(c) \cap Items(ChainOf(fat, s)) = {}
    BY <1>2
  <2>2. QED BY <1>1, <1>3, <2>1, RunsUse
<1>5. fat2 \in Fats
    BY <1>3 DEF Fats, FatFree
<1>6. \A s \in R \ {t} : RunsFrom(fat2, s, ChainOf(fat, s))
    BY <1>1, <1>3, <1>4, RunsStayPut
<1>7. \A s \in R \ {t} : D[s] = ChainOf(fat, s)
    OBVIOUS
<1>8. ASSUME y # Eoc
      PROVE  /\ y \in Slots \ R /\ D[y] = b /\ RunsFrom(fat2, y, b) /\ Items(b) \subseteq Items(c)
  <2>1. Len(c) # 1
    <3>1. fat[c[Len(c)]] = Eoc
        BY <1>1 DEF RunsFrom, EndOf
    <3>2. ASSUME Len(c) = 1 PROVE FALSE
        <4> HIDE DEF c
        <4>1. fat[c[1]] = Eoc
            BY <3>1, <3>2
        <4>2. QED BY <1>3, <1>8, <4>1
    <3>3. QED BY <3>2
  <2>2. 1 \in 1 .. Len(c) - 1
    <3> DEFINE n == Len(c)
    <3>1. n \in Nat /\ n >= 1 /\ n # 1
        BY <1>3, <2>1
    <3> HIDE DEF n
    <3>2. 1 \in 1 .. n - 1
        BY <3>1
    <3>3. QED BY <3>2 DEF n
  <2>3. RunsFrom(fat, t, c)
    BY <1>1
  <2>4. y = c[1 + 1]
    BY <1>3, <2>2, <2>3 DEF RunsFrom
  <2>5. Halves(fat, t, c, 1)
    <3> HIDE DEF c
    <3>1. QED BY <2>2, <2>3, RunsCut
  <2>6. /\ RunsFrom(fat, y, b) /\ Items(b) \subseteq Items(c) /\ y \in Items(c) /\ y # t
        /\ t \notin Items(b)
    <3> HIDE DEF c, y
    <3>1. QED BY <1>3, <2>4, <2>5 DEF Halves
  <2>7. y \notin R
    <3>1. ASSUME y \in R PROVE FALSE
        <4>1. y \in R \ {t}
            BY <2>6, <3>1
        <4>2. y \in Items(ChainOf(fat, y)) /\ Items(c) \cap Items(ChainOf(fat, y)) = {}
            BY <1>2, <1>4, <4>1
        <4>3. QED BY <2>6, <4>2
    <3>2. QED BY <3>1
  <2>8. RunsFrom(fat2, y, b)
    <3> HIDE DEF b, y
    <3>1. QED BY <1>3, <2>6, RunsStayPut
  <2>9. QED BY <1>3, <2>6, <2>7, <2>8
<1>9. \A s \in R \ {t} : Items(c) \cap Items(ChainOf(fat, s)) = {}
    BY <1>2
<1>10. T \subseteq (R \ {t}) \cup {y} /\ (y \in T => y # Eoc \/ y \in R \ {t})
    OBVIOUS
<1> HIDE DEF D, b, c
<1>11. ASSUME NEW s \in T PROVE s \in R \ {t} \/ (s = y /\ y # Eoc)
    OBVIOUS
<1> HIDE DEF T, y
<1>12. AllRun(fat2, T, D)
    BY <1>6, <1>7, <1>8, <1>11 DEF AllRun
<1>13. ASSUME NEW s \in T, NEW u \in T, s # u PROVE Items(D[s]) \cap Items(D[u]) = {}
  <2>1. CASE s \in R \ {t} /\ u \in R \ {t}
    BY <1>2, <1>7, <1>13, <2>1
  <2>2. CASE s \in R \ {t} /\ u = y /\ y # Eoc
    BY <1>7, <1>8, <1>9, <2>2
  <2>3. CASE u \in R \ {t} /\ s = y /\ y # Eoc
    BY <1>7, <1>8, <1>9, <2>3
  <2>4. QED BY <1>11, <1>13, <2>1, <2>2, <2>3
<1>14. AllAre(fat2, T, D) /\ Forest(fat2, T)
  <2>1. AllApart(T, D)
    BY <1>13 DEF AllApart
  <2>2. QED BY <1>12, <2>1, ForestIs
<1>15. R \ {t} \subseteq T
    BY DEF T
<1>16. \A s \in R \ {t} : ChainOf(fat2, s) = ChainOf(fat, s)
    BY <1>7, <1>14, <1>15 DEF AllAre
<1>17. QED BY <1>5, <1>8, <1>14, <1>16 DEF HasFreed, T, y

-----------------------------------------------------------------------------
(* The queue of free slots *)

(* Free slots below a bound, each once.                                    *)
FreeSlots(fat, low) ==
    {q \in Seq(Slots) : NoDup(q) /\ \A x \in Items(q) : fat[x] = FatFree /\ x < low}

FreeStep(fat, k, u, i) ==
    IF i = 0 THEN << >>
    ELSE LET x == k * SlotsPerSector + i - 1 IN
         IF x \in Slots /\ fat[x] = FatFree THEN Append(u[i - 1], x) ELSE u[i - 1]

(* The free slots of a sector are free, and listed once.                   *)
LEMMA FreeInIs ==
    ASSUME NEW fat, NEW k \in Int
    PROVE  /\ FreeIn(fat, k) \in Seq(Slots) /\ NoDup(FreeIn(fat, k))
           /\ \A x \in Items(FreeIn(fat, k)) : fat[x] = FatFree
<1> DEFINE n == SlotsPerSector
           m == k * SlotsPerSector
           S == [i \in 0 .. n |-> FreeSlots(fat, m + i)]
           Round(q, i) == IF m + i - 1 \in Slots /\ fat[m + i - 1] = FatFree
                          THEN Append(q, m + i - 1) ELSE q
           G == [i \in 1 .. n |-> [q \in S[i - 1] |-> Round(q, i)]]
           F == CHOOSE u : u = [i \in 0 .. n |-> FreeStep(fat, k, u, i)]
<1>1. n \in Nat /\ m \in Int
    BY FatTableAssumption
<1>2. \A i \in 0 .. n : S[i] = FreeSlots(fat, m + i)
    OBVIOUS
<1>3. FreeIn(fat, k) = F[n]
    BY DEF FreeIn, FreeStep
<1>4. ASSUME NEW u, NEW i \in 1 .. n PROVE FreeStep(fat, k, u, i) = Round(u[i - 1], i)
    BY DEF FreeStep
<1>5. << >> \in S[0]
  <2>1. 0 \in 0 .. n /\ << >> \in Seq(Slots) /\ Len(<< >>) = 0
    BY <1>1
  <2>2. << >> \in FreeSlots(fat, m + 0)
    BY <2>1 DEF FreeSlots, NoDup, Items
  <2>3. QED BY <1>2, <2>1, <2>2
<1> HIDE DEF m, S
<1>6. ASSUME NEW i \in 1 .. n, NEW q \in S[i - 1] PROVE Round(q, i) \in S[i]
  <2> DEFINE x == m + i - 1
  <2>1. i \in 0 .. n /\ i - 1 \in 0 .. n /\ m + i \in Int /\ m + (i - 1) = x /\ x \in Int /\ x < m + i
    BY <1>1
  <2>2. S[i] = FreeSlots(fat, m + i) /\ q \in FreeSlots(fat, x)
    BY <1>2, <2>1
  <2> HIDE DEF x
  <2>3. /\ q \in Seq(Slots) /\ NoDup(q) /\ Items(q) \subseteq Slots
        /\ \A y \in Items(q) : fat[y] = FatFree /\ y < x
    BY <2>2 DEF FreeSlots, Items
  <2>4. Slots \subseteq Int
    BY FatTableAssumption DEF Slots
  <2>9. ASSUME NEW y \in Items(q) PROVE fat[y] = FatFree /\ y < m + i
    <3>1. y \in Int /\ fat[y] = FatFree /\ y < x
        BY <2>3, <2>4
    <3> DEFINE z == m + i
    <3>2. z \in Int /\ x \in Int /\ x < z
        BY <2>1
    <3> HIDE DEF z
    <3>3. y < z
        BY <3>1, <3>2
    <3>4. QED BY <3>1, <3>3 DEF z
  <2>5. CASE x \in Slots /\ fat[x] = FatFree
    <3>1. x \notin Items(q)
        BY <2>1, <2>3
    <3>2. /\ Append(q, x) \in Seq(Slots) /\ NoDup(Append(q, x))
          /\ Items(Append(q, x)) = Items(q) \cup {x}
        BY <2>3, <2>5, <3>1, AppendItems
    <3>3. \A y \in Items(q) \cup {x} : fat[y] = FatFree /\ y < m + i
        BY <2>1, <2>5, <2>9
    <3>4. Append(q, x) \in FreeSlots(fat, m + i)
        BY <3>2, <3>3 DEF FreeSlots
    <3>5. Round(q, i) = Append(q, x)
        BY <2>5 DEF x
    <3>6. QED BY <2>2, <3>4, <3>5
  <2>6. CASE ~(x \in Slots /\ fat[x] = FatFree)
    <3>1. \A y \in Items(q) : fat[y] = FatFree /\ y < m + i
        BY <2>9
    <3>2. q \in FreeSlots(fat, m + i)
        BY <2>3, <3>1 DEF FreeSlots
    <3>3. Round(q, i) = q
        BY <2>6 DEF x
    <3>4. QED BY <2>2, <3>2, <3>3
  <2>7. QED BY <2>5, <2>6
<1> HIDE DEF Round
<1>7. \A i \in 1 .. n : \A q \in S[i - 1] : G[i][q] = Round(q, i)
    OBVIOUS
<1>8. \A i \in 1 .. n : \A q \in S[i - 1] : G[i][q] \in S[i]
    BY <1>6, <1>7
<1> HIDE DEF G, n
<1>9. PICK g : Rounds(g, S, << >>, G, n)
    BY <1>1, <1>5, <1>8, RoundsExist
<1>10. g = [i \in 0 .. n |-> FreeStep(fat, k, g, i)]
  <2>1. /\ g = [i \in 0 .. n |-> g[i]] /\ g[0] = << >>
        /\ \A i \in 1 .. n : g[i] = G[i][g[i - 1]]
        /\ \A i \in 0 .. n : g[i] \in S[i]
    BY <1>9 DEF Rounds
  <2>2. ASSUME NEW i \in 0 .. n PROVE g[i] = FreeStep(fat, k, g, i)
    <3>1. CASE i = 0
        BY <2>1, <3>1 DEF FreeStep
    <3>2. CASE i # 0
        <4>1. i \in 1 .. n /\ i - 1 \in 0 .. n
            BY <1>1, <3>2
        <4>2. QED BY <1>4, <1>7, <2>1, <4>1
    <3>3. QED BY <3>1, <3>2
  <2>3. QED BY <2>1, <2>2
<1>11. F = [i \in 0 .. n |-> FreeStep(fat, k, F, i)]
    BY <1>10, ZenonT(60)
<1> HIDE DEF F
<1>12. \A i \in 0 .. n : F[i] = FreeStep(fat, k, F, i)
    BY <1>11
<1> DEFINE T == {i \in 0 .. n : F[i] \in S[i]}
<1>13. 0 \in T
  <2>1. 0 \in 0 .. n
    BY <1>1
  <2>2. F[0] = << >>
    BY <1>12, <2>1 DEF FreeStep
  <2>3. QED BY <1>5, <2>1, <2>2
<1>14. ASSUME NEW i \in 1 .. n, i - 1 \in T PROVE i \in T
  <2>1. i \in 0 .. n /\ F[i - 1] \in S[i - 1]
    BY <1>14
  <2>2. F[i] = Round(F[i - 1], i)
    BY <1>4, <1>12, <2>1
  <2>3. QED BY <1>6, <2>1, <2>2
<1>15. F[n] \in S[n]
  <2> HIDE DEF T
  <2>1. 0 .. n \subseteq T
    BY <1>1, <1>13, <1>14, Upwards
  <2>2. n \in T
    BY <1>1, <2>1
  <2>3. QED BY <2>2 DEF T
<1>16. FreeIn(fat, k) \in FreeSlots(fat, m + n)
  <2>1. n \in 0 .. n
    BY <1>1
  <2>2. QED BY <1>2, <1>3, <1>15, <2>1
<1>17. QED BY <1>16 DEF FreeSlots

(* So is what the queue may be filled with.                                *)
LEMMA FreeQueuesAre ==
    ASSUME NEW v, v.q = << >>, NEW q \in FreeQueues(v)
    PROVE  q \in Seq(Slots) /\ NoDup(q) /\ \A x \in Items(q) : v.fat[x] = FatFree
<1>1. PICK x \in Slots : q = FreeIn(v.fat, SectorOf(x))
    BY DEF FreeQueues
<1>2. SectorOf(x) \in Int
  <2>1. x \in Int /\ SlotsPerSector \in Nat /\ SlotsPerSector > 0
    BY FatTableAssumption DEF Slots
  <2>2. QED BY <2>1, DivMod DEF SectorOf
<1>3. QED BY <1>1, <1>2, FreeInIs

-----------------------------------------------------------------------------
(* The steps of a call keep the invariant *)

LEMMA SlotsAre ==
    /\ Slots \subseteq Nat /\ None \notin Slots /\ Eoc \notin Slots /\ FatFree \notin Slots
    /\ Eoc # FatFree /\ Eoc \in Nat
BY FatTableAssumption DEF Slots, None, Eoc, FatFree

LinkMade(v, x, y, v2) ==
    /\ v2 \in Volumes /\ v2.fat = Wrote(v.fat, x, y) /\ v2.q = v.q
    /\ \A z \in Slots : z # x => v2.fat[z] = v.fat[z]
    /\ v2.fat[x] = y

LEMMA LinkIs ==
    ASSUME NEW v \in Volumes, NEW x \in Slots, NEW y \in Slots \cup {FatFree, Eoc}
    PROVE  LinkMade(v, x, y, Link(v, x, y))
BY DEF Volumes, Fats, Link, Wrote, LinkMade

(* At each place of a chain there is a link or, at its end, the end mark.  *)
LEMMA LinksIn ==
    ASSUME NEW fat, NEW s, NEW c, RunsFrom(fat, s, c), NEW k \in 1 .. Len(c)
    PROVE  /\ fat[c[k]] = Eoc <=> k = Len(c)
           /\ k # Len(c) => k + 1 \in 1 .. Len(c) /\ k \in 1 .. Len(c) - 1
                            /\ fat[c[k]] = c[k + 1] /\ c[k + 1] \in Slots
<1>1. c \in Seq(Slots) /\ Len(c) \in Nat /\ Len(c) >= 1
    BY RunsUse
<1>2. k # Len(c) => k + 1 \in 1 .. Len(c) /\ k \in 1 .. Len(c) - 1
    BY <1>1
<1>3. k # Len(c) => fat[c[k]] = c[k + 1] /\ c[k + 1] \in Slots
    BY <1>1, <1>2 DEF RunsFrom
<1>4. k = Len(c) => fat[c[k]] = Eoc
    BY DEF RunsFrom, EndOf
<1>5. QED BY <1>2, <1>3, <1>4, SlotsAre

(* The chain of a file, and of what the call has to itself.                *)
LEMMA RootsRun ==
    ASSUME ChainInv, NEW s \in heads \cup Loose
    PROVE  /\ RunsFrom(vol.fat, s, ChainNow(s)) /\ s \in Slots
           /\ ChainNow(s) \in Seq(Slots) /\ Len(ChainNow(s)) \in Nat /\ Len(ChainNow(s)) >= 1
           /\ ChainNow(s)[1] = s /\ vol.fat[s] # FatFree
           /\ EndOf(ChainNow(s)) \in Slots /\ vol.fat[EndOf(ChainNow(s))] # FatFree
           /\ \A k \in 1 .. Len(ChainNow(s)) : /\ ChainNow(s)[k] \in Slots
                                               /\ vol.fat[ChainNow(s)[k]] # FatFree
<1> DEFINE c == ChainNow(s)
<1>1. RunsFrom(vol.fat, s, c)
    BY DEF ChainInv, Trees, Forest, ChainNow
<1> HIDE DEF c
<1>2. /\ c \in Seq(Slots) /\ Len(c) \in Nat /\ Len(c) >= 1 /\ c[1] = s
      /\ s \in Slots /\ s \in Items(c) /\ EndOf(c) \in Items(c) /\ Items(c) \subseteq Slots
      /\ \A x \in Items(c) : vol.fat[x] # FatFree
    BY <1>1, RunsUse
<1>3. \A k \in 1 .. Len(c) : c[k] \in Items(c)
    BY DEF Items
<1>4. QED BY <1>1, <1>2, <1>3 DEF c

(* A write to a slot in use leaves the queue as it should be.              *)
LEMMA QueueStays ==
    ASSUME ChainTypes, Queued, NEW x \in Slots, vol.fat[x] # FatFree,
           vol'.q = vol.q, \A z \in Slots : z # x => vol'.fat[z] = vol.fat[z]
    PROVE  Queued'
<1>1. Items(vol.q) \subseteq Slots
    BY DEF ChainTypes, Volumes, Items
<1>2. \A z \in Items(vol.q) : vol'.fat[z] = FatFree
    BY <1>1 DEF Queued
<1>3. QED BY <1>2 DEF Queued

LEMMA EndsIs ==
    ASSUME call \in CallRecord, NEW a \in ChainAnswers, Ends(a)
    PROVE  /\ call' \in CallRecord /\ call'.pc = "idle" /\ call'.answer = a
           /\ call'.op = call.op /\ call'.file = call.file /\ call'.want = call.want
           /\ call'.head = call.head
BY DEF CallRecord, Ends, CallPlaces

LEMMA FreesIs ==
    ASSUME call \in CallRecord, NEW s \in Nat, NEW a \in ChainAnswers, Frees(s, a)
    PROVE  /\ call' \in CallRecord /\ call'.pc = "free" /\ call'.answer = a /\ call'.curr = s
           /\ call'.op = call.op /\ call'.file = call.file /\ call'.want = call.want
           /\ call'.head = call.head
BY DEF CallRecord, Frees, CallPlaces

(* What a step leaves as it is when the table stays and nothing is let go  *)
(* of that the call did not have.                                          *)
SameCall == /\ call'.op = call.op /\ call'.file = call.file /\ call'.want = call.want
            /\ call'.head = call.head
SameTable == vol'.fat = vol.fat /\ heads' = heads /\ before'.vol = before.vol

LEMMA TreesStay ==
    ASSUME ChainInv, SameTable, Loose' \subseteq Loose,
           call'.pc = "link" => call'.head # call'.curr
    PROVE  Trees'
<1>1. Forest(vol.fat, heads \cup Loose) /\ Loose \subseteq Slots \ heads
    BY DEF ChainInv, Trees
<1>2. heads' \cup Loose' \subseteq heads \cup Loose /\ vol'.fat = vol.fat /\ heads' = heads
    BY DEF SameTable
<1>3. Forest(vol'.fat, heads' \cup Loose')
    BY <1>1, <1>2, ForestLess
<1>4. Loose' \subseteq Slots \ heads'
    BY <1>1, <1>2
<1>5. QED BY <1>3, <1>4 DEF Trees

LEMMA OthersStayTo ==
    ASSUME ChainInv, heads' = heads, before'.vol = before.vol, call'.file = call.file,
           call'.head = call.head \/ call.head \notin heads,
           \A s \in heads : s # call.file => ChainNow(s)' = ChainNow(s)
    PROVE  OthersStay'
<1>1. \A s : ChainThen(s)' = ChainThen(s)
    BY DEF ChainThen
<1>2. SUFFICES ASSUME NEW s \in heads, s # call.file, s # call'.head PROVE ChainNow(s)' = ChainThen(s)'
    BY DEF OthersStay
<1>3. s # call.head
    BY <1>2
<1>4. ChainNow(s) = ChainThen(s)
    BY <1>2, <1>3 DEF ChainInv, OthersStay
<1>5. QED BY <1>1, <1>2, <1>4

LEMMA OthersStayAsTable ==
    ASSUME ChainInv, SameTable, SameCall
    PROVE  OthersStay'
<1>1. \A s : ChainNow(s)' = ChainNow(s)
    BY DEF ChainNow, SameTable
<1>2. QED BY <1>1, OthersStayTo DEF SameTable, SameCall

Stopped == {"idle", "free"}

LEMMA ResizeStays ==
    ASSUME ChainInv, heads' = heads, before'.vol = before.vol, SameCall,
           call.op = "resize" => ChainNow(call.file)' = ChainNow(call.file),
           call'.pc \notin Stopped => call.pc \notin Stopped,
           call.op = "resize" /\ call'.pc \in Stopped =>
               /\ call'.answer = "success" => Len(ChainNow(call.file)) = call.want
               /\ call'.answer = "no_space" => ChainNow(call.file) = ChainThen(call.file)
    PROVE  ResizeOK'
<1>1. SUFFICES ASSUME call.op = "resize" PROVE ResizeOK'
    BY DEF ResizeOK, SameCall
<1>2. /\ call'.op = "resize" /\ call'.file = call.file /\ call'.want = call.want
      /\ ChainNow(call.file)' = ChainNow(call.file)
    BY <1>1 DEF SameCall
<1>3. ChainThen(call.file)' = ChainThen(call.file)
    BY <1>2 DEF ChainThen
<1>4. /\ call.file \in heads
      /\ ChainNow(call.file) = ChainThen(call.file) \/ HasSize
      /\ call.pc \notin Stopped => ChainNow(call.file) = ChainThen(call.file)
    BY <1>1 DEF ChainInv, ResizeOK, Stopped
<1> DEFINE now == ChainNow(call.file)
           old == ChainThen(call.file)
<1>5. HasSize => HasSize'
    BY <1>2, <1>3 DEF HasSize
<1>6. call.file' \in heads'
    BY <1>2, <1>4
<1>7. now' = now /\ old' = old
    BY <1>2, <1>3
<1>8. now = old => now' = old'
    BY <1>7
<1>9. /\ call'.pc \notin Stopped => now' = old'
      /\ call'.pc \in Stopped => /\ call'.answer = "success" => Len(now') = call'.want
                                 /\ call'.answer = "no_space" => now' = old'
  <2> HIDE DEF now, old
  <2>1. call.pc \notin Stopped => now = old
    BY <1>4 DEF now, old
  <2>2. call'.pc \in Stopped =>
            /\ call'.answer = "success" => Len(now) = call.want
            /\ call'.answer = "no_space" => now = old
    BY <1>1 DEF now, old
  <2>3. QED BY <1>2, <1>7, <2>1, <2>2
<1>10. now' = old' \/ HasSize'
    BY <1>4, <1>5, <1>8
<1>11. QED BY <1>6, <1>9, <1>10 DEF ResizeOK, Stopped

(* A call that stops where it is.                                          *)
LEMMA GivesUp ==
    ASSUME ChainInv, SameTable, vol' \in Volumes, before' \in Histories,
           Queued', NEW a \in ChainAnswers, Ends(a), call.pc # "idle",
           call.op = "resize" =>
               /\ a = "success" => Len(ChainNow(call.file)) = call.want
               /\ a = "no_space" => ChainNow(call.file) = ChainThen(call.file)
    PROVE  ChainInv'
<1>1. ChainTypes /\ call \in CallRecord
    BY DEF ChainInv, ChainTypes
<1>2. call' \in CallRecord /\ call'.pc = "idle" /\ call'.answer = a /\ SameCall
    BY <1>1, EndsIs DEF SameCall
<1>3. ChainTypes'
    BY <1>1, <1>2 DEF ChainTypes, SameTable
<1>4. Loose' = {}
    BY <1>2 DEF Loose, Growing
<1>5. Trees'
    BY <1>2, <1>4, TreesStay
<1>6. OthersStay'
    BY <1>2, OthersStayAsTable
<1>7. ResizeOK'
  <2>1. ChainNow(call.file)' = ChainNow(call.file)
    BY <1>2 DEF ChainNow, SameTable, SameCall
  <2>2. QED BY <1>2, <2>1, ResizeStays DEF SameTable, Stopped
<1>8. WalkOK' /\ CutOK' /\ GrowOK'
    BY <1>2 DEF WalkOK, CutOK, GrowOK, Growing
<1>9. QED BY <1>3, <1>5, <1>6, <1>7, <1>8 DEF ChainInv

(* A call that stops where it is and gives back what it has, or the rest   *)
(* of what it gives back.                                                  *)
LEMMA GivesBack ==
    ASSUME ChainInv, SameTable, vol' \in Volumes, before' \in Histories,
           Queued', NEW a \in ChainAnswers, NEW s, s \in Loose, Frees(s, a),
           call.op = "resize" =>
               /\ a = "success" => Len(ChainNow(call.file)) = call.want
               /\ a = "no_space" => ChainNow(call.file) = ChainThen(call.file)
    PROVE  ChainInv'
<1>1. ChainTypes /\ call \in CallRecord /\ s \in Nat
    BY SlotsAre DEF ChainInv, ChainTypes, Trees
<1>2. call' \in CallRecord /\ call'.pc = "free" /\ call'.answer = a /\ call'.curr = s /\ SameCall
    BY <1>1, FreesIs DEF SameCall
<1>3. ChainTypes'
    BY <1>1, <1>2 DEF ChainTypes, SameTable
<1>4. Loose' = {s}
    BY <1>2 DEF Loose, Growing
<1>5. Trees'
    BY <1>2, <1>4, TreesStay
<1>6. OthersStay'
    BY <1>2, OthersStayAsTable
<1>7. ResizeOK'
  <2>1. ChainNow(call.file)' = ChainNow(call.file)
    BY <1>2 DEF ChainNow, SameTable, SameCall
  <2>2. QED BY <1>2, <2>1, ResizeStays DEF SameTable, Stopped
<1>8. WalkOK' /\ CutOK' /\ GrowOK'
    BY <1>2 DEF WalkOK, CutOK, GrowOK, Growing
<1>9. QED BY <1>3, <1>5, <1>6, <1>7, <1>8 DEF ChainInv

(* A call begins.                                                          *)
LEMMA StartsIs ==
    ASSUME ChainInv, NEW c \in CallRecord, StartCall(c)
    PROVE  /\ Forest(vol'.fat, heads) /\ heads \subseteq Slots /\ vol' = vol /\ call' = c
           /\ Queued' /\ vol' \in Volumes /\ before' \in Histories
           /\ \A s : ChainNow(s)' = ChainThen(s)'
           /\ \A s : ChainNow(s)' = ChainNow(s)
<1>1. /\ vol' = vol /\ call' = c /\ before'.vol = vol /\ call.pc = "idle"
      /\ before' = [vol |-> vol, clean |-> TRUE]
    BY DEF StartCall, Doing
<1>2. Loose = {}
    BY <1>1 DEF Loose, Growing
<1>3. Forest(vol.fat, heads) /\ heads \subseteq Slots /\ vol \in Volumes /\ Queued
    BY <1>2 DEF ChainInv, ChainTypes, Trees
<1>4. Queued'
    BY <1>1, <1>3 DEF Queued
<1>5. QED BY <1>1, <1>3, <1>4 DEF ChainNow, ChainThen, Histories

LEMMA StepNewCall == ASSUME ChainInv, NewCall PROVE ChainInv'
<1>1. PICK len \in 1 .. MaxLen : StartCall(Call("new", None, len, "pop")) /\ UNCHANGED heads
    BY DEF NewCall
<1> DEFINE c == Call("new", None, len, "pop")
<1>2. /\ c \in CallRecord /\ c.op = "new" /\ c.pc = "pop" /\ c.head = None /\ c.len = len
      /\ len > 0
    BY ChainsAssumption DEF Call, CallRecord, Ops, CallPlaces, ChainAnswers, None
<1> HIDE DEF c
<1>3. /\ Forest(vol'.fat, heads) /\ heads \subseteq Slots /\ vol' = vol /\ call' = c
      /\ Queued' /\ vol' \in Volumes /\ before' \in Histories
      /\ \A s : ChainNow(s)' = ChainThen(s)'
    BY <1>1, <1>2, StartsIs DEF c
<1>4. heads' = heads /\ Loose' = {}
    BY <1>1, <1>2, <1>3 DEF Loose, Growing
<1>5. ChainTypes' /\ Trees' /\ OthersStay'
    BY <1>2, <1>3, <1>4 DEF ChainTypes, Trees, OthersStay
<1>6. WalkOK' /\ CutOK' /\ GrowOK' /\ ResizeOK'
    BY <1>2, <1>3 DEF WalkOK, CutOK, GrowOK, ResizeOK, Growing
<1>7. QED BY <1>3, <1>5, <1>6 DEF ChainInv

LEMMA StepResizeCall == ASSUME ChainInv, ResizeCall PROVE ChainInv'
<1>1. PICK s \in heads, len \in 1 .. MaxLen :
            StartCall(Call("resize", s, len, "walk")) /\ UNCHANGED heads
    BY DEF ResizeCall
<1> DEFINE c == Call("resize", s, len, "walk")
<1>2. s \in heads \cup Loose /\ s \in Slots
    BY <1>1, RootsRun
<1>3. /\ c \in CallRecord /\ c.op = "resize" /\ c.pc = "walk" /\ c.head = None /\ c.len = len
      /\ c.want = len /\ c.file = s /\ c.iter = s /\ c.links = 1 /\ 1 \in 1 .. len
    BY <1>2, ChainsAssumption, SlotsAre DEF Call, CallRecord, Ops, CallPlaces, ChainAnswers, None
<1> HIDE DEF c
<1>4. /\ Forest(vol'.fat, heads) /\ heads \subseteq Slots /\ vol' = vol /\ call' = c
      /\ Queued' /\ vol' \in Volumes /\ before' \in Histories
      /\ \A t : ChainNow(t)' = ChainThen(t)'
      /\ \A t : ChainNow(t)' = ChainNow(t)
    BY <1>1, <1>3, StartsIs DEF c
<1>5. heads' = heads /\ Loose' = {}
    BY <1>1, <1>3, <1>4 DEF Loose, Growing
<1>6. ChainTypes' /\ Trees' /\ OthersStay'
    BY <1>3, <1>4, <1>5 DEF ChainTypes, Trees, OthersStay
<1>7. Len(ChainNow(s)') >= 1 /\ ChainNow(s)'[1] = s /\ Len(ChainNow(s)') \in Nat
    BY <1>2, <1>4, RootsRun
<1>8. /\ call'.file = s /\ call'.op = "resize" /\ call'.pc = "walk" /\ call'.head = None
      /\ call'.len = call'.want /\ call'.links = 1 /\ call'.links \in 1 .. call'.len
      /\ call'.iter = s
    BY <1>3, <1>4
<1>9. WalkOK'
    BY <1>7, <1>8 DEF WalkOK
<1>10. ChainNow(call.file)' = ChainThen(call.file)'
    BY <1>4, <1>8 DEF ChainNow, ChainThen
<1>11. ResizeOK'
    BY <1>5, <1>8, <1>10 DEF ResizeOK
<1>12. CutOK' /\ GrowOK'
    BY <1>8 DEF CutOK, GrowOK, Growing
<1>13. QED BY <1>4, <1>6, <1>9, <1>11, <1>12 DEF ChainInv

LEMMA StepFreeCall == ASSUME ChainInv, FreeCall PROVE ChainInv'
<1>1. PICK s \in heads : StartCall(Call("free", s, 0, "free")) /\ heads' = heads \ {s}
    BY DEF FreeCall
<1> DEFINE c == Call("free", s, 0, "free")
<1>2. s \in heads \cup Loose /\ s \in Slots
    BY <1>1, RootsRun
<1>3. /\ c \in CallRecord /\ c.op = "free" /\ c.pc = "free" /\ c.curr = s
    BY <1>2, SlotsAre DEF Call, CallRecord, Ops, CallPlaces, ChainAnswers, None
<1> HIDE DEF c
<1>4. /\ Forest(vol'.fat, heads) /\ heads \subseteq Slots /\ vol' = vol /\ call' = c
      /\ Queued' /\ vol' \in Volumes /\ before' \in Histories
      /\ \A t : ChainNow(t)' = ChainThen(t)'
    BY <1>1, <1>3, StartsIs DEF c
<1>5. Loose' = {s}
    BY <1>3, <1>4 DEF Loose, Growing
<1>6. heads' \cup Loose' = heads
    BY <1>1, <1>5
<1>7. ChainTypes' /\ OthersStay'
    BY <1>1, <1>3, <1>4 DEF ChainTypes, OthersStay
<1>8. Trees'
    BY <1>1, <1>2, <1>3, <1>4, <1>5, <1>6 DEF Trees
<1>9. WalkOK' /\ CutOK' /\ GrowOK' /\ ResizeOK'
    BY <1>3, <1>4 DEF WalkOK, CutOK, GrowOK, ResizeOK, Growing
<1>10. QED BY <1>4, <1>7, <1>8, <1>9 DEF ChainInv

-----------------------------------------------------------------------------
(* Whether an access succeeds or fails, the volume the call began with is  *)
(* remembered.                                                             *)
LEMMA AccessIs ==
    ASSUME ChainInv, Accessed \/ AccessFails
    PROVE  before' \in Histories /\ before'.vol = before.vol /\ heads' = heads
BY DEF ChainInv, ChainTypes, Histories, Accessed, AccessFails

LEMMA StepFollowChain == ASSUME ChainInv, FollowChain PROVE ChainInv'
<1> DEFINE c == ChainNow(call.file)
           next == vol.fat[call.iter]
<1>1. /\ call.pc = "walk" /\ call.op = "resize" /\ call.len = call.want /\ call.head = None
      /\ call.links \in 1 .. call.len /\ call.links <= Len(c) /\ call.iter = c[call.links]
      /\ call.file \in heads /\ c = ChainThen(call.file)
      /\ call \in CallRecord /\ call.want \in Nat /\ call.len \in Nat /\ call.links \in Nat
      /\ vol' = vol /\ vol \in Volumes
  <2>1. call.pc = "walk" /\ vol' = vol
    BY DEF FollowChain, Doing
  <2>2. ChainTypes /\ WalkOK /\ ResizeOK
    BY DEF ChainInv
  <2>3. /\ call.op = "resize" /\ call.len = call.want /\ call.head = None
        /\ call.links \in 1 .. call.len /\ call.links <= Len(c) /\ call.iter = c[call.links]
    BY <2>1, <2>2 DEF WalkOK
  <2>4. call.file \in heads /\ c = ChainThen(call.file)
    BY <2>1, <2>2, <2>3 DEF ResizeOK
  <2>5. call \in CallRecord /\ vol \in Volumes
    BY <2>2 DEF ChainTypes
  <2> HIDE DEF c
  <2>6. QED BY <2>1, <2>3, <2>4, <2>5 DEF CallRecord
<1>2. before' \in Histories /\ SameTable
    BY <1>1, AccessIs DEF FollowChain, SameTable
<1>3. Queued' /\ vol' \in Volumes
    BY <1>1 DEF ChainInv, Queued
<1>4. c \in Seq(Slots) /\ Len(c) \in Nat /\ RunsFrom(vol.fat, call.file, c) /\ call.links \in 1 .. Len(c)
  <2>1. c \in Seq(Slots) /\ Len(c) \in Nat /\ RunsFrom(vol.fat, call.file, c)
    BY <1>1, RootsRun
  <2> HIDE DEF c
  <2>2. QED BY <1>1, <2>1
<1>5. /\ next = Eoc <=> call.links = Len(c)
      /\ call.links # Len(c) => call.links + 1 \in 1 .. Len(c) /\ call.links \in 1 .. Len(c) - 1
                                /\ next = c[call.links + 1] /\ next \in Slots
  <2> HIDE DEF c
  <2>1. QED BY <1>1, <1>4, LinksIn
<1>6. Loose = {}
    BY <1>1 DEF Loose, Growing
<1>7. CASE AccessFails /\ Ends("error")
  <2>1. QED BY <1>1, <1>2, <1>3, <1>7, GivesUp DEF ChainAnswers
<1>8. CASE Ends("success") /\ call.links = call.len /\ next = Eoc
  <2>1. Len(c) = call.want
    BY <1>1, <1>5, <1>8
  <2>2. QED BY <1>1, <1>2, <1>3, <1>8, <2>1, GivesUp DEF ChainAnswers
<1>9. ASSUME SameCall, call' \in CallRecord, Loose' = {}, call'.pc \notin Stopped, call'.pc # "link"
      PROVE  ChainTypes' /\ Trees' /\ OthersStay' /\ ResizeOK'
  <2>1. ChainTypes'
    BY <1>1, <1>2, <1>9 DEF ChainInv, ChainTypes, SameTable
  <2>2. Trees'
    BY <1>2, <1>9, TreesStay
  <2>3. OthersStay'
    BY <1>2, <1>9, OthersStayAsTable
  <2>4. ChainNow(call.file)' = ChainNow(call.file)
    BY <1>2, <1>9 DEF ChainNow, SameTable, SameCall
  <2>5. call.pc \notin Stopped
    BY <1>1 DEF Stopped
  <2>6. ResizeOK'
    BY <1>2, <1>9, <2>4, <2>5, ResizeStays DEF SameTable
  <2>7. QED BY <2>1, <2>2, <2>3, <2>6
<1>10. ChainNow(call.file) = c /\ \A s : ChainNow(s)' = ChainNow(s)
    BY <1>1 DEF ChainNow
<1>11. Slots \subseteq Nat
    BY SlotsAre
<1>12. CASE call.links = call.len /\ next # Eoc /\ Goes([call EXCEPT !.pc = "cut", !.curr = next])
  <2>1. call.links # Len(c)
    BY <1>5, <1>12
  <2>2. /\ call' \in CallRecord /\ SameCall /\ call'.pc = "cut" /\ call'.iter = call.iter
        /\ call'.curr = next
    BY <1>1, <1>5, <1>11, <1>12, <2>1 DEF Goes, CallRecord, SameCall, CallPlaces
  <2>3. Loose' = {}
    BY <2>2 DEF Loose, Growing
  <2>4. ChainTypes' /\ Trees' /\ OthersStay' /\ ResizeOK'
    BY <1>9, <2>2, <2>3 DEF Stopped
  <2>5. ChainNow(call.file)' = c
    BY <1>10, <2>2 DEF SameCall, ChainNow, SameTable
  <2>6. call'.want = call.links /\ call'.op = "resize"
    BY <1>1, <1>12, <2>2 DEF SameCall
  <2> HIDE DEF c
  <2>7. CutOK'
    BY <1>1, <1>5, <2>1, <2>2, <2>5, <2>6 DEF CutOK
  <2>8. WalkOK' /\ GrowOK'
    BY <2>2 DEF WalkOK, GrowOK, Growing
  <2>9. QED BY <1>3, <2>4, <2>7, <2>8 DEF ChainInv
<1>13. CASE /\ call.links # call.len /\ next = Eoc
            /\ Goes([call EXCEPT !.pc = "pop", !.len = @ - call.links])
  <2>1. call.links = Len(c) /\ call.len - call.links \in Nat /\ call.len - call.links > 0
    BY <1>1, <1>5, <1>13
  <2>2. /\ call' \in CallRecord /\ SameCall /\ call'.pc = "pop" /\ call'.iter = call.iter
        /\ call'.len = call.len - call.links
    BY <1>1, <1>13, <2>1 DEF Goes, CallRecord, SameCall, CallPlaces
  <2>3. Loose' = {} /\ call'.head = None
    BY <1>1, <2>2 DEF Loose, Growing, SameCall
  <2>4. ChainTypes' /\ Trees' /\ OthersStay' /\ ResizeOK'
    BY <1>9, <2>2, <2>3 DEF Stopped
  <2>5. ChainNow(call.file)' = c
    BY <1>10, <2>2 DEF SameCall, ChainNow, SameTable
  <2>6. call'.want = call.len /\ call'.op = "resize"
    BY <1>1, <2>2 DEF SameCall
  <2> HIDE DEF c
  <2>7. call'.iter = EndOf(c) /\ Len(c) + call'.len + 0 = call'.want
    BY <1>1, <1>4, <2>1, <2>2, <2>6 DEF EndOf
  <2>8. GrowOK'
    BY <2>1, <2>2, <2>3, <2>5, <2>6, <2>7 DEF GrowOK, Growing, Segment
  <2>9. WalkOK' /\ CutOK'
    BY <2>2 DEF WalkOK, CutOK
  <2>10. QED BY <1>3, <2>4, <2>8, <2>9 DEF ChainInv
<1>14. CASE /\ call.links # call.len /\ next # Eoc
            /\ Goes([call EXCEPT !.iter = next, !.links = @ + 1])
  <2>1. call.links # Len(c) /\ call.links + 1 \in 1 .. call.len /\ call.links + 1 \in Nat
    BY <1>1, <1>5, <1>14
  <2>2. /\ call' \in CallRecord /\ SameCall /\ call'.pc = "walk" /\ call'.iter = next
        /\ call'.len = call.len /\ call'.links = call.links + 1
    BY <1>1, <1>5, <1>11, <1>14, <2>1 DEF Goes, CallRecord, SameCall, CallPlaces
  <2>3. Loose' = {} /\ call'.head = None
    BY <1>1, <2>2 DEF Loose, Growing, SameCall
  <2>4. ChainTypes' /\ Trees' /\ OthersStay' /\ ResizeOK'
    BY <1>9, <2>2, <2>3 DEF Stopped
  <2>5. ChainNow(call.file)' = c
    BY <1>10, <2>2 DEF SameCall, ChainNow, SameTable
  <2>6. call'.want = call.len /\ call'.op = "resize"
    BY <1>1, <2>2 DEF SameCall
  <2> HIDE DEF c
  <2>7. call'.links <= Len(c) /\ call'.iter = c[call'.links]
    BY <1>4, <1>5, <2>1, <2>2
  <2>8. WalkOK'
    BY <2>1, <2>2, <2>3, <2>5, <2>6, <2>7 DEF WalkOK
  <2>9. GrowOK' /\ CutOK'
    BY <2>2 DEF GrowOK, CutOK, Growing
  <2>10. QED BY <1>3, <2>4, <2>8, <2>9 DEF ChainInv
<1>15. QED
  <2>1. \/ AccessFails /\ Ends("error")
        \/ IF call.links = call.len
           THEN IF next = Eoc THEN Ends("success") ELSE Goes([call EXCEPT !.pc = "cut", !.curr = next])
           ELSE IF next = Eoc
                THEN Goes([call EXCEPT !.pc = "pop", !.len = @ - call.links])
                ELSE Goes([call EXCEPT !.iter = next, !.links = @ + 1])
    BY DEF FollowChain
  <2> HIDE DEF next, c
  <2>2. QED BY <2>1, <1>7, <1>8, <1>12, <1>13, <1>14

(* What the first part of a chain is to the whole.                         *)
LEMMA FrontIs ==
    ASSUME NEW c \in Seq(Slots), NEW k \in 1 .. Len(c)
    PROVE  Len(Front(c, k)) = k /\ Extends(c, Front(c, k))
<1>1. k \in Nat /\ Len(c) \in Nat /\ k <= Len(c)
    OBVIOUS
<1>2. Len(Front(c, k)) = k /\ \A i \in 1 .. k : Front(c, k)[i] = c[i]
    BY <1>1 DEF Front
<1>3. QED BY <1>1, <1>2 DEF Extends

LEMMA JoinExtends ==
    ASSUME NEW c \in Seq(Slots), NEW d \in Seq(Slots)
    PROVE  Extends(c \o d, c) /\ Len(c \o d) = Len(c) + Len(d)
<1>1. Len(c \o d) = Len(c) + Len(d) /\ \A k \in 1 .. Len(c) : (c \o d)[k] = c[k]
    BY ConcatIs
<1>2. Len(c) \in Nat /\ Len(d) \in Nat
    OBVIOUS
<1>3. QED BY <1>1, <1>2 DEF Extends

LEMMA StepCutChain == ASSUME ChainInv, CutChain PROVE ChainInv'
<1> DEFINE f == call.file
           c == ChainNow(f)
           w == call.want
<1>1. ChainTypes /\ Trees /\ Queued /\ CutOK /\ ResizeOK
    BY DEF ChainInv
<1>2. call.pc = "cut" /\ call \in CallRecord /\ vol \in Volumes /\ vol.fat \in Fats
    BY <1>1 DEF CutChain, Doing, ChainTypes, Volumes
<1>3. /\ call.op = "resize" /\ w \in 1 .. Len(c) - 1 /\ call.iter = c[w] /\ call.curr = c[w + 1]
      /\ f \in heads /\ c = ChainThen(f)
  <2>1. call.op = "resize" /\ w \in 1 .. Len(c) - 1 /\ call.iter = c[w] /\ call.curr = c[w + 1]
    BY <1>1, <1>2 DEF CutOK
  <2>2. f \in heads /\ c = ChainThen(f)
    BY <1>1, <1>2, <2>1 DEF ResizeOK
  <2>3. QED BY <2>1, <2>2
<1>4. Loose = {} /\ Forest(vol.fat, heads) /\ heads \subseteq Slots
    BY <1>1, <1>2 DEF Loose, Growing, Trees, ChainTypes
<1>5. /\ c \in Seq(Slots) /\ Len(c) \in Nat
      /\ \A k \in 1 .. Len(c) : c[k] \in Slots /\ vol.fat[c[k]] # FatFree
    BY <1>3, RootsRun
<1>6. before' \in Histories /\ before'.vol = before.vol /\ heads' = heads
    BY AccessIs DEF CutChain
<1>7. CASE AccessFails /\ UNCHANGED vol /\ Ends("error")
  <2>1. SameTable /\ Queued' /\ vol' \in Volumes
    BY <1>1, <1>2, <1>6, <1>7 DEF SameTable, Queued
  <2>2. QED BY <1>2, <1>6, <1>7, <2>1, GivesUp DEF ChainAnswers
<1>8. CASE Accessed /\ CutOff /\ Frees(call.curr, "success")
  <2> DEFINE x == call.iter
             y == call.curr
  <2>1. /\ w \in 1 .. Len(c) /\ w + 1 \in 1 .. Len(c) /\ x \in Slots /\ y \in Slots
        /\ vol.fat[x] # FatFree
    <3> HIDE DEF c
    <3>1. w \in 1 .. Len(c) /\ w + 1 \in 1 .. Len(c)
        BY <1>3, <1>5
    <3>2. QED BY <1>3, <1>5, <3>1
  <2>2. LinkMade(vol, x, Eoc, vol')
    BY <1>2, <1>8, <2>1, LinkIs DEF CutOff
  <2>3. HasCut(vol.fat, heads, f, w, y, vol'.fat)
    <3>1. Cutting(vol.fat, heads, f, w, x, y, vol'.fat)
        BY <1>2, <1>3, <1>4, <2>2 DEF Cutting, LinkMade, ChainNow
    <3>2. QED BY <3>1, ForestCuts
  <2>4. /\ call' \in CallRecord /\ call'.pc = "free" /\ call'.answer = "success"
        /\ call'.curr = y /\ SameCall
    BY <1>2, <1>8, <2>1, SlotsAre, FreesIs DEF ChainAnswers, SameCall
  <2>5. Loose' = {y}
    BY <2>4 DEF Loose, Growing
  <2>6. ChainTypes' /\ Trees'
    BY <1>4, <1>6, <2>2, <2>3, <2>4, <2>5 DEF ChainTypes, Trees, LinkMade, HasCut
  <2>7. Queued'
    BY <1>1, <2>1, <2>2, QueueStays DEF LinkMade
  <2>8. OthersStay'
    <3>1. \A s \in heads : s # call.file => ChainNow(s)' = ChainNow(s)
        BY <2>3 DEF ChainNow, HasCut
    <3>2. QED BY <1>6, <2>4, <3>1, OthersStayTo DEF SameCall
  <2>9. ResizeOK'
    <3>1. Len(Front(c, w)) = w /\ Extends(c, Front(c, w))
        <4> HIDE DEF c, w
        <4>1. QED BY <1>5, <2>1, FrontIs
    <3>2. ChainNow(call.file)' = Front(c, w) /\ ChainThen(call.file)' = c /\ call'.want = w
        BY <1>3, <1>6, <2>3, <2>4 DEF ChainNow, ChainThen, SameCall, HasCut
    <3>3. call'.file \in heads' /\ call'.pc = "free" /\ call'.answer = "success"
        BY <1>3, <1>6, <2>4 DEF SameCall
    <3>4. HasSize'
        BY <3>1, <3>2 DEF HasSize
    <3>5. Len(ChainNow(call.file)') = call'.want
        BY <3>1, <3>2
    <3>6. QED BY <3>3, <3>4, <3>5 DEF ResizeOK
  <2>10. WalkOK' /\ CutOK' /\ GrowOK'
    BY <2>4 DEF WalkOK, CutOK, GrowOK, Growing
  <2>11. QED BY <2>6, <2>7, <2>8, <2>9, <2>10 DEF ChainInv
<1>9. QED BY <1>7, <1>8 DEF CutChain

(* A call that takes slots has what GrowOK says.                           *)
LEMMA GrowIs ==
    ASSUME ChainInv, call.pc \in Growing
    PROVE  /\ call \in CallRecord /\ vol \in Volumes /\ vol.fat \in Fats /\ vol.q \in Seq(Slots)
           /\ call.op \in {"new", "resize"} /\ call.head \in Nat /\ call.len \in Nat
           /\ call.want \in Nat
           /\ call.head = None => call.pc = "pop"
           /\ call.head # None => /\ call.head \in Loose /\ call.head \in Slots \ heads
                                  /\ call.tail = EndOf(ChainNow(call.head))
           /\ call.head \notin heads
           /\ call.pc \in {"pop", "link"} => call.len > 0
           /\ call.pc = "attach" => call.op = "resize" /\ call.len = 0
           /\ call.op = "resize" =>
                 /\ call.file \in heads /\ call.iter = EndOf(ChainNow(call.file))
                 /\ ChainNow(call.file) = ChainThen(call.file)
                 /\ Len(ChainNow(call.file)) + call.len + Segment = call.want
<1>1. ChainTypes /\ Trees /\ GrowOK /\ ResizeOK
    BY DEF ChainInv
<1>2. call \in CallRecord /\ vol \in Volumes /\ heads \subseteq Slots
    BY <1>1 DEF ChainTypes
<1>3. call.head \in Nat /\ call.len \in Nat /\ call.want \in Nat
    BY <1>2 DEF CallRecord
<1>4. vol.fat \in Fats /\ vol.q \in Seq(Slots)
    BY <1>2 DEF Volumes
<1>5. call.head # None => call.head \in Loose /\ call.head \in Slots \ heads
    BY <1>1 DEF Trees, Loose
<1>6. call.head \notin heads
    BY <1>2, <1>5, SlotsAre
<1>7. call.pc \notin {"idle", "free"}
    BY DEF Growing
<1>8. call.op = "resize" => /\ call.file \in heads
                            /\ ChainNow(call.file) = ChainThen(call.file)
    BY <1>1, <1>7 DEF ResizeOK
<1>9. QED BY <1>1, <1>2, <1>3, <1>4, <1>5, <1>6, <1>8 DEF GrowOK

LEMMA StepPopulate == ASSUME ChainInv, Populate PROVE ChainInv'
<1>1. call.pc = "pop" /\ call.pc \in Growing /\ vol.q = << >> /\ call.pc # "idle"
    BY DEF Populate, Doing, Growing
<1>2. /\ call \in CallRecord /\ vol \in Volumes /\ vol.fat \in Fats
      /\ call.head # None => call.head \in Loose
      /\ call.op = "resize" => ChainNow(call.file) = ChainThen(call.file)
    BY <1>1, GrowIs
<1>3. before' \in Histories /\ before'.vol = before.vol /\ heads' = heads
    BY AccessIs DEF Populate
<1>4. CASE AccessFails /\ UNCHANGED vol /\ Ends("error")
  <2>1. SameTable /\ Queued' /\ vol' \in Volumes
    BY <1>2, <1>3, <1>4 DEF SameTable, Queued, ChainInv
  <2>2. QED BY <1>1, <1>2, <1>3, <1>4, <2>1, GivesUp DEF ChainAnswers
<1>5. ASSUME NEW q \in FreeQueues(vol), vol' = [vol EXCEPT !.q = q],
             IF q # << >> THEN UNCHANGED call
             ELSE IF call.head = None THEN Ends("no_space") ELSE Frees(call.head, "no_space")
      PROVE  ChainInv'
  <2>1. q \in Seq(Slots) /\ NoDup(q) /\ \A x \in Items(q) : vol.fat[x] = FatFree
    BY <1>1, FreeQueuesAre
  <2>2. vol' \in Volumes /\ vol'.fat = vol.fat /\ vol'.q = q
    BY <1>2, <1>5, <2>1 DEF Volumes
  <2>3. SameTable /\ Queued'
    BY <1>3, <2>1, <2>2 DEF SameTable, Queued
  <2>4. CASE UNCHANGED call
    <3>1. ChainTypes'
        BY <1>2, <1>3, <2>2, <2>4 DEF ChainInv, ChainTypes
    <3>2. Loose' = Loose
        BY <2>4 DEF Loose
    <3>3. Trees'
        BY <2>3, <2>4, <3>2, TreesStay DEF ChainInv, Trees
    <3>4. SameCall
        BY <2>4 DEF SameCall
    <3>5. OthersStay'
        BY <2>3, <3>4, OthersStayAsTable
    <3>6. call.pc \notin Stopped /\ call'.pc \notin Stopped
        BY <1>1, <2>4 DEF Stopped
    <3>7. \A s : ChainNow(s)' = ChainNow(s)
        BY <2>2 DEF ChainNow
    <3>8. ChainNow(call.file)' = ChainNow(call.file) /\ Segment' = Segment
        BY <2>2, <2>4 DEF ChainNow, Segment
    <3>9. ResizeOK'
        BY <2>3, <3>4, <3>6, <3>8, ResizeStays DEF SameTable
    <3>10. WalkOK' /\ CutOK'
        BY <1>1, <2>4 DEF WalkOK, CutOK
    <3>11. GrowOK'
        BY <2>2, <2>4, <3>8, Zenon DEF ChainInv, GrowOK, ChainNow
    <3>12. QED BY <2>3, <3>1, <3>3, <3>5, <3>9, <3>10, <3>11 DEF ChainInv
  <2>5. CASE Ends("no_space")
    BY <1>1, <1>2, <1>3, <2>2, <2>3, <2>5, GivesUp DEF ChainAnswers
  <2>6. CASE Frees(call.head, "no_space") /\ call.head # None
    BY <1>1, <1>2, <1>3, <2>2, <2>3, <2>6, GivesBack DEF ChainAnswers
  <2>7. QED BY <1>5, <2>4, <2>5, <2>6
<1>6. QED BY <1>4, <1>5 DEF Populate

(* The queue without its last slot.                                        *)
LEMMA UnqueuedIs ==
    ASSUME NEW q \in Seq(Slots), q # << >>, NoDup(q)
    PROVE  /\ Unqueued(q) \in Seq(Slots) /\ NoDup(Unqueued(q)) /\ EndOf(q) \in Items(q)
           /\ EndOf(q) \in Slots /\ Items(Unqueued(q)) \subseteq Items(q) \ {EndOf(q)}
<1> DEFINE n == Len(q) - 1
           r == Unqueued(q)
<1>1. Len(q) \in Nat /\ Len(q) >= 1 /\ n \in Nat /\ n + 1 = Len(q) /\ n \in 0 .. Len(q)
    OBVIOUS
<1>2. r = SubSeq(q, 1, n) /\ 1 \in 1 .. Len(q) + 1 /\ n \in 1 - 1 .. Len(q)
    BY <1>1 DEF Unqueued
<1>3. r \in Seq(Slots) /\ Items(r) = {q[i] : i \in 1 .. n} /\ (NoDup(q) => NoDup(r))
    BY <1>2, SubSeqItems
<1>4. EndOf(q) \in Items(q) /\ EndOf(q) \in Slots
    BY <1>1 DEF EndOf, Items
<1>5. ASSUME NEW i \in 1 .. n PROVE q[i] \in Items(q) /\ q[i] # EndOf(q)
  <2> HIDE DEF n
  <2>1. i \in 1 .. Len(q) /\ Len(q) \in 1 .. Len(q) /\ i # Len(q)
    BY <1>1
  <2>2. QED BY <2>1 DEF NoDup, EndOf, Items
<1>6. QED BY <1>3, <1>4, <1>5

LEMMA StepTake == ASSUME ChainInv, Take PROVE ChainInv'
<1> DEFINE x == EndOf(vol.q)
           R == heads \cup Loose
<1>1. call.pc = "pop" /\ call.pc \in Growing /\ vol.q # << >> /\ call.pc # "idle"
    BY DEF Take, Doing, Growing
<1>2. /\ call \in CallRecord /\ vol \in Volumes /\ vol.fat \in Fats /\ vol.q \in Seq(Slots)
      /\ call.op \in {"new", "resize"} /\ call.len \in Nat /\ call.want \in Nat /\ call.len > 0
      /\ call.head # None => /\ call.head \in Loose /\ call.head \in Slots \ heads
                             /\ call.tail = EndOf(ChainNow(call.head))
      /\ call.head \notin heads
      /\ call.op = "resize" =>
            /\ call.file \in heads /\ call.iter = EndOf(ChainNow(call.file))
            /\ ChainNow(call.file) = ChainThen(call.file)
            /\ Len(ChainNow(call.file)) + call.len + Segment = call.want
    BY <1>1, GrowIs
<1>3. Forest(vol.fat, R) /\ Loose \subseteq Slots \ heads /\ Queued /\ heads \subseteq Slots
    BY DEF ChainInv, ChainTypes, Trees
<1>4. before' \in Histories /\ before'.vol = before.vol /\ heads' = heads
    BY AccessIs DEF Take
<1>5. /\ Unqueued(vol.q) \in Seq(Slots) /\ NoDup(Unqueued(vol.q)) /\ x \in Slots
      /\ Items(Unqueued(vol.q)) \subseteq Items(vol.q) \ {x}
      /\ vol.fat[x] = FatFree /\ Items(vol.q) \subseteq Slots
  <2>1. /\ Unqueued(vol.q) \in Seq(Slots) /\ NoDup(Unqueued(vol.q)) /\ x \in Slots
        /\ Items(Unqueued(vol.q)) \subseteq Items(vol.q) \ {x} /\ x \in Items(vol.q)
    BY <1>1, <1>2, <1>3, UnqueuedIs DEF Queued
  <2>2. Items(vol.q) \subseteq Slots
    BY <1>2 DEF Items
  <2> HIDE DEF x
  <2>3. QED BY <1>3, <2>1, <2>2 DEF Queued
<1>6. Loose = IF call.head = None THEN {} ELSE {call.head}
    BY <1>1 DEF Loose, Growing
<1>7. CASE AccessFails /\ vol' = [vol EXCEPT !.q = Unqueued(@)] /\ Ends("error")
  <2>1. vol' \in Volumes /\ vol'.fat = vol.fat /\ vol'.q = Unqueued(vol.q)
    BY <1>2, <1>5, <1>7 DEF Volumes
  <2>2. SameTable
    BY <1>4, <2>1 DEF SameTable
  <2>3. Queued'
    <3>1. \A z \in Items(vol'.q) : z \in Items(vol.q)
        BY <1>5, <2>1
    <3>2. \A z \in Items(vol'.q) : vol'.fat[z] = FatFree
        BY <1>3, <2>1, <3>1 DEF Queued
    <3>3. QED BY <1>5, <2>1, <3>2 DEF Queued
  <2>4. QED BY <1>1, <1>2, <1>4, <1>7, <2>1, <2>2, <2>3, GivesUp DEF ChainAnswers
<1>8. CASE /\ Accessed
           /\ vol' = [Link(vol, x, Eoc) EXCEPT !.q = Unqueued(@)]
           /\ IF call.head = None
              THEN Goes([call EXCEPT !.head = x, !.tail = x, !.len = @ - 1, !.pc = "taken"])
              ELSE Goes([call EXCEPT !.curr = x, !.pc = "link"])
  <2> DEFINE v == Link(vol, x, Eoc)
  <2>1. LinkMade(vol, x, Eoc, v)
    BY <1>2, <1>5, LinkIs
  <2>2. vol' \in Volumes /\ vol'.fat = v.fat /\ vol'.q = Unqueued(vol.q)
    <3>1. vol' = [v EXCEPT !.q = Unqueued(@)] /\ v \in Volumes /\ v.q = vol.q
        BY <1>8, <2>1 DEF LinkMade
    <3> HIDE DEF v
    <3>2. QED BY <1>5, <3>1 DEF Volumes
  <2> HIDE DEF v
  <2>3. HasTaken(vol.fat, R, x, vol'.fat)
    <3>1. Taking(vol.fat, R, x, vol'.fat)
        BY <1>2, <1>3, <1>5, <2>1, <2>2 DEF Taking, LinkMade
    <3>2. QED BY <3>1, ForestTakes
  <2> HIDE DEF x, R
  <2>4. Queued'
    <3>1. \A z \in Items(vol'.q) : z \in Items(vol.q) /\ z # x /\ z \in Slots
        BY <1>5, <2>2
    <3>2. \A z \in Items(vol'.q) : vol'.fat[z] = FatFree
        BY <1>3, <2>1, <2>2, <3>1 DEF Queued, LinkMade
    <3>3. QED BY <1>5, <2>2, <3>2 DEF Queued
  <2>5. /\ x \notin R /\ x \in Slots /\ x \in Nat /\ x # None /\ x \notin heads
        /\ Forest(vol'.fat, R \cup {x}) /\ ChainOf(vol'.fat, x) = << x >>
        /\ \A s \in R : ChainNow(s)' = ChainNow(s)
    <3>1. x \in Nat /\ x # None
        BY <1>5, SlotsAre
    <3>2. QED BY <1>5, <2>3, <3>1 DEF HasTaken, ChainNow, R
  <2>6. call.len - 1 \in Nat
    BY <1>2
  <2>7. vol'.fat[x] = Eoc
    BY <2>1, <2>2 DEF LinkMade
  <2>8. call.op = "resize" => call.file \in R
    BY <1>2 DEF R
  <2>9. CASE /\ call.head = None
             /\ Goes([call EXCEPT !.head = x, !.tail = x, !.len = @ - 1, !.pc = "taken"])
    <3>1. /\ call' \in CallRecord /\ call'.head = x /\ call'.tail = x /\ call'.len = call.len - 1
          /\ call'.pc = "taken" /\ call'.op = call.op /\ call'.file = call.file
          /\ call'.want = call.want /\ call'.iter = call.iter
        BY <1>2, <2>5, <2>6, <2>9 DEF Goes, CallRecord, CallPlaces
    <3>2. Loose' = {x} /\ R = heads
        BY <1>6, <2>5, <2>9, <3>1 DEF Loose, Growing, R
    <3>3. ChainTypes' /\ Trees'
        BY <1>3, <1>4, <2>2, <2>5, <3>1, <3>2 DEF ChainTypes, Trees
    <3>4. OthersStay'
        BY <1>2, <1>4, <2>5, <3>1, <3>2, OthersStayTo
    <3>5. call.op = "resize" => ChainNow(call.file)' = ChainNow(call.file)
        BY <2>5, <2>8, <3>1 DEF ChainNow
    <3>6. ResizeOK'
        BY <1>2, <1>4, <3>1, <3>5 DEF ResizeOK, ChainThen
    <3>7. ChainNow(call.head)' = << x >>
        BY <2>5, <3>1 DEF ChainNow
    <3>8. Len(<< x >>) = 1 /\ EndOf(<< x >>) = x
        BY DEF EndOf
    <3>9. Segment' = 1 /\ Segment = 0
        BY <2>5, <2>9, <3>1, <3>7, <3>8 DEF Segment
    <3>10. call.op = "resize" => Len(ChainNow(call.file)) \in Nat
        BY <1>2, RootsRun
    <3>11. call.op = "resize" => /\ call'.iter = EndOf(ChainNow(call.file)')
                                 /\ Len(ChainNow(call.file)') + call'.len + Segment' = call'.want
        BY <1>2, <3>1, <3>5, <3>9, <3>10
    <3>12. GrowOK'
        BY <1>2, <2>5, <3>1, <3>7, <3>8, <3>11 DEF GrowOK
    <3>13. WalkOK' /\ CutOK'
        BY <3>1 DEF WalkOK, CutOK
    <3>14. QED BY <2>4, <3>3, <3>4, <3>6, <3>12, <3>13 DEF ChainInv
  <2>10. CASE call.head # None /\ Goes([call EXCEPT !.curr = x, !.pc = "link"])
    <3>1. /\ call' \in CallRecord /\ call'.head = call.head /\ call'.tail = call.tail
          /\ call'.len = call.len /\ call'.curr = x /\ SameCall
          /\ call'.pc = "link" /\ call'.op = call.op /\ call'.iter = call.iter
        BY <1>2, <2>5, <2>10 DEF Goes, CallRecord, CallPlaces, SameCall
    <3>2. Loose' = {call.head, x} /\ R = heads \cup {call.head}
        BY <1>6, <2>10, <3>1 DEF Loose, Growing, R
    <3>3. ChainTypes'
        BY <1>3, <1>4, <2>2, <3>1 DEF ChainTypes
    <3>4. heads' \cup Loose' = R \cup {x} /\ Loose' \subseteq Slots \ heads' /\ call'.head # call'.curr
        BY <1>2, <1>4, <2>5, <2>10, <3>1, <3>2
    <3>5. Trees'
        BY <2>5, <3>4 DEF Trees
    <3>6. OthersStay'
        BY <1>4, <2>5, <3>1, <3>2, OthersStayTo DEF SameCall
    <3>7. call.op = "resize" => ChainNow(call.file)' = ChainNow(call.file)
        BY <2>5, <2>8, <3>1 DEF ChainNow, SameCall
    <3>8. ResizeOK'
        BY <1>2, <1>4, <3>1, <3>7 DEF ResizeOK, ChainThen, SameCall
    <3>9. ChainNow(call.head)' = ChainNow(call.head) /\ Segment' = Segment
        BY <2>5, <3>1, <3>2 DEF ChainNow, Segment
    <3>10. GrowOK'
        BY <1>2, <2>7, <2>10, <3>1, <3>7, <3>9 DEF GrowOK, SameCall
    <3>11. WalkOK' /\ CutOK'
        BY <3>1 DEF WalkOK, CutOK
    <3>12. QED BY <2>4, <3>3, <3>5, <3>6, <3>8, <3>10, <3>11 DEF ChainInv
  <2>11. QED BY <1>8, <2>9, <2>10 DEF x
<1>9. QED BY <1>7, <1>8 DEF Take

LEMMA JoinEnds ==
    ASSUME NEW c \in Seq(Slots), NEW d \in Seq(Slots)
    PROVE  Len(d) = 1 => EndOf(c \o d) = d[1] /\ Len(c \o d) = Len(c) + 1
<1> DEFINE e == c \o d
<1>1. /\ e \in Seq(Slots) /\ Len(e) = Len(c) + Len(d)
      /\ \A k \in 1 .. Len(c) : e[k] = c[k]
      /\ \A k \in 1 .. Len(d) : e[Len(c) + k] = d[k]
    BY ConcatIs
<1> HIDE DEF e
<1>2. ASSUME Len(d) = 1 PROVE EndOf(e) = d[1] /\ Len(e) = Len(c) + 1
  <2>1. 1 \in 1 .. Len(d) /\ Len(e) = Len(c) + 1
    BY <1>1, <1>2
  <2>2. QED BY <1>1, <2>1 DEF EndOf
<1>3. QED BY <1>2 DEF e

(* A chain that ends where it begins has one slot.                         *)
LEMMA OneSlot ==
    ASSUME NEW fat, NEW s, NEW c, RunsFrom(fat, s, c), fat[s] = Eoc
    PROVE  Len(c) = 1
<1>1. c \in Seq(Slots) /\ Len(c) \in Nat /\ Len(c) >= 1 /\ c[1] = s
    BY RunsUse
<1>2. ASSUME Len(c) # 1 PROVE FALSE
  <2>1. 1 \in 1 .. Len(c) - 1 /\ 1 + 1 \in 1 .. Len(c)
    BY <1>1, <1>2
  <2>2. fat[c[1]] = c[1 + 1] /\ c[1 + 1] \in Slots
    BY <1>1, <2>1 DEF RunsFrom
  <2>3. QED BY <1>1, <2>2, SlotsAre
<1>3. QED BY <1>2

LEMMA StepLinkNext == ASSUME ChainInv, LinkNext PROVE ChainInv'
<1> DEFINE h == call.head
           t == call.curr
           x == call.tail
           R == heads \cup {h, t}
<1>1. call.pc = "link" /\ call.pc \in Growing /\ call.pc # "idle"
    BY DEF LinkNext, Doing, Growing
<1>2. /\ call \in CallRecord /\ vol \in Volumes /\ vol.fat \in Fats
      /\ call.op \in {"new", "resize"} /\ call.len \in Nat /\ call.want \in Nat /\ call.len > 0
      /\ h # None /\ h \in Loose /\ h \in Slots \ heads /\ x = EndOf(ChainNow(h))
      /\ call.op = "resize" =>
            /\ call.file \in heads /\ call.iter = EndOf(ChainNow(call.file))
            /\ ChainNow(call.file) = ChainThen(call.file)
            /\ Len(ChainNow(call.file)) + call.len + Segment = call.want
    BY <1>1, GrowIs
<1>3. /\ Loose = {h, t} /\ Forest(vol.fat, R) /\ t \in Slots \ heads /\ h # t
      /\ vol.fat[t] = Eoc /\ Queued /\ heads \subseteq Slots /\ t \in Nat /\ ChainTypes
  <2>1. Loose = {h, t}
    BY <1>1, <1>2 DEF Loose
  <2>2. Trees /\ GrowOK /\ Queued /\ ChainTypes
    BY DEF ChainInv
  <2>3. vol.fat[t] = Eoc
    BY <1>1, <2>2 DEF GrowOK
  <2>4. QED BY <1>1, <2>1, <2>2, <2>3, SlotsAre DEF Trees, ChainTypes
<1>4. before' \in Histories /\ before'.vol = before.vol /\ heads' = heads
    BY AccessIs DEF LinkNext
<1>5. x \in Slots /\ vol.fat[x] # FatFree
    BY <1>2, RootsRun
<1>6. CASE AccessFails /\ UNCHANGED vol /\ Ends("error")
  <2>1. SameTable /\ Queued' /\ vol' \in Volumes
    BY <1>2, <1>3, <1>4, <1>6 DEF SameTable, Queued
  <2>2. QED BY <1>1, <1>4, <1>6, <2>1, GivesUp DEF ChainAnswers
<1>7. CASE /\ Accessed /\ vol' = Link(vol, x, t)
           /\ Goes([call EXCEPT !.tail = NewTail(call), !.len = @ - 1, !.pc = "taken"])
  <2>1. LinkMade(vol, x, t, vol')
    BY <1>2, <1>3, <1>5, <1>7, LinkIs
  <2>2. HasJoined(vol.fat, R, h, t, vol'.fat)
    <3>1. Joining(vol.fat, R, h, t, vol'.fat)
        BY <1>2, <1>3, <2>1 DEF Joining, LinkMade, ChainNow
    <3>2. QED BY <3>1, ForestJoins
  <2>3. Queued'
    BY <1>3, <1>5, <2>1, QueueStays DEF LinkMade
  <2>4. call.len - 1 \in Nat
    BY <1>2
  <2>5. /\ call' \in CallRecord /\ call'.head = h /\ call'.tail = t /\ SameCall
        /\ call'.len = call.len - 1 /\ call'.pc = "taken" /\ call'.iter = call.iter
    BY <1>2, <1>3, <1>7, <2>4 DEF Goes, CallRecord, CallPlaces, SameCall, NewTail
  <2>6. Loose' = {h}
    BY <1>2, <2>5 DEF Loose, Growing
  <2>7. R \ {t} = heads \cup {h}
    BY <1>3
  <2>8. /\ Forest(vol'.fat, heads \cup {h})
        /\ \A s \in heads : ChainNow(s)' = ChainNow(s)
        /\ ChainOf(vol'.fat, h) = ChainNow(h) \o ChainNow(t)
    <3>1. heads \subseteq R \ {h, t}
        BY <1>2, <1>3
    <3>2. QED BY <2>2, <2>7, <3>1 DEF HasJoined, ChainNow
  <2> HIDE DEF h, t, x, R
  <2>9. ChainTypes' /\ Trees'
    BY <1>2, <1>3, <1>4, <2>1, <2>5, <2>6, <2>8 DEF ChainTypes, Trees, LinkMade
  <2>10. OthersStay'
    BY <1>4, <2>5, <2>8, OthersStayTo DEF SameCall
  <2>11. call.op = "resize" => ChainNow(call.file)' = ChainNow(call.file)
    BY <1>2, <2>5, <2>8 DEF ChainNow, SameCall
  <2>12. ResizeOK'
    BY <1>2, <1>4, <2>5, <2>11 DEF ResizeOK, ChainThen, SameCall
  <2>13. /\ ChainNow(h) \in Seq(Slots) /\ ChainNow(t) \in Seq(Slots) /\ Len(ChainNow(h)) \in Nat
         /\ Len(ChainNow(t)) = 1 /\ ChainNow(t)[1] = t
    <3>1. /\ RunsFrom(vol.fat, t, ChainNow(t)) /\ ChainNow(t) \in Seq(Slots)
          /\ Len(ChainNow(t)) \in Nat /\ Len(ChainNow(t)) >= 1 /\ ChainNow(t)[1] = t
        BY <1>3, RootsRun
    <3>2. Len(ChainNow(t)) = 1
        BY <1>3, <3>1, OneSlot
    <3>3. QED BY <1>2, <3>1, <3>2, RootsRun
  <2>14. EndOf(ChainOf(vol'.fat, h)) = t /\ Len(ChainOf(vol'.fat, h)) = Len(ChainNow(h)) + 1
    <3> DEFINE c == ChainNow(h)
               d == ChainNow(t)
    <3>1. /\ c \in Seq(Slots) /\ d \in Seq(Slots) /\ Len(d) = 1 /\ d[1] = t
          /\ ChainOf(vol'.fat, h) = c \o d
        BY <2>8, <2>13
    <3> HIDE DEF c, d
    <3>2. EndOf(c \o d) = d[1] /\ Len(c \o d) = Len(c) + 1
        BY <3>1, JoinEnds
    <3>3. QED BY <3>1, <3>2 DEF c
  <2>15. Segment' = Segment + 1 /\ Segment \in Nat /\ EndOf(ChainNow(call.head)') = t
    <3>1. ChainNow(call.head)' = ChainOf(vol'.fat, h)
        BY <2>5 DEF ChainNow
    <3>2. QED BY <1>2, <2>5, <2>13, <2>14, <3>1 DEF Segment, h
  <2>16. call.op = "resize" => Len(ChainNow(call.file)) \in Nat
    BY <1>2, RootsRun
  <2>17. call.op = "resize" => /\ call'.iter = EndOf(ChainNow(call.file)')
                               /\ Len(ChainNow(call.file)') + call'.len + Segment' = call'.want
    BY <1>2, <2>5, <2>11, <2>15, <2>16 DEF SameCall
  <2>18. GrowOK'
    BY <1>2, <2>5, <2>15, <2>17 DEF GrowOK, SameCall
  <2>19. WalkOK' /\ CutOK'
    BY <2>5 DEF WalkOK, CutOK
  <2>20. QED BY <2>3, <2>9, <2>10, <2>12, <2>18, <2>19 DEF ChainInv
<1>8. QED BY <1>6, <1>7 DEF LinkNext

LEMMA StepHaveSlot == ASSUME ChainInv, HaveSlot PROVE ChainInv'
<1> DEFINE h == call.head
<1>1. /\ call.pc = "taken" /\ call.pc \in Growing /\ call.pc \notin Stopped
      /\ vol' = vol /\ before' = before
    BY DEF HaveSlot, Doing, Growing, Stopped
<1>2. /\ call \in CallRecord /\ vol \in Volumes
      /\ call.op \in {"new", "resize"} /\ call.len \in Nat /\ call.want \in Nat
      /\ h # None /\ h \in Loose /\ h \in Slots \ heads /\ call.tail = EndOf(ChainNow(h))
      /\ call.op = "resize" =>
            /\ call.file \in heads /\ call.iter = EndOf(ChainNow(call.file))
            /\ ChainNow(call.file) = ChainThen(call.file)
            /\ Len(ChainNow(call.file)) + call.len + Segment = call.want
    BY <1>1, GrowIs
<1>3. /\ Forest(vol.fat, heads \cup {h}) /\ Queued /\ heads \subseteq Slots /\ ChainTypes
      /\ Loose = {h} /\ OthersStay
    BY <1>1, <1>2 DEF ChainInv, ChainTypes, Trees, Loose, Growing
<1>4. Queued' /\ vol' \in Volumes /\ before' \in Histories
    BY <1>1, <1>2, <1>3 DEF Queued, ChainTypes
<1>5. CASE call.len = 0 /\ call.op = "new" /\ Ends("success") /\ heads' = heads \cup {h}
  <2>1. call' \in CallRecord /\ call'.pc = "idle" /\ SameCall
    BY <1>2, <1>5, EndsIs DEF ChainAnswers, SameCall
  <2>2. Loose' = {}
    BY <2>1 DEF Loose, Growing
  <2>3. ChainTypes' /\ Trees'
    BY <1>1, <1>2, <1>3, <1>4, <1>5, <2>1, <2>2 DEF ChainTypes, Trees
  <2>4. OthersStay'
    <3>1. \A s : ChainNow(s)' = ChainNow(s) /\ ChainThen(s)' = ChainThen(s)
        BY <1>1 DEF ChainNow, ChainThen
    <3>2. QED BY <1>3, <1>5, <2>1, <3>1 DEF OthersStay, SameCall
  <2>5. ResizeOK' /\ WalkOK' /\ CutOK' /\ GrowOK'
    BY <1>5, <2>1 DEF ResizeOK, WalkOK, CutOK, GrowOK, Growing, SameCall
  <2>6. QED BY <1>4, <2>3, <2>4, <2>5 DEF ChainInv
<1>6. ASSUME heads' = heads, NEW place \in {"pop", "attach"}, Goes([call EXCEPT !.pc = place]),
             place = "pop" => call.len > 0,
             place = "attach" => call.len = 0 /\ call.op = "resize"
      PROVE  ChainInv'
  <2>1. /\ call' \in CallRecord /\ SameCall /\ call'.pc = place /\ call'.len = call.len
        /\ call'.tail = call.tail /\ call'.iter = call.iter
    BY <1>2, <1>6 DEF Goes, CallRecord, CallPlaces, SameCall
  <2>2. Loose' = {h} /\ SameTable
    BY <1>1, <1>2, <1>6, <2>1 DEF Loose, Growing, SameCall, SameTable
  <2>3. ChainTypes'
    BY <1>3, <1>4, <1>6, <2>1 DEF ChainTypes
  <2>4. Trees'
    BY <1>3, <2>1, <2>2, TreesStay
  <2>5. OthersStay'
    BY <2>1, <2>2, OthersStayAsTable
  <2>6. /\ ChainNow(call.file)' = ChainNow(call.file) /\ ChainNow(call.head)' = ChainNow(call.head)
        /\ Segment' = Segment
    BY <1>1, <2>1 DEF ChainNow, SameCall, Segment
  <2>7. call'.pc \notin Stopped
    BY <2>1 DEF Stopped
  <2>8. ResizeOK'
    BY <1>1, <2>1, <2>2, <2>6, <2>7, ResizeStays DEF SameTable
  <2>9. GrowOK'
    BY <1>2, <1>6, <2>1, <2>6 DEF GrowOK, SameCall
  <2>10. WalkOK' /\ CutOK'
    BY <2>1 DEF WalkOK, CutOK
  <2>11. QED BY <1>4, <2>3, <2>4, <2>5, <2>8, <2>9, <2>10 DEF ChainInv
<1>7. CASE call.len > 0 /\ Goes([call EXCEPT !.pc = "pop"]) /\ UNCHANGED heads
    BY <1>6, <1>7
<1>8. CASE /\ call.len = 0 /\ call.op = "resize" /\ Goes([call EXCEPT !.pc = "attach"])
           /\ UNCHANGED heads
    BY <1>6, <1>8
<1>9. QED BY <1>5, <1>7, <1>8 DEF HaveSlot

LEMMA StepAttach == ASSUME ChainInv, Attach PROVE ChainInv'
<1> DEFINE h == call.head
           f == call.file
           x == call.iter
           R == heads \cup {h}
           c == ChainNow(f)
           d == ChainNow(h)
<1>1. call.pc = "attach" /\ call.pc \in Growing /\ call.pc # "idle"
    BY DEF Attach, Doing, Growing
<1>2. /\ call \in CallRecord /\ vol \in Volumes /\ vol.fat \in Fats
      /\ call.op = "resize" /\ call.len = 0 /\ call.want \in Nat
      /\ h # None /\ h \in Loose /\ h \in Slots \ heads
      /\ f \in heads /\ x = EndOf(c) /\ c = ChainThen(f)
      /\ Len(c) + 0 + Segment = call.want
    BY <1>1, GrowIs
<1>3. /\ Loose = {h} /\ Forest(vol.fat, R) /\ Queued /\ heads \subseteq Slots /\ ChainTypes
    BY <1>1, <1>2 DEF ChainInv, ChainTypes, Trees, Loose, Growing
<1>4. before' \in Histories /\ before'.vol = before.vol /\ heads' = heads
    BY AccessIs DEF Attach
<1>5. x \in Slots /\ vol.fat[x] # FatFree /\ c \in Seq(Slots) /\ d \in Seq(Slots)
    BY <1>2, RootsRun
<1>6. CASE AccessFails /\ UNCHANGED vol /\ Frees(h, "error")
  <2>1. SameTable /\ Queued' /\ vol' \in Volumes
    BY <1>2, <1>3, <1>4, <1>6 DEF SameTable, Queued
  <2>2. QED BY <1>1, <1>2, <1>4, <1>6, <2>1, GivesBack DEF ChainAnswers
<1>7. CASE Accessed /\ vol' = Link(vol, x, h) /\ Ends("success")
  <2>1. LinkMade(vol, x, h, vol')
    BY <1>2, <1>5, <1>7, LinkIs
  <2>2. HasJoined(vol.fat, R, f, h, vol'.fat)
    <3>1. Joining(vol.fat, R, f, h, vol'.fat)
        BY <1>2, <1>3, <2>1 DEF Joining, LinkMade, ChainNow
    <3>2. QED BY <3>1, ForestJoins
  <2>3. Queued'
    BY <1>3, <1>5, <2>1, QueueStays DEF LinkMade
  <2>4. call' \in CallRecord /\ call'.pc = "idle" /\ call'.answer = "success" /\ SameCall
    BY <1>2, <1>7, EndsIs DEF ChainAnswers, SameCall
  <2>5. Loose' = {}
    BY <2>4 DEF Loose, Growing
  <2>6. R \ {h} = heads /\ heads \ {f} \subseteq R \ {f, h}
    BY <1>2
  <2>7. /\ Forest(vol'.fat, heads) /\ ChainOf(vol'.fat, f) = c \o d
        /\ \A s \in heads \ {f} : ChainNow(s)' = ChainNow(s)
    BY <2>2, <2>6 DEF HasJoined, ChainNow
  <2>8. Extends(c \o d, c) /\ Len(c \o d) = Len(c) + Len(d)
    <3> HIDE DEF c, d
    <3>1. QED BY <1>5, JoinExtends
  <2>9. Segment = Len(d)
    BY <1>2 DEF Segment
  <2> HIDE DEF c, d, h, f, x, R
  <2>10. ChainTypes' /\ Trees'
    BY <1>3, <1>4, <2>1, <2>4, <2>5, <2>7 DEF ChainTypes, Trees, LinkMade
  <2>11. OthersStay'
    <3>1. \A s \in heads : s # call.file => ChainNow(s)' = ChainNow(s)
        BY <2>7 DEF f
    <3>2. QED BY <1>4, <2>4, <3>1, OthersStayTo DEF SameCall
  <2>12. ChainNow(call.file)' = c \o d /\ ChainThen(call.file)' = c
    <3>1. call'.file = f
        BY <2>4 DEF SameCall, f
    <3>2. QED BY <1>2, <1>4, <2>7, <3>1 DEF ChainNow, ChainThen
  <2>13. Len(c \o d) = call'.want
    <3>1. call'.want = call.want /\ Len(c) \in Nat /\ Len(d) \in Nat
        BY <1>5, <2>4 DEF SameCall
    <3>2. QED BY <1>2, <2>8, <2>9, <3>1
  <2>14. ResizeOK'
    <3>1. HasSize'
        BY <2>8, <2>12, <2>13 DEF HasSize
    <3>2. call'.file \in heads' /\ Len(ChainNow(call.file)') = call'.want
        BY <1>2, <1>4, <2>4, <2>12, <2>13 DEF SameCall, f
    <3>3. QED BY <2>4, <3>1, <3>2 DEF ResizeOK
  <2>15. WalkOK' /\ CutOK' /\ GrowOK'
    BY <2>4 DEF WalkOK, CutOK, GrowOK, Growing
  <2>16. QED BY <2>3, <2>10, <2>11, <2>14, <2>15 DEF ChainInv
<1>8. QED BY <1>6, <1>7 DEF Attach

LEMMA StepFreeSlot == ASSUME ChainInv, FreeSlot PROVE ChainInv'
<1> DEFINE t == call.curr
           next == vol.fat[t]
           R == heads \cup {t}
<1>1. call.pc = "free" /\ call.pc # "idle" /\ call.pc \in Stopped
    BY DEF FreeSlot, Doing, Stopped
<1>2. ChainTypes /\ Trees /\ Queued /\ ResizeOK
    BY DEF ChainInv
<1>3. call \in CallRecord /\ vol \in Volumes /\ vol.fat \in Fats /\ call.answer \in ChainAnswers
    BY <1>2 DEF ChainTypes, Volumes, CallRecord
<1>4. Loose = {t} /\ Forest(vol.fat, R) /\ t \in Slots \ heads /\ heads \subseteq Slots
    BY <1>1, <1>2 DEF ChainTypes, Trees, Loose, Growing
<1>5. call.op = "resize" =>
          /\ call.file \in heads
          /\ call.answer = "success" => Len(ChainNow(call.file)) = call.want
          /\ call.answer = "no_space" => ChainNow(call.file) = ChainThen(call.file)
    BY <1>1, <1>2 DEF ResizeOK
<1>6. before' \in Histories /\ before'.vol = before.vol /\ heads' = heads
    BY AccessIs DEF FreeSlot
<1>7. CASE AccessFails /\ UNCHANGED vol /\ Ends("error")
  <2>1. SameTable /\ Queued' /\ vol' \in Volumes
    BY <1>2, <1>3, <1>6, <1>7 DEF SameTable, Queued
  <2>2. QED BY <1>1, <1>6, <1>7, <2>1, GivesUp DEF ChainAnswers
<1>8. CASE /\ Accessed /\ vol' = Link(vol, t, FatFree)
           /\ IF next = Eoc THEN Ends(call.answer) ELSE Goes([call EXCEPT !.curr = next])
  <2>1. LinkMade(vol, t, FatFree, vol')
    BY <1>3, <1>4, <1>8, LinkIs
  <2>2. HasFreed(vol.fat, R, t, vol'.fat)
    <3>1. Freeing(vol.fat, R, t, vol'.fat)
        BY <1>3, <1>4, <2>1 DEF Freeing, LinkMade
    <3>2. QED BY <3>1, ForestFrees
  <2>3. Queued'
    <3>1. vol.fat[t] # FatFree
        BY <1>4, RootsRun
    <3>2. QED BY <1>2, <1>4, <2>1, <3>1, QueueStays DEF LinkMade
  <2>4. R \ {t} = heads
    BY <1>4
  <2>5. /\ \A s \in heads : ChainNow(s)' = ChainNow(s)
        /\ next = Eoc => Forest(vol'.fat, heads)
        /\ next # Eoc => next \in Slots \ heads /\ Forest(vol'.fat, heads \cup {next})
    BY <2>2, <2>4 DEF HasFreed, ChainNow
  <2> HIDE DEF next, R
  <2>6. /\ call' \in CallRecord /\ SameCall /\ call'.pc \in Stopped /\ call'.answer = call.answer
        /\ next = Eoc => call'.pc = "idle" /\ Loose' = {}
        /\ next # Eoc => call'.pc = "free" /\ Loose' = {next}
    <3>1. CASE next = Eoc /\ Ends(call.answer)
        <4>1. /\ call' \in CallRecord /\ SameCall /\ call'.pc = "idle"
              /\ call'.answer = call.answer
            BY <1>3, <3>1, EndsIs DEF SameCall
        <4>2. QED BY <3>1, <4>1 DEF Loose, Growing, Stopped
    <3>2. CASE next # Eoc /\ Goes([call EXCEPT !.curr = next])
        <4>1. next \in Nat
            BY <2>5, <3>2, SlotsAre
        <4>2. /\ call' \in CallRecord /\ SameCall /\ call'.pc = "free" /\ call'.curr = next
              /\ call'.answer = call.answer
            BY <1>1, <1>3, <3>2, <4>1 DEF Goes, CallRecord, SameCall
        <4>3. QED BY <3>2, <4>2 DEF Loose, Growing, Stopped
    <3>3. QED BY <1>8, <3>1, <3>2 DEF next
  <2>7. ChainTypes'
    BY <1>4, <1>6, <2>1, <2>6 DEF ChainTypes, LinkMade
  <2>8. Trees'
    BY <1>4, <1>6, <2>5, <2>6 DEF Trees
  <2>9. OthersStay'
    BY <1>6, <2>5, <2>6, OthersStayTo DEF SameCall
  <2>10. call.op = "resize" => ChainNow(call.file)' = ChainNow(call.file)
    BY <1>5, <2>5, <2>6 DEF ChainNow, SameCall
  <2>11. ResizeOK'
    BY <1>5, <1>6, <2>6, <2>10, ResizeStays
  <2>12. WalkOK' /\ CutOK' /\ GrowOK'
    BY <2>6 DEF WalkOK, CutOK, GrowOK, Growing
  <2>13. QED BY <2>3, <2>7, <2>8, <2>9, <2>11, <2>12 DEF ChainInv
<1>9. QED BY <1>7, <1>8 DEF FreeSlot

-----------------------------------------------------------------------------
(* So the invariant holds in every state.                                  *)
LEMMA StartChains == ASSUME ChainsInit PROVE ChainInv
<1>1. /\ vol = [fat |-> [x \in Slots |-> FatFree], q |-> << >>, data |-> [x \in Slots |-> JunkCluster]]
      /\ heads = {} /\ call = Call("none", None, 0, "idle") /\ before = [vol |-> vol, clean |-> TRUE]
    BY DEF ChainsInit
<1>2. /\ call \in CallRecord /\ call.op = "none" /\ call.pc = "idle"
    BY <1>1 DEF Call, CallRecord, Ops, CallPlaces, ChainAnswers, None
<1>3. [x \in Slots |-> FatFree] \in Fats /\ << >> \in Seq(Slots)
    BY DEF Fats
<1>4. vol \in Volumes
    BY <1>1, <1>3 DEF Volumes
<1>5. before \in Histories
    BY <1>1, <1>4 DEF Histories
<1>6. ChainTypes
    BY <1>1, <1>2, <1>4, <1>5 DEF ChainTypes
<1>7. Loose = {}
    BY <1>2 DEF Loose, Growing
<1>8. Trees
    BY <1>1, <1>2, <1>7 DEF Trees, Forest
<1>9. Queued
    BY <1>1 DEF Queued, NoDup, Items
<1>10. WalkOK /\ CutOK /\ GrowOK /\ OthersStay /\ ResizeOK
    BY <1>1, <1>2 DEF WalkOK, CutOK, GrowOK, OthersStay, ResizeOK, Growing
<1>11. QED BY <1>6, <1>8, <1>9, <1>10 DEF ChainInv

LEMMA ChainsIdle == ASSUME ChainInv, UNCHANGED chainVars PROVE ChainInv'
<1>1. vol' = vol /\ heads' = heads /\ call' = call /\ before' = before
    BY DEF chainVars
<1>2. \A s : ChainNow(s)' = ChainNow(s) /\ ChainThen(s)' = ChainThen(s)
    BY <1>1 DEF ChainNow, ChainThen
<1>3. Loose' = Loose /\ Segment' = Segment
    BY <1>1 DEF Loose, Segment, ChainNow
<1>4. ChainTypes' /\ Trees' /\ Queued'
    BY <1>1, <1>3 DEF ChainInv, ChainTypes, Trees, Queued
<1>5. WalkOK' /\ CutOK' /\ GrowOK'
    BY <1>1, <1>3 DEF ChainInv, WalkOK, CutOK, GrowOK, ChainNow
<1>6. OthersStay' /\ ResizeOK'
    BY <1>1 DEF ChainInv, OthersStay, ResizeOK, HasSize, ChainNow, ChainThen
<1>7. QED BY <1>4, <1>5, <1>6 DEF ChainInv

LEMMA ChainsKeepInv == ASSUME ChainInv, [ChainsNext]_chainVars PROVE ChainInv'
<1>1. CASE NewCall
    BY <1>1, StepNewCall
<1>2. CASE ResizeCall
    BY <1>2, StepResizeCall
<1>3. CASE FreeCall
    BY <1>3, StepFreeCall
<1>4. CASE FollowChain
    BY <1>4, StepFollowChain
<1>5. CASE CutChain
    BY <1>5, StepCutChain
<1>6. CASE Populate
    BY <1>6, StepPopulate
<1>7. CASE Take
    BY <1>7, StepTake
<1>8. CASE LinkNext
    BY <1>8, StepLinkNext
<1>9. CASE HaveSlot
    BY <1>9, StepHaveSlot
<1>10. CASE Attach
    BY <1>10, StepAttach
<1>11. CASE FreeSlot
    BY <1>11, StepFreeSlot
<1>12. CASE UNCHANGED chainVars
    BY <1>12, ChainsIdle
<1>13. QED BY <1>1, <1>2, <1>3, <1>4, <1>5, <1>6, <1>7, <1>8, <1>9, <1>10, <1>11, <1>12
           DEF ChainsNext

LEMMA InvImpliesChains == ASSUME ChainInv PROVE ChainsSurviveFaults
<1>1. Forest(vol.fat, heads) /\ Queued
    BY ForestLess DEF ChainInv, Trees
<1>2. ChainsApart
  <2>1. ASSUME NEW s \in heads
        PROVE  LET c == ChainOf(vol.fat, s) IN
               NoDup(c) /\ Items(c) \subseteq Slots /\ vol.fat[EndOf(c)] = Eoc
    <3> DEFINE c == ChainOf(vol.fat, s)
    <3>1. RunsFrom(vol.fat, s, c)
        BY <1>1 DEF Forest
    <3> HIDE DEF c
    <3>2. NoDup(c) /\ Items(c) \subseteq Slots /\ vol.fat[EndOf(c)] = Eoc
        BY <3>1, RunsUse DEF RunsFrom
    <3>3. QED BY <3>2 DEF c
  <2>2. \A s, t \in heads :
            s = t \/ Items(ChainOf(vol.fat, s)) \cap Items(ChainOf(vol.fat, t)) = {}
    BY <1>1 DEF Forest
  <2>3. QED BY <1>1, <2>1, <2>2 DEF ChainsApart, Queued
<1>3. AllOrNothing
  <2>1. \A s \in heads : s \in {call.file, call.head}
                         \/ ChainOf(vol.fat, s) = ChainOf(before.vol.fat, s)
    BY DEF ChainInv, OthersStay, ChainNow, ChainThen
  <2>2. ASSUME call.op = "resize"
        PROVE  /\ ChainNow(call.file) = ChainThen(call.file) \/ HasSize
               /\ Doing("idle") /\ call.answer = "success" => Len(ChainNow(call.file)) = call.want
               /\ Doing("idle") /\ call.answer = "no_space" =>
                     ChainNow(call.file) = ChainThen(call.file)
    BY <2>2 DEF ChainInv, ResizeOK, Doing
  <2>3. QED BY <2>1, <2>2 DEF AllOrNothing, HasSize, ChainNow, ChainThen
<1>4. QED BY <1>2, <1>3 DEF ChainsSurviveFaults

THEOREM ChainsStayWhole == ChainsSpec => []ChainsSurviveFaults
<1>1. ChainsInit => ChainInv
    BY StartChains
<1>2. ChainInv /\ [ChainsNext]_chainVars => ChainInv'
    BY ChainsKeepInv
<1>3. ChainInv => ChainsSurviveFaults
    BY InvImpliesChains
<1>4. QED BY <1>1, <1>2, <1>3, PTL DEF ChainsSpec

-----------------------------------------------------------------------------
(* What the loop of fat32_new_chain comes to                               *)

Grew(v, c) == [v |-> v, chain |-> c, full |-> FALSE]

SegmentStep(v, u, n) ==
    IF n = 0 THEN {Grew(v, << >>)} ELSE UNION {Longer(g) : g \in u[n - 1]}

SegmentsFrom(v, u, m) == u = [n \in 0 .. m |-> SegmentStep(v, u, n)]

LEMMA SegmentsExist ==
    ASSUME NEW v, NEW len \in Nat
    PROVE  \E u : SegmentsFrom(v, u, len)
<1> DEFINE T == {m \in 0 .. len : \E u : SegmentsFrom(v, u, m)}
<1>1. 0 \in T
  <2> DEFINE u == [n \in 0 .. 0 |-> {Grew(v, << >>)}]
  <2>1. SegmentsFrom(v, u, 0)
    BY DEF SegmentsFrom, SegmentStep
  <2>2. QED BY <2>1
<1>2. ASSUME NEW m \in 1 .. len, m - 1 \in T PROVE m \in T
  <2>1. PICK u : SegmentsFrom(v, u, m - 1)
    BY <1>2
  <2> DEFINE w == [n \in 0 .. m |-> SegmentStep(v, u, n)]
  <2>2. ASSUME NEW n \in 0 .. m PROVE SegmentStep(v, w, n) = SegmentStep(v, u, n)
    <3>1. CASE n = 0
        BY <3>1 DEF SegmentStep
    <3>2. CASE n # 0
      <4>1. n - 1 \in 0 .. m - 1 /\ n - 1 \in 0 .. m
          BY <3>2
      <4>2. u[n - 1] = SegmentStep(v, u, n - 1)
          BY <2>1, <4>1 DEF SegmentsFrom
      <4>3. w[n - 1] = SegmentStep(v, u, n - 1)
          BY <4>1
      <4> HIDE DEF w
      <4>4. QED BY <3>2, <4>2, <4>3 DEF SegmentStep
    <3>3. QED BY <3>1, <3>2
  <2>3. w = [n \in 0 .. m |-> SegmentStep(v, w, n)]
    BY <2>2
  <2> HIDE DEF w
  <2>4. SegmentsFrom(v, w, m)
    BY <2>3 DEF SegmentsFrom
  <2>5. m \in 0 .. len
    OBVIOUS
  <2>6. QED BY <2>4, <2>5
<1>3. len \in T
  <2> HIDE DEF T
  <2>1. 0 .. len \subseteq T
    BY <1>1, <1>2, Upwards
  <2>2. QED BY <2>1
<1>4. QED BY <1>3

LEMMA SegmentsAre ==
    ASSUME NEW v, NEW len \in Nat
    PROVE  /\ Segments(v, len)[0] = {Grew(v, << >>)}
           /\ \A n \in 0 .. len : n + 1 \in 0 .. len =>
                 Segments(v, len)[n + 1] = UNION {Longer(g) : g \in Segments(v, len)[n]}
<1> DEFINE F == CHOOSE u : SegmentsFrom(v, u, len)
<1>1. SegmentsFrom(v, F, len)
    BY SegmentsExist
<1>2. Segments(v, len) = F
    BY DEF Segments, SegmentsFrom, SegmentStep, Grew
<1> HIDE DEF F
<1>3. \A n \in 0 .. len : F[n] = SegmentStep(v, F, n)
    BY <1>1 DEF SegmentsFrom
<1>4. F[0] = {Grew(v, << >>)}
  <2>1. 0 \in 0 .. len
    OBVIOUS
  <2>2. QED BY <1>3, <2>1 DEF SegmentStep
<1>5. ASSUME NEW n \in 0 .. len, n + 1 \in 0 .. len
      PROVE  F[n + 1] = UNION {Longer(g) : g \in F[n]}
  <2>1. n + 1 # 0 /\ (n + 1) - 1 = n
    OBVIOUS
  <2>2. F[n + 1] = SegmentStep(v, F, n + 1)
    BY <1>3, <1>5
  <2>3. QED BY <2>1, <2>2 DEF SegmentStep
<1>6. QED BY <1>2, <1>4, <1>5

(* A round of the loop.                                                    *)
LEMMA OneMore ==
    ASSUME NEW v, NEW len \in Nat, NEW n \in 0 .. len, n + 1 \in 0 .. len,
           NEW g \in Segments(v, len)[n], NEW h \in Longer(g)
    PROVE  h \in Segments(v, len)[n + 1]
<1>1. Segments(v, len)[n + 1] = UNION {Longer(k) : k \in Segments(v, len)[n]}
    BY SegmentsAre
<1>2. QED BY <1>1

(* Once there is no slot to be had, the loop comes to that.                *)
LEMMA StaysFull ==
    ASSUME NEW v, NEW len \in Nat, NEW m \in 0 .. len, NEW g \in Segments(v, len)[m], g.full
    PROVE  g \in Segments(v, len)[len]
<1> DEFINE T == {n \in 0 .. len : n < m \/ g \in Segments(v, len)[n]}
<1>1. 0 \in T
  <2>1. 0 \in 0 .. len /\ (0 < m \/ m = 0)
    OBVIOUS
  <2>2. QED BY <2>1
<1>2. ASSUME NEW n \in 1 .. len, n - 1 \in T PROVE n \in T
  <2>1. n \in 0 .. len /\ n - 1 \in 0 .. len /\ (n - 1) + 1 = n
    OBVIOUS
  <2>2. CASE n < m
    BY <2>1, <2>2
  <2>3. CASE n = m
    BY <2>1, <2>3
  <2>4. CASE n > m
    <3>1. ~(n - 1 < m)
        BY <2>4
    <3>2. g \in Segments(v, len)[n - 1]
        BY <1>2, <3>1
    <3>3. g \in Longer(g)
        BY DEF Longer
    <3>4. g \in Segments(v, len)[n]
        BY <2>1, <3>2, <3>3, OneMore
    <3>5. QED BY <2>1, <3>4
  <2>5. QED BY <2>2, <2>3, <2>4
<1>3. len \in T /\ ~(len < m)
  <2> HIDE DEF T
  <2>1. 0 .. len \subseteq T
    BY <1>1, <1>2, Upwards
  <2>2. QED BY <2>1
<1>4. QED BY <1>3

(* What the calls come to, from what their loops do.                       *)
LEMMA NewChainHas ==
    ASSUME NEW v, NEW len, NEW g \in Segments(v, len)[len]
    PROVE  /\ g.full => GiveBack(g) \in NewChain(v, len)
           /\ ~g.full => [v |-> g.v, slot |-> Head(g.chain)] \in NewChain(v, len)
<1> DEFINE r == IF g.full THEN GiveBack(g) ELSE [v |-> g.v, slot |-> Head(g.chain)]
<1>1. r \in NewChain(v, len)
    BY DEF NewChain
<1>2. QED BY <1>1

LEMMA PopHas ==
    ASSUME NEW v, NEW q \in FreeQueues(v)
    PROVE  /\ q = << >> => [v |-> v, slot |-> NoSpace] \in PopFree(v)
           /\ q # << >> => [v |-> [Link(v, EndOf(q), Eoc) EXCEPT !.q = Unqueued(q)],
                            slot |-> EndOf(q)] \in PopFree(v)
<1> DEFINE r == IF q = << >> THEN [v |-> v, slot |-> NoSpace]
                ELSE [v |-> [Link(v, EndOf(q), Eoc) EXCEPT !.q = SubSeq(q, 1, Len(q) - 1)],
                      slot |-> EndOf(q)]
<1>1. r \in PopFree(v)
    BY DEF PopFree
<1>2. QED BY <1>1 DEF Unqueued

LEMMA LongerHas ==
    ASSUME NEW g, ~g.full, NEW w, NEW x, [v |-> w, slot |-> x] \in PopFree(g.v)
    PROVE  /\ x = NoSpace => [v |-> w, chain |-> g.chain, full |-> TRUE] \in Longer(g)
           /\ x # NoSpace /\ g.chain = << >> => Grew(w, Append(g.chain, x)) \in Longer(g)
           /\ x # NoSpace /\ g.chain # << >> =>
                 Grew(Link(w, EndOf(g.chain), x), Append(g.chain, x)) \in Longer(g)
<1> DEFINE p == [v |-> w, slot |-> x]
           r == IF p.slot = NoSpace THEN [v |-> p.v, chain |-> g.chain, full |-> TRUE]
                ELSE [v |-> IF g.chain = << >> THEN p.v ELSE Link(p.v, EndOf(g.chain), p.slot),
                      chain |-> Append(g.chain, p.slot), full |-> FALSE]
<1>1. p \in PopFree(g.v) /\ p.slot = x /\ p.v = w
    OBVIOUS
<1>2. r \in Longer(g)
  <2> HIDE DEF p
  <2>1. QED BY <1>1 DEF Longer
<1> HIDE DEF p
<1>3. QED BY <1>1, <1>2 DEF Grew

LEMMA ResizeHas ==
    ASSUME NEW v, NEW s, NEW len, NEW c, c = ChainOf(v.fat, s)
    PROVE  /\ len = Len(c) => [v |-> v, slot |-> s] \in ResizeChain(v, s, len)
           /\ len # Len(c) /\ len < Len(c) =>
                 [v |-> FreeChain(Link(v, c[len], Eoc), c[len + 1]), slot |-> s]
                     \in ResizeChain(v, s, len)
           /\ len # Len(c) /\ ~(len < Len(c)) =>
                 \A n \in NewChain(v, len - Len(c)) :
                     [v |-> IF n.slot = NoSpace THEN n.v ELSE Link(n.v, EndOf(c), n.slot),
                      slot |-> n.slot] \in ResizeChain(v, s, len)
BY DEF ResizeChain

-----------------------------------------------------------------------------
(* One slot of fat32_free_chain                                            *)

LEMMA FreeChainIs ==
    ASSUME NEW v \in Volumes, NEW s
    PROVE  FreeChain(v, s) =
               [fat  |-> [x \in Slots |-> IF x \in Items(ChainOf(v.fat, s)) THEN FatFree ELSE v.fat[x]],
                q    |-> v.q,
                data |-> [x \in Slots |-> JunkCluster]]
<1>1. v.data = [x \in Slots |-> JunkCluster]
    BY DEF Volumes
<1>2. QED BY <1>1 DEF FreeChain

LEMMA LinkedIs ==
    ASSUME NEW v, NEW f, NEW q, NEW d, v = [fat |-> f, q |-> q, data |-> d], NEW x, NEW y
    PROVE  Link(v, x, y) = [fat |-> Wrote(f, x, y), q |-> q, data |-> d]
<1> DEFINE g == Wrote(v.fat, x, y)
<1>1. Link(v, x, y) = [v EXCEPT !.fat = g]
    BY DEF Link, Wrote
<1>2. v.fat = f
    OBVIOUS
<1> HIDE DEF g
<1>3. [v EXCEPT !.fat = g] = [fat |-> g, q |-> q, data |-> d]
    OBVIOUS
<1>4. QED BY <1>1, <1>2, <1>3 DEF g

LEMMA LinkHas ==
    ASSUME NEW v \in Volumes, NEW x, NEW y
    PROVE  Link(v, x, y) = [fat |-> Wrote(v.fat, x, y), q |-> v.q, data |-> v.data]
BY DEF Link, Wrote, Volumes

LEMMA FreesFirst ==
    ASSUME NEW v \in Volumes, NEW s, NEW c, RunsFrom(v.fat, s, c), NEW w, w = Link(v, s, FatFree)
    PROVE  /\ v.fat[s] = Eoc => w = FreeChain(v, s)
           /\ v.fat[s] # Eoc => FreeChain(w, v.fat[s]) = FreeChain(v, s)
<1> DEFINE y == v.fat[s]
           b == Back(c, 1)
<1>1. /\ v.fat \in Fats /\ c \in Seq(Slots) /\ Len(c) \in Nat /\ Len(c) >= 1 /\ c[1] = s
      /\ s \in Slots /\ ChainOf(v.fat, s) = c /\ v.data = [x \in Slots |-> JunkCluster]
    BY RunsUse, ChainIs DEF Volumes
<1>2. LinkMade(v, s, FatFree, w)
    BY <1>1, LinkIs
<1>3. /\ w \in Volumes /\ w.q = v.q /\ w.fat = Wrote(v.fat, s, FatFree)
      /\ w = [fat |-> Wrote(v.fat, s, FatFree), q |-> v.q, data |-> [x \in Slots |-> JunkCluster]]
    BY <1>1, <1>2, LinkHas DEF LinkMade
<1>4. FreeChain(v, s) =
          [fat  |-> [x \in Slots |-> IF x \in Items(c) THEN FatFree ELSE v.fat[x]],
           q    |-> v.q,
           data |-> [x \in Slots |-> JunkCluster]]
    BY <1>1, FreeChainIs
<1>5. ASSUME y = Eoc PROVE w = FreeChain(v, s)
  <2>1. Len(c) = 1
    BY <1>5, OneSlot
  <2>2. Items(c) = {s}
    BY <1>1, <2>1 DEF Items
  <2>3. Wrote(v.fat, s, FatFree) = [x \in Slots |-> IF x \in Items(c) THEN FatFree ELSE v.fat[x]]
    BY <1>1, <2>2 DEF Fats, Wrote
  <2>4. QED BY <1>3, <1>4, <2>3
<1>6. ASSUME y # Eoc PROVE FreeChain(w, y) = FreeChain(v, s)
  <2>1. 1 \in 1 .. Len(c)
    BY <1>1
  <2>2. /\ v.fat[c[1]] = Eoc <=> 1 = Len(c)
        /\ 1 # Len(c) => /\ 1 \in 1 .. Len(c) - 1 /\ v.fat[c[1]] = c[1 + 1]
    <3>1. \A k \in 1 .. Len(c) :
              /\ v.fat[c[k]] = Eoc <=> k = Len(c)
              /\ k # Len(c) => k \in 1 .. Len(c) - 1 /\ v.fat[c[k]] = c[k + 1]
        BY LinksIn
    <3>2. QED BY <2>1, <3>1
  <2>3. 1 \in 1 .. Len(c) - 1 /\ y = c[1 + 1]
    BY <1>1, <1>6, <2>2
  <2>4. Halves(v.fat, s, c, 1)
    BY <1>1, <2>3, RunsCut
  <2>5. /\ RunsFrom(v.fat, y, b) /\ Items(b) \subseteq Items(c) /\ s \notin Items(b)
    BY <1>1, <2>3, <2>4 DEF Halves
  <2>6. RunsFrom(w.fat, y, b)
    <3> HIDE DEF y, b
    <3>1. RunsFrom([v.fat EXCEPT ![s] = FatFree], y, b)
        BY <1>1, <2>5, RunsStayPut
    <3>2. QED BY <1>3, <3>1 DEF Wrote
  <2>7. ChainOf(w.fat, y) = b
    BY <2>6, ChainIs
  <2>8. Items(c) = {s} \cup Items(b)
    <3>1. ASSUME NEW i \in 1 .. Len(c) PROVE c[i] \in {s} \cup Items(b)
      <4>1. CASE i = 1
          BY <1>1, <4>1
      <4>2. CASE i # 1
        <5>1. i - 1 \in 1 .. Len(b) /\ b[i - 1] = c[i]
            BY <1>1, <4>2 DEF Back
        <5>2. QED BY <5>1 DEF Items
      <4>3. QED BY <4>1, <4>2
    <3>2. s \in Items(c)
        BY <1>1, <2>1 DEF Items
    <3>3. QED BY <2>5, <3>1, <3>2 DEF Items
  <2>9. FreeChain(w, y) =
          [fat  |-> [x \in Slots |-> IF x \in Items(b) THEN FatFree ELSE w.fat[x]],
           q    |-> v.q,
           data |-> [x \in Slots |-> JunkCluster]]
    BY <1>3, <2>7, FreeChainIs
  <2> HIDE DEF b
  <2>10. [x \in Slots |-> IF x \in Items(b) THEN FatFree ELSE w.fat[x]] =
            [x \in Slots |-> IF x \in Items(c) THEN FatFree ELSE v.fat[x]]
    BY <1>1, <1>3, <2>8 DEF Fats, Wrote
  <2>11. QED BY <1>4, <2>9, <2>10
<1>7. QED BY <1>5, <1>6

-----------------------------------------------------------------------------
(* The steps of a call come to its operator.  While no access fails, the   *)
(* call is on the way there: the volume is as it was, or one that the loop *)
(* of fat32_new_chain may have come to, or one from which what is still    *)
(* freed leads to a result.                                                *)

(* The slots the call takes if there is room, and has taken.               *)
Asked == IF call.op = "new" THEN call.want ELSE call.want - Len(ChainThen(call.file))

Took == IF call.head = None THEN << >> ELSE ChainNow(call.head)

ComeTo == Segments(before.vol, Asked)[Segment]

(* Round g of the loop is over, but for the queue, which may be filled.    *)
Refilled(g, w) ==
    /\ g.v = [w EXCEPT !.q = g.v.q]
    /\ w.q = g.v.q \/ w.q \in FreeQueues(g.v)

(* The operator for call c may come to w from b.                           *)
ComesTo(c, b, w) ==
    /\ c.op = "free" => w = FreeChain(b, c.file)
    /\ c.op = "new" =>
          [v |-> w, slot |-> IF c.answer = "success" THEN c.head ELSE NoSpace]
              \in NewChain(b, c.want)
    /\ c.op = "resize" =>
          \E r \in ResizeChain(b, c.file, c.want) :
              r.v = w /\ (r.slot = NoSpace <=> c.answer = "no_space")

OnTheWay ==
    /\ call.pc \in {"walk", "cut"} => vol = before.vol
    /\ call.pc = "idle" => ComesTo(call, before.vol, vol)
    /\ call.pc = "free" => ComesTo(call, before.vol, FreeChain(vol, call.curr))
    /\ call.pc \in Growing => Segment + call.len = Asked
    /\ call.pc = "pop" => \E g \in ComeTo : ~g.full /\ g.chain = Took /\ Refilled(g, vol)
    /\ call.pc = "link" =>
          \E g \in ComeTo : /\ ~g.full /\ g.chain = Took
                            /\ [v |-> vol, slot |-> call.curr] \in PopFree(g.v)
    /\ call.pc \in {"taken", "attach"} => Grew(vol, Took) \in ComeTo

ClearWay == before.clean => OnTheWay

SameAsked == call'.op = call.op /\ call'.file = call.file /\ call'.want = call.want

-----------------------------------------------------------------------------
(* The chain the call has taken so far, and how much it takes.             *)
LEMMA TookIs ==
    ASSUME ChainInv, call.pc \in Growing
    PROVE  /\ Took \in Seq(Slots) /\ Segment = Len(Took) /\ Segment \in Nat
           /\ call.head = None => Took = << >> /\ Segment = 0
           /\ call.head # None => /\ Took # << >> /\ Head(Took) = call.head /\ Took[1] = call.head
                                  /\ call.tail = EndOf(Took) /\ Segment > 0
<1>1. call.head # None => call.head \in Loose /\ call.tail = EndOf(ChainNow(call.head))
    BY GrowIs
<1>2. CASE call.head = None
    BY <1>2 DEF Took, Segment
<1>3. CASE call.head # None
  <2>1. /\ Took = ChainNow(call.head) /\ Segment = Len(Took) /\ call.tail = EndOf(Took)
    BY <1>1, <1>3 DEF Took, Segment
  <2>2. Took \in Seq(Slots) /\ Len(Took) \in Nat /\ Len(Took) >= 1 /\ Took[1] = call.head
    BY <1>1, <1>3, <2>1, RootsRun
  <2>3. QED BY <1>3, <2>1, <2>2
<1>4. QED BY <1>2, <1>3

LEMMA AskedIs ==
    ASSUME ChainInv, call.pc \in Growing, OnTheWay
    PROVE  /\ Asked \in Nat /\ Segment \in 0 .. Asked
           /\ call.len > 0 => Segment + 1 \in 0 .. Asked
           /\ call.op = "new" => Asked = call.want
           /\ call.op = "resize" =>
                 /\ Asked = call.want - Len(ChainThen(call.file))
                 /\ call.iter = EndOf(ChainThen(call.file))
                 /\ Asked > 0 => /\ call.want # Len(ChainThen(call.file))
                                 /\ ~(call.want < Len(ChainThen(call.file)))
<1>1. /\ call.op \in {"new", "resize"} /\ call.len \in Nat /\ call.want \in Nat
      /\ call.op = "resize" => /\ call.file \in heads /\ ChainNow(call.file) = ChainThen(call.file)
                               /\ call.iter = EndOf(ChainNow(call.file))
    BY GrowIs
<1>2. Segment \in Nat /\ Segment + call.len = Asked
    BY TookIs DEF OnTheWay
<1>3. call.op = "resize" => Len(ChainThen(call.file)) \in Nat
    BY <1>1, RootsRun
<1>4. /\ call.op = "new" => Asked = call.want
      /\ call.op = "resize" => Asked = call.want - Len(ChainThen(call.file))
    BY DEF Asked
<1>5. QED BY <1>1, <1>2, <1>3, <1>4

(* A round more.                                                           *)
LEMMA ComesToMore ==
    ASSUME ChainInv, call.pc \in Growing, OnTheWay, call.len > 0,
           NEW g \in ComeTo, NEW h \in Longer(g)
    PROVE  h \in Segments(before.vol, Asked)[Segment + 1]
<1>1. Asked \in Nat /\ Segment \in 0 .. Asked /\ Segment + 1 \in 0 .. Asked
    BY AskedIs
<1>2. g \in Segments(before.vol, Asked)[Segment]
    BY DEF ComeTo
<1>3. QED BY <1>1, <1>2, OneMore

(* A call that ends, or frees what it has, because there is no room.       *)
LEMMA NoRoomIs ==
    ASSUME ChainInv, call.pc \in Growing, OnTheWay, Asked > 0, NEW w,
           [v |-> w, slot |-> NoSpace] \in NewChain(before.vol, Asked),
           NEW c, c.op = call.op, c.want = call.want, c.file = call.file, c.answer = "no_space"
    PROVE  ComesTo(c, before.vol, w)
<1>1. call.op \in {"new", "resize"}
    BY GrowIs
<1>2. CASE call.op = "new"
    BY <1>2, AskedIs DEF ComesTo
<1>3. CASE call.op = "resize"
  <2> DEFINE n == [v |-> w, slot |-> NoSpace]
             d == ChainOf(before.vol.fat, call.file)
             r == [v |-> IF n.slot = NoSpace THEN n.v ELSE Link(n.v, EndOf(d), n.slot),
                   slot |-> n.slot]
  <2>1. Asked = call.want - Len(d) /\ call.want # Len(d) /\ ~(call.want < Len(d))
    BY <1>3, AskedIs DEF ChainThen
  <2>2. n \in NewChain(before.vol, call.want - Len(d))
    BY <2>1
  <2>3. r \in ResizeChain(before.vol, call.file, call.want)
    <3> HIDE DEF n, d
    <3>1. d = ChainOf(before.vol.fat, call.file)
        BY DEF d
    <3>2. QED BY <2>1, <2>2, <3>1, ResizeHas
  <2>4. r.v = w /\ r.slot = NoSpace
    OBVIOUS
  <2>5. QED BY <1>3, <2>3, <2>4 DEF ComesTo
<1>4. QED BY <1>1, <1>2, <1>3

(* When the loop has not begun: there is one volume to come to.            *)
LEMMA NotBegun ==
    ASSUME NEW v \in Volumes, NEW len \in Nat
    PROVE  \E g \in Segments(v, len)[0] : ~g.full /\ g.chain = << >> /\ Refilled(g, v)
<1>1. Grew(v, << >>) \in Segments(v, len)[0]
    BY SegmentsAre
<1>2. v = [v EXCEPT !.q = v.q]
    BY DEF Volumes
<1>3. QED BY <1>1, <1>2 DEF Grew, Refilled

-----------------------------------------------------------------------------
(* The steps                                                               *)

(* A call that cannot use the device has no way to go.                     *)
LEMMA WayFails == ASSUME AccessFails, ChainTypes PROVE ClearWay'
<1>1. before'.clean = FALSE
    BY DEF AccessFails, ChainTypes, Histories
<1>2. QED BY <1>1 DEF ClearWay

LEMMA WayNewCall == ASSUME ChainInv, NewCall PROVE ClearWay'
<1>1. PICK len \in 1 .. MaxLen : StartCall(Call("new", None, len, "pop"))
    BY DEF NewCall
<1>2. /\ vol' = vol /\ before'.vol = vol /\ call'.op = "new" /\ call'.pc = "pop"
      /\ call'.head = None /\ call'.len = len /\ call'.want = len /\ len \in Nat
    BY <1>1, ChainsAssumption DEF StartCall, Call
<1>3. vol \in Volumes
    BY DEF ChainInv, ChainTypes
<1>4. Segment' = 0 /\ Asked' = len /\ Took' = << >>
    BY <1>2 DEF Segment, Asked, Took
<1>5. ComeTo' = Segments(vol, len)[0]
    BY <1>2, <1>4 DEF ComeTo
<1>6. \E g \in ComeTo' : ~g.full /\ g.chain = Took' /\ Refilled(g, vol')
    BY <1>2, <1>3, <1>4, <1>5, NotBegun
<1>7. Segment' + call'.len = Asked'
    BY <1>2, <1>4
<1>8. QED BY <1>2, <1>6, <1>7 DEF ClearWay, OnTheWay

LEMMA WayResizeCall == ASSUME ChainInv, ResizeCall PROVE ClearWay'
<1>1. PICK s \in heads, len \in 1 .. MaxLen : StartCall(Call("resize", s, len, "walk"))
    BY DEF ResizeCall
<1>2. vol' = before'.vol /\ call'.pc = "walk"
    BY <1>1 DEF StartCall, Call
<1>3. QED BY <1>2 DEF ClearWay, OnTheWay, Growing

LEMMA WayFreeCall == ASSUME ChainInv, FreeCall PROVE ClearWay'
<1>1. PICK s \in heads : StartCall(Call("free", s, 0, "free"))
    BY DEF FreeCall
<1>2. /\ vol' = before'.vol /\ call'.pc = "free" /\ call'.op = "free"
      /\ call'.file = s /\ call'.curr = s
    BY <1>1 DEF StartCall, Call
<1>3. ComesTo(call', before'.vol, FreeChain(vol', call'.curr))
    BY <1>2 DEF ComesTo
<1>4. QED BY <1>2, <1>3 DEF ClearWay, OnTheWay, Growing

LEMMA WayFollowChain == ASSUME ChainInv, ChainInv', ClearWay, FollowChain PROVE ClearWay'
<1>1. call.pc = "walk" /\ vol' = vol /\ call \in CallRecord /\ ChainTypes
    BY DEF FollowChain, Doing, ChainInv, ChainTypes
<1>2. call.op = "resize" /\ call.head = None /\ call.file \in heads /\ vol \in Volumes
    BY <1>1 DEF ChainInv, WalkOK, ResizeOK, ChainTypes
<1>3. CASE AccessFails
    BY <1>1, <1>3, WayFails
<1>4. SUFFICES ASSUME Accessed, before.clean PROVE OnTheWay'
    BY <1>3 DEF FollowChain, ClearWay, Accessed
<1>5. vol = before.vol /\ vol' = before'.vol /\ before'.vol = before.vol
    BY <1>1, <1>4 DEF ClearWay, OnTheWay, Accessed
<1>6. CASE Ends("success")
  <2>1. call'.pc = "idle" /\ call'.answer = "success" /\ SameCall
    BY <1>1, <1>6, EndsIs DEF ChainAnswers, SameCall
  <2>2. Len(ChainNow(call.file)') = call'.want
    BY <1>2, <2>1 DEF ChainInv, ResizeOK, SameCall
  <2>3. call'.want = Len(ChainOf(before.vol.fat, call.file))
    BY <1>5, <2>1, <2>2 DEF ChainNow, SameCall
  <2>4. [v |-> before.vol, slot |-> call.file]
            \in ResizeChain(before.vol, call.file, call'.want)
    BY <2>3, ResizeHas
  <2>5. call.file # NoSpace
    BY <1>2, SlotsAre DEF ChainInv, ChainTypes, NoSpace, None
  <2>6. ComesTo(call', before'.vol, vol')
    BY <1>2, <1>5, <2>1, <2>4, <2>5 DEF ComesTo, SameCall
  <2>7. QED BY <2>1, <2>6 DEF OnTheWay, Growing
<1>7. CASE \E x : Goes([call EXCEPT !.pc = "cut", !.curr = x])
  <2>1. call'.pc = "cut"
    BY <1>1, <1>7 DEF Goes, CallRecord
  <2>2. QED BY <1>5, <2>1 DEF OnTheWay, Growing
<1>8. CASE \E x : Goes([call EXCEPT !.iter = x, !.links = @ + 1])
  <2>1. call'.pc = "walk"
    BY <1>1, <1>8 DEF Goes, CallRecord
  <2>2. QED BY <1>5, <2>1 DEF OnTheWay, Growing
<1>9. CASE Goes([call EXCEPT !.pc = "pop", !.len = @ - call.links])
  <2>1. call'.pc = "pop" /\ call'.pc \in Growing /\ call'.head = None /\ call'.op = "resize"
    BY <1>1, <1>2, <1>9 DEF Goes, CallRecord, Growing
  <2>2. /\ call' \in CallRecord /\ call'.len \in Nat /\ call'.file \in heads'
        /\ ChainNow(call.file)' = ChainThen(call.file)'
        /\ Len(ChainNow(call.file)') + call'.len + Segment' = call'.want
    BY <2>1 DEF ChainInv, ChainTypes, GrowOK, ResizeOK, CallRecord
  <2>3. Segment' = 0 /\ Took' = << >>
    BY <2>1 DEF Segment, Took
  <2>4. Len(ChainNow(call.file)') \in Nat
    <3>1. call'.file = call.file /\ ChainNow(call.file)' = ChainNow(call.file)
        BY <1>1, <1>9 DEF Goes, CallRecord, ChainNow
    <3>2. QED BY <1>2, <3>1, RootsRun
  <2>5. Asked' = call'.len
    BY <2>1, <2>2, <2>3, <2>4 DEF Asked
  <2>6. ComeTo' = Segments(vol, call'.len)[0]
    BY <1>5, <2>3, <2>5 DEF ComeTo
  <2>7. \E g \in ComeTo' : ~g.full /\ g.chain = Took' /\ Refilled(g, vol')
    BY <1>1, <1>2, <2>2, <2>3, <2>6, NotBegun
  <2>8. Segment' + call'.len = Asked'
    BY <2>2, <2>3, <2>5
  <2>9. QED BY <2>1, <2>7, <2>8 DEF OnTheWay
<1>10. QED
  <2> DEFINE next == vol.fat[call.iter]
  <2>1. \/ AccessFails
        \/ IF call.links = call.len
           THEN IF next = Eoc THEN Ends("success") ELSE Goes([call EXCEPT !.pc = "cut", !.curr = next])
           ELSE IF next = Eoc
                THEN Goes([call EXCEPT !.pc = "pop", !.len = @ - call.links])
                ELSE Goes([call EXCEPT !.iter = next, !.links = @ + 1])
    BY DEF FollowChain
  <2>2. ~AccessFails
    BY <1>1, <1>4 DEF AccessFails, Accessed, ChainTypes, Histories
  <2> HIDE DEF next
  <2>3. QED BY <2>1, <2>2, <1>6, <1>7, <1>8, <1>9

LEMMA WayCutChain == ASSUME ChainInv, ClearWay, CutChain PROVE ClearWay'
<1> DEFINE f == call.file
           d == ChainOf(before.vol.fat, f)
           w == call.want
<1>1. call.pc = "cut" /\ call \in CallRecord /\ ChainTypes
    BY DEF CutChain, Doing, ChainInv, ChainTypes
<1>2. CASE AccessFails
    BY <1>1, <1>2, WayFails
<1>3. SUFFICES ASSUME Accessed, CutOff, Frees(call.curr, "success"), before.clean PROVE OnTheWay'
    BY <1>2 DEF CutChain, ClearWay, Accessed
<1>4. vol = before.vol /\ before'.vol = before.vol
    BY <1>1, <1>3 DEF ClearWay, OnTheWay, Accessed
<1>5. /\ call.op = "resize" /\ w \in 1 .. Len(d) - 1 /\ call.iter = d[w] /\ call.curr = d[w + 1]
      /\ f \in heads
    BY <1>1, <1>4 DEF ChainInv, CutOK, ResizeOK, ChainNow
<1>6. f # NoSpace /\ Len(d) \in Nat /\ f \in Nat
  <2>1. f \in Slots /\ Len(ChainNow(f)) \in Nat
    BY <1>5, RootsRun
  <2>2. QED BY <1>4, <2>1, SlotsAre DEF NoSpace, None, ChainNow
<1>7. call'.pc = "free" /\ call'.answer = "success" /\ call'.curr = call.curr /\ SameCall
    BY <1>1, <1>3 DEF Frees, CallRecord, SameCall
<1>8. vol' = Link(before.vol, d[w], Eoc)
    BY <1>3, <1>4, <1>5 DEF CutOff
<1> HIDE DEF d, f, w
<1>9. [v |-> FreeChain(vol', d[w + 1]), slot |-> f] \in ResizeChain(before.vol, f, w)
  <2>1. w # Len(d) /\ w < Len(d)
    BY <1>5, <1>6
  <2>2. QED BY <1>8, <2>1, ResizeHas DEF d
<1>10. ComesTo(call', before'.vol, FreeChain(vol', call'.curr))
  <2> DEFINE r == [v |-> FreeChain(vol', d[w + 1]), slot |-> f]
  <2>1. call'.op = "resize" /\ call'.file = f /\ call'.want = w /\ call'.curr = d[w + 1]
    BY <1>5, <1>7 DEF SameCall, f, w
  <2>2. r.v = FreeChain(vol', call'.curr) /\ r.slot # NoSpace
    BY <1>6, <2>1
  <2> HIDE DEF r
  <2>3. r \in ResizeChain(before'.vol, call'.file, call'.want)
    BY <1>4, <1>9, <2>1 DEF r
  <2>4. QED BY <1>7, <2>1, <2>2, <2>3 DEF ComesTo
<1>11. QED BY <1>7, <1>10 DEF OnTheWay, Growing

LEMMA WayPopulate == ASSUME ChainInv, ClearWay, Populate PROVE ClearWay'
<1>1. /\ call.pc = "pop" /\ call.pc \in Growing /\ vol.q = << >> /\ call \in CallRecord
      /\ ChainTypes /\ vol \in Volumes /\ call.len > 0
  <2>1. call.pc = "pop" /\ call.pc \in Growing
    BY DEF Populate, Doing, Growing
  <2>2. QED BY <2>1, GrowIs DEF Populate, ChainInv
<1>2. CASE AccessFails
    BY <1>1, <1>2, WayFails
<1>3. SUFFICES ASSUME Accessed, before.clean,
                      NEW q \in FreeQueues(vol), vol' = [vol EXCEPT !.q = q],
                      IF q # << >> THEN UNCHANGED call
                      ELSE IF call.head = None THEN Ends("no_space")
                           ELSE Frees(call.head, "no_space")
               PROVE  OnTheWay'
    BY <1>2 DEF Populate, ClearWay, Accessed
<1>4. before' = before /\ OnTheWay
    BY <1>3 DEF ClearWay, Accessed
<1>5. PICK g \in ComeTo : ~g.full /\ g.chain = Took /\ Refilled(g, vol)
    BY <1>1, <1>4 DEF OnTheWay
<1>6. g.v = vol
  <2>1. g.v = [vol EXCEPT !.q = g.v.q] /\ (vol.q = g.v.q \/ vol.q \in FreeQueues(g.v))
    BY <1>5 DEF Refilled
  <2>2. g.v.q # << >> => FreeQueues(g.v) = {g.v.q}
    BY DEF FreeQueues
  <2>3. g.v.q = vol.q
    BY <1>1, <2>1, <2>2
  <2>4. vol = [vol EXCEPT !.q = vol.q]
    BY <1>1 DEF Volumes
  <2>5. QED BY <2>1, <2>3, <2>4
<1>7. q \in Seq(Slots)
    BY <1>1, FreeQueuesAre
<1>8. vol' \in Volumes /\ vol'.fat = vol.fat /\ vol'.q = q /\ vol = [vol' EXCEPT !.q = vol.q]
    BY <1>1, <1>3, <1>7 DEF Volumes
<1>9. CASE q # << >>
  <2>1. call' = call
    BY <1>3, <1>9
  <2>2. Segment' = Segment /\ Asked' = Asked /\ Took' = Took /\ ComeTo' = ComeTo
    BY <1>4, <1>8, <2>1 DEF Segment, Asked, Took, ComeTo, ChainNow, ChainThen
  <2>3. Refilled(g, vol')
    BY <1>3, <1>6, <1>8 DEF Refilled
  <2>4. Segment' + call'.len = Asked'
    BY <1>1, <1>4, <2>1, <2>2 DEF OnTheWay
  <2>5. QED BY <1>1, <1>5, <2>1, <2>2, <2>3, <2>4 DEF OnTheWay
<1>10. CASE q = << >>
  <2>1. vol' = vol
    BY <1>1, <1>3, <1>8, <1>10
  <2> DEFINE h == [v |-> vol, chain |-> Took, full |-> TRUE]
  <2>2. h \in Longer(g)
    <3>1. [v |-> vol, slot |-> NoSpace] \in PopFree(vol)
        BY <1>10, PopHas
    <3>2. QED BY <1>5, <1>6, <3>1, LongerHas
  <2>3. h \in Segments(before.vol, Asked)[Segment + 1]
    <3> HIDE DEF h
    <3>1. QED BY <1>1, <1>4, <2>2, ComesToMore
  <2>4. h \in Segments(before.vol, Asked)[Asked]
    <3>1. Asked \in Nat /\ Segment + 1 \in 0 .. Asked
        BY <1>1, <1>4, AskedIs
    <3>2. h.full
        OBVIOUS
    <3> HIDE DEF h
    <3>3. QED BY <2>3, <3>1, <3>2, StaysFull
  <2>5. GiveBack(h) \in NewChain(before.vol, Asked) /\ Asked > 0
    <3>1. h.full
        OBVIOUS
    <3> HIDE DEF h
    <3>2. Asked \in Nat /\ Segment \in Nat /\ Segment + 1 \in 0 .. Asked
        BY <1>1, <1>4, AskedIs, TookIs
    <3>3. Asked > 0
        BY <3>2
    <3>4. GiveBack(h) \in NewChain(before.vol, Asked)
        BY <2>4, <3>1, NewChainHas
    <3>5. QED BY <3>3, <3>4
  <2>6. CASE call.head = None
    <3>1. GiveBack(h) = [v |-> vol, slot |-> NoSpace]
        BY <1>1, <2>6, TookIs DEF GiveBack
    <3>2. call' \in CallRecord /\ call'.pc = "idle" /\ call'.answer = "no_space" /\ SameCall
        BY <1>1, <1>3, <1>10, <2>6, EndsIs DEF ChainAnswers, SameCall
    <3>3. ComesTo(call', before.vol, vol)
        BY <1>1, <1>4, <2>5, <3>1, <3>2, NoRoomIs DEF SameCall
    <3>4. QED BY <1>4, <2>1, <3>2, <3>3 DEF OnTheWay, Growing
  <2>7. CASE call.head # None
    <3>1. GiveBack(h) = [v |-> FreeChain(vol, call.head), slot |-> NoSpace]
        BY <1>1, <2>7, TookIs DEF GiveBack
    <3>2. /\ call' \in CallRecord /\ call'.pc = "free" /\ call'.answer = "no_space" /\ SameCall
          /\ call'.curr = call.head
        <4>1. call.head \in Nat /\ Frees(call.head, "no_space")
            BY <1>1, <1>3, <1>10, <2>7 DEF CallRecord
        <4>2. QED BY <1>1, <4>1, FreesIs DEF ChainAnswers, SameCall
    <3>3. ComesTo(call', before.vol, FreeChain(vol, call.head))
        BY <1>1, <1>4, <2>5, <3>1, <3>2, NoRoomIs DEF SameCall
    <3>4. QED BY <1>4, <2>1, <3>2, <3>3 DEF OnTheWay, Growing
  <2>8. QED BY <2>6, <2>7
<1>11. QED BY <1>9, <1>10

LEMMA AppendIs ==
    ASSUME NEW S, NEW x \in S, NEW c \in Seq(S), NEW d \in Seq(S), Len(d) = 1, d[1] = x
    PROVE  d = << x >> /\ d = Append(<< >>, x) /\ c \o d = Append(c, x)
<1>1. d = << x >>
    OBVIOUS
<1>2. QED BY <1>1

LEMMA WayTake == ASSUME ChainInv, ClearWay, Take PROVE ClearWay'
<1> DEFINE x == EndOf(vol.q)
           R == heads \cup Loose
           p == [Link(vol, x, Eoc) EXCEPT !.q = Unqueued(vol.q)]
<1>1. /\ call.pc = "pop" /\ call.pc \in Growing /\ vol.q # << >> /\ call \in CallRecord
      /\ ChainTypes /\ vol \in Volumes /\ call.len > 0 /\ call.len \in Nat /\ vol.fat \in Fats
      /\ vol.q \in Seq(Slots)
  <2>1. call.pc = "pop" /\ call.pc \in Growing
    BY DEF Take, Doing, Growing
  <2>2. QED BY <2>1, GrowIs DEF Take, ChainInv
<1>2. CASE AccessFails
    BY <1>1, <1>2, WayFails
<1>3. SUFFICES ASSUME Accessed, before.clean, vol' = p,
                      IF call.head = None
                      THEN Goes([call EXCEPT !.head = x, !.tail = x, !.len = @ - 1, !.pc = "taken"])
                      ELSE Goes([call EXCEPT !.curr = x, !.pc = "link"])
               PROVE  OnTheWay'
  <2>1. Link(vol, x, Eoc).q = vol.q
    BY <1>1, LinkHas
  <2>2. QED BY <1>2, <2>1 DEF Take, ClearWay, Accessed
<1>4. before' = before /\ OnTheWay
    BY <1>3 DEF ClearWay, Accessed
<1>5. PICK g \in ComeTo : ~g.full /\ g.chain = Took /\ Refilled(g, vol)
    BY <1>1, <1>4 DEF OnTheWay
<1>6. x \in Slots /\ vol.fat[x] = FatFree /\ x # NoSpace /\ x # None
  <2>1. x \in Slots /\ x \in Items(vol.q)
    BY <1>1, UnqueuedIs DEF ChainInv, Queued
  <2>2. QED BY <2>1, SlotsAre DEF ChainInv, Queued, NoSpace, None
<1>7. [v |-> vol', slot |-> x] \in PopFree(g.v)
  <2>1. g.v = [vol EXCEPT !.q = g.v.q] /\ (vol.q = g.v.q \/ vol.q \in FreeQueues(g.v))
    BY <1>5 DEF Refilled
  <2>2. vol.q \in FreeQueues(g.v)
    BY <1>1, <2>1 DEF FreeQueues
  <2>3. [Link(g.v, x, Eoc) EXCEPT !.q = Unqueued(vol.q)] = p
    <3> DEFINE k == g.v.q
               u == [vol EXCEPT !.q = k]
    <3>1. u.fat = vol.fat /\ u.data = vol.data /\ u = [fat |-> vol.fat, q |-> k, data |-> vol.data]
        BY <1>1 DEF Volumes
    <3>2. Link(u, x, Eoc) = [fat |-> Wrote(vol.fat, x, Eoc), q |-> k, data |-> vol.data]
      <4> HIDE DEF u, k, x
      <4>1. QED BY <3>1, LinkedIs
    <3>3. Link(vol, x, Eoc) = [fat |-> Wrote(vol.fat, x, Eoc), q |-> vol.q, data |-> vol.data]
        BY <1>1, LinkHas
    <3>4. [Link(u, x, Eoc) EXCEPT !.q = Unqueued(vol.q)] = p
        BY <3>2, <3>3
    <3> HIDE DEF p, x
    <3>5. QED BY <2>1, <3>4
  <2>4. [v |-> [Link(g.v, x, Eoc) EXCEPT !.q = Unqueued(vol.q)], slot |-> x] \in PopFree(g.v)
    BY <1>1, <2>2, PopHas
  <2>5. QED BY <1>3, <2>3, <2>4
<1>8. LinkMade(vol, x, Eoc, Link(vol, x, Eoc)) /\ vol'.fat = Wrote(vol.fat, x, Eoc)
  <2>1. LinkMade(vol, x, Eoc, Link(vol, x, Eoc))
    BY <1>1, <1>6, LinkIs
  <2>2. QED BY <1>3, <2>1 DEF LinkMade, Volumes
<1>9. HasTaken(vol.fat, R, x, vol'.fat)
  <2>1. Taking(vol.fat, R, x, vol'.fat)
    BY <1>1, <1>6, <1>8 DEF Taking, ChainInv, Trees
  <2>2. QED BY <2>1, ForestTakes
<1>10. CASE call.head = None
  <2>1. /\ call'.head = x /\ call'.len = call.len - 1 /\ call'.pc = "taken" /\ SameAsked
    BY <1>1, <1>3, <1>10 DEF Goes, CallRecord, SameAsked
  <2>2. ChainNow(call.head)' = << x >>
    BY <1>9, <2>1 DEF HasTaken, ChainNow
  <2>3. Took = << >> /\ Segment = 0 /\ Took' = << x >> /\ Segment' = 1
    BY <1>1, <1>6, <1>10, <2>1, <2>2, TookIs DEF Took, Segment
  <2>4. Asked' = Asked
    BY <1>4, <2>1 DEF Asked, ChainThen, SameAsked
  <2>5. Grew(vol', Append(<< >>, x)) \in Longer(g)
    BY <1>5, <1>6, <1>7, <2>3, LongerHas
  <2>6. Grew(vol', Took') \in ComeTo'
    <3>1. Grew(vol', Append(<< >>, x)) \in Segments(before.vol, Asked)[Segment + 1]
        BY <1>1, <1>4, <2>5, ComesToMore
    <3>2. Append(<< >>, x) = << x >>
        OBVIOUS
    <3>3. QED BY <1>4, <2>3, <2>4, <3>1, <3>2 DEF ComeTo
  <2>7. Segment' + call'.len = Asked'
    BY <1>1, <1>4, <2>1, <2>3, <2>4 DEF OnTheWay
  <2>8. QED BY <2>1, <2>6, <2>7 DEF OnTheWay
<1>11. CASE call.head # None
  <2>1. /\ call'.head = call.head /\ call'.len = call.len /\ call'.pc = "link" /\ call'.curr = x
        /\ SameAsked
    BY <1>1, <1>3, <1>11 DEF Goes, CallRecord, SameAsked
  <2>2. ChainNow(call.head)' = ChainNow(call.head)
    BY <1>1, <1>9, <1>11, <2>1, GrowIs DEF HasTaken, ChainNow
  <2>3. Took' = Took /\ Segment' = Segment
    BY <2>1, <2>2 DEF Took, Segment
  <2>4. Asked' = Asked /\ ComeTo' = ComeTo
    BY <1>4, <2>1, <2>3 DEF Asked, ChainThen, SameAsked, ComeTo
  <2>5. Segment' + call'.len = Asked'
    BY <1>1, <1>4, <2>1, <2>3, <2>4 DEF OnTheWay
  <2>6. [v |-> vol', slot |-> call'.curr] \in PopFree(g.v)
    BY <1>7, <2>1
  <2>7. QED BY <1>5, <2>1, <2>3, <2>4, <2>5, <2>6 DEF OnTheWay
<1>12. QED BY <1>10, <1>11

LEMMA WayLinkNext == ASSUME ChainInv, ClearWay, LinkNext PROVE ClearWay'
<1> DEFINE h == call.head
           t == call.curr
           x == call.tail
           R == heads \cup {h, t}
<1>1. /\ call.pc = "link" /\ call.pc \in Growing /\ call \in CallRecord /\ ChainTypes
      /\ vol \in Volumes /\ vol.fat \in Fats /\ call.len > 0 /\ call.len \in Nat
      /\ h # None /\ h \in Loose /\ h \in Slots \ heads /\ x = EndOf(ChainNow(h))
  <2>1. call.pc = "link" /\ call.pc \in Growing
    BY DEF LinkNext, Doing, Growing
  <2>2. QED BY <2>1, GrowIs DEF ChainInv
<1>2. CASE AccessFails
    BY <1>1, <1>2, WayFails
<1>3. SUFFICES ASSUME Accessed, before.clean, vol' = Link(vol, x, t),
                      Goes([call EXCEPT !.tail = NewTail(call), !.len = @ - 1, !.pc = "taken"])
               PROVE  OnTheWay'
    BY <1>2 DEF LinkNext, ClearWay, Accessed
<1>4. before' = before /\ OnTheWay
    BY <1>3 DEF ClearWay, Accessed
<1>5. PICK g \in ComeTo : /\ ~g.full /\ g.chain = Took
                          /\ [v |-> vol, slot |-> t] \in PopFree(g.v)
    BY <1>1, <1>4 DEF OnTheWay
<1>6. /\ Loose = {h, t} /\ Forest(vol.fat, R) /\ t \in Slots \ heads /\ h # t
      /\ vol.fat[t] = Eoc /\ t # NoSpace
  <2>1. Loose = {h, t}
    BY <1>1 DEF Loose
  <2>2. Trees /\ GrowOK
    BY DEF ChainInv
  <2>3. vol.fat[t] = Eoc
    BY <1>1, <2>2 DEF GrowOK
  <2>4. Forest(vol.fat, R) /\ t \in Slots \ heads /\ h # t
    BY <1>1, <2>1, <2>2 DEF Trees
  <2>5. t # NoSpace
    BY <2>4, SlotsAre DEF NoSpace, None
  <2>6. QED BY <2>1, <2>3, <2>4, <2>5
<1>7. x \in Slots
    BY <1>1, RootsRun
<1>8. HasJoined(vol.fat, R, h, t, vol'.fat)
  <2>1. LinkMade(vol, x, t, vol')
    BY <1>1, <1>3, <1>6, <1>7, LinkIs
  <2>2. Joining(vol.fat, R, h, t, vol'.fat)
    BY <1>1, <1>6, <2>1 DEF Joining, LinkMade, ChainNow
  <2>3. QED BY <2>2, ForestJoins
<1>9. /\ Took \in Seq(Slots) /\ Took # << >> /\ Took = ChainNow(h) /\ EndOf(Took) = x
      /\ Segment = Len(Took) /\ Segment \in Nat
    BY <1>1, TookIs DEF Took
<1>10. ChainNow(h) \o ChainNow(t) = Append(Took, t)
  <2>1. /\ RunsFrom(vol.fat, t, ChainNow(t)) /\ ChainNow(t) \in Seq(Slots) /\ ChainNow(t)[1] = t
    BY <1>6, RootsRun
  <2>2. Len(ChainNow(t)) = 1
    BY <1>6, <2>1, OneSlot
  <2> HIDE DEF t
  <2>3. t \in Slots
    BY <1>6
  <2>4. QED BY <1>9, <2>1, <2>2, <2>3, AppendIs
<1>11. /\ call'.head = h /\ call'.len = call.len - 1 /\ call'.pc = "taken" /\ SameAsked
    BY <1>1, <1>3 DEF Goes, CallRecord, SameAsked
<1>12. Took' = Append(Took, t)
  <2>1. Took' = ChainOf(vol'.fat, h)
    BY <1>1, <1>11 DEF Took, ChainNow
  <2>2. QED BY <1>8, <1>10, <2>1 DEF HasJoined, ChainNow
<1>13. Segment' = Segment + 1
  <2>1. Segment' = Len(Took')
    BY <1>1, <1>11 DEF Took, Segment
  <2>2. Len(Append(Took, t)) = Len(Took) + 1
    BY <1>6, <1>9
  <2>3. QED BY <1>9, <1>12, <2>1, <2>2
<1>14. Asked' = Asked
    BY <1>4, <1>11 DEF Asked, ChainThen, SameAsked
<1>15. Grew(vol', Took') \in ComeTo'
  <2>1. Grew(Link(vol, EndOf(Took), t), Append(Took, t)) \in Longer(g)
    BY <1>5, <1>6, <1>9, LongerHas
  <2>2. Grew(vol', Took') \in Longer(g)
    BY <1>3, <1>9, <1>12, <2>1
  <2>3. Grew(vol', Took') \in Segments(before.vol, Asked)[Segment + 1]
    BY <1>1, <1>4, <2>2, ComesToMore
  <2>4. QED BY <1>4, <1>13, <1>14, <2>3 DEF ComeTo
<1>16. Segment' + call'.len = Asked'
  <2>1. Segment + call.len = Asked
    BY <1>1, <1>4 DEF OnTheWay
  <2>2. QED BY <1>1, <1>9, <1>11, <1>13, <1>14, <2>1
<1>17. QED BY <1>11, <1>15, <1>16 DEF OnTheWay

(* What the loop comes to when it has all its slots.                       *)
LEMMA AllTaken ==
    ASSUME ChainInv, call.pc \in {"taken", "attach"}, call.len = 0, OnTheWay
    PROVE  /\ [v |-> vol, slot |-> call.head] \in NewChain(before.vol, Asked)
           /\ call.head # None /\ Asked > 0 /\ Asked \in Nat
<1>1. call.pc \in Growing /\ call.head # None
    BY GrowIs DEF Growing
<1>2. Segment + call.len = Asked /\ Grew(vol, Took) \in ComeTo
    BY <1>1 DEF OnTheWay
<1>3. Segment \in Nat /\ Segment > 0 /\ Head(Took) = call.head
    BY <1>1, TookIs
<1>4. Segment = Asked
    BY <1>2, <1>3
<1> DEFINE g == Grew(vol, Took)
<1>5. g \in Segments(before.vol, Asked)[Asked]
    BY <1>2, <1>4 DEF ComeTo
<1>6. ~g.full /\ g.v = vol /\ g.chain = Took
    BY DEF Grew
<1> HIDE DEF g
<1>7. [v |-> g.v, slot |-> Head(g.chain)] \in NewChain(before.vol, Asked)
    BY <1>5, <1>6, NewChainHas
<1>8. QED BY <1>1, <1>3, <1>4, <1>6, <1>7

LEMMA WayHaveSlot == ASSUME ChainInv, ClearWay, HaveSlot PROVE ClearWay'
<1>1. /\ call.pc = "taken" /\ call.pc \in Growing /\ vol' = vol /\ before' = before
      /\ call \in CallRecord /\ vol \in Volumes
    BY DEF HaveSlot, Doing, Growing, ChainInv, ChainTypes
<1>2. SUFFICES ASSUME before.clean PROVE OnTheWay'
    BY <1>1 DEF ClearWay
<1>3. OnTheWay
    BY <1>2 DEF ClearWay
<1>4. Grew(vol, Took) \in ComeTo /\ Segment + call.len = Asked
    BY <1>1, <1>3 DEF OnTheWay
<1>5. ASSUME NEW place \in {"pop", "attach"}, Goes([call EXCEPT !.pc = place])
      PROVE  /\ call'.pc = place /\ Segment' + call'.len = Asked'
             /\ Took' = Took /\ ComeTo' = ComeTo
  <2>1. /\ call'.pc = place /\ call'.len = call.len /\ call'.head = call.head /\ SameAsked
    BY <1>1, <1>5 DEF Goes, CallRecord, SameAsked
  <2>2. Segment' = Segment /\ Took' = Took /\ Asked' = Asked
    BY <1>1, <2>1 DEF Segment, Took, Asked, ChainNow, ChainThen, SameAsked
  <2>3. QED BY <1>1, <1>4, <2>1, <2>2 DEF ComeTo
<1>6. CASE call.len > 0 /\ Goes([call EXCEPT !.pc = "pop"])
  <2>1. call'.pc = "pop" /\ Segment' + call'.len = Asked' /\ Took' = Took /\ ComeTo' = ComeTo
    BY <1>5, <1>6
  <2> DEFINE g == Grew(vol, Took)
  <2>2. ~g.full /\ g.chain = Took /\ g.v = vol
    BY DEF Grew
  <2>3. vol = [vol EXCEPT !.q = vol.q]
    BY <1>1 DEF Volumes
  <2> HIDE DEF g
  <2>4. Refilled(g, vol')
    BY <1>1, <2>2, <2>3 DEF Refilled
  <2>5. g \in ComeTo
    BY <1>4 DEF g
  <2>6. QED BY <2>1, <2>2, <2>4, <2>5 DEF OnTheWay
<1>7. CASE call.len = 0 /\ call.op = "new" /\ Ends("success")
  <2>1. /\ [v |-> vol, slot |-> call.head] \in NewChain(before.vol, Asked)
        /\ Asked = call.want
    BY <1>1, <1>3, <1>7, AllTaken, AskedIs
  <2>2. call'.pc = "idle" /\ call'.answer = "success" /\ SameCall
    BY <1>1, <1>7, EndsIs DEF ChainAnswers, SameCall
  <2>3. ComesTo(call', before'.vol, vol')
    BY <1>1, <1>7, <2>1, <2>2 DEF ComesTo, SameCall
  <2>4. QED BY <2>2, <2>3 DEF OnTheWay, Growing
<1>8. CASE call.len = 0 /\ call.op = "resize" /\ Goes([call EXCEPT !.pc = "attach"])
  <2>1. /\ call'.pc = "attach" /\ Segment' + call'.len = Asked' /\ Took' = Took
        /\ ComeTo' = ComeTo
    BY <1>5, <1>8
  <2>2. QED BY <1>1, <1>4, <2>1 DEF OnTheWay
<1>9. QED BY <1>6, <1>7, <1>8 DEF HaveSlot

LEMMA WayAttach == ASSUME ChainInv, ClearWay, Attach PROVE ClearWay'
<1> DEFINE d == ChainOf(before.vol.fat, call.file)
           n == [v |-> vol, slot |-> call.head]
           r == [v |-> IF n.slot = NoSpace THEN n.v ELSE Link(n.v, EndOf(d), n.slot),
                 slot |-> n.slot]
<1>1. /\ call.pc = "attach" /\ call.pc \in Growing /\ call \in CallRecord /\ ChainTypes
      /\ call.op = "resize" /\ call.len = 0
  <2>1. call.pc = "attach" /\ call.pc \in Growing
    BY DEF Attach, Doing, Growing
  <2>2. QED BY <2>1, GrowIs DEF ChainInv
<1>2. CASE AccessFails
    BY <1>1, <1>2, WayFails
<1>3. SUFFICES ASSUME Accessed, before.clean, vol' = Link(vol, call.iter, call.head), Ends("success")
               PROVE  OnTheWay'
    BY <1>2 DEF Attach, ClearWay, Accessed
<1>4. before' = before /\ OnTheWay
    BY <1>3 DEF ClearWay, Accessed
<1>5. n \in NewChain(before.vol, Asked) /\ call.head # NoSpace /\ Asked > 0
    BY <1>1, <1>4, AllTaken DEF None, NoSpace
<1>6. /\ Asked = call.want - Len(d) /\ call.iter = EndOf(d)
      /\ call.want # Len(d) /\ ~(call.want < Len(d))
    BY <1>1, <1>4, <1>5, AskedIs DEF ChainThen
<1>7. r \in ResizeChain(before.vol, call.file, call.want)
  <2>1. n \in NewChain(before.vol, call.want - Len(d))
    BY <1>5, <1>6
  <2> HIDE DEF n, d
  <2>2. d = ChainOf(before.vol.fat, call.file)
    BY DEF d
  <2>3. QED BY <1>6, <2>1, <2>2, ResizeHas
<1>8. r.v = vol' /\ r.slot # NoSpace
    BY <1>3, <1>5, <1>6
<1>9. call'.pc = "idle" /\ call'.answer = "success" /\ SameCall
    BY <1>1, <1>3, EndsIs DEF ChainAnswers, SameCall
<1>10. ComesTo(call', before'.vol, vol')
  <2> HIDE DEF r
  <2>1. QED BY <1>1, <1>4, <1>7, <1>8, <1>9 DEF ComesTo, SameCall
<1>11. QED BY <1>9, <1>10 DEF OnTheWay, Growing

LEMMA WayFreeSlot == ASSUME ChainInv, ClearWay, FreeSlot PROVE ClearWay'
<1> DEFINE s == call.curr
           next == vol.fat[s]
<1>1. call.pc = "free" /\ call \in CallRecord /\ ChainTypes /\ vol \in Volumes
    BY DEF FreeSlot, Doing, ChainInv, ChainTypes
<1>2. CASE AccessFails
    BY <1>1, <1>2, WayFails
<1>3. SUFFICES ASSUME Accessed, before.clean, vol' = Link(vol, s, FatFree),
                      IF next = Eoc THEN Ends(call.answer) ELSE Goes([call EXCEPT !.curr = next])
               PROVE  OnTheWay'
    BY <1>2 DEF FreeSlot, ClearWay, Accessed
<1>4. before' = before /\ ComesTo(call, before.vol, FreeChain(vol, s))
    BY <1>1, <1>3 DEF ClearWay, Accessed, OnTheWay
<1>5. RunsFrom(vol.fat, s, ChainNow(s))
  <2>1. s \in heads \cup Loose
    BY <1>1 DEF Loose
  <2>2. QED BY <2>1, RootsRun
<1>6. CASE next = Eoc
  <2>1. call'.pc = "idle" /\ call'.answer = call.answer /\ SameCall
    BY <1>1, <1>3, <1>6 DEF Ends, CallRecord, SameCall
  <2>2. vol' = FreeChain(vol, s)
    BY <1>1, <1>3, <1>5, <1>6, FreesFirst
  <2>3. ComesTo(call', before'.vol, vol')
    BY <1>4, <2>1, <2>2 DEF ComesTo, SameCall
  <2>4. QED BY <2>1, <2>3 DEF OnTheWay, Growing
<1>7. CASE next # Eoc
  <2>1. call'.pc = "free" /\ call'.curr = next /\ call'.answer = call.answer /\ SameCall
    BY <1>1, <1>3, <1>7 DEF Goes, CallRecord, SameCall
  <2>2. FreeChain(vol', next) = FreeChain(vol, s)
    BY <1>1, <1>3, <1>5, <1>7, FreesFirst
  <2>3. ComesTo(call', before'.vol, FreeChain(vol', call'.curr))
    BY <1>4, <2>1, <2>2 DEF ComesTo, SameCall
  <2>4. QED BY <2>1, <2>3 DEF OnTheWay, Growing
<1>8. QED BY <1>6, <1>7

LEMMA WayIdle == ASSUME ClearWay, UNCHANGED chainVars PROVE ClearWay'
<1>1. vol' = vol /\ call' = call /\ before' = before
    BY DEF chainVars
<1>2. Segment' = Segment /\ Took' = Took /\ Asked' = Asked
    BY <1>1 DEF Segment, Took, Asked, ChainNow, ChainThen
<1>3. ComeTo' = ComeTo
    BY <1>1, <1>2 DEF ComeTo
<1>4. QED BY <1>1, <1>2, <1>3 DEF ClearWay, OnTheWay

LEMMA WayStays == ASSUME ChainInv, ClearWay, [ChainsNext]_chainVars PROVE ClearWay'
<1>0. ChainInv'
    BY ChainsKeepInv
<1>1. CASE NewCall
    BY <1>1, WayNewCall
<1>2. CASE ResizeCall
    BY <1>2, WayResizeCall
<1>3. CASE FreeCall
    BY <1>3, WayFreeCall
<1>4. CASE FollowChain
    BY <1>0, <1>4, WayFollowChain
<1>5. CASE CutChain
    BY <1>5, WayCutChain
<1>6. CASE Populate
    BY <1>6, WayPopulate
<1>7. CASE Take
    BY <1>7, WayTake
<1>8. CASE LinkNext
    BY <1>8, WayLinkNext
<1>9. CASE HaveSlot
    BY <1>9, WayHaveSlot
<1>10. CASE Attach
    BY <1>10, WayAttach
<1>11. CASE FreeSlot
    BY <1>11, WayFreeSlot
<1>12. CASE UNCHANGED chainVars
    BY <1>12, WayIdle
<1>13. QED BY <1>1, <1>2, <1>3, <1>4, <1>5, <1>6, <1>7, <1>8, <1>9, <1>10, <1>11, <1>12
           DEF ChainsNext

(* In whatever state: while no access fails, what a call on a chain does   *)
(* to the table one access at a time is what its operator in FatTable says *)
(* it does at once.                                                        *)
THEOREM StepsComeToOperators == ChainsSpec => []StepsAreOperators
<1>1. ASSUME ChainsInit PROVE ChainInv /\ ClearWay
  <2>1. call.pc = "idle" /\ call.op = "none"
    BY <1>1 DEF ChainsInit, Call
  <2>2. QED BY <1>1, <2>1, StartChains DEF ClearWay, OnTheWay, ComesTo, Growing
<1>2. ASSUME ChainInv, ClearWay, [ChainsNext]_chainVars PROVE ChainInv' /\ ClearWay'
    BY <1>2, ChainsKeepInv, WayStays
<1>3. ASSUME ChainInv, ClearWay PROVE StepsAreOperators
  <2>1. call.op \in Ops
    BY <1>3 DEF ChainInv, ChainTypes, CallRecord
  <2>2. SUFFICES ASSUME call.pc = "idle", before.clean PROVE StepsAreOperators
    BY DEF StepsAreOperators, Doing
  <2>3. ComesTo(call, before.vol, vol)
    BY <1>3, <2>2 DEF ClearWay, OnTheWay
  <2>4. QED BY <2>1, <2>2, <2>3 DEF StepsAreOperators, ComesTo, Ops
<1>4. QED BY <1>1, <1>2, <1>3, PTL DEF ChainsSpec
=============================================================================
