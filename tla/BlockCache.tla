----------------------------- MODULE BlockCache -----------------------------
(***************************************************************************)
(* The write-back block cache storage/block_cache.rs over the disk, whose  *)
(* single reads and writes may fail (VirtioBlk says how).  access_count    *)
(* only orders the blocks by their last use: lru is that order, oldest     *)
(* first.                                                                  *)
(***************************************************************************)
EXTENDS Integers, Sequences, SequencesExt, FiniteSets, Functions

CONSTANTS CACHE_SIZE,
          LastBlock   \* the disk has the blocks 0 .. LastBlock

ASSUME CacheAssumption == CACHE_SIZE \in Nat \ {0} /\ LastBlock \in Nat

VARIABLES disk,    \* block contents
          cache,   \* cached blocks: data, dirty
          lru      \* their numbers, least recently used first

cacheVars == <<disk, cache, lru>>

Block(data, dirty) == [data |-> data, dirty |-> dirty]

\* BTreeMap::insert
Put(map, k, v) == [x \in DOMAIN map \cup {k} |-> IF x = k THEN v ELSE map[x]]

\* Block n of the disk is b.
OnDisk(n, b) == n \in DOMAIN disk /\ disk[n] = b

\* evict_one: the block it picks, and the disk after its write-back, whose
\* failure is ignored.
Evicts(n) == Cardinality(DOMAIN cache) >= CACHE_SIZE /\ n \notin DOMAIN cache
Victim == Head(lru)
WritesBack(n) == Evicts(n) /\ cache[Victim].dirty
WriteBack(n, ok) ==
    IF WritesBack(n) /\ ok THEN [disk EXCEPT ![Victim] = cache[Victim].data] ELSE disk
Kept(n) == IF Evicts(n) THEN DOMAIN cache \ {Victim} ELSE DOMAIN cache

\* n becomes the block used last.
Use(n) ==
    IF n \in DOMAIN cache
    THEN Append(RemoveAt(lru, CHOOSE i \in DOMAIN lru : lru[i] = n), n)
    ELSE Append(IF Evicts(n) THEN Tail(lru) ELSE lru, n)

\* block n enters the cache; ok: the write-back of the one that had to go
\* succeeded.
Insert(n, block, ok) ==
    /\ disk' = WriteBack(n, ok)
    /\ cache' = Put(Restrict(cache, Kept(n)), n, block)
    /\ lru' = Use(n)

\* write
CacheWrite(n, data, ok) == Insert(n, Block(data, TRUE), ok)

\* read, which fails unless the block is cached or ok.  (It is used at boot
\* only, when nothing is dirty and nothing is written back.)
Hits(n, ok) == n \in DOMAIN cache \/ ok
ReadData(n) == IF n \in DOMAIN cache THEN cache[n].data ELSE disk[n]
CacheRead(n, ok) ==
    CASE n \in DOMAIN cache -> lru' = Use(n) /\ UNCHANGED <<disk, cache>>
      [] n \notin DOMAIN cache /\ ok -> Insert(n, Block(disk[n], FALSE), TRUE)
      [] OTHER -> UNCHANGED cacheVars

\* The blocks that flush collects.
Dirty == {n \in DOMAIN cache : cache[n].dirty}

\* flush writes a collected block.
FlushWrite(n) ==
    /\ disk' = [disk EXCEPT ![n] = cache[n].data]
    /\ UNCHANGED <<cache, lru>>

\* flush has written them all: they are clean.
FlushDone ==
    /\ cache' = [n \in DOMAIN cache |-> Block(cache[n].data, FALSE)]
    /\ UNCHANGED <<disk, lru>>

\* flush gives up at the first failure: all it collected stay dirty.
FlushFails == UNCHANGED cacheVars

\* A clean block in the cache is what is on the disk, also after write-backs and
\* flushes that failed half-way, each failed write leaving the disk as it was, so
\* evicting it without a write loses nothing; the cache never outgrows its limit,
\* and lru lists what is in it, once.
CleanMatchesDisk ==
    /\ \A n \in DOMAIN cache : ~cache[n].dirty => OnDisk(n, cache[n].data)
    /\ Cardinality(DOMAIN cache) <= CACHE_SIZE
    /\ IsInjective(lru) /\ Range(lru) = DOMAIN cache
=============================================================================
