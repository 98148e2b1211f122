------------------------------ MODULE OxideFs ------------------------------
(***************************************************************************)
(* The file system storage/oxide_fs.rs and the agents' context store       *)
(* storage/context_store.rs on top of it, with the block cache below.      *)
(*                                                                         *)
(* Files live in memory; sync_to_disk writes an image of all of them       *)
(* through the cache, block after block, and load_from_disk reads it back  *)
(* at boot, block after block.  Power may fail between any two steps, and  *)
(* writes and reads may fail.  Contents are sequences of chunks, one block *)
(* each; sizes in bytes, ticks and total_bytes are left out.               *)
(***************************************************************************)
EXTENDS BlockCache

CONSTANTS Paths,        \* paths, numbered in their order from 1
          Keys,         \* the paths that agents use
          Owner,        \* Owner[p]: the agent that path p belongs to
          Stored,       \* Stored[p]: p cut to 255 bytes
          Chunks, Values,  \* contents, in chunks
          Hash(_),      \* content_hash, some function of the contents
          MaxBlobs,     \* bound on the blobs ever created
          MaxFaults,    \* bound on failed reads and writes and power failures
          MaxSyncs      \* bound on the syncs

ASSUME FsAssumption ==
    /\ Paths \subseteq Nat \ {0} /\ IsFiniteSet(Paths) /\ Keys \subseteq Paths
    /\ DOMAIN Owner = Paths /\ Stored \in [Paths -> Paths]
    /\ Values \subseteq Seq(Chunks)
    /\ MaxBlobs \in Nat /\ MaxFaults \in Nat /\ MaxSyncs \in Nat

VARIABLES
    index,      \* path -> blob and deleted flag
    blobs,      \* blob id -> contents
    hashes,     \* content_hashes: hash -> blob id
    nextBlob,   \* next_blob_id
    store,      \* the context store's cache: path -> contents
    job,        \* what sync_to_disk or load_from_disk has still to do
    faults,     \* failures so far
    syncs,      \* syncs so far
    run,        \* history: the blocks this sync has written, where its blobs begin
                \* and end, and whether no write-back or read of this job failed
    expected,   \* history: what each path was last set to, or None
    synced,     \* history: the last sync that lost no write: its blocks, where
                \* its blobs begin and end, the blobs and files that were there,
                \* and whether no later one has begun
    damaged     \* history: a load met a block it could not read or understand,
                \* or ids that contradict each other

fs == <<index, blobs, hashes, nextBlob, store>>
history == <<expected, synced, damaged>>
vars == <<cacheVars, fs, job, faults, syncs, run, history>>

None == <<"none">>

\* What a load takes for contents that were not there.
Junk == "?"

\* The blocks of the image.
Zero == [kind |-> "zero"]
Super(b, f, next) == [kind |-> "super", blobs |-> b, files |-> f, next |-> next]
BlobHead(id, v) == [kind |-> "blob", id |-> id, size |-> Len(v),
                    chunk |-> IF v = <<>> THEN Junk ELSE v[1]]
Cont(c) == [kind |-> "cont", chunk |-> c]
File(p, id) == [kind |-> "file", path |-> p, id |-> id]

\* The blocks of a blob: how many there are, and the k-th, from 0.
Width(v) == IF v = <<>> THEN 1 ELSE Len(v)
BlobBlock(id, v, k) == IF k = 0 THEN BlobHead(id, v) ELSE Cont(v[k + 1])

\* The path that "" is loaded as, and the path as sync writes it.
NoPath == 0
Cut(p) == IF p \in Paths THEN Stored[p] ELSE p

Idle == [phase |-> "idle"]
Boot == [phase |-> "boot"]
Garbled == [phase |-> "garbled"]
NoPart == [id |-> 0, size |-> 0, data |-> <<>>]
NewRun == [image |-> <<>>, at |-> <<>>, end |-> 1, ok |-> TRUE]

Init ==
    /\ disk = [n \in 0 .. LastBlock |-> Zero] /\ cache = <<>> /\ lru = <<>>
    /\ index = <<>> /\ blobs = <<>> /\ hashes = <<>> /\ nextBlob = 1 /\ store = <<>>
    /\ job = Boot /\ faults = 0 /\ syncs = 0 /\ run = NewRun
    /\ expected = [p \in Paths |-> None]
    /\ synced = [image |-> <<>>, at |-> <<>>, end |-> 1, blobs |-> <<>>,
                 files |-> expected, intact |-> FALSE]
    /\ damaged = FALSE

-----------------------------------------------------------------------------
(* Files in memory.                                                        *)

\* Mutant of SameBlob: equal hashes count as equal contents.
SameBlobByHash(v) == Hash(v) \in DOMAIN hashes

\* A blob with these contents is found through the hash.
SameBlob(v) ==
    /\ Hash(v) \in DOMAIN hashes
    /\ hashes[Hash(v)] \in DOMAIN blobs
    /\ blobs[hashes[Hash(v)]] = v

Entry(id) == [blob |-> id, deleted |-> FALSE]

\* write_file
WriteFile(p, v) ==
    IF SameBlob(v)
    THEN /\ index' = Put(index, p, Entry(hashes[Hash(v)]))
         /\ UNCHANGED <<blobs, hashes, nextBlob>>
    ELSE /\ nextBlob <= MaxBlobs
         /\ nextBlob' = nextBlob + 1
         /\ blobs' = Put(blobs, nextBlob, v)
         /\ hashes' = Put(hashes, Hash(v), nextBlob)
         /\ index' = Put(index, p, Entry(nextBlob))

\* read_file
ReadFile(p) ==
    IF p \in DOMAIN index /\ ~index[p].deleted /\ index[p].blob \in DOMAIN blobs
    THEN blobs[index[p].blob] ELSE None

\* delete_file for each of the paths.
DeleteFiles(ps) ==
    index' = [p \in DOMAIN index |->
                IF p \in ps THEN [index[p] EXCEPT !.deleted = TRUE] ELSE index[p]]

-----------------------------------------------------------------------------
(* The context store.                                                      *)

\* ContextStore::get
Get(p) == IF p \in DOMAIN store THEN store[p] ELSE ReadFile(p)

\* ContextStore::set, also by sys_storage_set.
Set(p, v) ==
    /\ job.phase = "idle"
    /\ store' = Put(store, p, v)
    /\ WriteFile(p, v)
    /\ expected' = [expected EXCEPT ![p] = v]
    /\ UNCHANGED <<cacheVars, job, faults, syncs, run, synced, damaged>>

Forget(ps) ==
    /\ job.phase = "idle"
    /\ store' = Restrict(store, DOMAIN store \ ps)
    /\ DeleteFiles(ps)
    /\ expected' = [p \in Paths |-> IF p \in ps THEN None ELSE expected[p]]
    /\ UNCHANGED <<cacheVars, blobs, hashes, nextBlob, job, faults, syncs, run,
                   synced, damaged>>

\* ContextStore::delete
Delete(p) == Forget({p})

\* clear_agent: its cached values, and the files listed under its prefix.
ClearAgent(a) == Forget({p \in Paths : Owner[p] = a})

-----------------------------------------------------------------------------
(* sync_to_disk: the superblock, all blobs by id, the entries of the files *)
(* that are not deleted by path, and the flush.                            *)

\* Mutant of Alive: the deleted files are written too.
AliveAndDeleted == DOMAIN index

Alive == {p \in DOMAIN index : ~index[p].deleted}

Fault == faults < MaxFaults /\ faults' = faults + 1

\* cache.write; ok: see Insert.  Nothing can be written past the end.
SyncWrite(n, b, ok) ==
    /\ \/ ok /\ (WritesBack(n) => Victim \in DOMAIN disk) /\ UNCHANGED faults
       \/ ~ok /\ WritesBack(n) /\ Victim \in DOMAIN disk /\ Fault
       \/ ~ok /\ WritesBack(n) /\ Victim \notin DOMAIN disk /\ UNCHANGED faults
    /\ CacheWrite(n, b, ok)

SyncStart(ok) ==
    /\ job.phase = "idle" /\ syncs < MaxSyncs
    /\ LET sb == Super(Cardinality(DOMAIN blobs), Cardinality(Alive), nextBlob)
       IN  /\ SyncWrite(0, sb, ok)
           /\ run' = [NewRun EXCEPT !.image = Put(<<>>, 0, sb), !.ok = ok]
    /\ job' = [phase |-> "sync", blobs |-> DOMAIN blobs, k |-> 0, files |-> Alive, pos |-> 1]
    /\ synced' = [synced EXCEPT !.intact = FALSE]
    /\ syncs' = syncs + 1
    /\ UNCHANGED <<fs, expected, damaged>>

\* Mutant of NextId: the newest blob comes first.
NextIdNewest(ids) == Max(ids)

NextId(ids) == Min(ids)

\* The next block of the blob that is being written.
SyncBlob(ok) ==
    /\ job.phase = "sync" /\ job.blobs # {}
    /\ LET id   == NextId(job.blobs)
           b    == BlobBlock(id, blobs[id], job.k)
           last == job.k + 1 = Width(blobs[id])
       IN  /\ SyncWrite(job.pos, b, ok)
           /\ job' = [job EXCEPT !.pos = @ + 1,
                                 !.k = IF last THEN 0 ELSE @ + 1,
                                 !.blobs = IF last THEN @ \ {id} ELSE @]
           /\ run' = [image |-> Put(run.image, job.pos, b),
                      at    |-> IF job.k = 0 THEN Put(run.at, id, job.pos) ELSE run.at,
                      end   |-> job.pos + 1,
                      ok    |-> run.ok /\ ok]
    /\ UNCHANGED <<fs, syncs, history>>

SyncEntry(p) == File(Cut(p), index[p].blob)

SyncFile(ok) ==
    /\ job.phase = "sync" /\ job.blobs = {} /\ job.files # {}
    /\ LET p == Min(job.files)
           b == SyncEntry(p)
       IN  /\ SyncWrite(job.pos, b, ok)
           /\ job' = [job EXCEPT !.pos = @ + 1, !.files = @ \ {p}]
           /\ run' = [run EXCEPT !.image = Put(@, job.pos, b), !.ok = @ /\ ok]
    /\ UNCHANGED <<fs, syncs, history>>

SyncFlush ==
    /\ job.phase = "sync" /\ job.blobs = {} /\ job.files = {}
    /\ job' = [phase |-> "flush", todo |-> Dirty]
    /\ UNCHANGED <<cacheVars, fs, faults, syncs, run, history>>

FlushStep ==
    /\ job.phase = "flush" /\ job.todo # {}
    /\ Min(job.todo) \in DOMAIN disk
    /\ FlushWrite(Min(job.todo))
    /\ job' = [job EXCEPT !.todo = @ \ {Min(@)}]
    /\ UNCHANGED <<fs, faults, syncs, run, history>>

\* Mutant of FlushError: the blocks written so far count as clean.
FlushErrorCleans ==
    /\ job.phase = "flush" /\ job.todo # {}
    /\ IF Min(job.todo) \in DOMAIN disk THEN Fault ELSE UNCHANGED faults
    /\ FlushDone
    /\ job' = Idle
    /\ run' = NewRun
    /\ UNCHANGED <<fs, syncs, history>>

FlushError ==
    /\ job.phase = "flush" /\ job.todo # {}
    /\ IF Min(job.todo) \in DOMAIN disk THEN Fault ELSE UNCHANGED faults
    /\ FlushFails
    /\ job' = Idle
    /\ run' = NewRun
    /\ UNCHANGED <<fs, syncs, history>>

SyncEnd ==
    /\ job.phase = "flush" /\ job.todo = {}
    /\ FlushDone
    /\ job' = Idle
    /\ synced' = IF run.ok THEN [image |-> run.image, at |-> run.at, end |-> run.end,
                                 blobs |-> blobs, files |-> [p \in Paths |-> ReadFile(p)],
                                 intact |-> TRUE]
                 ELSE synced
    /\ run' = NewRun
    /\ UNCHANGED <<fs, faults, syncs, expected, damaged>>

-----------------------------------------------------------------------------
(* Power failure, and load_from_disk at the next boot.                     *)

\* Power fails, also in the middle of a job, and the system boots again.
Reboot ==
    /\ Fault
    /\ cache' = <<>> /\ lru' = <<>>
    /\ index' = <<>> /\ blobs' = <<>> /\ hashes' = <<>> /\ nextBlob' = 1 /\ store' = <<>>
    /\ job' = Boot /\ run' = NewRun
    /\ UNCHANGED <<disk, syncs, history>>

\* cache.read of a load; a block that cannot be read is taken for zeros.
LoadRead(n, ok) ==
    /\ \/ ok /\ n \in DOMAIN disk /\ UNCHANGED faults
       \/ ~ok /\ n \in DOMAIN disk /\ Fault
       \/ ~ok /\ n \notin DOMAIN disk /\ UNCHANGED faults
    /\ CacheRead(n, ok)
    /\ run' = [run EXCEPT !.ok = @ /\ ok]
    /\ UNCHANGED <<store, syncs, synced>>

Loaded(n, ok) == IF Hits(n, ok) THEN ReadData(n) ELSE Zero

\* The superblock; without one the file system is new.
LoadSuper(ok) ==
    /\ job.phase = "boot"
    /\ LoadRead(0, ok)
    /\ LET sb == Loaded(0, ok)
       IN  IF sb.kind = "super"
           THEN /\ job' = [phase |-> "load", blobs |-> sb.blobs, files |-> sb.files,
                           pos |-> 1, part |-> NoPart]
                /\ nextBlob' = sb.next
                /\ UNCHANGED expected
           ELSE /\ job' = Idle
                /\ expected' = [p \in Paths |-> None]
                /\ UNCHANGED nextBlob
    /\ damaged' = (damaged \/ ~ok)
    /\ UNCHANGED <<index, blobs, hashes>>

\* A blob, or what was read of it, is complete or waits for its next block.
Complete(part) == Len(part.data) = part.size

Take(part) ==
    IF Complete(part)
    THEN /\ blobs' = Put(blobs, part.id, part.data)
         /\ hashes' = Put(hashes, Hash(part.data), part.id)
         /\ job' = [job EXCEPT !.pos = @ + 1, !.part = NoPart, !.blobs = @ - 1]
    ELSE /\ job' = [job EXCEPT !.pos = @ + 1, !.part = part]
         /\ UNCHANGED <<blobs, hashes>>

\* A block of another kind holds bytes that make no sense here; the ids of blobs
\* that were written together ascend.
LoadBlob(ok) ==
    /\ job.phase = "load" /\ job.blobs > 0 /\ Complete(job.part)
    /\ LoadRead(job.pos, ok)
    /\ LET b == Loaded(job.pos, ok)
       IN  /\ CASE b.kind = "blob" ->
                     Take([id |-> b.id, size |-> b.size,
                           data |-> IF b.size = 0 THEN <<>> ELSE <<b.chunk>>])
                [] b.kind = "zero" -> Take(NoPart)
                [] OTHER -> job' = Garbled /\ UNCHANGED <<blobs, hashes>>
           /\ damaged' = (\/ damaged \/ ~ok \/ b.kind # "blob"
                         \/ \E id \in DOMAIN blobs : b.id <= id)
    /\ UNCHANGED <<index, nextBlob, expected>>

LoadCont(ok) ==
    /\ job.phase = "load" /\ ~Complete(job.part)
    /\ LoadRead(job.pos, ok)
    /\ LET b == Loaded(job.pos, ok)
           c == IF b.kind = "cont" THEN b.chunk ELSE Junk
       IN  /\ Take([job.part EXCEPT !.data = Append(@, c)])
           /\ damaged' = (damaged \/ ~ok \/ b.kind # "cont")
    /\ UNCHANGED <<index, nextBlob, expected>>

LoadFile(ok) ==
    /\ job.phase = "load" /\ job.blobs = 0 /\ job.files > 0
    /\ LoadRead(job.pos, ok)
    /\ LET b == Loaded(job.pos, ok)
           f == IF b.kind = "file" THEN b ELSE File(NoPath, 0)
       IN  /\ IF b.kind \in {"file", "zero"}
              THEN /\ index' = Put(index, f.path, Entry(f.id))
                   /\ job' = [job EXCEPT !.pos = @ + 1, !.files = @ - 1]
              ELSE job' = Garbled /\ UNCHANGED index
           /\ damaged' = (damaged \/ ~ok \/ b.kind # "file")
    /\ UNCHANGED <<blobs, hashes, nextBlob, expected>>

\* The ids agree: no blob has an id still to be given, no entry lacks its blob.
Sound ==
    /\ \A id \in DOMAIN blobs : id < nextBlob
    /\ \A p \in DOMAIN index : index[p].blob \in DOMAIN blobs

LoadEnd ==
    /\ job.phase = "load" /\ job.blobs = 0 /\ job.files = 0
    /\ job' = Idle /\ run' = NewRun
    /\ expected' = [p \in Paths |-> ReadFile(p)]
    /\ damaged' = (damaged \/ ~Sound)
    /\ UNCHANGED <<cacheVars, fs, faults, syncs, synced>>

Next ==
    \/ \E p \in Keys, v \in Values : Set(p, v)
    \/ \E p \in Keys : Delete(p)
    \/ \E a \in Range(Owner) : ClearAgent(a)
    \/ \E ok \in BOOLEAN : SyncStart(ok) \/ SyncBlob(ok) \/ SyncFile(ok)
    \/ SyncFlush \/ FlushStep \/ FlushError \/ SyncEnd
    \/ Reboot
    \/ \E ok \in BOOLEAN : LoadSuper(ok) \/ LoadBlob(ok) \/ LoadCont(ok) \/ LoadFile(ok)
    \/ LoadEnd

Spec == Init /\ [][Next]_vars

-----------------------------------------------------------------------------
(* Properties.                                                             *)

\* The file system is loaded and can be used.
Up == job.phase \in {"idle", "sync", "flush"}

\* What is set is what is read, through the store's cache as well as from the
\* file system below it, although files share blobs that are found by a hash
\* with collisions, and are deleted, written again, synced and loaded.  (Not
\* once a load met a block it could not use or ids that contradict each other:
\* an entry without its blob comes to name the next blob that gets its id.)
GetReturnsLastSet ==
    Up /\ ~damaged =>
        \A p \in Paths : Get(p) = expected[p] /\ ReadFile(p) = expected[p]

\* Path p comes back under its own name: it is not cut, nor another path to it.
Keeps(p) == \A q \in Paths : Stored[q] = p <=> q = p

\* Once a sync has ended without a failed write, a load that can read the disk
\* ends well and gives back exactly the blobs and the files that were there at
\* that moment, until the next sync begins; only paths that are cut at 255 bytes
\* are lost, or meet.
SyncedImageLoads ==
    [][/\ job.phase \in {"boot", "load"} /\ job'.phase \in {"idle", "garbled"}
       /\ synced.intact /\ run.ok /\ faults' = faults
       => /\ job' = Idle /\ blobs' = synced.blobs
          /\ \A p \in Paths : Keeps(p) => ReadFile(p)' = synced.files[p]]_vars

\* The blobs of the last good sync never move and are never overwritten, by
\* later syncs, power failures in the middle of one and failed writes: blobs are
\* only appended, in the order of their ids.  What a power failure can destroy
\* is the index behind them.  (It no longer holds once a load had to make do
\* with a damaged image.)
BlobsStayPut ==
    ~damaged =>
        \A id \in DOMAIN synced.blobs :
            LET v == synced.blobs[id]
            IN  \A k \in 0 .. Width(v) - 1 : OnDisk(synced.at[id] + k, BlobBlock(id, v, k))
=============================================================================
