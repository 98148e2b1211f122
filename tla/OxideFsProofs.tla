--------------------------- MODULE OxideFsProofs ---------------------------
(***************************************************************************)
(* Proofs about the block cache and the file system, for any paths, cut in *)
(* any way, contents, hash function, cache and disk size, and any number   *)
(* of syncs and failures.                                                  *)
(***************************************************************************)
EXTENDS OxideFs, FiniteSetTheorems, SequenceTheorems, TLAPS

Bytes == Chunks \cup {Junk}

Blocks == {Zero} \cup [kind : {"super"}, blobs : Nat, files : Nat, next : Nat]
                 \cup [kind : {"blob"}, id : Nat, size : Nat, chunk : Bytes]
                 \cup [kind : {"cont"}, chunk : Bytes]
                 \cup [kind : {"file"}, path : Nat, id : Nat]

IsMap(f) == f = [x \in DOMAIN f |-> f[x]]

-----------------------------------------------------------------------------
(* The invariants.                                                         *)

\* The cache, its order and the disk.
CacheType ==
    /\ disk \in [0 .. LastBlock -> Blocks]
    /\ IsMap(cache) /\ IsFiniteSet(DOMAIN cache) /\ DOMAIN cache \subseteq Nat
    /\ \A n \in DOMAIN cache : cache[n] \in [data : Blocks, dirty : BOOLEAN]
    /\ lru \in Seq(Nat)

\* The tables in memory.
IdMap(bs) ==
    /\ IsMap(bs) /\ IsFiniteSet(DOMAIN bs) /\ DOMAIN bs \subseteq Nat
    /\ \A id \in DOMAIN bs : bs[id] \in Seq(Bytes)

TablesType ==
    /\ IdMap(blobs) /\ IsMap(index) /\ IsFiniteSet(DOMAIN index) /\ DOMAIN index \subseteq Nat
    /\ \A p \in DOMAIN index : index[p] \in [blob : Nat, deleted : BOOLEAN]
    /\ IsMap(hashes) /\ \A h \in DOMAIN hashes : hashes[h] \in Nat
    /\ IsMap(store)
    /\ nextBlob \in Nat /\ faults \in Nat /\ damaged \in BOOLEAN
    /\ expected = [p \in Paths |-> expected[p]]

SyncJob == [phase : {"sync"}, blobs : SUBSET Nat, k : Nat, files : SUBSET Nat, pos : Nat]
FlushJob == [phase : {"flush"}, todo : SUBSET Nat]
Parts == [id : Nat, size : Nat, data : Seq(Bytes)]
LoadJob == [phase : {"load"}, blobs : Nat, files : Nat, pos : Nat, part : Parts]

JobType ==
    /\ \/ job \in {Idle, Boot, Garbled}
       \/ job.phase = "sync" /\ job \in SyncJob
       \/ job.phase = "flush" /\ job \in FlushJob
       \/ job.phase = "load" /\ job \in LoadJob
    /\ run = [image |-> run.image, at |-> run.at, end |-> run.end, ok |-> run.ok]
    /\ run.ok \in BOOLEAN
    /\ synced = [image |-> synced.image, at |-> synced.at, end |-> synced.end,
                 blobs |-> synced.blobs, files |-> synced.files, intact |-> synced.intact]
    /\ synced.intact \in BOOLEAN

\* The blobs ids stand one behind the other in the order of their ids, from
\* block 1 up to end.
Layout(ids, bs, at, end) ==
    /\ end \in Nat /\ end >= 1
    /\ \A i \in ids : at[i] \in Nat /\ at[i] >= 1 /\ at[i] + Width(bs[i]) <= end
    /\ \A i, j \in ids : i < j => at[i] + Width(bs[i]) <= at[j]
    /\ \A i, j \in ids : i < j /\ (\A m \in ids : ~(i < m /\ m < j))
                         => at[j] = at[i] + Width(bs[i])
    /\ \A i \in ids : (\A j \in ids : i <= j) => at[i] = 1
    /\ \A i \in ids : (\A j \in ids : j <= i) => end = at[i] + Width(bs[i])
    /\ ids = {} => end = 1

\* The image holds the blobs ids at their places.
HoldsBlobs(image, ids, bs, at) ==
    \A i \in ids : \A k \in 0 .. Width(bs[i]) - 1 :
        at[i] + k \in DOMAIN image /\ image[at[i] + k] = BlobBlock(i, bs[i], k)

\* What flush has still to write is dirty; everything else is on the disk.
FlushInv ==
    job.phase = "flush" =>
        /\ job.todo \subseteq Dirty
        /\ \A n \in Dirty \ job.todo : OnDisk(n, cache[n].data)

\* What this sync wrote is dirty in the cache, or was written back.
RunInv ==
    job.phase \in {"sync", "flush"} =>
        \A n \in DOMAIN run.image :
            IF n \in DOMAIN cache THEN cache[n] = Block(run.image[n], TRUE)
            ELSE run.ok => OnDisk(n, run.image[n])

\* The entries of the files ps are the blocks from .. to - 1 of the image.
HoldsFiles(ps, from, to) ==
    /\ \A n \in from .. to - 1 : \E p \in ps : run.image[n] = SyncEntry(p)
    /\ \A p \in ps : \E n \in from .. to - 1 : run.image[n] = SyncEntry(p)

HoldsSuper == run.image[0] = Super(Cardinality(DOMAIN blobs), Cardinality(Alive), nextBlob)

\* How far sync_to_disk has come.
Done == DOMAIN blobs \ job.blobs
Base == job.pos - job.k
SyncInv ==
    job.phase = "sync" =>
        /\ job.pos >= 1 /\ job.blobs \subseteq DOMAIN blobs /\ job.files \subseteq Alive
        /\ \A i \in Done, j \in job.blobs : i < j
        /\ IF job.blobs = {} THEN job.k = 0
           ELSE job.k < Width(blobs[Min(job.blobs)]) /\ job.files = Alive
        /\ job.k < job.pos
        /\ Layout(Done, blobs, run.at, IF job.blobs = {} THEN run.end ELSE Base)
        /\ HoldsBlobs(run.image, Done, blobs, run.at)
        /\ Done \subseteq DOMAIN run.at
        /\ job.k > 0 => Min(job.blobs) \in DOMAIN run.at /\ run.at[Min(job.blobs)] = Base
        /\ \A k \in 0 .. job.k - 1 :
              run.image[Base + k] = BlobBlock(Min(job.blobs), blobs[Min(job.blobs)], k)
        /\ job.blobs # {} => run.end = job.pos
        /\ DOMAIN run.image = 0 .. job.pos - 1 /\ HoldsSuper
        /\ run.end <= job.pos
        /\ HoldsFiles(Alive \ job.files, run.end, job.pos)
        /\ job.pos - run.end = Cardinality(Alive) - Cardinality(job.files)

\* The image of a sync that has only to be flushed.
ImageInv ==
    job.phase = "flush" =>
        /\ Layout(DOMAIN blobs, blobs, run.at, run.end)
        /\ HoldsBlobs(run.image, DOMAIN blobs, blobs, run.at)
        /\ HoldsSuper
        /\ DOMAIN run.image = 0 .. (run.end + Cardinality(Alive)) - 1
        /\ HoldsFiles(Alive, run.end, run.end + Cardinality(Alive))

\* The image of the last good sync.
FilesMatch(s, to) ==
    \A p \in Paths : Keeps(p) =>
        /\ \A m \in s.end .. to - 1 :
              s.image[m].path = p =>
                 s.files[p] = IF s.image[m].id \in DOMAIN s.blobs
                                   THEN s.blobs[s.image[m].id] ELSE None
        /\ s.files[p] # None =>
              \E m \in s.end .. to - 1 : s.image[m].path = p

SyncedInv ==
    /\ IdMap(synced.blobs)
    /\ Layout(DOMAIN synced.blobs, synced.blobs, synced.at, synced.end)
    /\ synced.intact =>
          /\ ~(job.phase \in {"sync", "flush"}) /\ Dirty = {}
          /\ HoldsBlobs(synced.image, DOMAIN synced.blobs, synced.blobs, synced.at)
          /\ \A n \in DOMAIN synced.image : OnDisk(n, synced.image[n])
          /\ synced.image[0].kind = "super"
          /\ synced.image[0].blobs = Cardinality(DOMAIN synced.blobs)
          /\ synced.image[0].files \in Nat
          /\ DOMAIN synced.image = 0 .. (synced.end + synced.image[0].files) - 1
          /\ \A n \in synced.end .. (synced.end + synced.image[0].files) - 1 :
                synced.image[n].kind = "file"
          /\ FilesMatch(synced, synced.end + synced.image[0].files)

\* Between boots the tables are consistent and what is read is what was set.
UpInv == Up /\ ~damaged => Sound /\ GetReturnsLastSet

\* The blobs of the last good sync come first in memory.
Extends(ids) ==
    /\ DOMAIN synced.blobs \subseteq ids
    /\ \A id \in DOMAIN synced.blobs : blobs[id] = synced.blobs[id]
    /\ \A i \in DOMAIN synced.blobs, j \in ids \ DOMAIN synced.blobs : i < j

ExtendsInv == Up /\ ~damaged => Extends(DOMAIN blobs)

\* They, and a superblock that counts them, are on the disk and in the cache.
CountsThem(b) == b.kind = "super" /\ b.blobs >= Cardinality(DOMAIN synced.blobs)

StayInv ==
    ~damaged =>
        /\ \A id \in DOMAIN synced.blobs : \A k \in 0 .. Width(synced.blobs[id]) - 1 :
              LET n == synced.at[id] + k
                  b == BlobBlock(id, synced.blobs[id], k)
              IN  OnDisk(n, b) /\ (n \in DOMAIN cache => cache[n].data = b)
        /\ DOMAIN synced.blobs # {} =>
              CountsThem(disk[0]) /\ (0 \in DOMAIN cache => CountsThem(cache[0].data))

\* A sync writes them where they are.
SameInv ==
    job.phase = "sync" /\ ~damaged =>
        LET D == DOMAIN synced.blobs
        IN  /\ \A id \in D \cap Done : run.at[id] = synced.at[id]
            /\ D \cap job.blobs # {} => Base = synced.at[Min(job.blobs)]
            /\ D \cap job.blobs = {} => Base >= synced.end

\* How far load_from_disk has come, as long as it can be trusted.
Trusted == ~damaged \/ (synced.intact /\ run.ok)
Left == DOMAIN synced.blobs \ DOMAIN blobs

LoadInv ==
    /\ job.phase = "boot" => DOMAIN blobs = {} /\ DOMAIN index = {} /\ DOMAIN store = {}
    /\ job.phase \in {"boot", "load"} => Dirty = {} /\ DOMAIN store = {}
    /\ job.phase = "load" =>
        /\ Len(job.part.data) <= job.part.size
        /\ ~Complete(job.part) => job.blobs > 0
        /\ job.pos >= 1
    /\ job.phase = "load" /\ ~damaged /\ ~Complete(job.part) =>
          \A id \in DOMAIN blobs : id < job.part.id
    /\ job.phase = "load" /\ Trusted /\ Left # {} =>
          LET id == Min(Left)
              v  == synced.blobs[id]
          IN  /\ \A i \in DOMAIN blobs, j \in Left : i < j
              /\ \A i \in DOMAIN blobs : i \in DOMAIN synced.blobs /\ blobs[i] = synced.blobs[i]
              /\ job.blobs >= Cardinality(Left)
              /\ IF Complete(job.part) THEN job.pos = synced.at[id]
                 ELSE /\ job.part.id = id /\ job.part.size = Len(v)
                      /\ job.pos = synced.at[id] + Len(job.part.data)
                      /\ Len(job.part.data) >= 1
                      /\ \A k \in 1 .. Len(job.part.data) : job.part.data[k] = v[k]
    /\ job.phase = "load" /\ Trusted /\ Left = {} => Extends(DOMAIN blobs)
    /\ job.phase = "load" /\ synced.intact /\ run.ok =>
          /\ DOMAIN blobs \subseteq DOMAIN synced.blobs
          /\ job.blobs = Cardinality(Left)
          /\ Left # {} => DOMAIN index = {} /\ job.files = synced.image[0].files
          /\ Left = {} =>
                /\ job.pos >= synced.end
                /\ job.pos + job.files = synced.end + synced.image[0].files
                /\ \A m \in synced.end .. job.pos - 1 : synced.image[m].path \in DOMAIN index
                /\ \A p \in DOMAIN index : \E m \in synced.end .. job.pos - 1 :
                      synced.image[m].path = p /\ index[p] = Entry(synced.image[m].id)

IInv ==
    /\ CacheType /\ CleanMatchesDisk /\ TablesType /\ JobType
    /\ FlushInv /\ RunInv /\ SyncInv /\ ImageInv /\ SyncedInv
    /\ UpInv /\ ExtendsInv /\ StayInv /\ SameInv /\ LoadInv

-----------------------------------------------------------------------------
(* Facts about the operators.                                              *)

\* A set of numbers that is not empty has a least one.
LEMMA MinLemma ==
    ASSUME NEW S \in SUBSET Nat, S # {}
    PROVE  Min(S) \in S /\ Min(S) \in Nat /\ \A j \in S : Min(S) <= j
<1>1. PICK i \in S : \A j \in S : ~(<<j, i>> \in OpToRel(<, Nat))
  BY NatLessThanWellFounded, WFMin
<1>2. \A j \in S : i <= j
  <2>1. \A ss \in Nat \X Nat : ss[1] < ss[2] => ss \in OpToRel(<, Nat)
    BY DEF OpToRel
  <2>2. \A j \in S : j < i => <<j, i>> \in OpToRel(<, Nat)
    BY <2>1
  <2>3. \A j \in S : ~(j < i)
    BY <1>1, <2>2, Zenon
  <2> QED
    BY <2>3
<1> QED
  BY <1>2 DEF Min

\* BTreeMap::insert.
LEMMA PutLemma ==
    ASSUME NEW f, NEW k, NEW v
    PROVE  /\ IsMap(Put(f, k, v)) /\ DOMAIN Put(f, k, v) = DOMAIN f \cup {k}
           /\ Put(f, k, v)[k] = v
           /\ \A x \in DOMAIN f : x # k => Put(f, k, v)[x] = f[x]
BY DEF Put, IsMap

\* A sequence without its i-th element.
LEMMA RemoveAtLemma ==
    ASSUME NEW s \in Seq(Nat), NEW i \in 1 .. Len(s)
    PROVE  /\ RemoveAt(s, i) \in Seq(Nat) /\ Len(RemoveAt(s, i)) = Len(s) - 1
           /\ \A j \in 1 .. Len(s) - 1 :
                 /\ j < i => RemoveAt(s, i)[j] = s[j]
                 /\ j >= i => RemoveAt(s, i)[j] = s[j + 1]
<1> DEFINE a == SubSeq(s, 1, i - 1)
           b == SubSeq(s, i + 1, Len(s))
<1>1. a \in Seq(Nat) /\ Len(a) = i - 1 /\ \A j \in 1 .. i - 1 : a[j] = s[j]
  OBVIOUS
<1>2. b \in Seq(Nat) /\ Len(b) = Len(s) - i /\ \A j \in 1 .. Len(s) - i : b[j] = s[i + j]
  OBVIOUS
<1> HIDE DEF a, b
<1>3. /\ a \o b \in Seq(Nat) /\ Len(a \o b) = Len(s) - 1
      /\ \A j \in 1 .. Len(s) - 1 :
            /\ j < i => (a \o b)[j] = a[j]
            /\ j >= i => (a \o b)[j] = b[j - (i - 1)]
  <2>1. /\ a \o b \in Seq(Nat) /\ Len(a \o b) = Len(a) + Len(b)
        /\ \A j \in 1 .. Len(a) + Len(b) :
              (a \o b)[j] = IF j <= Len(a) THEN a[j] ELSE b[j - Len(a)]
    BY <1>1, <1>2, ConcatProperties
  <2> DEFINE la == Len(a)
             lb == Len(b)
             ls == Len(s)
             ab == a \o b
  <2>2. la = i - 1 /\ lb = ls - i /\ ls \in Nat /\ i \in 1 .. ls
    BY <1>1, <1>2
  <2>3. \A j \in 1 .. la + lb : ab[j] = IF j <= la THEN a[j] ELSE b[j - la]
    BY <2>1
  <2> HIDE DEF la, lb, ls, ab
  <2>4. \A j \in 1 .. ls - 1 : j \in 1 .. la + lb /\ j - la = j - (i - 1)
                               /\ (j < i <=> j <= la)
    BY <2>2
  <2>5. \A j \in 1 .. ls - 1 :
           (j < i => ab[j] = a[j]) /\ (j >= i => ab[j] = b[j - (i - 1)])
    <3>1. \A j \in 1 .. ls - 1 : j >= i <=> ~(j < i)
      BY <2>2
    <3> QED
      BY <2>3, <2>4, <3>1, Zenon
  <2>6. Len(ab) = ls - 1
    BY <1>1, <1>2, <2>1 DEF ls, ab
  <2> QED
    BY <2>1, <2>5, <2>6 DEF ls, ab
<1>4. ASSUME NEW j \in 1 .. Len(s) - 1, j >= i
      PROVE  b[j - (i - 1)] = s[j + 1]
  <2>1. j - (i - 1) \in 1 .. Len(s) - i /\ i + (j - (i - 1)) = j + 1
    BY <1>4
  <2> QED
    BY <1>2, <2>1
<1>5. RemoveAt(s, i) = a \o b
  BY DEF RemoveAt, a, b
<1>6. \A j \in 1 .. Len(s) - 1 : j < i => (a \o b)[j] = s[j]
  BY <1>1, <1>3
<1> QED
  BY <1>3, <1>4, <1>5, <1>6

\* The order of the blocks after n was used.
LEMMA UseLemma ==
    ASSUME CacheType, CleanMatchesDisk, NEW n \in Nat
    PROVE  /\ Use(n) \in Seq(Nat) /\ IsInjective(Use(n)) /\ Range(Use(n)) = Kept(n) \cup {n}
           /\ Evicts(n) => Victim \in DOMAIN cache
<1>1. /\ lru \in Seq(Nat) /\ Len(lru) \in Nat /\ DOMAIN lru = 1 .. Len(lru)
      /\ \A a, b \in 1 .. Len(lru) : lru[a] = lru[b] => a = b
      /\ \A m \in DOMAIN cache : \E a \in 1 .. Len(lru) : lru[a] = m
      /\ \A a \in 1 .. Len(lru) : lru[a] \in DOMAIN cache
  BY DEF CacheType, CleanMatchesDisk, IsInjective, Range
<1> DEFINE rest == IF n \in DOMAIN cache
                   THEN RemoveAt(lru, CHOOSE i \in DOMAIN lru : lru[i] = n)
                   ELSE IF Evicts(n) THEN Tail(lru) ELSE lru
<1>2. /\ rest \in Seq(Nat)
      /\ \A a, b \in 1 .. Len(rest) : rest[a] = rest[b] => a = b
      /\ \A a \in 1 .. Len(rest) : rest[a] \in Kept(n) \ {n}
      /\ \A m \in Kept(n) \ {n} : \E a \in 1 .. Len(rest) : rest[a] = m
      /\ Evicts(n) => Victim \in DOMAIN cache
  <2>1. CASE n \in DOMAIN cache
    <3>1. PICK i \in 1 .. Len(lru) : lru[i] = n /\ rest = RemoveAt(lru, i)
      BY <1>1, <2>1
    <3> HIDE DEF rest
    <3>2. /\ rest \in Seq(Nat) /\ Len(rest) = Len(lru) - 1
          /\ \A j \in 1 .. Len(lru) - 1 :
                (j < i => rest[j] = lru[j]) /\ (j >= i => rest[j] = lru[j + 1])
      <4>1. /\ RemoveAt(lru, i) \in Seq(Nat) /\ Len(RemoveAt(lru, i)) = Len(lru) - 1
            /\ \A j \in 1 .. Len(lru) - 1 :
                  /\ j < i => RemoveAt(lru, i)[j] = lru[j]
                  /\ j >= i => RemoveAt(lru, i)[j] = lru[j + 1]
        BY <1>1, RemoveAtLemma
      <4> QED
        BY <3>1, <4>1
    <3>3. ~Evicts(n) /\ Kept(n) = DOMAIN cache
      BY <2>1 DEF Evicts, Kept
    <3>4. ASSUME NEW a \in 1 .. Len(rest), NEW b \in 1 .. Len(rest), rest[a] = rest[b]
          PROVE  a = b
      <4> DEFINE c(j) == IF j < i THEN j ELSE j + 1
      <4>1. \A j \in 1 .. Len(rest) : (j < i => c(j) = j) /\ (j >= i => c(j) = j + 1)
        BY <1>1, <3>2
      <4> HIDE DEF c
      <4>2. \A j \in 1 .. Len(rest) : c(j) \in 1 .. Len(lru) /\ rest[j] = lru[c(j)]
        <5> SUFFICES ASSUME NEW j \in 1 .. Len(rest)
                     PROVE  c(j) \in 1 .. Len(lru) /\ rest[j] = lru[c(j)]
          OBVIOUS
        <5>1. j \in 1 .. Len(lru) - 1 /\ j \in 1 .. Len(lru) /\ j + 1 \in 1 .. Len(lru)
              /\ (j < i \/ j >= i)
          BY <1>1, <3>2
        <5>2. (j < i => rest[j] = lru[j]) /\ (j >= i => rest[j] = lru[j + 1])
          BY <3>2, <5>1
        <5>3. (j < i => c(j) = j) /\ (j >= i => c(j) = j + 1)
          BY <4>1
        <5> QED
          BY <5>1, <5>2, <5>3, Zenon
      <4>3. c(a) = c(b)
        BY <1>1, <3>4, <4>2
      <4> QED
        BY <4>1, <4>3
    <3>5. \A a \in 1 .. Len(rest) : rest[a] \in DOMAIN cache \ {n}
      BY <1>1, <3>1, <3>2
    <3>6. ASSUME NEW m \in DOMAIN cache \ {n}
          PROVE  \E a \in 1 .. Len(rest) : rest[a] = m
      <4>1. PICK a \in 1 .. Len(lru) : lru[a] = m /\ a # i
        BY <1>1, <3>1
      <4>2. CASE a < i
        <5>1. a \in 1 .. Len(rest) /\ rest[a] = m
          BY <1>1, <3>2, <4>1, <4>2
        <5> QED
          BY <5>1
      <4>3. CASE a > i
        <5>1. a - 1 \in 1 .. Len(rest) /\ rest[a - 1] = m
          BY <1>1, <3>2, <4>1, <4>3
        <5> QED
          BY <5>1
      <4> QED
        BY <4>1, <4>2, <4>3
    <3> QED
      BY <3>2, <3>3, <3>4, <3>5, <3>6
  <2>2. CASE Evicts(n)
    <3>1. n \notin DOMAIN cache /\ DOMAIN cache # {}
      <4>1. DOMAIN cache = {} => Cardinality(DOMAIN cache) = 0
        BY FS_EmptySet
      <4> QED
        BY <2>2, <4>1, CacheAssumption DEF Evicts
    <3>2. Len(lru) >= 1 /\ lru # <<>>
      BY <1>1, <3>1
    <3>3. /\ rest = Tail(lru) /\ rest \in Seq(Nat) /\ Len(rest) = Len(lru) - 1
          /\ \A j \in 1 .. Len(lru) - 1 : rest[j] = lru[j + 1]
          /\ Victim = lru[1] /\ Kept(n) = DOMAIN cache \ {lru[1]}
      BY <1>1, <2>2, <3>1, <3>2 DEF Victim, Kept
    <3> HIDE DEF rest
    <3>4. ASSUME NEW m \in DOMAIN cache \ {lru[1]}
          PROVE  \E a \in 1 .. Len(rest) : rest[a] = m
      <4>1. PICK a \in 1 .. Len(lru) : lru[a] = m /\ a # 1
        BY <1>1
      <4>2. a - 1 \in 1 .. Len(rest) /\ rest[a - 1] = m
        BY <1>1, <3>3, <4>1
      <4> QED
        BY <4>2
    <3> QED
      BY <1>1, <3>1, <3>2, <3>3, <3>4
  <2>3. CASE n \notin DOMAIN cache /\ ~Evicts(n)
    BY <1>1, <2>3 DEF Kept
  <2> QED
    BY <2>1, <2>2, <2>3
<1>3. Use(n) = Append(rest, n)
  BY DEF Use
<1> HIDE DEF rest
<1>4. /\ Append(rest, n) \in Seq(Nat) /\ Len(Append(rest, n)) = Len(rest) + 1
      /\ \A j \in 1 .. Len(rest) : Append(rest, n)[j] = rest[j]
      /\ Append(rest, n)[Len(rest) + 1] = n /\ Len(rest) \in Nat
      /\ DOMAIN Append(rest, n) = 1 .. Len(rest) + 1
  BY <1>2
<1>5. IsInjective(Append(rest, n))
  BY <1>2, <1>4 DEF IsInjective
<1>6. Range(Append(rest, n)) = Kept(n) \cup {n}
  BY <1>2, <1>4 DEF Range
<1> QED
  BY <1>2, <1>3, <1>4, <1>5, <1>6

-----------------------------------------------------------------------------
(* The cache.                                                              *)

\* A block enters the cache: the others stay as they are, but for the one that
\* has to go, which is written to the disk if it is dirty and all goes well.
LEMMA InsertLemma ==
    ASSUME CacheType, CleanMatchesDisk, NEW n \in Nat, NEW data \in Blocks,
           NEW dirty \in BOOLEAN, NEW ok \in BOOLEAN,
           Insert(n, Block(data, dirty), ok),
           WritesBack(n) /\ ok => Victim \in DOMAIN disk,
           ~dirty => n \notin DOMAIN cache /\ OnDisk(n, data)
    PROVE  /\ CacheType' /\ CleanMatchesDisk'
           /\ DOMAIN cache' = Kept(n) \cup {n} /\ cache'[n] = Block(data, dirty)
           /\ \A m \in Kept(n) : m # n => cache'[m] = cache[m]
           /\ DOMAIN disk' = DOMAIN disk
           /\ \A m \in DOMAIN disk :
                 \/ disk'[m] = disk[m]
                 \/ Evicts(n) /\ m = Victim /\ m \in DOMAIN cache /\ disk'[m] = cache[m].data
           /\ WritesBack(n) /\ ok => disk'[Victim] = cache[Victim].data
<1>1. /\ Use(n) \in Seq(Nat) /\ IsInjective(Use(n)) /\ Range(Use(n)) = Kept(n) \cup {n}
      /\ Evicts(n) => Victim \in DOMAIN cache
  BY UseLemma
<1>2. Kept(n) \subseteq DOMAIN cache
  BY DEF Kept
<1>3. /\ DOMAIN cache' = Kept(n) \cup {n} /\ cache'[n] = Block(data, dirty)
      /\ IsMap(cache') /\ \A m \in Kept(n) : m # n => cache'[m] = cache[m]
  BY <1>2 DEF Insert, Put, Restrict, IsMap
<1>4. /\ DOMAIN disk' = DOMAIN disk
      /\ \A m \in DOMAIN disk :
                 \/ disk'[m] = disk[m]
                 \/ Evicts(n) /\ m = Victim /\ m \in DOMAIN cache /\ disk'[m] = cache[m].data
      /\ WritesBack(n) /\ ok => disk'[Victim] = cache[Victim].data
  BY <1>1 DEF Insert, WriteBack, WritesBack, CacheType
<1>5. disk' \in [0 .. LastBlock -> Blocks]
  BY <1>1 DEF Insert, WriteBack, WritesBack, CacheType
<1>6. \A m \in DOMAIN cache' : cache'[m] \in [data : Blocks, dirty : BOOLEAN]
  BY <1>2, <1>3 DEF CacheType, Block
<1>7. /\ IsFiniteSet(DOMAIN cache') /\ DOMAIN cache' \subseteq Nat
      /\ Cardinality(DOMAIN cache') <= CACHE_SIZE
  <2>1. /\ IsFiniteSet(DOMAIN cache) /\ Cardinality(DOMAIN cache) \in Nat
        /\ Cardinality(DOMAIN cache) <= CACHE_SIZE /\ CACHE_SIZE \in Nat
    BY FS_CardinalityType, CacheAssumption DEF CacheType, CleanMatchesDisk
  <2>2. CASE Evicts(n)
    <3>1. /\ IsFiniteSet(Kept(n)) /\ Cardinality(Kept(n)) = Cardinality(DOMAIN cache) - 1
      BY <1>1, <2>1, <2>2, FS_RemoveElement DEF Kept
    <3>2. /\ IsFiniteSet(Kept(n) \cup {n})
          /\ Cardinality(Kept(n) \cup {n}) = Cardinality(Kept(n)) + 1
      BY <2>2, <3>1, FS_AddElement DEF Evicts, Kept
    <3> QED
      BY <1>2, <1>3, <2>1, <3>1, <3>2 DEF CacheType
  <2>3. CASE ~Evicts(n) /\ n \in DOMAIN cache
    <3>1. Kept(n) \cup {n} = DOMAIN cache
      BY <2>3 DEF Kept
    <3> QED
      BY <1>3, <2>1, <3>1 DEF CacheType
  <2>4. CASE ~Evicts(n) /\ n \notin DOMAIN cache
    <3>1. Cardinality(DOMAIN cache) < CACHE_SIZE /\ Kept(n) = DOMAIN cache
      BY <2>1, <2>4 DEF Evicts, Kept
    <3>2. /\ IsFiniteSet(Kept(n) \cup {n})
          /\ Cardinality(Kept(n) \cup {n}) = Cardinality(Kept(n)) + 1
      BY <2>1, <2>4, <3>1, FS_AddElement
    <3> QED
      BY <1>2, <1>3, <2>1, <3>1, <3>2 DEF CacheType
  <2> QED
    BY <2>2, <2>3, <2>4
<1>8. CacheType'
  BY <1>1, <1>3, <1>5, <1>6, <1>7 DEF CacheType, Insert
<1>9. ASSUME NEW m \in DOMAIN cache', ~cache'[m].dirty
      PROVE  m \in DOMAIN disk' /\ disk'[m] = cache'[m].data
  <2>1. CASE m = n
    <3>1. ~dirty /\ cache'[m].data = data
      BY <1>3, <1>9, <2>1 DEF Block
    <3>2. n \notin DOMAIN cache /\ n \in DOMAIN disk /\ disk[n] = data
      BY <3>1 DEF OnDisk
    <3> QED
      BY <1>4, <2>1, <3>1, <3>2
  <2>2. CASE m # n
    <3>1. m \in Kept(n) /\ cache'[m] = cache[m] /\ (Evicts(n) => m # Victim)
      BY <1>3, <2>2 DEF Kept
    <3>2. m \in DOMAIN disk /\ disk[m] = cache[m].data
      BY <1>2, <1>9, <3>1 DEF CleanMatchesDisk, OnDisk
    <3> QED
      BY <1>4, <3>1, <3>2
  <2> QED
    BY <2>1, <2>2
<1>10. CleanMatchesDisk'
  BY <1>1, <1>3, <1>7, <1>9 DEF CleanMatchesDisk, Insert, OnDisk
<1> QED
  BY <1>3, <1>4, <1>8, <1>10

-----------------------------------------------------------------------------
(* The jobs: what an invariant says of them in other phases than its own.  *)

\* A job is what its phase says.
LEMMA PhaseLemma ==
    ASSUME JobType
    PROVE  /\ job.phase \in {"idle", "boot", "garbled", "sync", "flush", "load"}
           /\ job.phase = "sync" => job \in SyncJob
           /\ job.phase = "flush" => job \in FlushJob
           /\ job.phase = "load" => job \in LoadJob
BY DEF JobType, Idle, Boot, Garbled

\* The parts of the invariant about jobs, when there is none.
LEMMA AtRest ==
    ASSUME job'.phase \in {"idle", "garbled"}
    PROVE  FlushInv' /\ RunInv' /\ SyncInv' /\ ImageInv' /\ SameInv' /\ LoadInv'
<1>1. FlushInv' /\ RunInv'
  BY DEF FlushInv, RunInv
<1>2. SyncInv' /\ ImageInv' /\ SameInv'
  BY DEF SyncInv, ImageInv, SameInv
<1>3. LoadInv'
  BY DEF LoadInv
<1> QED
  BY <1>1, <1>2, <1>3

\* The parts about other jobs, while one is under way.
LEMMA WhileSyncing ==
    ASSUME job'.phase = "sync"
    PROVE  FlushInv' /\ ImageInv' /\ LoadInv'
<1>1. LoadInv'
  BY DEF LoadInv
<1> QED
  BY <1>1 DEF FlushInv, ImageInv

\* The same during a flush.
LEMMA WhileFlushing ==
    ASSUME job'.phase = "flush"
    PROVE  SyncInv' /\ SameInv' /\ LoadInv'
<1>1. LoadInv'
  BY DEF LoadInv
<1> QED
  BY <1>1 DEF SyncInv, SameInv

\* The same during a load.
LEMMA WhileLoading ==
    ASSUME job'.phase \in {"boot", "load"}
    PROVE  FlushInv' /\ RunInv' /\ SyncInv' /\ ImageInv' /\ SameInv' /\ UpInv' /\ ExtendsInv'
<1>1. SyncInv' /\ ImageInv' /\ SameInv'
  BY DEF SyncInv, ImageInv, SameInv
<1> QED
  BY <1>1 DEF FlushInv, RunInv, UpInv, ExtendsInv, Up

-----------------------------------------------------------------------------
(* Files in memory.                                                        *)

\* A value that agents set has the type of what is stored.
LEMMA ValueType ==
    ASSUME NEW v \in Values
    PROVE  v \in Seq(Bytes)
BY FsAssumption DEF Bytes

\* ContextStore::set with write_file: a blob is shared only if its contents are
\* equal, and a new one has an id that no entry names.
LEMMA SetStep ==
    ASSUME IInv, NEW p \in Keys, NEW v \in Values, Set(p, v)
    PROVE  IInv'
<1> USE DEF IInv
<1>0. /\ job.phase = "idle" /\ job' = job /\ p \in Paths /\ p \in Nat /\ v \in Seq(Bytes)
      /\ UNCHANGED <<disk, cache, lru, faults, syncs, run, synced, damaged>>
      /\ store' = Put(store, p, v) /\ expected' = [expected EXCEPT ![p] = v]
      /\ WriteFile(p, v)
  BY ValueType, FsAssumption DEF Set, cacheVars
<1>1. CacheType' /\ CleanMatchesDisk'
  BY <1>0 DEF CacheType, CleanMatchesDisk, OnDisk
<1>2. JobType'
  BY <1>0 DEF JobType
<1>3. FlushInv' /\ RunInv' /\ SyncInv' /\ ImageInv' /\ SameInv' /\ LoadInv'
  BY <1>0, AtRest
<1>4. SyncedInv' /\ StayInv'
  <2>1. StayInv'
    BY <1>0 DEF StayInv, OnDisk, CountsThem
  <2>2. SyncedInv'
    BY <1>0 DEF SyncedInv, Dirty, OnDisk, FilesMatch
  <2> QED
    BY <2>1, <2>2
<1>5. CASE SameBlob(v)
  <2>1. PICK id \in DOMAIN blobs : blobs[id] = v /\ index' = Put(index, p, Entry(id))
    BY <1>0, <1>5 DEF WriteFile, SameBlob
  <2>2. UNCHANGED <<blobs, hashes, nextBlob>>
    BY <1>0, <1>5 DEF WriteFile
  <2>3. TablesType'
    <3>1. DOMAIN index' = DOMAIN index \cup {p} /\ IsFiniteSet(DOMAIN index')
      BY <2>1, FS_AddElement DEF TablesType, Put
    <3>2. id \in Nat
      BY DEF TablesType, IdMap
    <3> QED
      BY <1>0, <2>1, <2>2, <3>1, <3>2 DEF TablesType, Entry, Put, IsMap
  <2>4. UpInv'
    BY <1>0, <2>1, <2>2 DEF UpInv, Up, Sound, GetReturnsLastSet, Get, ReadFile, Put, Entry, TablesType
  <2>5. ExtendsInv'
    BY <1>0, <2>2 DEF ExtendsInv, Up, Extends
  <2> QED
    BY <1>1, <1>2, <1>3, <1>4, <2>3, <2>4, <2>5
<1>6. CASE ~SameBlob(v)
  <2>1. /\ nextBlob' = nextBlob + 1 /\ blobs' = Put(blobs, nextBlob, v)
        /\ hashes' = Put(hashes, Hash(v), nextBlob)
        /\ index' = Put(index, p, Entry(nextBlob))
    BY <1>0, <1>6 DEF WriteFile
  <2>0. /\ DOMAIN index' = DOMAIN index \cup {p} /\ index'[p] = Entry(nextBlob)
        /\ \A q \in DOMAIN index : q # p => index'[q] = index[q]
        /\ DOMAIN blobs' = DOMAIN blobs \cup {nextBlob} /\ blobs'[nextBlob] = v
        /\ \A id \in DOMAIN blobs : id # nextBlob => blobs'[id] = blobs[id]
        /\ DOMAIN store' = DOMAIN store \cup {p} /\ store'[p] = v
        /\ \A q \in DOMAIN store : q # p => store'[q] = store[q]
    <3>1. store' = Put(store, p, v)
      BY <1>0
    <3> QED
      BY <2>1, <3>1 DEF Put
  <2>2. TablesType'
    <3>1. IsFiniteSet(DOMAIN index') /\ IsFiniteSet(DOMAIN blobs')
      <4>1. IsFiniteSet(DOMAIN index) /\ IsFiniteSet(DOMAIN blobs)
        BY DEF TablesType, IdMap
      <4>2. IsFiniteSet(DOMAIN index \cup {p}) /\ IsFiniteSet(DOMAIN blobs \cup {nextBlob})
        BY <4>1, FS_AddElement
      <4> QED
        BY <2>0, <4>2
    <3>2. nextBlob \in Nat
      BY DEF TablesType
    <3>3. IdMap(blobs')
      BY <1>0, <2>1, <3>1, <3>2 DEF TablesType, IdMap, Put, IsMap
    <3> QED
      <4>1. /\ IsMap(index') /\ DOMAIN index' \subseteq Nat
            /\ \A q \in DOMAIN index' : index'[q] \in [blob : Nat, deleted : BOOLEAN]
        BY <1>0, <2>1, <3>2 DEF TablesType, Entry, Put, IsMap
      <4>2. IsMap(hashes') /\ \A h \in DOMAIN hashes' : hashes'[h] \in Nat
        BY <2>1, <3>2 DEF TablesType, Put, IsMap
      <4>3. IsMap(store') /\ expected' = [q \in Paths |-> expected'[q]]
        BY <1>0 DEF TablesType, Put, IsMap
      <4> QED
        BY <1>0, <2>1, <3>1, <3>2, <3>3, <4>1, <4>2, <4>3 DEF TablesType
  <2>3. ASSUME Up, ~damaged
        PROVE  Sound' /\ GetReturnsLastSet'
    <3>1. /\ \A id \in DOMAIN blobs : id \in Nat /\ id < nextBlob
          /\ \A q \in DOMAIN index : index[q].blob \in DOMAIN blobs
          /\ nextBlob \in Nat /\ nextBlob \notin DOMAIN blobs
      BY <2>3 DEF UpInv, Sound, TablesType, IdMap
    <3>2. Sound'
      <4>1. \A id \in DOMAIN blobs' : id < nextBlob'
        BY <2>0, <2>1, <3>1
      <4>2. \A q \in DOMAIN index' : index'[q].blob \in DOMAIN blobs'
        BY <2>0, <3>1 DEF Entry
      <4> QED
        BY <4>1, <4>2 DEF Sound
    <3>3. ASSUME NEW q \in Paths
          PROVE  Get(q)' = expected'[q] /\ ReadFile(q)' = expected'[q]
      <4>1. Get(q) = expected[q] /\ ReadFile(q) = expected[q]
        BY <2>3 DEF UpInv, GetReturnsLastSet
      <4>2. CASE q = p
        <5>1. ReadFile(p)' = v
          BY <2>0 DEF ReadFile, Entry
        <5>2. Get(p)' = v
          BY <2>0 DEF Get
        <5> QED
          BY <1>0, <4>2, <5>1, <5>2 DEF TablesType
      <4>3. CASE q # p
        <5>1. ReadFile(q)' = ReadFile(q)
          BY <2>0, <3>1, <4>3 DEF ReadFile
        <5>2. Get(q)' = Get(q)
          BY <2>0, <4>3, <5>1 DEF Get
        <5>3. expected'[q] = expected[q]
          BY <1>0, <4>3 DEF TablesType
        <5> QED
          BY <4>1, <5>1, <5>2, <5>3
      <4> QED
        BY <4>2, <4>3
    <3> QED
      BY <3>2, <3>3 DEF GetReturnsLastSet
  <2>4. UpInv'
    BY <1>0, <2>3 DEF UpInv, Up
  <2>5. ExtendsInv'
    <3>1. SUFFICES ASSUME Up, ~damaged
                   PROVE  Extends(DOMAIN blobs)'
      BY <1>0 DEF ExtendsInv, Up
    <3>2. /\ \A id \in DOMAIN blobs : id < nextBlob /\ id # nextBlob
          /\ Extends(DOMAIN blobs)
      BY <3>1 DEF UpInv, Sound, TablesType, IdMap, ExtendsInv
    <3> QED
      BY <1>0, <2>0, <3>2 DEF Extends
  <2> QED
    BY <1>1, <1>2, <1>3, <1>4, <2>2, <2>4, <2>5
<1> QED
  BY <1>5, <1>6

\* ContextStore::delete and clear_agent.
LEMMA ForgetStep ==
    ASSUME IInv, NEW ps \in SUBSET Paths, Forget(ps)
    PROVE  IInv'
<1> USE DEF IInv
<1>0. /\ job.phase = "idle" /\ job' = job
      /\ UNCHANGED <<disk, cache, lru, blobs, hashes, nextBlob, faults, syncs, run, synced, damaged>>
      /\ store' = Restrict(store, DOMAIN store \ ps)
      /\ expected' = [q \in Paths |-> IF q \in ps THEN None ELSE expected[q]]
  BY DEF Forget, cacheVars
<1>1. CacheType' /\ CleanMatchesDisk'
  BY <1>0 DEF CacheType, CleanMatchesDisk, OnDisk
<1>2. JobType'
  BY <1>0 DEF JobType
<1>3. FlushInv' /\ RunInv' /\ SyncInv' /\ ImageInv' /\ SameInv' /\ LoadInv'
  BY <1>0, AtRest
<1>4. SyncedInv' /\ StayInv'
  <2>1. StayInv'
    BY <1>0 DEF StayInv, OnDisk, CountsThem
  <2>2. SyncedInv'
    BY <1>0 DEF SyncedInv, Dirty, OnDisk, FilesMatch
  <2> QED
    BY <2>1, <2>2
<1>5. /\ DOMAIN index' = DOMAIN index /\ IsMap(index')
      /\ \A q \in DOMAIN index : /\ index'[q].blob = index[q].blob
                                 /\ index'[q].deleted = (index[q].deleted \/ q \in ps)
                                 /\ index'[q] \in [blob : Nat, deleted : BOOLEAN]
  BY DEF Forget, DeleteFiles, TablesType, IsMap
<1>6. /\ DOMAIN store' = DOMAIN store \ ps /\ IsMap(store')
      /\ \A q \in DOMAIN store' : store'[q] = store[q]
  BY <1>0 DEF Restrict, IsMap
<1>7. TablesType'
  BY <1>0, <1>5, <1>6 DEF TablesType
<1>8. UpInv'
  <2>1. SUFFICES ASSUME Up, ~damaged
                 PROVE  Sound' /\ GetReturnsLastSet'
    BY <1>0 DEF UpInv, Up
  <2>2. Sound'
    BY <1>0, <1>5, <2>1 DEF UpInv, Sound
  <2>3. ASSUME NEW q \in Paths
        PROVE  Get(q)' = expected'[q] /\ ReadFile(q)' = expected'[q]
    <3>1. Get(q) = expected[q] /\ ReadFile(q) = expected[q]
      BY <2>1 DEF UpInv, GetReturnsLastSet
    <3>2. ReadFile(q)' = IF q \in ps THEN None ELSE ReadFile(q)
      BY <1>0, <1>5 DEF ReadFile
    <3>3. Get(q)' = IF q \in ps THEN None ELSE Get(q)
      BY <1>6, <3>2 DEF Get
    <3> QED
      BY <1>0, <3>1, <3>2, <3>3
  <2> QED
    BY <2>2, <2>3 DEF GetReturnsLastSet
<1>9. ExtendsInv'
  BY <1>0 DEF ExtendsInv, Up, Extends
<1> QED
  BY <1>1, <1>2, <1>3, <1>4, <1>7, <1>8, <1>9

-----------------------------------------------------------------------------
(* sync_to_disk: one block.                                                *)

\* The block is dirty in the cache; one that had to go is on the disk, if it was
\* dirty and all went well.
Wrote(n, b, ok) ==
    /\ CacheType' /\ CleanMatchesDisk'
    /\ DOMAIN cache' = Kept(n) \cup {n} /\ cache'[n] = Block(b, TRUE)
    /\ Kept(n) \subseteq DOMAIN cache
    /\ \A m \in Kept(n) : m # n => cache'[m] = cache[m]
    /\ DOMAIN disk' = DOMAIN disk
    /\ \A m \in DOMAIN disk :
          disk'[m] = disk[m] \/ (m \in DOMAIN cache /\ disk'[m] = cache[m].data)
    /\ \A m \in DOMAIN cache : cache[m].dirty /\ m \notin DOMAIN cache' /\ ok =>
          m \in DOMAIN disk /\ disk'[m] = cache[m].data
    /\ faults \in Nat => faults' \in Nat

\* What cache.write leaves in the cache and on the disk.
LEMMA SyncWriteLemma ==
    ASSUME CacheType, CleanMatchesDisk, NEW n \in Nat, NEW b \in Blocks,
           NEW ok \in BOOLEAN, SyncWrite(n, b, ok)
    PROVE  Wrote(n, b, ok)
<1>1. /\ Insert(n, Block(b, TRUE), ok)
      /\ WritesBack(n) /\ ok => Victim \in DOMAIN disk
      /\ faults \in Nat => faults' \in Nat
  <2>1. Insert(n, Block(b, TRUE), ok) /\ (WritesBack(n) /\ ok => Victim \in DOMAIN disk)
    BY Zenon DEF SyncWrite, CacheWrite
  <2>2. faults' = faults \/ faults' = faults + 1
    BY Zenon DEF SyncWrite, Fault
  <2>3. faults \in Nat => faults' \in Nat
    BY <2>2
  <2> QED
    BY <2>1, <2>3, Zenon
<1>2. /\ CacheType' /\ CleanMatchesDisk'
      /\ DOMAIN cache' = Kept(n) \cup {n} /\ cache'[n] = Block(b, TRUE)
      /\ \A m \in Kept(n) : m # n => cache'[m] = cache[m]
      /\ DOMAIN disk' = DOMAIN disk
      /\ \A m \in DOMAIN disk :
            \/ disk'[m] = disk[m]
            \/ Evicts(n) /\ m = Victim /\ m \in DOMAIN cache /\ disk'[m] = cache[m].data
      /\ WritesBack(n) /\ ok => disk'[Victim] = cache[Victim].data
  BY <1>1, InsertLemma
<1>3. Kept(n) \subseteq DOMAIN cache
  BY DEF Kept
<1>4. ASSUME NEW m \in DOMAIN cache, cache[m].dirty, m \notin DOMAIN cache', ok
      PROVE  m \in DOMAIN disk /\ disk'[m] = cache[m].data
  <2>1. Evicts(n) /\ m = Victim
    BY <1>2, <1>4 DEF Kept
  <2>2. WritesBack(n)
    BY <1>4, <2>1 DEF WritesBack
  <2> QED
    BY <1>1, <1>2, <1>4, <2>1, <2>2
<1>5. faults \in Nat => faults' \in Nat
  BY <1>1, Zenon
<1> QED
  BY <1>2, <1>3, <1>4, <1>5 DEF Wrote

\* What RunInv says, of one more block.
OnTheWay(image, r) ==
    \A m \in DOMAIN image :
        /\ m \in DOMAIN cache => cache[m] = Block(image[m], TRUE)
        /\ m \notin DOMAIN cache /\ r => OnDisk(m, image[m])

StillOnTheWay(image, r, n, b, ok) ==
    /\ n \in DOMAIN cache' /\ cache'[n] = Block(b, TRUE)
    /\ \A m \in DOMAIN image : m # n =>
          /\ m \in DOMAIN cache' => cache'[m] = Block(image[m], TRUE)
          /\ m \notin DOMAIN cache' /\ r /\ ok => m \in DOMAIN disk' /\ disk'[m] = image[m]

\* The image of the sync under way stays on its way when a block is added.
LEMMA RunLemma ==
    ASSUME CacheType, CleanMatchesDisk, NEW n \in Nat, NEW b \in Blocks,
           NEW ok \in BOOLEAN, SyncWrite(n, b, ok),
           NEW image, NEW r \in BOOLEAN, OnTheWay(image, r)
    PROVE  StillOnTheWay(image, r, n, b, ok)
<1> SUFFICES ASSUME NEW m \in DOMAIN image, m # n
             PROVE  /\ m \in DOMAIN cache' => cache'[m] = Block(image[m], TRUE)
                    /\ m \notin DOMAIN cache' /\ r /\ ok =>
                          m \in DOMAIN disk' /\ disk'[m] = image[m]
  <2>1. Wrote(n, b, ok)
    BY SyncWriteLemma
  <2>2. cache'[n] = Block(b, TRUE) /\ n \in DOMAIN cache'
    BY <2>1 DEF Wrote
  <2> QED
    BY <2>2 DEF StillOnTheWay
<1>0. Wrote(n, b, ok)
  BY SyncWriteLemma
<1>1. /\ DOMAIN cache' = Kept(n) \cup {n} /\ Kept(n) \subseteq DOMAIN cache
      /\ \A l \in Kept(n) : l # n => cache'[l] = cache[l]
      /\ DOMAIN disk' = DOMAIN disk
      /\ \A l \in DOMAIN disk :
            disk'[l] = disk[l] \/ (l \in DOMAIN cache /\ disk'[l] = cache[l].data)
      /\ \A l \in DOMAIN cache : cache[l].dirty /\ l \notin DOMAIN cache' /\ ok =>
            l \in DOMAIN disk /\ disk'[l] = cache[l].data
  BY <1>0 DEF Wrote
<1>2. /\ m \in DOMAIN cache => cache[m] = Block(image[m], TRUE)
      /\ m \notin DOMAIN cache /\ r => m \in DOMAIN disk /\ disk[m] = image[m]
  BY DEF OnTheWay, OnDisk
<1>3. m \in DOMAIN cache => cache[m].dirty /\ cache[m].data = image[m]
  BY <1>2 DEF Block
<1> QED
  BY <1>1, <1>2, <1>3

\* A block that is on the disk, and not otherwise in the cache, stays there
\* unless something else is written to it.
LEMMA KeepLemma ==
    ASSUME CacheType, CleanMatchesDisk, NEW n \in Nat, NEW b \in Blocks,
           NEW ok \in BOOLEAN, SyncWrite(n, b, ok),
           NEW m, NEW c, m \in DOMAIN disk, disk[m] = c,
           m \in DOMAIN cache => cache[m].data = c, m = n => b = c
    PROVE  /\ m \in DOMAIN disk' /\ disk'[m] = c
           /\ m \in DOMAIN cache' => cache'[m].data = c
<1>0. Wrote(n, b, ok)
  BY SyncWriteLemma
<1>1. /\ DOMAIN cache' = Kept(n) \cup {n} /\ Kept(n) \subseteq DOMAIN cache
      /\ cache'[n] = Block(b, TRUE)
      /\ \A l \in Kept(n) : l # n => cache'[l] = cache[l]
      /\ DOMAIN disk' = DOMAIN disk
      /\ \A l \in DOMAIN disk :
            disk'[l] = disk[l] \/ (l \in DOMAIN cache /\ disk'[l] = cache[l].data)
  BY <1>0 DEF Wrote
<1>2. m \in DOMAIN disk' /\ disk'[m] = c
  BY <1>1
<1>3. m \in DOMAIN cache' => cache'[m].data = c
  <2>1. CASE m = n
    BY <1>1, <2>1 DEF Block
  <2>2. CASE m # n
    BY <1>1, <2>2
  <2> QED
    BY <2>1, <2>2
<1> QED
  BY <1>2, <1>3

\* So do the blobs of the last good sync, if it is not over them that a sync
\* writes, and a superblock that counts them.
LEMMA StayLemma ==
    ASSUME CacheType, CleanMatchesDisk, StayInv, NEW n \in Nat, NEW b \in Blocks,
           NEW ok \in BOOLEAN, SyncWrite(n, b, ok),
           damaged' = damaged, synced'.blobs = synced.blobs, synced'.at = synced.at,
           ~damaged => \A id \in DOMAIN synced.blobs :
                          \A k \in 0 .. Width(synced.blobs[id]) - 1 :
                             synced.at[id] + k = n => b = BlobBlock(id, synced.blobs[id], k),
           ~damaged /\ n = 0 /\ DOMAIN synced.blobs # {} => CountsThem(b)
    PROVE  StayInv'
<1> SUFFICES ASSUME ~damaged
             PROVE  StayInv'
  BY DEF StayInv
<1>1. ASSUME NEW id \in DOMAIN synced.blobs, NEW k \in 0 .. Width(synced.blobs[id]) - 1
      PROVE  LET m == synced.at[id] + k
                 c == BlobBlock(id, synced.blobs[id], k)
             IN  /\ m \in DOMAIN disk' /\ disk'[m] = c
                 /\ m \in DOMAIN cache' => cache'[m].data = c
  <2> DEFINE m == synced.at[id] + k
             c == BlobBlock(id, synced.blobs[id], k)
  <2>1. /\ m \in DOMAIN disk /\ disk[m] = c /\ (m \in DOMAIN cache => cache[m].data = c)
        /\ m = n => b = c
    BY <1>1 DEF StayInv, OnDisk
  <2> HIDE DEF m, c
  <2>2. m \in DOMAIN disk' /\ disk'[m] = c /\ (m \in DOMAIN cache' => cache'[m].data = c)
    BY <2>1, KeepLemma
  <2> QED
    BY <2>2 DEF m, c
<1>2. ASSUME DOMAIN synced.blobs # {}
      PROVE  /\ CountsThem(disk[0])'
             /\ 0 \in DOMAIN cache' => CountsThem(cache[0].data)'
  <2>1. /\ CountsThem(disk[0]) /\ (0 \in DOMAIN cache => CountsThem(cache[0].data))
        /\ n = 0 => CountsThem(b)
    BY <1>2 DEF StayInv
  <2>2. 0 \in DOMAIN disk
    BY CacheAssumption DEF CacheType
  <2>0. Wrote(n, b, ok)
    BY SyncWriteLemma
  <2>3. /\ DOMAIN cache' = Kept(n) \cup {n} /\ Kept(n) \subseteq DOMAIN cache
        /\ cache'[n] = Block(b, TRUE)
        /\ \A l \in Kept(n) : l # n => cache'[l] = cache[l]
        /\ \A l \in DOMAIN disk :
              disk'[l] = disk[l] \/ (l \in DOMAIN cache /\ disk'[l] = cache[l].data)
    BY <2>0 DEF Wrote
  <2>4. disk'[0] = disk[0] \/ (0 \in DOMAIN cache /\ disk'[0] = cache[0].data)
    BY <2>2, <2>3
  <2>5. 0 \in DOMAIN cache' => (n = 0 /\ cache'[0].data = b)
                               \/ (0 \in DOMAIN cache /\ cache'[0] = cache[0])
    BY <2>3 DEF Block
  <2> QED
    BY <2>1, <2>4, <2>5 DEF CountsThem
<1> QED
  BY <1>1, <1>2 DEF StayInv, OnDisk

\* The blocks of a blob.
LEMMA WidthLemma ==
    ASSUME NEW v \in Seq(Bytes), NEW id \in Nat
    PROVE  /\ Width(v) \in Nat /\ Width(v) >= 1
           /\ \A k \in 0 .. Width(v) - 1 : BlobBlock(id, v, k) \in Blocks
<1>1. Len(v) \in Nat /\ (v # <<>> => Len(v) >= 1)
  BY EmptySeq
<1>2. Width(v) \in Nat /\ Width(v) >= 1
  BY <1>1 DEF Width
<1>3. ASSUME NEW k \in 0 .. Width(v) - 1
      PROVE  BlobBlock(id, v, k) \in Blocks
  <2>1. CASE k = 0
    <3>1. (IF v = <<>> THEN Junk ELSE v[1]) \in Bytes
      BY <1>1 DEF Bytes
    <3>2. BlobHead(id, v) \in [kind : {"blob"}, id : Nat, size : Nat, chunk : Bytes]
      BY <1>1, <3>1 DEF BlobHead
    <3> QED
      BY <2>1, <3>2 DEF BlobBlock, Blocks
  <2>2. CASE k # 0
    <3>1. k + 1 \in 1 .. Len(v)
      BY <1>1, <2>2 DEF Width
    <3>2. v[k + 1] \in Bytes
      BY <3>1
    <3>3. Cont(v[k + 1]) \in [kind : {"cont"}, chunk : Bytes]
      BY <3>2 DEF Cont
    <3> QED
      BY <2>2, <3>3 DEF BlobBlock, Blocks
  <2> QED
    BY <2>1, <2>2
<1> QED
  BY <1>2, <1>3

\* One more blob behind the others.
LEMMA LayoutLemma ==
    ASSUME NEW bs, IdMap(bs), NEW ids \in SUBSET DOMAIN bs, NEW at, NEW base,
           Layout(ids, bs, at, base), NEW id \in DOMAIN bs, \A i \in ids : i < id,
           NEW at2, \A i \in ids : at2[i] = at[i], at2[id] = base
    PROVE  Layout(ids \cup {id}, bs, at2, base + Width(bs[id]))
<1> DEFINE w(i) == Width(bs[i])
           new == ids \cup {id}
<1>1. \A i \in DOMAIN bs : i \in Nat /\ w(i) \in Nat /\ w(i) >= 1
  BY WidthLemma DEF IdMap
<1>2. \A i \in ids : i \in Nat /\ i < id /\ i # id
  BY <1>1
<1>3. /\ base \in Nat /\ base >= 1
      /\ \A i \in ids : at[i] \in Nat /\ at[i] >= 1 /\ at[i] + w(i) <= base
      /\ \A i, j \in ids : i < j => at[i] + w(i) <= at[j]
      /\ \A i, j \in ids : i < j /\ (\A m \in ids : ~(i < m /\ m < j)) => at[j] = at[i] + w(i)
      /\ \A i \in ids : (\A j \in ids : i <= j) => at[i] = 1
      /\ \A i \in ids : (\A j \in ids : j <= i) => base = at[i] + w(i)
      /\ ids = {} => base = 1
  BY DEF Layout
<1>4. Layout(new, bs, at2, base + w(id)) <=>
      /\ base + w(id) \in Nat /\ base + w(id) >= 1
      /\ \A i \in new : at2[i] \in Nat /\ at2[i] >= 1 /\ at2[i] + w(i) <= base + w(id)
      /\ \A i, j \in new : i < j => at2[i] + w(i) <= at2[j]
      /\ \A i, j \in new : i < j /\ (\A m \in new : ~(i < m /\ m < j)) => at2[j] = at2[i] + w(i)
      /\ \A i \in new : (\A j \in new : i <= j) => at2[i] = 1
      /\ \A i \in new : (\A j \in new : j <= i) => base + w(id) = at2[i] + w(i)
      /\ new = {} => base + w(id) = 1
  BY DEF Layout
<1> HIDE DEF w
<1>5. base + w(id) \in Nat /\ base + w(id) >= 1
  BY <1>1, <1>3
<1>6. \A i \in new : at2[i] \in Nat /\ at2[i] >= 1 /\ at2[i] + w(i) <= base + w(id)
  BY <1>1, <1>3
<1>7. \A i, j \in new : i < j => at2[i] + w(i) <= at2[j]
  BY <1>1, <1>2, <1>3
<1>8. ASSUME NEW i \in new, NEW j \in new, i < j, \A m \in new : ~(i < m /\ m < j)
      PROVE  at2[j] = at2[i] + w(i)
  <2>1. i \in ids
    BY <1>1, <1>2, <1>8
  <2>2. CASE j = id
    <3>1. \A m \in ids : m <= i
      BY <1>1, <1>2, <1>8, <2>1, <2>2
    <3>2. base = at[i] + w(i)
      BY <1>3, <2>1, <3>1
    <3> QED
      BY <2>1, <2>2, <3>2
  <2>3. CASE j \in ids
    <3>1. at[j] = at[i] + w(i)
      BY <1>3, <1>8, <2>1, <2>3
    <3> QED
      BY <2>1, <2>3, <3>1
  <2> QED
    BY <2>2, <2>3
<1>9. ASSUME NEW i \in new, \A j \in new : i <= j
      PROVE  at2[i] = 1
  <2>1. CASE i \in ids
    BY <1>3, <1>9, <2>1
  <2>2. CASE i = id
    <3>1. ids = {}
      BY <1>1, <1>2, <1>9, <2>2
    <3> QED
      BY <1>3, <2>2, <3>1
  <2> QED
    BY <2>1, <2>2
<1>10. ASSUME NEW i \in new, \A j \in new : j <= i
       PROVE  base + w(id) = at2[i] + w(i)
  BY <1>1, <1>2, <1>10
<1>11. Layout(new, bs, at2, base + w(id))
  BY <1>4, <1>5, <1>6, <1>7, <1>8, <1>9, <1>10, Zenon
<1> QED
  BY <1>11 DEF w

\* What every block that sync_to_disk writes has in common.
LEMMA SyncFrame ==
    ASSUME IInv, Up, NEW n \in Nat, NEW b \in Blocks, NEW ok \in BOOLEAN,
           SyncWrite(n, b, ok), job'.phase = "sync", UNCHANGED fs, expected' = expected,
           damaged' = damaged, synced'.blobs = synced.blobs, synced'.at = synced.at,
           synced'.end = synced.end, synced'.intact = FALSE,
           NEW image, NEW r \in BOOLEAN, OnTheWay(image, r),
           run'.image = Put(image, n, b), run'.ok = (r /\ ok)
    PROVE  /\ CacheType' /\ CleanMatchesDisk' /\ TablesType' /\ RunInv'
           /\ SyncedInv' /\ UpInv' /\ ExtendsInv' /\ FlushInv' /\ ImageInv' /\ LoadInv'
<1> USE DEF IInv
<1>1. Wrote(n, b, ok)
  BY SyncWriteLemma
<1>2. CacheType' /\ CleanMatchesDisk' /\ (faults \in Nat => faults' \in Nat)
  BY <1>1 DEF Wrote
<1>3. UNCHANGED <<index, blobs, hashes, nextBlob, store>>
  BY DEF fs
<1>4. TablesType'
  BY <1>2, <1>3 DEF TablesType
<1>5. RunInv'
  <2>1. /\ n \in DOMAIN cache' /\ cache'[n] = Block(b, TRUE)
        /\ \A m \in DOMAIN image : m # n =>
              /\ m \in DOMAIN cache' => cache'[m] = Block(image[m], TRUE)
              /\ m \notin DOMAIN cache' /\ r /\ ok =>
                    m \in DOMAIN disk' /\ disk'[m] = image[m]
    <3>1. StillOnTheWay(image, r, n, b, ok)
      BY RunLemma
    <3> QED
      BY <3>1 DEF StillOnTheWay
  <2>2. /\ DOMAIN run'.image = DOMAIN image \cup {n} /\ run'.image[n] = b
        /\ \A m \in DOMAIN image : m # n => run'.image[m] = image[m]
    BY DEF Put
  <2> QED
    BY <2>1, <2>2 DEF RunInv, OnDisk
<1>6. SyncedInv'
  BY DEF SyncedInv
<1>7. UpInv' /\ ExtendsInv'
  <2>1. Sound' <=> Sound
    BY <1>3 DEF Sound
  <2>2. ASSUME ~damaged
        PROVE  GetReturnsLastSet'
    BY <1>3, <2>2 DEF UpInv, GetReturnsLastSet, Get, ReadFile
  <2>3. Extends(DOMAIN blobs)' <=> Extends(DOMAIN blobs)
    BY <1>3 DEF Extends
  <2> QED
    BY <2>1, <2>2, <2>3 DEF UpInv, ExtendsInv
<1>8. FlushInv' /\ ImageInv' /\ LoadInv'
  BY WhileSyncing
<1> QED
  BY <1>2, <1>4, <1>5, <1>6, <1>7, <1>8

\* The files that are not deleted.
LEMMA AliveLemma ==
    ASSUME TablesType
    PROVE  IsFiniteSet(Alive) /\ Alive \subseteq Nat /\ Alive \subseteq DOMAIN index
           /\ Cardinality(Alive) \in Nat
<1>1. Alive \subseteq DOMAIN index
  BY DEF Alive
<1> QED
  BY <1>1, FS_Subset, FS_CardinalityType DEF TablesType

\* The first of the blobs that sync_to_disk has still to write belongs to the last
\* good sync if any of them does.
LEMMA FirstLemma ==
    ASSUME TablesType, Extends(DOMAIN blobs), NEW todo \in SUBSET DOMAIN blobs,
           DOMAIN synced.blobs \cap todo # {}
    PROVE  Min(todo) \in DOMAIN synced.blobs /\ Min(todo) \in todo /\ Min(todo) \in Nat
           /\ \A j \in todo : Min(todo) <= j
<1>1. todo \in SUBSET Nat /\ todo # {}
  BY DEF TablesType, IdMap
<1>2. Min(todo) \in todo /\ Min(todo) \in Nat /\ \A j \in todo : Min(todo) <= j
  BY <1>1, MinLemma
<1>3. PICK d \in DOMAIN synced.blobs : d \in todo
  OBVIOUS
<1>4. Min(todo) <= d /\ d \in Nat
  BY <1>1, <1>2, <1>3
<1>5. Min(todo) \notin DOMAIN synced.blobs => d < Min(todo)
  BY <1>2, <1>3 DEF Extends
<1> QED
  BY <1>2, <1>4, <1>5

\* sync_to_disk: the superblock.
LEMMA SyncStartStep ==
    ASSUME IInv, NEW ok \in BOOLEAN, SyncStart(ok)
    PROVE  IInv'
<1> USE DEF IInv
<1> DEFINE sb == Super(Cardinality(DOMAIN blobs), Cardinality(Alive), nextBlob)
<1>1. /\ job.phase = "idle" /\ SyncWrite(0, sb, ok)
      /\ run' = [image |-> Put(<<>>, 0, sb), at |-> <<>>, end |-> 1, ok |-> ok]
      /\ job' = [phase |-> "sync", blobs |-> DOMAIN blobs, k |-> 0, files |-> Alive, pos |-> 1]
      /\ synced' = [synced EXCEPT !.intact = FALSE]
      /\ UNCHANGED fs /\ expected' = expected /\ damaged' = damaged
  BY DEF SyncStart, NewRun
<1>2. /\ synced'.blobs = synced.blobs /\ synced'.at = synced.at
      /\ synced'.end = synced.end /\ synced'.intact = FALSE
      /\ synced' = [image |-> synced.image, at |-> synced.at, end |-> synced.end,
                    blobs |-> synced.blobs, files |-> synced.files, intact |-> FALSE]
  BY <1>1 DEF JobType
<1>3. /\ IsFiniteSet(DOMAIN blobs) /\ Cardinality(DOMAIN blobs) \in Nat
      /\ DOMAIN blobs \subseteq Nat /\ nextBlob \in Nat
      /\ IsFiniteSet(Alive) /\ Alive \subseteq Nat /\ Cardinality(Alive) \in Nat
  BY AliveLemma, FS_CardinalityType DEF TablesType, IdMap
<1>4. sb \in Blocks
  BY <1>3 DEF Super, Blocks
<1>5. UNCHANGED <<index, blobs, hashes, nextBlob, store>>
  BY <1>1 DEF fs
<1> HIDE DEF sb
<1>6. DOMAIN run'.image = {0} /\ run'.image[0] = sb
  BY <1>1 DEF Put
<1>7. Up
  BY <1>1 DEF Up
<1>8. /\ CacheType' /\ CleanMatchesDisk' /\ TablesType' /\ RunInv'
      /\ SyncedInv' /\ UpInv' /\ ExtendsInv' /\ FlushInv' /\ ImageInv' /\ LoadInv'
  <2>1. OnTheWay(<<>>, TRUE)
    BY DEF OnTheWay
  <2>2. run'.ok = (TRUE /\ ok) /\ run'.image = Put(<<>>, 0, sb) /\ job'.phase = "sync"
    BY <1>1
  <2> QED
    BY <1>1, <1>2, <1>4, <1>7, <2>1, <2>2, SyncFrame
<1>9. JobType'
  <2>1. job' \in SyncJob /\ job'.phase = "sync"
    BY <1>1, <1>3 DEF SyncJob
  <2> QED
    BY <1>1, <1>2, <2>1 DEF JobType
<1>10. Alive' = Alive
  BY <1>5 DEF Alive
<1>11. SyncInv'
  <2>1. Done' = {} /\ Base' = 1
    BY <1>1, <1>5 DEF Done, Base
  <2>2. HoldsSuper'
    BY <1>5, <1>6, <1>10 DEF HoldsSuper, sb
  <2>3. Layout({}, blobs', run'.at, 1)
    BY DEF Layout
  <2>4. \A i \in DOMAIN blobs : blobs[i] \in Seq(Bytes)
    BY DEF TablesType, IdMap
  <2>5. job'.blobs # {} => Min(job.blobs)' \in DOMAIN blobs /\ 0 < Width(blobs[Min(job.blobs)])'
    <3>1. job'.blobs = DOMAIN blobs
      BY <1>1
    <3>2. DOMAIN blobs # {} => Min(DOMAIN blobs) \in DOMAIN blobs
      BY <1>3, MinLemma
    <3>3. DOMAIN blobs # {} => Width(blobs[Min(DOMAIN blobs)]) \in Nat
                               /\ Width(blobs[Min(DOMAIN blobs)]) >= 1
      BY <2>4, <3>2, WidthLemma
    <3> QED
      BY <1>5, <3>1, <3>2, <3>3
  <2>6. HoldsBlobs(run'.image, {}, blobs', run'.at)
    BY DEF HoldsBlobs
  <2>7. HoldsFiles({}, 1, 1)'
    BY DEF HoldsFiles
  <2>8. /\ job'.pos = 1 /\ job'.k = 0 /\ job'.files = Alive /\ job'.blobs = DOMAIN blobs
        /\ run'.end = 1 /\ job'.phase = "sync"
    BY <1>1
  <2>9. (Alive \ job.files)' = {}
    BY <1>10, <2>8
  <2>10. Layout(Done, blobs, run.at, IF job.blobs = {} THEN run.end ELSE Base)'
    BY <2>1, <2>3, <2>8
  <2>11. HoldsBlobs(run.image, Done, blobs, run.at)'
    BY <2>1, <2>6
  <2>12. HoldsFiles(Alive \ job.files, run.end, job.pos)'
    BY <2>7, <2>8, <2>9
  <2>13. /\ job'.pos >= 1 /\ job'.blobs \subseteq DOMAIN blobs' /\ job'.files \subseteq Alive'
         /\ (\A i \in Done', j \in job'.blobs : i < j) /\ Done' \subseteq DOMAIN run'.at
         /\ job'.k < job'.pos /\ ~(job'.k > 0) /\ run'.end = job'.pos /\ run'.end <= job'.pos
         /\ DOMAIN run'.image = 0 .. job'.pos - 1 /\ 0 .. job'.k - 1 = {}
    BY <1>5, <1>6, <1>10, <2>1, <2>8
  <2>14. IF job'.blobs = {} THEN job'.k = 0
         ELSE job'.k < Width(blobs[Min(job.blobs)])' /\ job'.files = Alive'
    BY <1>10, <2>5, <2>8
  <2>15. job'.pos - run'.end = Cardinality(Alive)' - Cardinality(job.files)'
    BY <1>3, <1>10, <2>8
  <2> QED
    BY <2>2, <2>10, <2>11, <2>12, <2>13, <2>14, <2>15 DEF SyncInv
<1>12. ASSUME ~damaged
       PROVE  /\ DOMAIN synced.blobs = {} => synced.end = 1
              /\ DOMAIN synced.blobs # {} => synced.at[Min(DOMAIN blobs)] = 1
              /\ DOMAIN synced.blobs \subseteq DOMAIN blobs
  <2>1. Extends(DOMAIN blobs)
    BY <1>7, <1>12 DEF ExtendsInv
  <2>2. Layout(DOMAIN synced.blobs, synced.blobs, synced.at, synced.end)
    BY DEF SyncedInv
  <2>3. DOMAIN synced.blobs \subseteq DOMAIN blobs
    BY <2>1 DEF Extends
  <2>4. ASSUME DOMAIN synced.blobs # {}
        PROVE  synced.at[Min(DOMAIN blobs)] = 1
    <3>1. /\ Min(DOMAIN blobs) \in DOMAIN synced.blobs
          /\ \A j \in DOMAIN blobs : Min(DOMAIN blobs) <= j
      <4>1. DOMAIN synced.blobs \cap DOMAIN blobs # {}
        BY <2>3, <2>4
      <4> QED
        BY <2>1, <4>1, FirstLemma
    <3> QED
      BY <2>2, <2>3, <3>1 DEF Layout
  <2> QED
    BY <2>2, <2>3, <2>4 DEF Layout
<1>13. SameInv'
  <2>1. Done' = {} /\ Base' = 1 /\ job'.blobs = DOMAIN blobs
    BY <1>1, <1>5 DEF Done, Base
  <2> QED
    BY <1>1, <1>2, <1>12, <2>1 DEF SameInv
<1>14. StayInv'
  <2>1. ~damaged /\ DOMAIN synced.blobs # {} => CountsThem(sb)
    <3>1. DOMAIN synced.blobs \subseteq DOMAIN blobs =>
             Cardinality(DOMAIN synced.blobs) <= Cardinality(DOMAIN blobs)
      BY <1>3, FS_Subset
    <3>2. Cardinality(DOMAIN synced.blobs) \in Nat
      BY FS_CardinalityType DEF SyncedInv, IdMap
    <3> QED
      BY <1>3, <1>12, <3>1, <3>2 DEF CountsThem, sb, Super
  <2>2. ASSUME NEW id \in DOMAIN synced.blobs, NEW k \in 0 .. Width(synced.blobs[id]) - 1
        PROVE  synced.at[id] + k # 0
    BY <2>2 DEF SyncedInv, Layout
  <2> QED
    BY <1>1, <1>2, <1>4, <2>1, <2>2, StayLemma
<1> QED
  BY <1>8, <1>9, <1>11, <1>13, <1>14

\* The layout depends on the places of its blobs only.
LEMMA LayoutSame ==
    ASSUME NEW ids, NEW bs, NEW at, NEW end, Layout(ids, bs, at, end),
           NEW at2, \A i \in ids : at2[i] = at[i]
    PROVE  Layout(ids, bs, at2, end)
BY DEF Layout

\* A sync in its middle has begun the image and lost the last good one.
LEMMA SyncingLemma ==
    ASSUME IInv, job.phase = "sync"
    PROVE  /\ job \in SyncJob /\ OnTheWay(run.image, run.ok) /\ run.ok \in BOOLEAN
           /\ ~synced.intact /\ synced.intact \in BOOLEAN /\ Up
<1> USE DEF IInv
<1>1. job \in SyncJob
  BY PhaseLemma
<1>2. OnTheWay(run.image, run.ok)
  BY DEF RunInv, OnTheWay
<1>3. ~synced.intact
  BY DEF SyncedInv
<1> QED
  BY <1>1, <1>2, <1>3 DEF JobType, Up

\* sync_to_disk: the next block of a blob goes where the last good sync has it.
LEMMA SyncBlobStep ==
    ASSUME IInv, NEW ok \in BOOLEAN, SyncBlob(ok)
    PROVE  IInv'
<1> USE DEF IInv
<1> DEFINE id == Min(job.blobs)
           v == blobs[id]
           w == Width(v)
           k == job.k
           pos == job.pos
           b == BlobBlock(id, v, k)
           last == k + 1 = w
           rest == IF last THEN job.blobs \ {id} ELSE job.blobs
           next == IF last THEN 0 ELSE k + 1
<1>1. /\ job.phase = "sync" /\ job.blobs # {} /\ SyncWrite(pos, b, ok)
      /\ job' = [job EXCEPT !.pos = pos + 1, !.k = next, !.blobs = rest]
      /\ run' = [image |-> Put(run.image, pos, b),
                 at    |-> IF k = 0 THEN Put(run.at, id, pos) ELSE run.at,
                 end   |-> pos + 1, ok |-> run.ok /\ ok]
      /\ UNCHANGED fs /\ UNCHANGED <<expected, synced, damaged>>
  BY DEF SyncBlob, NextId, history
<1>2. /\ job \in SyncJob /\ OnTheWay(run.image, run.ok) /\ run.ok \in BOOLEAN
      /\ ~synced.intact /\ synced.intact \in BOOLEAN /\ Up
  BY <1>1, SyncingLemma
<1>3. UNCHANGED <<index, blobs, hashes, nextBlob, store>>
  BY <1>1 DEF fs
<1>4. /\ k \in Nat /\ pos \in Nat /\ job.blobs \subseteq Nat /\ job.files \subseteq Nat
      /\ id \in job.blobs /\ id \in Nat /\ \A j \in job.blobs : id <= j
  BY <1>1, <1>2, MinLemma DEF SyncJob
<1>5. /\ pos >= 1 /\ job.blobs \subseteq DOMAIN blobs /\ job.files = Alive
      /\ \A i \in Done, j \in job.blobs : i < j
      /\ k < w /\ k < pos /\ Layout(Done, blobs, run.at, Base)
      /\ HoldsBlobs(run.image, Done, blobs, run.at) /\ Done \subseteq DOMAIN run.at
      /\ k > 0 => id \in DOMAIN run.at /\ run.at[id] = Base
      /\ \A l \in 0 .. k - 1 : run.image[Base + l] = BlobBlock(id, v, l)
      /\ run.end = pos /\ DOMAIN run.image = 0 .. pos - 1 /\ HoldsSuper
  BY <1>1 DEF SyncInv
<1>6. /\ IdMap(blobs) /\ v \in Seq(Bytes) /\ w \in Nat /\ w >= 1 /\ id \in DOMAIN blobs
      /\ b \in Blocks /\ Base = pos - k /\ Base \in Nat /\ Base >= 1
      /\ \A i \in DOMAIN blobs : i \in Nat /\ Width(blobs[i]) \in Nat /\ Width(blobs[i]) >= 1
  <2>1. v \in Seq(Bytes) /\ IdMap(blobs) /\ id \in DOMAIN blobs
    BY <1>4, <1>5 DEF TablesType, IdMap
  <2>2. /\ w \in Nat /\ w >= 1
        /\ \A l \in 0 .. w - 1 : BlobBlock(id, v, l) \in Blocks
    BY <1>4, <2>1, WidthLemma
  <2>3. \A i \in DOMAIN blobs : i \in Nat /\ Width(blobs[i]) \in Nat /\ Width(blobs[i]) >= 1
    BY WidthLemma DEF TablesType, IdMap
  <2> QED
    BY <1>4, <1>5, <2>1, <2>2, <2>3 DEF Base
<1> HIDE DEF id, v, w, k, pos, b, rest, next, last
<1>7. /\ job'.pos = pos + 1 /\ job'.k = next /\ job'.blobs = rest
      /\ job'.files = job.files /\ job'.phase = "sync" /\ job' \in SyncJob
      /\ rest \subseteq job.blobs
  <2>1. rest \subseteq job.blobs
    BY DEF rest
  <2>2. next \in Nat
    BY <1>4 DEF next
  <2>3. pos + 1 \in Nat /\ rest \in SUBSET Nat
    BY <1>4, <2>1
  <2>4. job' \in SyncJob
    BY <1>1, <1>2, <2>2, <2>3 DEF SyncJob
  <2>5. /\ job'.pos = pos + 1 /\ job'.k = next /\ job'.blobs = rest
        /\ job'.files = job.files /\ job'.phase = job.phase
    BY <1>1, <1>2 DEF SyncJob
  <2> QED
    BY <1>1, <2>1, <2>4, <2>5
<1>8. /\ run'.end = pos + 1 /\ run'.ok = (run.ok /\ ok) /\ run'.image = Put(run.image, pos, b)
      /\ DOMAIN run'.image = 0 .. pos /\ run'.image[pos] = b
      /\ \A n \in 0 .. pos - 1 : run'.image[n] = run.image[n]
  BY <1>1, <1>4, <1>5 DEF Put
<1>9. /\ run'.at[id] = Base /\ \A i \in Done : run'.at[i] = run.at[i]
      /\ id \in DOMAIN run'.at /\ Done \subseteq DOMAIN run'.at
  <2>1. id \notin Done
    BY <1>4 DEF Done
  <2>2. CASE k = 0
    <3>1. run'.at = Put(run.at, id, pos) /\ Base = pos
      BY <1>1, <1>4, <1>6, <2>2
    <3> QED
      BY <1>5, <2>1, <3>1 DEF Put
  <2>3. CASE k # 0
    <3>1. run'.at = run.at /\ k > 0
      BY <1>1, <1>4, <2>3
    <3> QED
      BY <1>5, <3>1
  <2> QED
    BY <2>2, <2>3
<1>10. /\ CacheType' /\ CleanMatchesDisk' /\ TablesType' /\ RunInv'
       /\ SyncedInv' /\ UpInv' /\ ExtendsInv' /\ FlushInv' /\ ImageInv' /\ LoadInv'
  <2>1. /\ synced'.blobs = synced.blobs /\ synced'.at = synced.at
        /\ synced'.end = synced.end /\ synced'.intact = FALSE
    BY <1>1, <1>2
  <2> QED
    BY <1>1, <1>2, <1>4, <1>6, <1>7, <1>8, <2>1, SyncFrame
<1>11. JobType'
  BY <1>1, <1>7, <1>2 DEF JobType
<1>12. /\ HoldsBlobs(run'.image, Done, blobs, run'.at)
       /\ \A l \in 0 .. k : run'.image[Base + l] = BlobBlock(id, v, l)
       /\ Layout(Done, blobs, run'.at, Base)
  <2>1. Layout(Done, blobs, run'.at, Base)
    BY <1>5, <1>9, LayoutSame
  <2>2. ASSUME NEW i \in Done, NEW l \in 0 .. Width(blobs[i]) - 1
        PROVE  /\ run'.at[i] + l \in DOMAIN run'.image
               /\ run'.image[run'.at[i] + l] = BlobBlock(i, blobs[i], l)
    <3>1. /\ run.at[i] + l \in DOMAIN run.image
          /\ run.image[run.at[i] + l] = BlobBlock(i, blobs[i], l)
      BY <1>5 DEF HoldsBlobs
    <3>2. run'.at[i] = run.at[i]
      BY <1>9
    <3> QED
      BY <1>4, <1>5, <1>8, <3>1, <3>2
  <2>3. ASSUME NEW l \in 0 .. k
        PROVE  run'.image[Base + l] = BlobBlock(id, v, l)
    <3>1. CASE l = k
      <4>1. Base + l = pos
        BY <1>4, <1>6, <3>1
      <4> QED
        BY <1>8, <3>1, <4>1 DEF b
    <3>2. CASE l # k
      <4>1. l \in 0 .. k - 1 /\ Base + l \in 0 .. pos - 1
        BY <1>4, <1>6, <3>2
      <4> QED
        BY <1>5, <1>8, <4>1
    <3> QED
      BY <3>1, <3>2
  <2> QED
    BY <2>1, <2>2, <2>3 DEF HoldsBlobs
<1>13. Alive' = Alive /\ HoldsSuper' /\ HoldsFiles(Alive \ job.files, run.end, job.pos)'
       /\ job'.pos - run'.end = Cardinality(Alive)' - Cardinality(job.files)'
  <2>1. Alive' = Alive
    BY <1>3 DEF Alive
  <2>2. run'.image[0] = run.image[0]
    BY <1>4, <1>5, <1>8
  <2>3. (Alive \ job.files)' = {} /\ run'.end = pos + 1 /\ job'.pos = pos + 1
    BY <1>5, <1>7, <1>8, <2>1
  <2>4. Alive' \ job'.files = {} /\ run'.end .. job'.pos - 1 = {}
    BY <1>4, <2>3
  <2>5. Cardinality(Alive) \in Nat
    BY AliveLemma
  <2>6. HoldsFiles(Alive \ job.files, run.end, job.pos)'
    BY <2>4 DEF HoldsFiles
  <2> QED
    BY <1>3, <1>4, <1>5, <1>7, <2>1, <2>2, <2>3, <2>5, <2>6 DEF HoldsSuper
<1>14. ASSUME ~last
       PROVE  SyncInv' /\ SameInv'
  <2>1. /\ next = k + 1 /\ rest = job.blobs /\ k + 1 < w
        /\ Done' = Done /\ Base' = Base /\ Min(job.blobs)' = id
    <3>1. next = k + 1 /\ rest = job.blobs
      BY <1>14 DEF next, rest
    <3>2. k + 1 < w
      BY <1>4, <1>5, <1>6, <1>14 DEF last
    <3> QED
      BY <1>3, <1>4, <1>6, <1>7, <3>1, <3>2 DEF Done, Base, id
  <2>2. SyncInv'
    <3>1. Layout(Done, blobs, run.at, IF job.blobs = {} THEN run.end ELSE Base)'
      BY <1>1, <1>3, <1>7, <1>12, <2>1
    <3>2. HoldsBlobs(run.image, Done, blobs, run.at)'
      BY <1>3, <1>12, <2>1
    <3>3. /\ job'.pos >= 1 /\ job'.blobs \subseteq DOMAIN blobs' /\ job'.files \subseteq Alive'
          /\ (\A i \in Done', j \in job'.blobs : i < j) /\ Done' \subseteq DOMAIN run'.at
          /\ job'.k < job'.pos /\ run'.end = job'.pos /\ run'.end <= job'.pos
          /\ DOMAIN run'.image = 0 .. job'.pos - 1
      BY <1>3, <1>4, <1>5, <1>7, <1>8, <1>9, <1>13, <2>1
    <3>4. Min(job.blobs)' \in DOMAIN run'.at /\ run'.at[Min(job.blobs)'] = Base'
      BY <1>9, <2>1
    <3>5. IF job'.blobs = {} THEN job'.k = 0
          ELSE job'.k < Width(blobs[Min(job.blobs)])' /\ job'.files = Alive'
      BY <1>1, <1>3, <1>5, <1>7, <1>13, <2>1 DEF w, v
    <3>6. \A l \in 0 .. job'.k - 1 :
             run'.image[Base' + l] = BlobBlock(Min(job.blobs), blobs[Min(job.blobs)], l)'
      <4>1. job'.k - 1 = k
        BY <1>4, <1>7, <2>1
      <4> QED
        BY <1>3, <1>12, <2>1, <4>1 DEF v
    <3> QED
      BY <1>7, <1>13, <3>1, <3>2, <3>3, <3>4, <3>5, <3>6 DEF SyncInv
  <2>3. SameInv'
    <3>1. ASSUME ~damaged
          PROVE  /\ \A i \in DOMAIN synced.blobs \cap Done : run.at[i] = synced.at[i]
                 /\ DOMAIN synced.blobs \cap job.blobs # {} => Base = synced.at[id]
                 /\ DOMAIN synced.blobs \cap job.blobs = {} => Base >= synced.end
      BY <1>1, <3>1 DEF SameInv, id
    <3> QED
      BY <1>1, <1>7, <1>9, <2>1, <3>1 DEF SameInv
  <2> QED
    BY <2>2, <2>3
<1>15. ASSUME last
       PROVE  SyncInv' /\ SameInv'
  <2>1. /\ next = 0 /\ rest = job.blobs \ {id} /\ k + 1 = w
        /\ Done' = Done \cup {id} /\ Base' = Base + w /\ Base' = pos + 1
    <3>1. next = 0 /\ rest = job.blobs \ {id} /\ k + 1 = w
      BY <1>15 DEF next, rest, last
    <3>2. Base' = pos + 1
      BY <1>4, <1>7, <3>1 DEF Base
    <3> QED
      BY <1>3, <1>4, <1>6, <1>7, <3>1, <3>2 DEF Done
  <2>2. SyncInv'
    <3>1. Layout(Done, blobs, run.at, IF job.blobs = {} THEN run.end ELSE Base)'
      <4>1. Layout(Done \cup {id}, blobs, run'.at, Base + Width(blobs[id]))
        <5>1. Done \in SUBSET DOMAIN blobs /\ \A i \in Done : i < id
          BY <1>4, <1>5 DEF Done
        <5> QED
          BY <1>6, <1>9, <1>12, <5>1, LayoutLemma
      <4>2. Base + Width(blobs[id]) = Base' /\ run'.end = Base'
        BY <1>8, <2>1 DEF w, v
      <4> QED
        BY <1>3, <2>1, <4>1, <4>2
    <3>2. HoldsBlobs(run.image, Done, blobs, run.at)'
      <4>1. ASSUME NEW l \in 0 .. w - 1
            PROVE  /\ run'.at[id] + l \in DOMAIN run'.image
                   /\ run'.image[run'.at[id] + l] = BlobBlock(id, v, l)
        <5>1. l \in 0 .. k /\ Base + l \in 0 .. pos /\ run'.at[id] = Base
          BY <1>4, <1>6, <1>9, <2>1
        <5> QED
          BY <1>8, <1>12, <5>1
      <4> QED
        BY <1>3, <1>12, <2>1, <4>1 DEF HoldsBlobs, w, v
    <3>3. /\ job'.pos >= 1 /\ job'.blobs \subseteq DOMAIN blobs' /\ job'.files \subseteq Alive'
          /\ job'.k < job'.pos /\ run'.end = job'.pos /\ run'.end <= job'.pos
          /\ DOMAIN run'.image = 0 .. job'.pos - 1 /\ job'.k = 0 /\ 0 .. job'.k - 1 = {}
      BY <1>3, <1>4, <1>5, <1>7, <1>8, <1>13, <2>1
    <3>4. (\A i \in Done', j \in job'.blobs : i < j) /\ Done' \subseteq DOMAIN run'.at
      BY <1>4, <1>5, <1>7, <1>9, <2>1
    <3>5. job'.blobs # {} => 0 < Width(blobs[Min(job.blobs)])' /\ job'.files = Alive'
      <4>1. job'.blobs # {} => Min(job'.blobs) \in DOMAIN blobs
        <5>1. job'.blobs \in SUBSET Nat /\ job'.blobs \subseteq DOMAIN blobs
          BY <1>4, <1>5, <1>7
        <5>2. job'.blobs # {} => Min(job'.blobs) \in job'.blobs
          BY <5>1, MinLemma
        <5> QED
          BY <5>1, <5>2
      <4> QED
        BY <1>3, <1>5, <1>6, <1>7, <1>13, <4>1
    <3> QED
      BY <1>7, <1>13, <3>1, <3>2, <3>3, <3>4, <3>5 DEF SyncInv
  <2>3. SameInv'
    <3> DEFINE D == DOMAIN synced.blobs
    <3>1. SUFFICES ASSUME ~damaged
                   PROVE  /\ \A i \in D \cap Done' : run'.at[i] = synced.at[i]
                          /\ D \cap job'.blobs # {} => Base' = synced.at[Min(job.blobs)']
                          /\ D \cap job'.blobs = {} => Base' >= synced.end
      BY <1>1 DEF SameInv
    <3>2. /\ \A i \in D \cap Done : run.at[i] = synced.at[i]
          /\ D \cap job.blobs # {} => Base = synced.at[id]
          /\ D \cap job.blobs = {} => Base >= synced.end
      BY <1>1, <3>1 DEF SameInv, id
    <3>3. Extends(DOMAIN blobs) /\ TablesType
      BY <1>2, <3>1 DEF ExtendsInv
    <3>4. /\ id \in D => synced.blobs[id] = v
          /\ D \subseteq DOMAIN blobs
          /\ D \cap job.blobs # {} => id \in D
      <4>1. D \cap job.blobs # {} => id \in D
        BY <1>5, <3>3, FirstLemma DEF id
      <4> QED
        BY <3>3, <4>1 DEF Extends, v
    <3>5. Layout(D, synced.blobs, synced.at, synced.end)
      BY DEF SyncedInv
    <3>6. \A i \in D \cap Done' : run'.at[i] = synced.at[i]
      BY <1>4, <1>9, <2>1, <3>2
    <3>7. ASSUME D \cap job'.blobs # {}
          PROVE  Base' = synced.at[Min(job.blobs)']
      <4> DEFINE j == Min(job'.blobs)
      <4>1. job'.blobs \in SUBSET DOMAIN blobs
        BY <1>5, <1>7
      <4>2. j \in D /\ j \in job'.blobs /\ j \in Nat /\ \A i \in job'.blobs : j <= i
        BY <3>3, <3>7, <4>1, FirstLemma
      <4>3. id \in D /\ Base = synced.at[id] /\ synced.blobs[id] = v
        BY <1>7, <3>2, <3>4, <3>7
      <4> HIDE DEF j
      <4>4. id < j
        BY <1>4, <1>7, <2>1, <4>2
      <4>5. \A m \in D : ~(id < m /\ m < j)
        <5>1. \A m \in D : m \in DOMAIN blobs /\ m \in Nat /\ (m \in Done' \/ m \in job'.blobs)
          BY <1>3, <1>6, <3>4 DEF Done
        <5>2. \A m \in Done' : m \in Nat /\ m <= id
          BY <1>4, <1>5, <1>6, <2>1 DEF Done
        <5> QED
          BY <1>4, <4>2, <5>1, <5>2
      <4>6. synced.at[j] = synced.at[id] + Width(synced.blobs[id])
        BY <3>5, <4>2, <4>3, <4>4, <4>5 DEF Layout
      <4> QED
        BY <2>1, <4>3, <4>6 DEF j, w
    <3>8. ASSUME D \cap job'.blobs = {}
          PROVE  Base' >= synced.end
      <4>1. CASE id \in D
        <5>1. \A m \in D : m <= id
          <6>1. \A m \in D : m \in Done'
            BY <1>3, <3>4, <3>8 DEF Done
          <6>2. \A m \in Done' : m \in Nat /\ m <= id
            BY <1>4, <1>5, <1>6, <2>1 DEF Done
          <6> QED
            BY <6>1, <6>2
        <5>2. synced.end = synced.at[id] + Width(synced.blobs[id]) /\ synced.end \in Nat
          BY <3>5, <4>1, <5>1 DEF Layout
        <5>3. Base = synced.at[id] /\ synced.blobs[id] = v
          BY <1>4, <3>2, <3>4, <4>1
        <5> QED
          BY <2>1, <5>2, <5>3 DEF w
      <4>2. CASE id \notin D
        <5>1. Base >= synced.end /\ synced.end \in Nat
          BY <3>2, <3>4, <3>5, <4>2 DEF Layout
        <5> QED
          BY <1>6, <2>1, <5>1
      <4> QED
        BY <4>1, <4>2
    <3> QED
      BY <3>6, <3>7, <3>8
  <2> QED
    BY <2>2, <2>3
<1>16. StayInv'
  <2>1. ASSUME ~damaged, NEW i \in DOMAIN synced.blobs,
               NEW l \in 0 .. Width(synced.blobs[i]) - 1, synced.at[i] + l = pos
        PROVE  b = BlobBlock(i, synced.blobs[i], l)
    <3> DEFINE D == DOMAIN synced.blobs
               sw(m) == Width(synced.blobs[m])
    <3>1. /\ D \cap job.blobs # {} => Base = synced.at[id]
          /\ D \cap job.blobs = {} => Base >= synced.end
      BY <1>1, <2>1 DEF SameInv, id
    <3>2. Extends(DOMAIN blobs) /\ TablesType
      BY <1>2, <2>1 DEF ExtendsInv
    <3>3. \A m \in D : m \in Nat /\ sw(m) \in Nat /\ sw(m) >= 1
      BY WidthLemma DEF SyncedInv, IdMap
    <3>4. /\ synced.end \in Nat
          /\ \A m \in D : synced.at[m] \in Nat /\ synced.at[m] + sw(m) <= synced.end
          /\ \A m, n \in D : m < n => synced.at[m] + sw(m) <= synced.at[n]
      BY DEF SyncedInv, Layout
    <3>5. l \in 0 .. sw(i) - 1 /\ i \in Nat /\ synced.at[i] \in Nat
      BY <2>1, <3>4, <3>3
    <3> HIDE DEF sw
    <3>6. D \cap job.blobs # {}
      <4>1. synced.at[i] + sw(i) <= synced.end /\ sw(i) \in Nat
        BY <3>3, <3>4
      <4>2. pos < synced.end
        BY <1>4, <2>1, <3>4, <3>5, <4>1
      <4>3. ~(Base >= synced.end)
        BY <1>4, <1>6, <3>4, <4>2
      <4> QED
        BY <3>1, <4>3
    <3>7. id \in D /\ v = synced.blobs[id] /\ pos = synced.at[id] + k
      <4>1. id \in D
        BY <1>5, <3>2, <3>6, FirstLemma DEF id
      <4>2. v = synced.blobs[id]
        BY <3>2, <4>1 DEF Extends, v
      <4>3. Base = synced.at[id]
        BY <3>1, <3>6
      <4> QED
        BY <1>4, <1>6, <4>1, <4>2, <4>3
    <3>8. sw(id) = w /\ k < w
      BY <1>5, <3>7 DEF w, sw
    <3>9. i = id
      <4>1. ~(i < id)
        BY <1>4, <2>1, <3>3, <3>4, <3>5, <3>7
      <4>2. ~(id < i)
        <5>1. id < i => synced.at[id] + sw(id) <= synced.at[i]
          BY <3>4, <3>7
        <5>2. synced.at[id] \in Nat
          BY <3>4, <3>7
        <5>3. l \in Nat /\ synced.at[i] + l = synced.at[id] + k
          BY <2>1, <3>3, <3>5, <3>7
        <5>4. id < i => synced.at[id] + w <= synced.at[i]
          BY <3>8, <5>1
        <5> QED
          BY <1>4, <1>6, <3>5, <3>8, <5>2, <5>3, <5>4
      <4> QED
        BY <1>4, <3>5, <4>1, <4>2
    <3>10. l = k
      BY <1>4, <2>1, <3>4, <3>5, <3>7, <3>9
    <3> QED
      BY <3>7, <3>9, <3>10 DEF b
  <2>2. pos # 0
    BY <1>4, <1>5
  <2> QED
    BY <1>1, <1>4, <1>6, <2>1, <2>2, StayLemma
<1> QED
  BY <1>10, <1>11, <1>14, <1>15, <1>16

\* sync_to_disk: the entries go behind the blobs.
LEMMA SyncFileStep ==
    ASSUME IInv, NEW ok \in BOOLEAN, SyncFile(ok)
    PROVE  IInv'
<1> USE DEF IInv
<1> DEFINE p == Min(job.files)
           pos == job.pos
           b == SyncEntry(p)
           left == job.files \ {p}
<1>1. /\ job.phase = "sync" /\ job.blobs = {} /\ job.files # {} /\ SyncWrite(pos, b, ok)
      /\ job' = [job EXCEPT !.pos = pos + 1, !.files = left]
      /\ run' = [run EXCEPT !.image = Put(run.image, pos, b), !.ok = run.ok /\ ok]
      /\ UNCHANGED fs /\ UNCHANGED <<expected, synced, damaged>>
  BY DEF SyncFile, history
<1>2. /\ job \in SyncJob /\ OnTheWay(run.image, run.ok) /\ run.ok \in BOOLEAN
      /\ ~synced.intact /\ synced.intact \in BOOLEAN /\ Up
  BY <1>1, SyncingLemma
<1>3. UNCHANGED <<index, blobs, hashes, nextBlob, store>>
  BY <1>1 DEF fs
<1>4. /\ pos \in Nat /\ pos >= 1 /\ job.k = 0 /\ job.files \subseteq Nat
      /\ p \in job.files /\ p \in Nat /\ job.files \subseteq Alive
      /\ Base = pos /\ Done = DOMAIN blobs
  <2>1. /\ pos \in Nat /\ pos >= 1 /\ job.k = 0 /\ job.files \in SUBSET Nat
        /\ job.files \subseteq Alive
    BY <1>1, <1>2 DEF SyncJob, SyncInv
  <2>2. p \in job.files /\ p \in Nat
    BY <1>1, <2>1, MinLemma
  <2> QED
    BY <1>1, <2>1, <2>2 DEF Base, Done
<1>5. /\ Layout(Done, blobs, run.at, run.end)
      /\ HoldsBlobs(run.image, Done, blobs, run.at) /\ Done \subseteq DOMAIN run.at
      /\ DOMAIN run.image = 0 .. pos - 1 /\ HoldsSuper /\ run.end <= pos
      /\ HoldsFiles(Alive \ job.files, run.end, pos)
      /\ pos - run.end = Cardinality(Alive) - Cardinality(job.files)
  BY <1>1 DEF SyncInv
<1>6. /\ IsFiniteSet(job.files) /\ Cardinality(job.files) \in Nat /\ Cardinality(Alive) \in Nat
      /\ Cardinality(left) = Cardinality(job.files) - 1 /\ run.end \in Nat /\ run.end >= 1
  <2>1. IsFiniteSet(Alive) /\ Cardinality(Alive) \in Nat
    BY AliveLemma
  <2>2. IsFiniteSet(job.files)
    BY <1>4, <2>1, FS_Subset
  <2> QED
    BY <1>4, <1>5, <2>1, <2>2, FS_CardinalityType, FS_RemoveElement DEF Layout
<1>7. b \in Blocks
  <2>1. index[p].blob \in Nat /\ p \in DOMAIN index
    BY <1>4 DEF Alive, TablesType
  <2>2. Cut(p) \in Nat
    BY <1>4, FsAssumption DEF Cut
  <2> QED
    BY <2>1, <2>2 DEF SyncEntry, File, Blocks
<1> HIDE DEF p, pos, b, left
<1>8. /\ job'.pos = pos + 1 /\ job'.files = left /\ job'.blobs = {} /\ job'.k = 0
      /\ job'.phase = "sync" /\ job' \in SyncJob /\ Base' = pos + 1 /\ Done' = Done
  <2>1. pos + 1 \in Nat /\ left \in SUBSET Nat
    BY <1>4 DEF left
  <2>2. job' \in SyncJob
    BY <1>1, <1>2, <2>1 DEF SyncJob
  <2>3. /\ job'.pos = pos + 1 /\ job'.files = left /\ job'.blobs = job.blobs
        /\ job'.k = job.k /\ job'.phase = job.phase
    BY <1>1, <1>2 DEF SyncJob
  <2> QED
    BY <1>1, <1>3, <1>4, <2>2, <2>3 DEF Base, Done
<1>9. /\ run'.end = run.end /\ run'.at = run.at /\ run'.ok = (run.ok /\ ok)
      /\ run'.image = Put(run.image, pos, b)
      /\ run' = [image |-> run'.image, at |-> run'.at, end |-> run'.end, ok |-> run'.ok]
  BY <1>1 DEF JobType
<1>10. /\ DOMAIN run'.image = 0 .. pos /\ run'.image[pos] = b
       /\ \A n \in 0 .. pos - 1 : run'.image[n] = run.image[n]
  BY <1>4, <1>5, <1>9 DEF Put
<1>11. /\ CacheType' /\ CleanMatchesDisk' /\ TablesType' /\ RunInv'
       /\ SyncedInv' /\ UpInv' /\ ExtendsInv' /\ FlushInv' /\ ImageInv' /\ LoadInv'
  <2>1. /\ synced'.blobs = synced.blobs /\ synced'.at = synced.at
        /\ synced'.end = synced.end /\ synced'.intact = FALSE
    BY <1>1, <1>2
  <2>2. /\ Up /\ pos \in Nat /\ SyncWrite(pos, b, ok) /\ job'.phase = "sync" /\ UNCHANGED fs
        /\ expected' = expected /\ damaged' = damaged /\ OnTheWay(run.image, run.ok)
        /\ run.ok \in BOOLEAN
    BY <1>1, <1>2, <1>4, <1>8
  <2>3. run'.image = Put(run.image, pos, b) /\ run'.ok = (run.ok /\ ok)
    BY <1>9
  <2> QED
    BY <1>7, <2>1, <2>2, <2>3, SyncFrame
<1>12. JobType'
  BY <1>1, <1>2, <1>8, <1>9 DEF JobType
<1>13. SyncInv'
  <2>1. Alive' = Alive /\ \A q : SyncEntry(q)' = SyncEntry(q)
    BY <1>3 DEF Alive, SyncEntry
  <2>2. HoldsSuper'
    BY <1>3, <1>4, <1>5, <1>10, <2>1 DEF HoldsSuper
  <2>3. HoldsBlobs(run.image, Done, blobs, run.at)'
    <3>1. ASSUME NEW i \in Done, NEW l \in 0 .. Width(blobs[i]) - 1
          PROVE  /\ run.at[i] + l \in DOMAIN run'.image
                 /\ run'.image[run.at[i] + l] = BlobBlock(i, blobs[i], l)
      <4>1. /\ run.at[i] + l \in DOMAIN run.image
            /\ run.image[run.at[i] + l] = BlobBlock(i, blobs[i], l)
        BY <1>5 DEF HoldsBlobs
      <4> QED
        BY <1>4, <1>5, <1>10, <4>1
    <3> QED
      BY <1>3, <1>8, <1>9, <3>1 DEF HoldsBlobs
  <2>4. Layout(Done, blobs, run.at, IF job.blobs = {} THEN run.end ELSE Base)'
    BY <1>3, <1>5, <1>8, <1>9
  <2>5. HoldsFiles(Alive \ job.files, run.end, job.pos)'
    <3>1. /\ \A n \in run.end .. pos - 1 : \E q \in Alive \ job.files : run.image[n] = SyncEntry(q)
          /\ \A q \in Alive \ job.files : \E n \in run.end .. pos - 1 : run.image[n] = SyncEntry(q)
      BY <1>5 DEF HoldsFiles
    <3>2. Alive \ left = (Alive \ job.files) \cup {p} /\ run.end .. pos = run.end .. pos - 1 \cup {pos}
      BY <1>4, <1>5, <1>6 DEF left
    <3>3. run.end .. pos - 1 \subseteq 0 .. pos - 1
      BY <1>4, <1>6
    <3>4. \A n \in run.end .. pos : \E q \in Alive \ left : run'.image[n] = SyncEntry(q)
      BY <1>10, <3>1, <3>2, <3>3 DEF b
    <3>5. \A q \in Alive \ left : \E n \in run.end .. pos : run'.image[n] = SyncEntry(q)
      BY <1>10, <3>1, <3>2, <3>3 DEF b
    <3>6. job'.pos - 1 = pos /\ job'.files = left
      BY <1>4, <1>8
    <3> QED
      BY <1>9, <2>1, <3>4, <3>5, <3>6 DEF HoldsFiles
  <2>6. /\ job'.pos >= 1 /\ job'.blobs \subseteq DOMAIN blobs' /\ job'.files \subseteq Alive'
        /\ (\A i \in Done', j \in job'.blobs : i < j) /\ Done' \subseteq DOMAIN run'.at
        /\ job'.k < job'.pos /\ run'.end <= job'.pos /\ ~(job'.k > 0)
        /\ DOMAIN run'.image = 0 .. job'.pos - 1 /\ 0 .. job'.k - 1 = {}
    BY <1>4, <1>5, <1>6, <1>8, <1>9, <1>10, <2>1 DEF left
  <2>7. job'.pos - run'.end = Cardinality(Alive)' - Cardinality(job.files)'
    BY <1>4, <1>5, <1>6, <1>8, <1>9, <2>1
  <2> QED
    BY <1>8, <2>2, <2>3, <2>4, <2>5, <2>6, <2>7 DEF SyncInv
<1>14. ASSUME ~damaged
       PROVE  /\ \A id \in DOMAIN synced.blobs : run.at[id] = synced.at[id]
              /\ pos >= synced.end /\ synced.end \in Nat
  <2>1. DOMAIN synced.blobs \subseteq DOMAIN blobs
    BY <1>2, <1>14 DEF ExtendsInv, Extends
  <2> QED
    BY <1>1, <1>4, <1>14, <2>1 DEF SameInv, SyncedInv, Layout
<1>15. SameInv'
  BY <1>1, <1>4, <1>8, <1>9, <1>14 DEF SameInv
<1>16. StayInv'
  <2>1. ASSUME ~damaged, NEW i \in DOMAIN synced.blobs,
               NEW l \in 0 .. Width(synced.blobs[i]) - 1
        PROVE  synced.at[i] + l # pos
    <3>1. Width(synced.blobs[i]) \in Nat /\ synced.at[i] \in Nat
          /\ synced.at[i] + Width(synced.blobs[i]) <= synced.end
      BY WidthLemma DEF SyncedInv, IdMap, Layout
    <3> QED
      BY <1>4, <1>14, <2>1, <3>1
  <2>2. pos # 0
    BY <1>4
  <2> QED
    BY <1>1, <1>4, <1>7, <2>1, <2>2, StayLemma
<1> QED
  BY <1>11, <1>12, <1>13, <1>15, <1>16

-----------------------------------------------------------------------------
(* sync_to_disk: the flush.                                                *)

\* A step that leaves the files in memory alone.
LEMMA UpFrame ==
    ASSUME TablesType, UpInv, Up, UNCHANGED fs, expected' = expected,
           damaged' = damaged, faults' \in Nat
    PROVE  TablesType' /\ UpInv'
<1>1. UNCHANGED <<index, blobs, hashes, nextBlob, store>>
  BY DEF fs
<1>2. TablesType'
  BY <1>1 DEF TablesType
<1>3. Sound' <=> Sound
  BY <1>1 DEF Sound
<1>4. ASSUME ~damaged
      PROVE  GetReturnsLastSet'
  BY <1>1, <1>4 DEF UpInv, GetReturnsLastSet, Get, ReadFile
<1> QED
  BY <1>2, <1>3, <1>4 DEF UpInv

\* A flush in its middle.
LEMMA FlushingLemma ==
    ASSUME IInv, job.phase = "flush"
    PROVE  /\ job \in FlushJob /\ OnTheWay(run.image, run.ok) /\ run.ok \in BOOLEAN
           /\ ~synced.intact /\ synced.intact \in BOOLEAN /\ Up
           /\ job.todo \subseteq Dirty /\ job.todo \in SUBSET Nat
           /\ \A n \in Dirty \ job.todo : OnDisk(n, cache[n].data)
<1> USE DEF IInv
<1>1. job \in FlushJob
  BY PhaseLemma
<1>2. OnTheWay(run.image, run.ok)
  BY DEF RunInv, OnTheWay
<1>3. ~synced.intact
  BY DEF SyncedInv
<1>4. job.todo \in SUBSET Nat
  BY <1>1 DEF FlushJob
<1> QED
  BY <1>1, <1>2, <1>3, <1>4 DEF JobType, Up, FlushInv

\* sync_to_disk: flush collects the dirty blocks.
LEMMA SyncFlushStep ==
    ASSUME IInv, SyncFlush
    PROVE  IInv'
<1> USE DEF IInv
<1>1. /\ job.phase = "sync" /\ job.blobs = {} /\ job.files = {}
      /\ job' = [phase |-> "flush", todo |-> Dirty]
      /\ UNCHANGED fs /\ UNCHANGED <<disk, cache, lru, faults, run, expected, synced, damaged>>
  BY DEF SyncFlush, cacheVars, history
<1>2. /\ job \in SyncJob /\ OnTheWay(run.image, run.ok) /\ run.ok \in BOOLEAN
      /\ ~synced.intact /\ synced.intact \in BOOLEAN /\ Up
  BY <1>1, SyncingLemma
<1>3. UNCHANGED <<index, blobs, hashes, nextBlob, store>>
  BY <1>1 DEF fs
<1>4. CacheType' /\ CleanMatchesDisk'
  BY <1>1 DEF CacheType, CleanMatchesDisk, OnDisk
<1>5. TablesType' /\ UpInv'
  <2>1. faults' \in Nat
    BY <1>1 DEF TablesType
  <2> QED
    BY <1>1, <1>2, <2>1, UpFrame
<1>6. ExtendsInv'
  BY <1>1, <1>2, <1>3 DEF ExtendsInv, Extends
<1>7. JobType'
  <2>1. Dirty \subseteq Nat
    BY DEF Dirty, CacheType
  <2>2. job' \in FlushJob /\ job'.phase = "flush"
    BY <1>1, <2>1 DEF FlushJob
  <2> QED
    BY <1>1, <2>2 DEF JobType
<1>8. FlushInv' /\ RunInv'
  <2>1. Dirty' = Dirty
    BY <1>1 DEF Dirty
  <2>2. FlushInv'
    BY <1>1, <2>1 DEF FlushInv
  <2>3. RunInv'
    BY <1>1 DEF RunInv, OnDisk
  <2> QED
    BY <2>2, <2>3
<1>9. SyncedInv' /\ StayInv'
  <2>1. StayInv'
    BY <1>1 DEF StayInv, OnDisk, CountsThem
  <2> QED
    BY <1>1, <1>2, <2>1 DEF SyncedInv
<1>10. SyncInv' /\ SameInv' /\ LoadInv'
  BY <1>1, WhileFlushing
<1>11. ImageInv'
  <2>1. /\ Done = DOMAIN blobs /\ Alive \ job.files = Alive /\ Alive' = Alive
    BY <1>1, <1>3 DEF Done, Alive
  <2>2. Cardinality(job.files) = 0 /\ Cardinality(Alive) \in Nat /\ job.pos \in Nat
    BY <1>1, <1>2, FS_EmptySet, AliveLemma DEF SyncJob
  <2>3. /\ Layout(DOMAIN blobs, blobs, run.at, run.end)
        /\ HoldsBlobs(run.image, DOMAIN blobs, blobs, run.at)
        /\ DOMAIN run.image = 0 .. job.pos - 1 /\ HoldsSuper
        /\ HoldsFiles(Alive, run.end, job.pos)
        /\ job.pos - run.end = Cardinality(Alive) - Cardinality(job.files)
    BY <1>1, <2>1 DEF SyncInv
  <2>4. run.end \in Nat /\ job.pos = run.end + Cardinality(Alive)
    BY <2>2, <2>3 DEF Layout
  <2>5. HoldsFiles(Alive, run.end, run.end + Cardinality(Alive))'
    BY <1>1, <1>3, <2>1, <2>3, <2>4 DEF HoldsFiles, SyncEntry
  <2>6. HoldsSuper'
    BY <1>1, <1>3, <2>1, <2>3 DEF HoldsSuper
  <2>7. DOMAIN run'.image = 0 .. (run.end + Cardinality(Alive))' - 1
    BY <1>1, <2>1, <2>3, <2>4
  <2>8. Layout(DOMAIN blobs, blobs, run.at, run.end)'
        /\ HoldsBlobs(run.image, DOMAIN blobs, blobs, run.at)'
    BY <1>1, <1>3, <2>3
  <2> QED
    BY <2>5, <2>6, <2>7, <2>8, Zenon DEF ImageInv
<1> QED
  BY <1>4, <1>5, <1>6, <1>7, <1>8, <1>9, <1>10, <1>11

\* flush writes one of them.
LEMMA FlushStepStep ==
    ASSUME IInv, FlushStep
    PROVE  IInv'
<1> USE DEF IInv
<1> DEFINE n == Min(job.todo)
<1>1. /\ job.phase = "flush" /\ job.todo # {} /\ n \in DOMAIN disk
      /\ disk' = [disk EXCEPT ![n] = cache[n].data]
      /\ job' = [job EXCEPT !.todo = job.todo \ {n}]
      /\ UNCHANGED fs /\ UNCHANGED <<cache, lru, faults, run, expected, synced, damaged>>
  BY DEF FlushStep, FlushWrite, history
<1>2. /\ job \in FlushJob /\ OnTheWay(run.image, run.ok) /\ run.ok \in BOOLEAN
      /\ ~synced.intact /\ synced.intact \in BOOLEAN /\ Up
      /\ job.todo \subseteq Dirty /\ job.todo \in SUBSET Nat
      /\ \A m \in Dirty \ job.todo : OnDisk(m, cache[m].data)
  BY <1>1, FlushingLemma
<1>3. UNCHANGED <<index, blobs, hashes, nextBlob, store>>
  BY <1>1 DEF fs
<1>4. n \in job.todo /\ n \in DOMAIN cache /\ cache[n].dirty /\ cache[n].data \in Blocks
  <2>1. n \in job.todo
    BY <1>1, <1>2, MinLemma
  <2> QED
    BY <1>2, <2>1 DEF Dirty, CacheType
<1> HIDE DEF n
<1>5. /\ DOMAIN disk' = DOMAIN disk /\ disk'[n] = cache[n].data
      /\ \A m \in DOMAIN disk : m # n => disk'[m] = disk[m]
  BY <1>1 DEF CacheType
<1>6. CacheType' /\ CleanMatchesDisk'
  <2>1. CacheType'
    BY <1>1, <1>4 DEF CacheType
  <2> QED
    BY <1>1, <1>4, <1>5, <2>1 DEF CleanMatchesDisk, OnDisk
<1>7. TablesType' /\ UpInv'
  <2>1. faults' \in Nat
    BY <1>1 DEF TablesType
  <2> QED
    BY <1>1, <1>2, <2>1, UpFrame
<1>8. ExtendsInv'
  BY <1>1, <1>2, <1>3 DEF ExtendsInv, Extends
<1>9. job' \in FlushJob /\ job'.phase = "flush" /\ job'.todo = job.todo \ {n}
  BY <1>1, <1>2 DEF FlushJob
<1>10. JobType'
  BY <1>1, <1>9 DEF JobType
<1>11. FlushInv'
  BY <1>1, <1>2, <1>4, <1>5, <1>9 DEF FlushInv, Dirty, OnDisk
<1>12. RunInv'
  BY <1>1, <1>2, <1>4, <1>5 DEF RunInv, OnTheWay, OnDisk
<1>13. SyncedInv'
  BY <1>1, <1>2 DEF SyncedInv
<1>14. StayInv'
  <2>1. 0 \in DOMAIN disk
    BY CacheAssumption DEF CacheType
  <2> QED
    BY <1>1, <1>4, <1>5, <2>1 DEF StayInv, OnDisk, CountsThem
<1>15. SyncInv' /\ SameInv' /\ LoadInv'
  BY <1>9, WhileFlushing
<1>16. ImageInv'
  BY <1>1, <1>3 DEF ImageInv, HoldsFiles, HoldsSuper, Alive, SyncEntry
<1> QED
  BY <1>6, <1>7, <1>8, <1>10, <1>11, <1>12, <1>13, <1>14, <1>15, <1>16

\* flush gives up.
LEMMA FlushErrorStep ==
    ASSUME IInv, FlushError
    PROVE  IInv'
<1> USE DEF IInv
<1>1. /\ job.phase = "flush" /\ job' = Idle /\ run' = NewRun
      /\ UNCHANGED fs /\ UNCHANGED <<disk, cache, lru, expected, synced, damaged>>
      /\ faults' = faults \/ faults' = faults + 1
  BY DEF FlushError, FlushFails, Fault, cacheVars, history
<1>2. ~synced.intact /\ Up
  BY <1>1, FlushingLemma
<1>3. UNCHANGED <<index, blobs, hashes, nextBlob, store>>
  BY <1>1 DEF fs
<1>4. CacheType' /\ CleanMatchesDisk'
  BY <1>1 DEF CacheType, CleanMatchesDisk, OnDisk
<1>5. TablesType' /\ UpInv'
  <2>1. faults' \in Nat
    BY <1>1 DEF TablesType
  <2> QED
    BY <1>1, <1>2, <2>1, UpFrame
<1>6. ExtendsInv'
  BY <1>1, <1>2, <1>3 DEF ExtendsInv, Extends
<1>7. JobType'
  BY <1>1 DEF JobType, NewRun
<1>8. FlushInv' /\ RunInv' /\ SyncInv' /\ ImageInv' /\ SameInv' /\ LoadInv'
  BY <1>1, AtRest DEF Idle
<1>9. SyncedInv'
  BY <1>1, <1>2 DEF SyncedInv
<1>10. StayInv'
  BY <1>1 DEF StayInv, OnDisk, CountsThem
<1> QED
  BY <1>4, <1>5, <1>6, <1>7, <1>8, <1>9, <1>10

\* The last good sync: its files, by the paths that are not cut.
LEMMA FilesLemma ==
    ASSUME TablesType, run.end \in Nat, Cardinality(Alive) \in Nat,
           HoldsFiles(Alive, run.end, run.end + Cardinality(Alive)), NEW p \in Paths, Keeps(p)
    PROVE  /\ \A m \in run.end .. (run.end + Cardinality(Alive)) - 1 :
                 run.image[m].path = p =>
                    ReadFile(p) = IF run.image[m].id \in DOMAIN blobs
                                  THEN blobs[run.image[m].id] ELSE None
           /\ ReadFile(p) # None =>
                 \E m \in run.end .. (run.end + Cardinality(Alive)) - 1 : run.image[m].path = p
<1>1. Stored[p] = p /\ \A q \in Paths : Stored[q] = p => q = p
  BY DEF Keeps
<1>2. ASSUME NEW m \in run.end .. (run.end + Cardinality(Alive)) - 1, run.image[m].path = p
      PROVE  ReadFile(p) = IF run.image[m].id \in DOMAIN blobs
                           THEN blobs[run.image[m].id] ELSE None
  <2>1. PICK q \in Alive : run.image[m] = SyncEntry(q)
    BY DEF HoldsFiles
  <2>2. Cut(q) = p /\ run.image[m].id = index[q].blob
    BY <1>2, <2>1 DEF SyncEntry, File
  <2>3. q = p
    BY <1>1, <2>2 DEF Cut
  <2> QED
    BY <2>1, <2>2, <2>3 DEF ReadFile, Alive
<1>3. ASSUME ReadFile(p) # None
      PROVE  \E m \in run.end .. (run.end + Cardinality(Alive)) - 1 : run.image[m].path = p
  <2>1. p \in Alive
    BY <1>3 DEF ReadFile, Alive
  <2>2. PICK m \in run.end .. (run.end + Cardinality(Alive)) - 1 : run.image[m] = SyncEntry(p)
    BY <2>1 DEF HoldsFiles
  <2> QED
    BY <1>1, <2>2 DEF SyncEntry, File, Cut
<1> QED
  BY <1>2, <1>3

\* flush has written them all: if no write was lost this is the last good sync.
LEMMA SyncEndStep ==
    ASSUME IInv, SyncEnd
    PROVE  IInv'
<1> USE DEF IInv
<1>1. /\ job.phase = "flush" /\ job.todo = {} /\ job' = Idle /\ run' = NewRun
      /\ cache' = [n \in DOMAIN cache |-> Block(cache[n].data, FALSE)]
      /\ run.ok => synced' = [image |-> run.image, at |-> run.at, end |-> run.end,
                              blobs |-> blobs, files |-> [p \in Paths |-> ReadFile(p)],
                              intact |-> TRUE]
      /\ ~run.ok => synced' = synced
      /\ UNCHANGED fs /\ UNCHANGED <<disk, lru, faults, expected, damaged>>
  BY DEF SyncEnd, FlushDone
<1>2. /\ OnTheWay(run.image, run.ok) /\ run.ok \in BOOLEAN /\ ~synced.intact /\ Up
      /\ \A n \in Dirty : OnDisk(n, cache[n].data)
  BY <1>1, FlushingLemma
<1>3. UNCHANGED <<index, blobs, hashes, nextBlob, store>>
  BY <1>1 DEF fs
<1>4. /\ DOMAIN cache' = DOMAIN cache /\ IsMap(cache')
      /\ \A n \in DOMAIN cache : cache'[n].data = cache[n].data /\ cache'[n].dirty = FALSE
                                 /\ cache'[n] \in [data : Blocks, dirty : BOOLEAN]
  BY <1>1 DEF Block, IsMap, CacheType
<1>5. \A n \in DOMAIN cache : n \in DOMAIN disk /\ disk[n] = cache[n].data
  BY <1>2 DEF CleanMatchesDisk, Dirty, OnDisk, CacheType
<1>6. CacheType' /\ CleanMatchesDisk' /\ Dirty' = {}
  <2>1. CacheType'
    BY <1>1, <1>4 DEF CacheType
  <2>2. Dirty' = {}
    BY <1>4 DEF Dirty
  <2>3. CleanMatchesDisk'
    BY <1>1, <1>4, <1>5 DEF CleanMatchesDisk, OnDisk
  <2> QED
    BY <2>1, <2>2, <2>3
<1>7. TablesType' /\ UpInv'
  <2>1. faults' \in Nat
    BY <1>1 DEF TablesType
  <2> QED
    BY <1>1, <1>2, <2>1, UpFrame
<1>8. FlushInv' /\ RunInv' /\ SyncInv' /\ ImageInv' /\ SameInv' /\ LoadInv'
  BY <1>1, AtRest DEF Idle
<1>9. ASSUME ~run.ok
      PROVE  JobType' /\ ExtendsInv' /\ SyncedInv' /\ StayInv'
  <2>1. synced' = synced
    BY <1>1, <1>9
  <2>2. JobType'
    BY <1>1, <2>1 DEF JobType, NewRun
  <2>3. ExtendsInv'
    BY <1>1, <1>2, <1>3, <2>1 DEF ExtendsInv, Extends
  <2>4. SyncedInv'
    BY <1>2, <2>1 DEF SyncedInv
  <2>5. StayInv'
    BY <1>1, <1>4, <2>1 DEF StayInv, OnDisk, CountsThem
  <2> QED
    BY <2>2, <2>3, <2>4, <2>5
<1>10. ASSUME run.ok
       PROVE  JobType' /\ ExtendsInv' /\ SyncedInv' /\ StayInv'
  <2> DEFINE count == Cardinality(Alive)
  <2>1. /\ synced'.image = run.image /\ synced'.at = run.at /\ synced'.end = run.end
        /\ synced'.blobs = blobs /\ synced'.intact = TRUE
        /\ \A p \in Paths : synced'.files[p] = ReadFile(p)
        /\ synced' = [image |-> synced'.image, at |-> synced'.at, end |-> synced'.end,
                 blobs |-> synced'.blobs, files |-> synced'.files, intact |-> synced'.intact]
    BY <1>1, <1>10
  <2>2. JobType'
    BY <1>1, <2>1 DEF JobType, NewRun
  <2>3. ExtendsInv'
    BY <1>3, <2>1 DEF ExtendsInv, Extends
  <2>4. /\ Layout(DOMAIN blobs, blobs, run.at, run.end)
        /\ HoldsBlobs(run.image, DOMAIN blobs, blobs, run.at)
        /\ HoldsSuper
        /\ DOMAIN run.image = 0 .. (run.end + count) - 1
        /\ HoldsFiles(Alive, run.end, run.end + count)
    BY <1>1 DEF ImageInv
  <2>5. /\ run.image[0].kind = "super" /\ run.image[0].blobs = Cardinality(DOMAIN blobs)
        /\ run.image[0].files = count
    BY <2>4 DEF HoldsSuper, Super
  <2>6. count \in Nat /\ run.end \in Nat /\ run.end >= 1
    BY <2>4, AliveLemma DEF Layout
  <2>7. IdMap(blobs)
    BY DEF TablesType
  <2>8. \A n \in DOMAIN run.image :
           /\ n \in DOMAIN disk /\ disk[n] = run.image[n]
           /\ n \in DOMAIN cache => cache'[n].data = run.image[n]
    <3>1. ASSUME NEW n \in DOMAIN run.image, n \in DOMAIN cache
          PROVE  cache[n].data = run.image[n]
      <4>1. cache[n] = Block(run.image[n], TRUE)
        BY <1>2, <3>1 DEF OnTheWay
      <4> QED
        BY <4>1 DEF Block
    <3>2. ASSUME NEW n \in DOMAIN run.image, n \notin DOMAIN cache
          PROVE  n \in DOMAIN disk /\ disk[n] = run.image[n]
      BY <1>2, <1>10, <3>2 DEF OnTheWay, OnDisk
    <3> QED
      BY <1>4, <1>5, <3>1, <3>2
  <2>9. \A n \in run.end .. (run.end + count) - 1 : run.image[n].kind = "file"
    <3>1. \A n \in run.end .. (run.end + count) - 1 :
             \E p \in Alive : run.image[n] = SyncEntry(p)
      BY <2>4, <2>6 DEF HoldsFiles
    <3>2. \A p : SyncEntry(p).kind = "file"
      BY DEF SyncEntry, File
    <3> QED
      BY <3>1, <3>2
  <2>10. FilesMatch(synced', run.end + count)
    <3>1. ASSUME NEW p \in Paths, Keeps(p)
          PROVE  /\ \A m \in run.end .. (run.end + count) - 1 :
                       run.image[m].path = p =>
                          ReadFile(p) = IF run.image[m].id \in DOMAIN blobs
                                        THEN blobs[run.image[m].id] ELSE None
                 /\ ReadFile(p) # None =>
                       \E m \in run.end .. (run.end + count) - 1 : run.image[m].path = p
      BY <2>4, <2>6, <3>1, FilesLemma
    <3>2. ASSUME NEW s, s.image = run.image, s.blobs = blobs, s.end = run.end,
                 \A p \in Paths : s.files[p] = ReadFile(p)
          PROVE  FilesMatch(s, run.end + count)
      BY <3>1, <3>2 DEF FilesMatch
    <3> QED
      BY <2>1, <3>2
  <2>11. SyncedInv'
    <3>1. \A n \in DOMAIN synced'.image : OnDisk(n, synced.image[n])'
      BY <1>1, <2>1, <2>8 DEF OnDisk
    <3>2. synced'.image[0].files = count /\ FilesMatch(synced', synced'.end + synced'.image[0].files)
      BY <2>1, <2>5, <2>10, Zenon
    <3>3. job'.phase = "idle"
      BY <1>1 DEF Idle
    <3>4. /\ IdMap(synced.blobs)'
          /\ Layout(DOMAIN synced.blobs, synced.blobs, synced.at, synced.end)'
          /\ HoldsBlobs(synced.image, DOMAIN synced.blobs, synced.blobs, synced.at)'
      BY <2>1, <2>4, <2>7
    <3>5. /\ synced'.image[0].kind = "super" /\ synced'.image[0].files \in Nat
          /\ synced'.image[0].blobs = Cardinality(DOMAIN synced'.blobs)
          /\ DOMAIN synced'.image = 0 .. (synced'.end + synced'.image[0].files) - 1
          /\ \A n \in synced'.end .. (synced'.end + synced'.image[0].files) - 1 :
                synced'.image[n].kind = "file"
      BY <2>1, <2>4, <2>5, <2>6, <2>9
    <3> QED
      BY <1>6, <3>1, <3>2, <3>3, <3>4, <3>5 DEF SyncedInv
  <2>12. StayInv'
    <3>1. ASSUME NEW id \in DOMAIN blobs, NEW k \in 0 .. Width(blobs[id]) - 1
          PROVE  /\ run.at[id] + k \in DOMAIN run.image
                 /\ run.image[run.at[id] + k] = BlobBlock(id, blobs[id], k)
      BY <2>4 DEF HoldsBlobs
    <3>2. 0 \in DOMAIN run.image
      BY <2>4, <2>6
    <3>3. /\ CountsThem(disk[0])'
          /\ 0 \in DOMAIN cache' => CountsThem(cache[0].data)'
      <4>1. Cardinality(DOMAIN blobs) \in Nat
        BY <2>7, FS_CardinalityType DEF IdMap
      <4>2. disk'[0] = run.image[0] /\ (0 \in DOMAIN cache' => cache'[0].data = run.image[0])
        BY <1>1, <1>4, <2>8, <3>2
      <4> QED
        BY <2>1, <2>5, <4>1, <4>2 DEF CountsThem
    <3>4. ASSUME NEW id \in DOMAIN blobs, NEW k \in 0 .. Width(blobs[id]) - 1
          PROVE  /\ run.at[id] + k \in DOMAIN disk
                 /\ disk[run.at[id] + k] = BlobBlock(id, blobs[id], k)
                 /\ run.at[id] + k \in DOMAIN cache =>
                       cache'[run.at[id] + k].data = BlobBlock(id, blobs[id], k)
      BY <2>8, <3>1
    <3>5. ASSUME NEW id \in DOMAIN synced'.blobs, NEW k \in 0 .. Width(synced'.blobs[id]) - 1
          PROVE  /\ synced'.at[id] + k \in DOMAIN disk'
                 /\ disk'[synced'.at[id] + k] = BlobBlock(id, synced'.blobs[id], k)
                 /\ synced'.at[id] + k \in DOMAIN cache' =>
                       cache'[synced'.at[id] + k].data = BlobBlock(id, synced'.blobs[id], k)
      <4>1. /\ synced'.blobs = blobs /\ synced'.at = run.at /\ disk' = disk
            /\ DOMAIN cache' = DOMAIN cache
        BY <1>1, <1>4, <2>1
      <4>2. id \in DOMAIN blobs /\ k \in 0 .. Width(blobs[id]) - 1
        BY <4>1
      <4> QED
        BY <3>4, <4>1, <4>2
    <3> QED
      BY <3>3, <3>5 DEF StayInv, OnDisk
  <2> QED
    BY <2>2, <2>3, <2>11, <2>12
<1> QED
  BY <1>6, <1>7, <1>8, <1>9, <1>10

-----------------------------------------------------------------------------
(* Power failure.                                                          *)

\* An empty map.
LEMMA EmptyLemma ==
    /\ IsMap(<<>>) /\ DOMAIN <<>> = {} /\ IsFiniteSet({}) /\ Cardinality({}) = 0
    /\ IsInjective(<<>>) /\ Range(<<>>) = {}
<1>1. IsMap(<<>>) /\ DOMAIN <<>> = {}
  BY DEF IsMap
<1>2. IsInjective(<<>>) /\ Range(<<>>) = {}
  BY DEF IsInjective, Range
<1> QED
  BY <1>1, <1>2, FS_EmptySet

\* With nothing in memory the caches and tables are in order.
LEMMA BootLemma ==
    ASSUME disk' \in [0 .. LastBlock -> Blocks], cache' = <<>>, lru' = <<>>, index' = <<>>,
           blobs' = <<>>, hashes' = <<>>, nextBlob' = 1, store' = <<>>, job' = Boot,
           run' = NewRun, faults' \in Nat, damaged' \in BOOLEAN,
           expected' = [p \in Paths |-> expected'[p]]
    PROVE  /\ CacheType' /\ CleanMatchesDisk' /\ TablesType' /\ Dirty' = {}
           /\ FlushInv' /\ RunInv' /\ SyncInv' /\ ImageInv' /\ SameInv' /\ UpInv' /\ ExtendsInv'
           /\ LoadInv'
<1>1. Dirty' = {}
  BY EmptyLemma DEF Dirty
<1>2. CacheType'
  <2>1. <<>> \in Seq(Nat)
    OBVIOUS
  <2> QED
    BY <2>1, EmptyLemma DEF CacheType
<1>3. CleanMatchesDisk'
  BY EmptyLemma, CacheAssumption DEF CleanMatchesDisk
<1>4. TablesType'
  BY EmptyLemma DEF TablesType, IdMap
<1>5. job'.phase = "boot"
  BY DEF Boot
<1>6. FlushInv' /\ RunInv' /\ SyncInv' /\ ImageInv' /\ SameInv' /\ UpInv' /\ ExtendsInv'
  BY <1>5, WhileLoading
<1>7. LoadInv'
  BY <1>1, <1>5, EmptyLemma DEF LoadInv
<1> QED
  BY <1>1, <1>2, <1>3, <1>4, <1>6, <1>7

\* The invariant holds at first.
LEMMA InitLemma ==
    ASSUME Init
    PROVE  IInv
<1>1. disk \in [0 .. LastBlock -> Blocks]
  BY DEF Init, Blocks
<1>2. Dirty = {} /\ CacheType /\ CleanMatchesDisk
  <2>1. Dirty = {}
    BY EmptyLemma DEF Dirty, Init
  <2>2. <<>> \in Seq(Nat)
    OBVIOUS
  <2>3. CacheType
    BY <1>1, <2>2, EmptyLemma DEF CacheType, Init
  <2>4. CleanMatchesDisk
    BY EmptyLemma, CacheAssumption DEF CleanMatchesDisk, Init
  <2> QED
    BY <2>1, <2>3, <2>4
<1>3. TablesType
  BY EmptyLemma DEF TablesType, IdMap, Init
<1>4. job.phase = "boot"
  BY DEF Boot, Init
<1>5. JobType
  BY DEF JobType, Init, NewRun
<1>6. FlushInv /\ RunInv /\ SyncInv /\ ImageInv /\ SameInv
  <2>1. SyncInv /\ ImageInv /\ SameInv
    BY <1>4 DEF SyncInv, ImageInv, SameInv
  <2> QED
    BY <1>4, <2>1 DEF FlushInv, RunInv
<1>7. UpInv /\ ExtendsInv
  BY <1>4 DEF UpInv, ExtendsInv, Up
<1>8. synced.blobs = <<>> /\ synced.intact = FALSE /\ synced.end = 1
  BY DEF Init
<1>9. SyncedInv
  <2>1. IdMap(<<>>)
    BY EmptyLemma DEF IdMap
  <2>2. Layout({}, synced.blobs, synced.at, 1)
    BY DEF Layout
  <2> QED
    BY <1>8, <2>1, <2>2, EmptyLemma DEF SyncedInv
<1>10. StayInv
  BY <1>8, EmptyLemma DEF StayInv
<1>11. LoadInv
  BY <1>2, <1>4, EmptyLemma DEF LoadInv, Init
<1> QED
  BY <1>2, <1>3, <1>5, <1>6, <1>7, <1>9, <1>10, <1>11 DEF IInv

\* Power fails: what is on the disk stays, the rest is gone.
LEMMA RebootStep ==
    ASSUME IInv, Reboot
    PROVE  IInv'
<1> USE DEF IInv
<1>1. /\ cache' = <<>> /\ lru' = <<>> /\ index' = <<>> /\ blobs' = <<>> /\ hashes' = <<>>
      /\ nextBlob' = 1 /\ store' = <<>> /\ job' = Boot /\ run' = NewRun
      /\ faults' = faults + 1 /\ UNCHANGED <<disk, expected, synced, damaged>>
  BY DEF Reboot, Fault, history
<1>2. /\ disk' \in [0 .. LastBlock -> Blocks] /\ faults' \in Nat /\ damaged' \in BOOLEAN
      /\ expected' = [p \in Paths |-> expected'[p]]
  BY <1>1 DEF CacheType, TablesType
<1>3. /\ CacheType' /\ CleanMatchesDisk' /\ TablesType' /\ Dirty' = {}
      /\ FlushInv' /\ RunInv' /\ SyncInv' /\ ImageInv' /\ SameInv' /\ UpInv' /\ ExtendsInv'
      /\ LoadInv'
  BY <1>1, <1>2, BootLemma
<1>4. JobType'
  BY <1>1 DEF JobType, NewRun
<1>5. SyncedInv'
  BY <1>1, <1>3 DEF SyncedInv, OnDisk, Boot
<1>6. StayInv'
  BY <1>1, EmptyLemma DEF StayInv, OnDisk, CountsThem
<1> QED
  BY <1>3, <1>4, <1>5, <1>6

-----------------------------------------------------------------------------
(* load_from_disk: one block.                                              *)

\* Nothing is dirty at boot: a read changes no block of the disk, what is in the
\* cache is what is on the disk, and so is what is read.
ReadWell(n, ok) ==
    /\ CacheType' /\ CleanMatchesDisk' /\ Dirty' = {} /\ disk' = disk
    /\ \A m \in DOMAIN cache' : m \in DOMAIN disk /\ cache'[m].data = disk[m]
    /\ Loaded(n, ok) \in Blocks
    /\ ok => n \in DOMAIN disk /\ Loaded(n, ok) = disk[n]
    /\ n \in DOMAIN disk /\ faults' = faults => ok

\* What cache.read returns at boot, and leaves in the cache.
LEMMA ReadLemma ==
    ASSUME CacheType, CleanMatchesDisk, Dirty = {}, faults \in Nat, NEW n \in Nat,
           NEW ok \in BOOLEAN, LoadRead(n, ok)
    PROVE  ReadWell(n, ok) /\ faults' \in Nat
<1>1. /\ CacheRead(n, ok) /\ (ok => n \in DOMAIN disk)
      /\ faults' = faults \/ faults' = faults + 1
      /\ n \in DOMAIN disk /\ ~ok => faults' = faults + 1
  <2>1. CacheRead(n, ok)
    BY Zenon DEF LoadRead
  <2>2. /\ (ok => n \in DOMAIN disk)
        /\ faults' = faults \/ faults' = faults + 1
        /\ n \in DOMAIN disk /\ ~ok => faults' = faults + 1
    BY Zenon DEF LoadRead, Fault
  <2> QED
    BY <2>1, <2>2, Zenon
<1>2. \A m \in DOMAIN cache : m \in DOMAIN disk /\ disk[m] = cache[m].data /\ ~cache[m].dirty
  BY DEF CleanMatchesDisk, Dirty, OnDisk, CacheType
<1>3. faults' \in Nat /\ (n \in DOMAIN disk /\ faults' = faults => ok)
  BY <1>1
<1>4. /\ Loaded(n, ok) \in Blocks
      /\ ok => n \in DOMAIN disk /\ Loaded(n, ok) = disk[n]
  <2>1. CASE n \in DOMAIN cache
    BY <1>1, <1>2, <2>1 DEF Loaded, Hits, ReadData, CacheType
  <2>2. CASE n \notin DOMAIN cache /\ ok
    BY <1>1, <2>2 DEF Loaded, Hits, ReadData, CacheType
  <2>3. CASE n \notin DOMAIN cache /\ ~ok
    BY <2>3 DEF Loaded, Hits, Blocks
  <2> QED
    BY <2>1, <2>2, <2>3
<1>5. /\ CacheType' /\ CleanMatchesDisk' /\ Dirty' = {} /\ disk' = disk
      /\ \A m \in DOMAIN cache' : m \in DOMAIN disk /\ cache'[m].data = disk[m]
  <2>1. CASE n \in DOMAIN cache
    <3>1. lru' = Use(n) /\ UNCHANGED <<disk, cache>>
      BY <1>1, <2>1 DEF CacheRead
    <3>2. Use(n) \in Seq(Nat) /\ IsInjective(Use(n)) /\ Range(Use(n)) = Kept(n) \cup {n}
      BY UseLemma
    <3>3. Kept(n) \cup {n} = DOMAIN cache
      BY <2>1 DEF Kept, Evicts
    <3>4. CacheType'
      BY <3>1, <3>2 DEF CacheType
    <3>5. CleanMatchesDisk'
      BY <3>1, <3>2, <3>3 DEF CleanMatchesDisk, OnDisk
    <3> QED
      BY <1>2, <3>1, <3>4, <3>5 DEF Dirty
  <2>2. CASE n \notin DOMAIN cache /\ ok
    <3>1. Insert(n, Block(disk[n], FALSE), TRUE)
      BY <1>1, <2>2 DEF CacheRead
    <3>2. Evicts(n) => Victim \in DOMAIN cache
      BY UseLemma
    <3>3. ~WritesBack(n)
      BY <1>2, <3>2 DEF WritesBack
    <3>4. disk' = disk
      BY <3>1, <3>3 DEF Insert, WriteBack
    <3>5. OnDisk(n, disk[n]) /\ disk[n] \in Blocks
      BY <1>1, <2>2 DEF OnDisk, CacheType
    <3>6. /\ CacheType' /\ CleanMatchesDisk'
          /\ DOMAIN cache' = Kept(n) \cup {n} /\ cache'[n] = Block(disk[n], FALSE)
          /\ \A m \in Kept(n) : m # n => cache'[m] = cache[m]
      BY <2>2, <3>1, <3>3, <3>5, InsertLemma
    <3>7. Kept(n) \subseteq DOMAIN cache
      BY DEF Kept
    <3>8. \A m \in DOMAIN cache' :
             m \in DOMAIN disk /\ cache'[m].data = disk[m] /\ ~cache'[m].dirty
      BY <1>1, <1>2, <2>2, <3>6, <3>7 DEF Block
    <3> QED
      BY <3>4, <3>6, <3>8 DEF Dirty
  <2>3. CASE n \notin DOMAIN cache /\ ~ok
    <3>1. UNCHANGED <<disk, cache, lru>>
      BY <1>1, <2>3 DEF CacheRead, cacheVars
    <3> QED
      BY <1>2, <3>1 DEF CacheType, CleanMatchesDisk, Dirty, OnDisk
  <2> QED
    BY <2>1, <2>2, <2>3
<1> QED
  BY <1>3, <1>4, <1>5 DEF ReadWell

\* What every block that load_from_disk reads has in common.
LEMMA LoadFrame ==
    ASSUME IInv, job.phase \in {"boot", "load"}, NEW n \in Nat, NEW ok \in BOOLEAN,
           LoadRead(n, ok), damaged => damaged', job'.phase \in {"idle", "garbled", "load"}
    PROVE  /\ ReadWell(n, ok) /\ faults' \in Nat /\ DOMAIN store' = {} /\ store' = store
           /\ synced' = synced /\ run' = [run EXCEPT !.ok = run.ok /\ ok]
           /\ CacheType' /\ CleanMatchesDisk' /\ Dirty' = {} /\ SyncedInv' /\ StayInv'
           /\ FlushInv' /\ RunInv' /\ SyncInv' /\ ImageInv' /\ SameInv'
<1> USE DEF IInv
<1>1. /\ UNCHANGED <<store, synced>> /\ run' = [run EXCEPT !.ok = run.ok /\ ok]
      /\ Dirty = {} /\ DOMAIN store = {} /\ faults \in Nat
  BY DEF LoadRead, LoadInv, TablesType
<1>2. ReadWell(n, ok) /\ faults' \in Nat
  BY <1>1, ReadLemma
<1>3. /\ CacheType' /\ CleanMatchesDisk' /\ Dirty' = {} /\ disk' = disk
      /\ \A m \in DOMAIN cache' : m \in DOMAIN disk /\ cache'[m].data = disk[m]
  BY <1>2 DEF ReadWell
<1>4. SyncedInv'
  BY <1>1, <1>3 DEF SyncedInv, OnDisk
<1>5. StayInv'
  <2>1. StayInv \/ damaged'
    OBVIOUS
  <2> QED
    BY <1>1, <1>3 DEF StayInv, OnDisk, CountsThem
<1>6. SyncInv' /\ ImageInv' /\ SameInv'
  BY DEF SyncInv, ImageInv, SameInv
<1>7. FlushInv' /\ RunInv'
  BY DEF FlushInv, RunInv
<1> QED
  BY <1>1, <1>2, <1>3, <1>4, <1>5, <1>6, <1>7

\* As long as the load can be trusted the blobs of the last good sync are there.
LEMMA DiskLemma ==
    ASSUME IInv, Trusted, NEW id \in DOMAIN synced.blobs,
           NEW k \in 0 .. Width(synced.blobs[id]) - 1
    PROVE  /\ synced.at[id] + k \in DOMAIN disk
           /\ disk[synced.at[id] + k] = BlobBlock(id, synced.blobs[id], k)
<1> USE DEF IInv
<1>1. CASE ~damaged
  BY <1>1 DEF StayInv, OnDisk
<1>2. CASE synced.intact
  <2>1. /\ synced.at[id] + k \in DOMAIN synced.image
        /\ synced.image[synced.at[id] + k] = BlobBlock(id, synced.blobs[id], k)
    BY <1>2 DEF SyncedInv, HoldsBlobs
  <2> QED
    BY <1>2, <2>1 DEF SyncedInv, OnDisk
<1> QED
  BY <1>1, <1>2 DEF Trusted

\* The blobs of the last good sync.
LEMMA SyncedLemma ==
    ASSUME IInv
    PROVE  /\ IsFiniteSet(DOMAIN synced.blobs) /\ DOMAIN synced.blobs \subseteq Nat
           /\ \A id \in DOMAIN synced.blobs :
                 /\ synced.blobs[id] \in Seq(Bytes) /\ Width(synced.blobs[id]) \in Nat
                 /\ Width(synced.blobs[id]) >= 1 /\ synced.at[id] \in Nat /\ synced.at[id] >= 1
           /\ synced.end \in Nat /\ synced.end >= 1
           /\ Layout(DOMAIN synced.blobs, synced.blobs, synced.at, synced.end)
<1>1. IdMap(synced.blobs) /\ Layout(DOMAIN synced.blobs, synced.blobs, synced.at, synced.end)
  BY DEF IInv, SyncedInv
<1>2. \A id \in DOMAIN synced.blobs : synced.blobs[id] \in Seq(Bytes) /\ id \in Nat
  BY <1>1 DEF IdMap
<1>3. \A id \in DOMAIN synced.blobs :
         Width(synced.blobs[id]) \in Nat /\ Width(synced.blobs[id]) >= 1
  BY <1>2, WidthLemma
<1> QED
  BY <1>1, <1>2, <1>3 DEF IdMap, Layout

\* The fields of a block of each kind.
LEMMA KindLemma ==
    ASSUME NEW b \in Blocks
    PROVE  /\ b.kind = "super" => b.blobs \in Nat /\ b.files \in Nat /\ b.next \in Nat
           /\ b.kind = "blob" => b.id \in Nat /\ b.size \in Nat /\ b.chunk \in Bytes
           /\ b.kind = "cont" => b.chunk \in Bytes
           /\ b.kind = "file" => b.path \in Nat /\ b.id \in Nat
BY DEF Blocks, Zero

\* load_from_disk: the superblock.
LEMMA LoadSuperStep ==
    ASSUME IInv, NEW ok \in BOOLEAN, LoadSuper(ok)
    PROVE  IInv'
<1> USE DEF IInv
<1> DEFINE sb == Loaded(0, ok)
<1>1. /\ job.phase = "boot" /\ LoadRead(0, ok) /\ damaged' = (damaged \/ ~ok)
      /\ UNCHANGED <<index, blobs, hashes>>
      /\ sb.kind = "super" =>
            /\ job' = [phase |-> "load", blobs |-> sb.blobs, files |-> sb.files,
                       pos |-> 1, part |-> NoPart]
            /\ nextBlob' = sb.next /\ expected' = expected
      /\ sb.kind # "super" =>
            job' = Idle /\ expected' = [p \in Paths |-> None] /\ nextBlob' = nextBlob
  BY DEF LoadSuper
<1>2. /\ DOMAIN blobs = {} /\ DOMAIN index = {} /\ DOMAIN store = {}
      /\ damaged \in BOOLEAN /\ nextBlob \in Nat
  BY <1>1 DEF LoadInv, TablesType
<1>3. job'.phase \in {"idle", "load"} /\ job'.phase \in {"idle", "garbled", "load"}
  BY <1>1 DEF Idle
<1>4. /\ ReadWell(0, ok) /\ faults' \in Nat /\ DOMAIN store' = {} /\ store' = store
      /\ synced' = synced /\ run' = [run EXCEPT !.ok = run.ok /\ ok]
      /\ CacheType' /\ CleanMatchesDisk' /\ Dirty' = {} /\ SyncedInv' /\ StayInv'
      /\ FlushInv' /\ RunInv' /\ SyncInv' /\ ImageInv' /\ SameInv'
  BY <1>1, <1>2, <1>3, LoadFrame
<1>5. /\ sb \in Blocks /\ (ok => 0 \in DOMAIN disk /\ sb = disk[0])
  BY <1>4 DEF ReadWell
<1> HIDE DEF sb
<1>6. run'.ok = (run.ok /\ ok) /\ run.ok \in BOOLEAN
      /\ run' = [image |-> run'.image, at |-> run'.at, end |-> run'.end, ok |-> run'.ok]
  BY <1>4 DEF JobType
<1>7. ASSUME sb.kind # "super"
      PROVE  IInv'
  <2>1. job' = Idle /\ expected' = [p \in Paths |-> None] /\ nextBlob' = nextBlob
    BY <1>1, <1>7
  <2>2. TablesType'
    BY <1>1, <1>2, <1>4, <2>1 DEF TablesType
  <2>3. JobType'
    BY <1>4, <1>6, <2>1 DEF JobType
  <2>4. UpInv'
    BY <1>1, <1>2, <1>4, <2>1 DEF UpInv, Sound, GetReturnsLastSet, Get, ReadFile
  <2>5. ExtendsInv'
    <3>1. ~damaged' => DOMAIN synced.blobs = {}
      BY <1>1, <1>2, <1>5, <1>7 DEF StayInv, CountsThem
    <3> QED
      BY <1>1, <1>2, <1>4, <3>1 DEF ExtendsInv, Extends
  <2>6. LoadInv'
    BY <2>1, AtRest DEF Idle
  <2> QED
    BY <1>4, <2>2, <2>3, <2>4, <2>5, <2>6
<1>8. ASSUME sb.kind = "super"
      PROVE  IInv'
  <2>1. /\ job' = [phase |-> "load", blobs |-> sb.blobs, files |-> sb.files,
                   pos |-> 1, part |-> NoPart]
        /\ nextBlob' = sb.next /\ expected' = expected
    BY <1>1, <1>8
  <2>2. sb.blobs \in Nat /\ sb.files \in Nat /\ sb.next \in Nat
    BY <1>5, <1>8, KindLemma
  <2>3. TablesType'
    BY <1>1, <1>4, <2>1, <2>2 DEF TablesType
  <2>4. NoPart \in Parts /\ Complete(NoPart) /\ Len(NoPart.data) <= NoPart.size
    BY DEF NoPart, Parts, Complete
  <2>5. job' \in LoadJob /\ job'.phase = "load" /\ job'.blobs = sb.blobs
        /\ job'.files = sb.files /\ job'.pos = 1 /\ job'.part = NoPart
    BY <2>1, <2>2, <2>4 DEF LoadJob
  <2>6. JobType'
    BY <1>4, <1>6, <2>5 DEF JobType
  <2>7. UpInv' /\ ExtendsInv'
    BY <2>5, WhileLoading
  <2>8. LoadInv'
    <3> DEFINE D == DOMAIN synced.blobs
    <3>1. Left' = D /\ DOMAIN blobs' = {} /\ DOMAIN index' = {}
      BY <1>1, <1>2, <1>4 DEF Left
    <3>2. Trusted' => Trusted /\ ok
      BY <1>1, <1>2, <1>4, <1>6 DEF Trusted
    <3>3. ASSUME synced.intact, ok
          PROVE  /\ sb = synced.image[0] /\ sb.blobs = Cardinality(D)
                 /\ sb.files = synced.image[0].files
      <4>1. 0 \in DOMAIN synced.image
        BY <3>3, SyncedLemma DEF SyncedInv
      <4> QED
        BY <1>5, <3>3, <4>1 DEF SyncedInv, OnDisk
    <3>4. Trusted' /\ D # {} => sb.blobs >= Cardinality(D)
      <4>1. Cardinality(D) \in Nat
        BY SyncedLemma, FS_CardinalityType
      <4>2. ~damaged /\ ok /\ D # {} => sb.blobs >= Cardinality(D)
        BY <1>5 DEF StayInv, CountsThem
      <4> QED
        BY <2>2, <3>2, <3>3, <4>1, <4>2 DEF Trusted
    <3>5. /\ D # {} => synced.at[Min(D)] = 1
          /\ D = {} => synced.end = 1
      <4>1. D \in SUBSET Nat /\ Layout(D, synced.blobs, synced.at, synced.end)
        BY SyncedLemma
      <4>2. D # {} => Min(D) \in D /\ \A j \in D : Min(D) <= j
        BY <4>1, MinLemma
      <4> QED
        BY <4>1, <4>2 DEF Layout
    <3>6. Complete(job.part)' /\ Len(job'.part.data) <= job'.part.size /\ job'.pos >= 1
      BY <2>4, <2>5 DEF Complete
    <3>7. ASSUME Trusted', D # {}
          PROVE  /\ \A i \in DOMAIN blobs', j \in Left' : i < j
                 /\ \A i \in DOMAIN blobs' : i \in D /\ blobs'[i] = synced.blobs[i]
                 /\ job'.blobs >= Cardinality(Left') /\ job'.pos = synced.at[Min(Left')]
      BY <2>5, <3>1, <3>4, <3>5, <3>7
    <3>8. D = {} => Extends(DOMAIN blobs)'
      BY <1>4, <3>1 DEF Extends
    <3>9. ASSUME synced.intact, run'.ok
          PROVE  /\ job'.blobs = Cardinality(Left') /\ job'.files = synced.image[0].files
                 /\ D = {} =>
                       /\ job'.pos >= synced.end
                       /\ job'.pos + job'.files = synced.end + synced.image[0].files
                       /\ synced.end .. job'.pos - 1 = {}
      <4>1. ok
        BY <1>6, <3>9
      <4> QED
        BY <2>5, <3>1, <3>3, <3>5, <3>9, <4>1
    <3> QED
      BY <1>4, <2>5, <3>1, <3>6, <3>7, <3>8, <3>9 DEF LoadInv
  <2> QED
    BY <1>4, <2>3, <2>6, <2>7, <2>8
<1> QED
  BY <1>7, <1>8

-----------------------------------------------------------------------------
(* load_from_disk: the blobs.                                              *)

\* The load is at the blob of the last good sync that comes next.
LEMMA LeftLemma ==
    ASSUME IInv, job.phase = "load", Trusted, Left # {}
    PROVE  /\ Min(Left) \in Left /\ Min(Left) \in DOMAIN synced.blobs /\ Min(Left) \in Nat
           /\ \A j \in Left : Min(Left) <= j
           /\ \A i \in DOMAIN blobs, j \in Left : i < j
           /\ \A i \in DOMAIN blobs : i \in DOMAIN synced.blobs /\ blobs[i] = synced.blobs[i]
           /\ IsFiniteSet(Left) /\ Cardinality(Left) \in Nat /\ job.blobs >= Cardinality(Left)
           /\ Cardinality(Left) >= 1
<1>1. Left \in SUBSET Nat /\ Left \subseteq DOMAIN synced.blobs /\ IsFiniteSet(Left)
  <2>1. Left \subseteq DOMAIN synced.blobs
    BY DEF Left
  <2> QED
    BY <2>1, SyncedLemma, FS_Subset
<1>2. Min(Left) \in Left /\ Min(Left) \in Nat /\ \A j \in Left : Min(Left) <= j
  BY <1>1, MinLemma
<1>3. Cardinality(Left) \in Nat /\ Cardinality(Left) # 0
  BY <1>1, FS_CardinalityType, FS_EmptySet
<1>4. /\ \A i \in DOMAIN blobs, j \in Left : i < j
      /\ \A i \in DOMAIN blobs : i \in DOMAIN synced.blobs /\ blobs[i] = synced.blobs[i]
      /\ job.blobs >= Cardinality(Left)
  BY DEF IInv, LoadInv
<1> QED
  BY <1>1, <1>2, <1>3, <1>4

\* The blob after it, or the end of them.
LEMMA NextLemma ==
    ASSUME IInv, job.phase = "load", Trusted, Left # {}, NEW rest, rest = Left \ {Min(Left)}
    PROVE  LET id  == Min(Left)
               end == synced.at[id] + Width(synced.blobs[id])
           IN  /\ rest # {} => synced.at[Min(rest)] = end
               /\ rest = {} => synced.end = end
<1> DEFINE id == Min(Left)
           D == DOMAIN synced.blobs
<1>1. /\ id \in Left /\ id \in D /\ id \in Nat
      /\ \A j \in Left : id <= j
      /\ \A i \in DOMAIN blobs, j \in Left : i < j
      /\ \A i \in DOMAIN blobs : i \in D
  BY LeftLemma
<1>2. D \subseteq Nat /\ Layout(D, synced.blobs, synced.at, synced.end)
  BY SyncedLemma
<1>3. \A m \in D : m \in DOMAIN blobs \/ m \in Left
  BY DEF Left
<1>4. Left \subseteq D
  BY DEF Left
<1> HIDE DEF id
<1>5. ASSUME rest # {}
      PROVE  synced.at[Min(rest)] = synced.at[id] + Width(synced.blobs[id])
  <2>1. rest \in SUBSET Nat
    BY <1>2, <1>4
  <2>2. Min(rest) \in rest /\ \A j \in rest : Min(rest) <= j
    BY <1>5, <2>1, MinLemma
  <2>3. Min(rest) \in D /\ Min(rest) \in Nat /\ id < Min(rest)
    BY <1>1, <1>2, <1>4, <2>2 DEF id
  <2>4. \A m \in D : ~(id < m /\ m < Min(rest))
    <3> SUFFICES ASSUME NEW m \in D, id < m, m < Min(rest)
                 PROVE  FALSE
      OBVIOUS
    <3>1. CASE m \in DOMAIN blobs
      BY <1>1, <1>2, <3>1
    <3>2. CASE m \in Left
      <4>1. m \in rest
        BY <1>1, <3>2 DEF id
      <4> QED
        BY <1>2, <2>2, <2>3, <4>1
    <3> QED
      BY <1>3, <3>1, <3>2
  <2> QED
    BY <1>1, <1>2, <2>3, <2>4 DEF Layout
<1>6. ASSUME rest = {}
      PROVE  synced.end = synced.at[id] + Width(synced.blobs[id])
  <2>1. \A m \in D : m <= id
    <3>1. Left = {id}
      BY <1>1, <1>6 DEF id
    <3> QED
      BY <1>1, <1>2, <1>3, <3>1
  <2> QED
    BY <1>1, <1>2, <2>1 DEF Layout
<1> QED
  BY <1>5, <1>6 DEF id

\* part is what the next blob of the last good sync begins with.
Fits(part) ==
    LET id == Min(Left)
        v  == synced.blobs[id]
    IN  /\ part.id = id /\ part.size = Len(v)
        /\ v = <<>> => job.pos = synced.at[id]
        /\ v # <<>> => Len(part.data) >= 1 /\ job.pos + 1 = synced.at[id] + Len(part.data)
        /\ \A k \in 1 .. Len(part.data) : part.data[k] = v[k]

\* A load that knows the last good sync is intact has as many blobs to read as
\* are left.
LEMMA IntactLemma ==
    ASSUME IInv, job.phase = "load", synced.intact, run.ok
    PROVE  /\ DOMAIN blobs \subseteq DOMAIN synced.blobs
           /\ job.blobs = Cardinality(Left) /\ (job.blobs > 0 <=> Left # {})
           /\ Left # {} => DOMAIN index = {} /\ job.files = synced.image[0].files
<1>1. /\ DOMAIN blobs \subseteq DOMAIN synced.blobs
      /\ job.blobs = Cardinality(Left)
      /\ Left # {} => DOMAIN index = {} /\ job.files = synced.image[0].files
  BY DEF IInv, LoadInv
<1>2. IsFiniteSet(Left)
  <2>1. Left \subseteq DOMAIN synced.blobs
    BY DEF Left
  <2> QED
    BY <2>1, SyncedLemma, FS_Subset
<1>3. Cardinality(Left) \in Nat /\ (Cardinality(Left) = 0 <=> Left = {})
  BY <1>2, FS_CardinalityType, FS_EmptySet
<1> QED
  BY <1>1, <1>3

\* What was read of a blob is kept, or it is complete and stored.
LEMMA TakeLemma ==
    ASSUME IInv, job.phase = "load", job.blobs > 0, NEW ok \in BOOLEAN,
           LoadRead(job.pos, ok), NEW part \in Parts, Len(part.data) <= part.size,
           Take(part), UNCHANGED <<index, nextBlob, expected>>, damaged' \in BOOLEAN,
           damaged => damaged', ~damaged' => \A i \in DOMAIN blobs : i < part.id,
           Trusted' /\ Left # {} => Fits(part)
    PROVE  IInv'
<1> USE DEF IInv
<1> DEFINE D == DOMAIN synced.blobs
           id == Min(Left)
           v == synced.blobs[id]
<1>1. /\ job \in LoadJob /\ job.blobs \in Nat /\ job.files \in Nat /\ job.pos \in Nat
      /\ job.pos >= 1
  BY PhaseLemma DEF LoadJob, LoadInv
<1>2. /\ Complete(part) =>
            /\ blobs' = Put(blobs, part.id, part.data)
            /\ hashes' = Put(hashes, Hash(part.data), part.id)
            /\ job' = [job EXCEPT !.pos = job.pos + 1, !.part = NoPart, !.blobs = job.blobs - 1]
      /\ ~Complete(part) =>
            /\ job' = [job EXCEPT !.pos = job.pos + 1, !.part = part]
            /\ UNCHANGED <<blobs, hashes>>
  BY DEF Take
<1>3. NoPart \in Parts /\ Complete(NoPart) /\ Len(NoPart.data) <= NoPart.size
  BY DEF NoPart, Parts, Complete
<1>4. /\ job' \in LoadJob /\ job'.phase = "load" /\ job'.pos = job.pos + 1
      /\ job'.files = job.files
      /\ Complete(part) => job'.part = NoPart /\ job'.blobs = job.blobs - 1
      /\ ~Complete(part) => job'.part = part /\ job'.blobs = job.blobs
  <2>1. job.pos + 1 \in Nat /\ job.blobs - 1 \in Nat
    BY <1>1
  <2>2. CASE Complete(part)
    BY <1>1, <1>2, <1>3, <2>1, <2>2 DEF LoadJob
  <2>3. CASE ~Complete(part)
    BY <1>1, <1>2, <2>1, <2>3 DEF LoadJob
  <2> QED
    BY <2>2, <2>3
<1>5. /\ ReadWell(job.pos, ok) /\ faults' \in Nat /\ DOMAIN store' = {} /\ store' = store
      /\ synced' = synced /\ run' = [run EXCEPT !.ok = run.ok /\ ok]
      /\ CacheType' /\ CleanMatchesDisk' /\ Dirty' = {} /\ SyncedInv' /\ StayInv'
      /\ FlushInv' /\ RunInv' /\ SyncInv' /\ ImageInv' /\ SameInv'
  BY <1>1, <1>4, LoadFrame
<1>6. /\ run'.ok = (run.ok /\ ok) /\ run.ok \in BOOLEAN
      /\ run' = [image |-> run'.image, at |-> run'.at, end |-> run'.end, ok |-> run'.ok]
  BY <1>5 DEF JobType
<1>7. JobType'
  BY <1>4, <1>5, <1>6 DEF JobType
<1>8. UpInv' /\ ExtendsInv'
  BY <1>4, WhileLoading
<1>9. /\ part.id \in Nat /\ part.size \in Nat /\ part.data \in Seq(Bytes)
      /\ Len(part.data) \in Nat
  BY DEF Parts
<1>10. TablesType'
  <2>1. CASE Complete(part)
    <3>1. IsFiniteSet(DOMAIN blobs \cup {part.id})
      BY FS_AddElement DEF TablesType, IdMap
    <3>2. IdMap(blobs')
      BY <1>2, <1>9, <2>1, <3>1 DEF TablesType, IdMap, Put, IsMap
    <3>3. IsMap(hashes') /\ \A h \in DOMAIN hashes' : hashes'[h] \in Nat
      BY <1>2, <1>9, <2>1 DEF TablesType, Put, IsMap
    <3> QED
      BY <1>5, <3>2, <3>3 DEF TablesType
  <2>2. CASE ~Complete(part)
    BY <1>2, <1>5, <2>2 DEF TablesType
  <2> QED
    BY <2>1, <2>2
<1>11. /\ Trusted' => Trusted
       /\ synced'.intact /\ run'.ok => synced.intact /\ run.ok /\ Left # {} /\ Trusted'
  <2>1. Trusted' => Trusted
    BY <1>5, <1>6 DEF Trusted
  <2>2. synced'.intact /\ run'.ok => synced.intact /\ run.ok /\ Trusted'
    BY <1>5, <1>6 DEF Trusted
  <2> QED
    BY <2>1, <2>2, IntactLemma
<1>12. Trusted' /\ Left = {} => ~damaged'
  BY <1>11 DEF Trusted
<1>13. ASSUME ~Complete(part)
       PROVE  LoadInv'
  <2>1. blobs' = blobs /\ index' = index /\ synced' = synced /\ Left' = Left
    BY <1>2, <1>5, <1>13 DEF Left
  <2>2. ~Complete(part)' /\ Len(part.data) # part.size
    BY <1>13 DEF Complete
  <2>3. ASSUME Trusted', Left # {}
        PROVE  /\ part.id = id /\ part.size = Len(v)
               /\ job'.pos = synced.at[id] + Len(part.data)
               /\ Len(part.data) >= 1
               /\ \A k \in 1 .. Len(part.data) : part.data[k] = v[k]
    <3>1. Fits(part)
      BY <2>3
    <3>2. v # <<>>
      BY <1>9, <2>2, <3>1 DEF Fits
    <3> QED
      BY <1>4, <3>1, <3>2 DEF Fits
  <2>4. ASSUME Trusted', Left # {}
        PROVE  /\ \A i \in DOMAIN blobs, j \in Left : i < j
               /\ \A i \in DOMAIN blobs : i \in D /\ blobs[i] = synced.blobs[i]
               /\ job.blobs >= Cardinality(Left)
    BY <1>11, <2>4, LeftLemma
  <2>5. ASSUME Trusted', Left = {}
        PROVE  Extends(DOMAIN blobs)'
    <3>1. Extends(DOMAIN blobs)
      BY <1>11, <2>5 DEF LoadInv
    <3> QED
      BY <2>1, <3>1 DEF Extends
  <2>6. ASSUME synced'.intact, run'.ok
        PROVE  /\ DOMAIN blobs \subseteq D /\ job.blobs = Cardinality(Left)
               /\ DOMAIN index = {} /\ job.files = synced.image[0].files /\ Left # {}
    BY <1>11, <2>6, IntactLemma
  <2>7. job'.part = part /\ job'.blobs = job.blobs /\ job'.pos >= 1
    BY <1>1, <1>4, <1>13
  <2>8. ~Complete(job.part)'
    BY <1>13, <2>7 DEF Complete
  <2> QED
    BY <1>4, <1>5, <2>1, <2>3, <2>4, <2>5, <2>6, <2>7, <2>8 DEF LoadInv
<1>14. ASSUME Complete(part)
       PROVE  LoadInv'
  <2>1. /\ DOMAIN blobs' = DOMAIN blobs \cup {part.id} /\ blobs'[part.id] = part.data
        /\ \A i \in DOMAIN blobs : i # part.id => blobs'[i] = blobs[i]
        /\ Left' = Left \ {part.id}
    BY <1>2, <1>5, <1>14 DEF Put, Left
  <2>2. /\ job'.part = NoPart /\ job'.blobs = job.blobs - 1 /\ job'.pos >= 1
        /\ Complete(job.part)' /\ Len(job'.part.data) <= job'.part.size
    BY <1>1, <1>3, <1>4, <1>14 DEF Complete
  <2>3. ASSUME Trusted', Left # {}
        PROVE  /\ part.id = id /\ part.data = v /\ job'.pos = synced.at[id] + Width(v)
               /\ id \in Left /\ id \notin DOMAIN blobs
    <3>1. Fits(part)
      BY <2>3
    <3>2. /\ id \in Left /\ id \in D /\ v \in Seq(Bytes) /\ Len(v) \in Nat
          /\ synced.at[id] \in Nat
      BY <1>11, <2>3, LeftLemma, SyncedLemma
    <3>3. Len(part.data) = Len(v)
      BY <1>14, <3>1 DEF Fits, Complete
    <3>4. part.data = v
      <4>1. \A k \in 1 .. Len(part.data) : part.data[k] = v[k]
        BY <3>1 DEF Fits
      <4> QED
        BY <1>9, <3>2, <3>3, <4>1, SeqEqual
    <3>5. job'.pos = synced.at[id] + Width(v)
      <4>1. CASE v = <<>>
        BY <1>1, <1>4, <3>1, <3>2, <4>1 DEF Fits, Width
      <4>2. CASE v # <<>>
        BY <1>1, <1>4, <3>1, <3>2, <3>3, <4>2 DEF Fits, Width
      <4> QED
        BY <4>1, <4>2
    <3>6. part.id = id
      BY <3>1 DEF Fits
    <3> QED
      BY <3>2, <3>4, <3>5, <3>6 DEF Left
  <2> HIDE DEF id, v
  <2>4. ASSUME Trusted', Left # {}
        PROVE  /\ \A i \in DOMAIN blobs', j \in Left' : i < j
               /\ \A i \in DOMAIN blobs' : i \in D /\ blobs'[i] = synced.blobs[i]
               /\ Cardinality(Left') = Cardinality(Left) - 1
               /\ job'.blobs >= Cardinality(Left')
               /\ Left' # {} => job'.pos = synced.at[Min(Left')]
               /\ Left' = {} => job'.pos = synced.end
    <3>1. /\ id \in Left /\ id \in D /\ id \in Nat
          /\ \A j \in Left : id <= j
          /\ \A i \in DOMAIN blobs, j \in Left : i < j
          /\ \A i \in DOMAIN blobs : i \in D /\ blobs[i] = synced.blobs[i]
          /\ IsFiniteSet(Left) /\ Cardinality(Left) \in Nat /\ job.blobs >= Cardinality(Left)
      BY <1>11, <2>4, LeftLemma DEF id
    <3>2. part.id = id /\ part.data = synced.blobs[id] /\ id \notin DOMAIN blobs
          /\ job'.pos = synced.at[id] + Width(synced.blobs[id])
      BY <2>3, <2>4 DEF v
    <3>3. Left' = Left \ {id} /\ DOMAIN blobs' = DOMAIN blobs \cup {id}
      BY <2>1, <3>2
    <3>4. \A j \in Left' : j \in Nat /\ id < j
      <4>1. Left \subseteq Nat
        BY SyncedLemma DEF Left
      <4> QED
        BY <3>1, <3>3, <4>1
    <3>5. \A i \in DOMAIN blobs', j \in Left' : i < j
      BY <3>1, <3>3, <3>4
    <3>6. \A i \in DOMAIN blobs' : i \in D /\ blobs'[i] = synced.blobs[i]
      BY <2>1, <3>1, <3>2, <3>3
    <3>7. Cardinality(Left') = Cardinality(Left) - 1
      BY <3>1, <3>3, FS_RemoveElement
    <3>8. /\ Left' # {} => job'.pos = synced.at[Min(Left')]
          /\ Left' = {} => job'.pos = synced.end
      BY <1>11, <2>4, <3>2, <3>3, NextLemma DEF id
    <3> QED
      BY <1>1, <2>2, <3>1, <3>5, <3>6, <3>7, <3>8
  <2>5. ASSUME Trusted', Left' = {}
        PROVE  Extends(DOMAIN blobs)'
    <3>1. D \subseteq DOMAIN blobs'
      BY <1>5, <2>5 DEF Left
    <3>2. CASE Left # {}
      BY <1>5, <2>4, <2>5, <3>1, <3>2 DEF Extends
    <3>3. CASE Left = {}
      <4>1. Extends(DOMAIN blobs)
        BY <1>11, <2>5, <3>3 DEF LoadInv
      <4>2. \A i \in DOMAIN blobs : i < part.id /\ i # part.id
        <5>1. \A i \in DOMAIN blobs : i \in Nat
          BY DEF TablesType, IdMap
        <5> QED
          BY <1>9, <1>12, <2>5, <3>3, <5>1
      <4> QED
        BY <1>5, <2>1, <3>1, <4>1, <4>2 DEF Extends
    <3> QED
      BY <3>2, <3>3
  <2>6. Left' # {} => Left # {}
    BY <2>1
  <2>7. ASSUME synced'.intact, run'.ok
        PROVE  /\ DOMAIN blobs' \subseteq D /\ job'.blobs = Cardinality(Left')
               /\ DOMAIN index' = {} /\ job'.files = synced.image[0].files
               /\ Left' = {} =>
                     /\ job'.pos >= synced.end
                     /\ job'.pos + job'.files = synced.end + synced.image[0].files
                     /\ synced.end .. job'.pos - 1 = {}
    <3>1. /\ job.blobs = Cardinality(Left) /\ DOMAIN index = {}
          /\ job.files = synced.image[0].files /\ Left # {} /\ Trusted'
      BY <1>11, <2>7, IntactLemma
    <3>2. synced.end \in Nat
      BY SyncedLemma
    <3> QED
      BY <1>4, <2>2, <2>4, <3>1, <3>2
  <2> QED
    BY <1>4, <1>5, <2>2, <2>4, <2>5, <2>6, <2>7 DEF LoadInv
<1> QED
  BY <1>5, <1>7, <1>8, <1>10, <1>13, <1>14

\* The load gives up.
LEMMA GarbledLemma ==
    ASSUME IInv, job.phase = "load", NEW n \in Nat, NEW ok \in BOOLEAN, LoadRead(n, ok),
           job' = Garbled, UNCHANGED <<index, blobs, hashes, nextBlob, expected>>,
           damaged' \in BOOLEAN, damaged => damaged'
    PROVE  IInv'
<1> USE DEF IInv
<1>1. job'.phase = "garbled"
  BY DEF Garbled
<1>2. /\ ReadWell(n, ok) /\ faults' \in Nat /\ DOMAIN store' = {} /\ store' = store
      /\ synced' = synced /\ run' = [run EXCEPT !.ok = run.ok /\ ok]
      /\ CacheType' /\ CleanMatchesDisk' /\ Dirty' = {} /\ SyncedInv' /\ StayInv'
      /\ FlushInv' /\ RunInv' /\ SyncInv' /\ ImageInv' /\ SameInv'
  BY <1>1, LoadFrame
<1>3. /\ run'.ok \in BOOLEAN
      /\ run' = [image |-> run'.image, at |-> run'.at, end |-> run'.end, ok |-> run'.ok]
  BY <1>2 DEF JobType
<1>4. JobType'
  BY <1>2, <1>3 DEF JobType
<1>5. TablesType'
  BY <1>2 DEF TablesType
<1>6. UpInv' /\ ExtendsInv'
  BY <1>1 DEF UpInv, ExtendsInv, Up
<1>7. LoadInv'
  BY <1>1, AtRest
<1> QED
  BY <1>2, <1>4, <1>5, <1>6, <1>7

\* Where a blob of the last good sync begins, its first block is read.
LEMMA HeadLemma ==
    ASSUME IInv, job.phase = "load", Trusted, Left # {}, Complete(job.part)
    PROVE  LET v == synced.blobs[Min(Left)]
           IN  /\ job.pos = synced.at[Min(Left)] /\ job.pos \in DOMAIN disk
               /\ disk[job.pos] = BlobHead(Min(Left), v) /\ v \in Seq(Bytes)
<1> USE DEF IInv
<1> DEFINE id == Min(Left)
           v == synced.blobs[id]
<1>1. id \in DOMAIN synced.blobs
  BY LeftLemma
<1>2. v \in Seq(Bytes) /\ Width(v) \in Nat /\ Width(v) >= 1 /\ synced.at[id] \in Nat
  BY <1>1, SyncedLemma
<1>3. job.pos = synced.at[id]
  BY DEF LoadInv
<1>4. /\ synced.at[id] + 0 \in DOMAIN disk
      /\ disk[synced.at[id] + 0] = BlobBlock(id, v, 0)
  <2>1. 0 \in 0 .. Width(v) - 1
    BY <1>2
  <2> QED
    BY <1>1, <2>1, DiskLemma
<1>5. synced.at[id] + 0 = synced.at[id]
  BY <1>2
<1> QED
  BY <1>2, <1>3, <1>4, <1>5 DEF BlobBlock

\* load_from_disk: the first block of a blob.
LEMMA LoadBlobStep ==
    ASSUME IInv, NEW ok \in BOOLEAN, LoadBlob(ok)
    PROVE  IInv'
<1> USE DEF IInv
<1> DEFINE b == Loaded(job.pos, ok)
           part == [id |-> b.id, size |-> b.size,
                    data |-> IF b.size = 0 THEN <<>> ELSE <<b.chunk>>]
<1>1. /\ job.phase = "load" /\ job.blobs > 0 /\ Complete(job.part) /\ LoadRead(job.pos, ok)
      /\ UNCHANGED <<index, nextBlob, expected>>
      /\ damaged' = (\/ damaged \/ ~ok \/ b.kind # "blob"
                     \/ \E id \in DOMAIN blobs : b.id <= id)
      /\ b.kind = "blob" => Take(part)
      /\ b.kind = "zero" => Take(NoPart)
      /\ b.kind # "blob" /\ b.kind # "zero" => job' = Garbled /\ UNCHANGED <<blobs, hashes>>
  BY DEF LoadBlob
<1>2. job.pos \in Nat /\ job.blobs \in Nat /\ damaged \in BOOLEAN /\ Dirty = {} /\ faults \in Nat
  BY <1>1, PhaseLemma DEF LoadJob, TablesType, LoadInv
<1>3. ReadWell(job.pos, ok) /\ synced' = synced /\ run'.ok = (run.ok /\ ok)
  <2>1. synced' = synced /\ run' = [run EXCEPT !.ok = run.ok /\ ok]
    BY <1>1 DEF LoadRead
  <2>2. ReadWell(job.pos, ok)
    BY <1>1, <1>2, ReadLemma
  <2> QED
    BY <2>1, <2>2 DEF JobType
<1>4. b \in Blocks /\ (ok => job.pos \in DOMAIN disk /\ b = disk[job.pos])
  BY <1>3 DEF ReadWell
<1> HIDE DEF b
<1>5. damaged' \in BOOLEAN /\ (damaged => damaged')
  BY <1>1
<1>6. Trusted' => Trusted /\ ok
  BY <1>1, <1>2, <1>3 DEF Trusted, JobType
<1>7. ASSUME Trusted', Left # {}
      PROVE  LET v == synced.blobs[Min(Left)]
             IN  b = BlobHead(Min(Left), v) /\ v \in Seq(Bytes) /\ job.pos = synced.at[Min(Left)]
  BY <1>1, <1>4, <1>6, <1>7, HeadLemma
<1>8. CASE b.kind = "blob"
  <2>1. b.id \in Nat /\ b.size \in Nat /\ b.chunk \in Bytes
    BY <1>4, <1>8, KindLemma
  <2>2. part \in Parts /\ Len(part.data) <= part.size
    <3>1. <<>> \in Seq(Bytes) /\ <<b.chunk>> \in Seq(Bytes) /\ Len(<<b.chunk>>) = 1
      BY <2>1
    <3> QED
      BY <2>1, <3>1 DEF Parts
  <2>3. ~damaged' => \A i \in DOMAIN blobs : i < part.id
    <3>1. \A i \in DOMAIN blobs : i \in Nat
      BY DEF TablesType, IdMap
    <3> QED
      BY <1>1, <2>1, <3>1
  <2>4. ASSUME Trusted', Left # {}
        PROVE  Fits(part)
    <3> DEFINE v == synced.blobs[Min(Left)]
    <3>1. b = BlobHead(Min(Left), v) /\ v \in Seq(Bytes) /\ job.pos = synced.at[Min(Left)]
      BY <1>7, <2>4
    <3>2. /\ b.id = Min(Left) /\ b.size = Len(v) /\ (v # <<>> => b.chunk = v[1])
      BY <3>1 DEF BlobHead
    <3>3. Len(v) \in Nat /\ (v = <<>> <=> Len(v) = 0)
      BY <3>1, EmptySeq
    <3>4. v # <<>> => part.data = <<v[1]>>
      BY <3>2, <3>3
    <3>5. v = <<>> => part.data = <<>>
      BY <3>2, <3>3
    <3> HIDE DEF part, v
    <3>6. part.id = Min(Left) /\ part.size = Len(v)
      BY <3>2 DEF part
    <3>7. v # <<>> => Len(part.data) = 1 /\ part.data[1] = v[1]
      <4>1. \A x, y : y = <<x>> => Len(y) = 1 /\ y[1] = x
        OBVIOUS
      <4> QED
        BY <3>4, <4>1, Zenon
    <3>8. \A k \in 1 .. Len(part.data) : part.data[k] = v[k]
      <4>1. CASE v = <<>>
        BY <3>5, <4>1
      <4>2. CASE v # <<>>
        BY <3>7, <4>2
      <4> QED
        BY <4>1, <4>2
    <3> QED
      BY <1>2, <3>1, <3>6, <3>7, <3>8 DEF Fits, v
  <2>5. Take(part)
    BY <1>1, <1>8
  <2> QED
    BY <1>1, <1>5, <2>2, <2>3, <2>4, <2>5, TakeLemma
<1>9. CASE b.kind = "zero"
  <2>1. NoPart \in Parts /\ Len(NoPart.data) <= NoPart.size
    BY DEF NoPart, Parts
  <2>2. damaged' /\ Take(NoPart)
    BY <1>1, <1>9
  <2>3. ~(Trusted' /\ Left # {})
    BY <1>7, <1>9 DEF BlobHead
  <2> QED
    BY <1>1, <1>5, <2>1, <2>2, <2>3, TakeLemma
<1>10. CASE b.kind # "blob" /\ b.kind # "zero"
  <2>1. job' = Garbled /\ UNCHANGED <<index, blobs, hashes, nextBlob, expected>>
    BY <1>1, <1>10
  <2> QED
    BY <1>1, <1>2, <1>5, <2>1, GarbledLemma
<1> QED
  BY <1>8, <1>9, <1>10

\* load_from_disk: another block of it.
LEMMA LoadContStep ==
    ASSUME IInv, NEW ok \in BOOLEAN, LoadCont(ok)
    PROVE  IInv'
<1> USE DEF IInv
<1> DEFINE b == Loaded(job.pos, ok)
           c == IF b.kind = "cont" THEN b.chunk ELSE Junk
           part == [job.part EXCEPT !.data = Append(job.part.data, c)]
<1>1. /\ job.phase = "load" /\ ~Complete(job.part) /\ LoadRead(job.pos, ok)
      /\ UNCHANGED <<index, nextBlob, expected>>
      /\ damaged' = (damaged \/ ~ok \/ b.kind # "cont") /\ Take(part)
  BY DEF LoadCont
<1>2. /\ job.pos \in Nat /\ job.blobs \in Nat /\ damaged \in BOOLEAN /\ Dirty = {} /\ faults \in Nat
      /\ job.part \in Parts /\ Len(job.part.data) <= job.part.size /\ job.blobs > 0
  BY <1>1, PhaseLemma DEF LoadJob, TablesType, LoadInv
<1>3. ReadWell(job.pos, ok) /\ synced' = synced /\ run'.ok = (run.ok /\ ok)
  <2>1. synced' = synced /\ run' = [run EXCEPT !.ok = run.ok /\ ok]
    BY <1>1 DEF LoadRead
  <2>2. ReadWell(job.pos, ok)
    BY <1>1, <1>2, ReadLemma
  <2> QED
    BY <2>1, <2>2 DEF JobType
<1>4. b \in Blocks /\ (ok => job.pos \in DOMAIN disk /\ b = disk[job.pos])
  BY <1>3 DEF ReadWell
<1> HIDE DEF b
<1>5. damaged' \in BOOLEAN /\ (damaged => damaged')
  BY <1>1
<1>6. Trusted' => Trusted /\ ok
  BY <1>1, <1>2, <1>3 DEF Trusted, JobType
<1>7. c \in Bytes
  BY <1>4, KindLemma DEF Bytes
<1> DEFINE old == job.part.data
<1>8. /\ old \in Seq(Bytes) /\ Len(old) \in Nat /\ job.part.size \in Nat /\ job.part.id \in Nat
      /\ Len(old) < job.part.size
  BY <1>1, <1>2 DEF Parts, Complete
<1> HIDE DEF c, old
<1>9. /\ part \in Parts /\ part.id = job.part.id /\ part.size = job.part.size
      /\ part.data = Append(old, c)
  <2>1. Append(old, c) \in Seq(Bytes)
    BY <1>7, <1>8
  <2>2. part = [job.part EXCEPT !.data = Append(old, c)]
    BY DEF old
  <2> HIDE DEF part
  <2> QED
    BY <1>2, <2>1, <2>2 DEF Parts
<1> HIDE DEF part
<1>10. /\ Len(part.data) = Len(old) + 1 /\ part.data[Len(old) + 1] = c
       /\ \A k \in 1 .. Len(old) : part.data[k] = old[k]
  BY <1>7, <1>8, <1>9
<1>11. Len(part.data) <= part.size
  BY <1>8, <1>9, <1>10
<1>12. ~damaged' => \A i \in DOMAIN blobs : i < part.id
  BY <1>1, <1>5, <1>9 DEF LoadInv
<1>13. ASSUME Trusted', Left # {}
       PROVE  Fits(part)
  <2> DEFINE id == Min(Left)
             v == synced.blobs[id]
  <2>1. /\ job.part.id = id /\ job.part.size = Len(v)
        /\ job.pos = synced.at[id] + Len(old) /\ Len(old) >= 1
        /\ \A k \in 1 .. Len(old) : old[k] = v[k]
    BY <1>1, <1>6, <1>13 DEF LoadInv, old
  <2>2. id \in DOMAIN synced.blobs
    BY <1>1, <1>6, <1>13, LeftLemma
  <2>3. v \in Seq(Bytes) /\ synced.at[id] \in Nat
    BY <2>2, SyncedLemma
  <2>4. v # <<>> /\ Len(old) \in 0 .. Width(v) - 1
    BY <1>8, <2>1, <2>3 DEF Width
  <2>5. disk[job.pos] = BlobBlock(id, v, Len(old))
    BY <1>6, <1>13, <2>1, <2>2, <2>4, DiskLemma
  <2>6. b = Cont(v[Len(old) + 1])
    BY <1>4, <1>6, <1>8, <1>13, <2>1, <2>5 DEF BlobBlock
  <2>7. c = v[Len(old) + 1]
    BY <2>6 DEF c, Cont
  <2> HIDE DEF v, id
  <2>8. \A k \in 1 .. Len(part.data) : part.data[k] = v[k]
    BY <1>8, <1>10, <2>1, <2>7
  <2>9. job.pos + 1 = synced.at[id] + Len(part.data)
    <3>1. job.pos = synced.at[id] + Len(old) /\ Len(part.data) = Len(old) + 1
      BY <1>10, <2>1
    <3>2. job.pos + 1 = synced.at[id] + (Len(old) + 1)
      <4>1. synced.at[id] \in Nat /\ Len(old) \in Nat
        BY <1>8, <2>3
      <4>2. \A x, y \in Nat : (x + y) + 1 = x + (y + 1)
        OBVIOUS
      <4>3. (synced.at[id] + Len(old)) + 1 = synced.at[id] + (Len(old) + 1)
        BY <4>1, <4>2, Zenon
      <4> QED
        BY <3>1, <4>3, Zenon
    <3> QED
      BY <3>1, <3>2, Zenon
  <2> QED
    BY <1>8, <1>9, <1>10, <2>1, <2>4, <2>8, <2>9 DEF Fits, v, id
<1> QED
  BY <1>1, <1>2, <1>5, <1>9, <1>11, <1>12, <1>13, TakeLemma

-----------------------------------------------------------------------------
(* load_from_disk: the files, and its end.                                 *)

\* All blobs of the last good sync have been read when no more are to come.
LEMMA NoneLeft ==
    ASSUME IInv, job.phase = "load", job.blobs = 0, Trusted
    PROVE  Left = {} /\ Extends(DOMAIN blobs)
<1>1. Left = {}
  <2>1. Left # {} => job.blobs >= Cardinality(Left) /\ Cardinality(Left) >= 1
                     /\ Cardinality(Left) \in Nat
    BY LeftLemma
  <2> QED
    BY <2>1
<1> QED
  BY <1>1 DEF IInv, LoadInv

\* The entry that is read is the one of the last good sync, if that is intact.
LEMMA EntryLemma ==
    ASSUME IInv, job.phase = "load", job.blobs = 0, job.files > 0, synced.intact, run.ok
    PROVE  /\ job.pos \in synced.end .. (synced.end + synced.image[0].files) - 1
           /\ job.pos \in DOMAIN disk /\ disk[job.pos] = synced.image[job.pos]
           /\ synced.image[job.pos].kind = "file" /\ job.pos \in Nat /\ job.files \in Nat
           /\ job.pos >= synced.end /\ synced.end \in Nat
           /\ job.pos + job.files = synced.end + synced.image[0].files
           /\ \A m \in synced.end .. job.pos - 1 : synced.image[m].path \in DOMAIN index
           /\ \A p \in DOMAIN index : \E m \in synced.end .. job.pos - 1 :
                 synced.image[m].path = p /\ index[p] = Entry(synced.image[m].id)
<1> USE DEF IInv
<1>1. Left = {}
  BY IntactLemma
<1>2. /\ job.pos >= synced.end
      /\ job.pos + job.files = synced.end + synced.image[0].files
      /\ \A m \in synced.end .. job.pos - 1 : synced.image[m].path \in DOMAIN index
      /\ \A p \in DOMAIN index : \E m \in synced.end .. job.pos - 1 :
            synced.image[m].path = p /\ index[p] = Entry(synced.image[m].id)
  BY <1>1 DEF LoadInv
<1>3. /\ job.pos \in Nat /\ job.files \in Nat /\ synced.end \in Nat /\ synced.end >= 1
      /\ synced.image[0].files \in Nat
  BY PhaseLemma, SyncedLemma DEF LoadJob, SyncedInv
<1>4. job.pos \in synced.end .. (synced.end + synced.image[0].files) - 1
  BY <1>2, <1>3
<1>5. job.pos \in DOMAIN synced.image
  BY <1>3, <1>4 DEF SyncedInv
<1>6. synced.image[job.pos].kind = "file" /\ OnDisk(job.pos, synced.image[job.pos])
  BY <1>4, <1>5 DEF SyncedInv
<1> QED
  BY <1>2, <1>3, <1>4, <1>6 DEF OnDisk

\* load_from_disk: an entry.
LEMMA LoadFileStep ==
    ASSUME IInv, NEW ok \in BOOLEAN, LoadFile(ok)
    PROVE  IInv'
<1> USE DEF IInv
<1> DEFINE b == Loaded(job.pos, ok)
           f == IF b.kind = "file" THEN b ELSE File(NoPath, 0)
<1>1. /\ job.phase = "load" /\ job.blobs = 0 /\ job.files > 0 /\ LoadRead(job.pos, ok)
      /\ UNCHANGED <<blobs, hashes, nextBlob, expected>>
      /\ damaged' = (damaged \/ ~ok \/ b.kind # "file")
      /\ b.kind \in {"file", "zero"} =>
            /\ index' = Put(index, f.path, Entry(f.id))
            /\ job' = [job EXCEPT !.pos = job.pos + 1, !.files = job.files - 1]
      /\ b.kind \notin {"file", "zero"} => job' = Garbled /\ index' = index
  BY DEF LoadFile
<1>2. /\ job \in LoadJob /\ job.pos \in Nat /\ job.files \in Nat /\ damaged \in BOOLEAN
      /\ Dirty = {} /\ faults \in Nat /\ job.pos >= 1
      /\ Complete(job.part) /\ Len(job.part.data) <= job.part.size
  BY <1>1, PhaseLemma DEF LoadJob, TablesType, LoadInv
<1>3. ReadWell(job.pos, ok)
  BY <1>1, <1>2, ReadLemma
<1>4. b \in Blocks /\ (ok => job.pos \in DOMAIN disk /\ b = disk[job.pos])
  BY <1>3 DEF ReadWell
<1> HIDE DEF b
<1>5. damaged' \in BOOLEAN /\ (damaged => damaged')
  BY <1>1
<1>6. f.path \in Nat /\ f.id \in Nat
  BY <1>4, KindLemma DEF File, NoPath
<1>7. CASE b.kind \notin {"file", "zero"}
  <2>1. job' = Garbled /\ UNCHANGED <<index, blobs, hashes, nextBlob, expected>>
    BY <1>1, <1>7
  <2> QED
    BY <1>1, <1>2, <1>5, <2>1, GarbledLemma
<1>8. ASSUME b.kind \in {"file", "zero"}
      PROVE  IInv'
  <2>1. /\ index' = Put(index, f.path, Entry(f.id))
        /\ job' = [job EXCEPT !.pos = job.pos + 1, !.files = job.files - 1]
    BY <1>1, <1>8
  <2>2. b.kind = "file" => f = b
    OBVIOUS
  <2> HIDE DEF f
  <2>3. /\ job' \in LoadJob /\ job'.phase = "load" /\ job'.pos = job.pos + 1
        /\ job'.files = job.files - 1 /\ job'.blobs = 0 /\ job'.part = job.part
    <3>1. job.pos + 1 \in Nat /\ job.files - 1 \in Nat
      BY <1>1, <1>2
    <3> QED
      BY <1>1, <1>2, <2>1, <3>1 DEF LoadJob
  <2>4. /\ ReadWell(job.pos, ok) /\ faults' \in Nat /\ DOMAIN store' = {} /\ store' = store
        /\ synced' = synced /\ run' = [run EXCEPT !.ok = run.ok /\ ok]
        /\ CacheType' /\ CleanMatchesDisk' /\ Dirty' = {} /\ SyncedInv' /\ StayInv'
        /\ FlushInv' /\ RunInv' /\ SyncInv' /\ ImageInv' /\ SameInv'
    BY <1>1, <1>2, <1>5, <2>3, LoadFrame
  <2>5. /\ run'.ok = (run.ok /\ ok) /\ run.ok \in BOOLEAN
        /\ run' = [image |-> run'.image, at |-> run'.at, end |-> run'.end, ok |-> run'.ok]
    BY <2>4 DEF JobType
  <2>6. JobType'
    BY <2>3, <2>4, <2>5 DEF JobType
  <2>7. UpInv' /\ ExtendsInv'
    BY <2>3, WhileLoading
  <2>8. /\ DOMAIN index' = DOMAIN index \cup {f.path} /\ index'[f.path] = Entry(f.id)
        /\ \A p \in DOMAIN index : p # f.path => index'[p] = index[p]
    BY <2>1 DEF Put
  <2>9. TablesType'
    <3>1. IsFiniteSet(DOMAIN index \cup {f.path})
      BY FS_AddElement DEF TablesType
    <3>2. Entry(f.id) \in [blob : Nat, deleted : BOOLEAN]
      BY <1>6 DEF Entry
    <3>3. IsMap(index')
      BY <2>1 DEF Put, IsMap
    <3>4. \A p \in DOMAIN index' : index'[p] \in [blob : Nat, deleted : BOOLEAN]
      BY <2>8, <3>2 DEF TablesType
    <3> QED
      BY <1>1, <1>5, <1>6, <2>4, <2>8, <3>1, <3>3, <3>4 DEF TablesType
  <2>10. Left' = Left /\ (Trusted' => Trusted)
    BY <1>1, <1>5, <2>4, <2>5 DEF Left, Trusted
  <2>11. Trusted' => Left = {} /\ Extends(DOMAIN blobs)'
    <3>1. Trusted' => Left = {} /\ Extends(DOMAIN blobs)
      BY <1>1, <2>10, NoneLeft
    <3> QED
      BY <1>1, <2>4, <3>1 DEF Extends
  <2>12. ASSUME synced'.intact, run'.ok
         PROVE  /\ DOMAIN blobs \subseteq DOMAIN synced.blobs /\ 0 = Cardinality(Left)
                /\ Left = {} /\ job'.pos >= synced.end
                /\ job'.pos + job'.files = synced.end + synced.image[0].files
                /\ \A m \in synced.end .. job'.pos - 1 : synced.image[m].path \in DOMAIN index'
                /\ \A p \in DOMAIN index' : \E m \in synced.end .. job'.pos - 1 :
                      synced.image[m].path = p /\ index'[p] = Entry(synced.image[m].id)
    <3>1. synced.intact /\ run.ok /\ ok
      BY <2>4, <2>5, <2>12
    <3>2. /\ disk[job.pos] = synced.image[job.pos]
          /\ synced.image[job.pos].kind = "file"
          /\ job.pos >= synced.end /\ synced.end \in Nat
          /\ job.pos + job.files = synced.end + synced.image[0].files
          /\ \A m \in synced.end .. job.pos - 1 : synced.image[m].path \in DOMAIN index
          /\ \A p \in DOMAIN index : \E m \in synced.end .. job.pos - 1 :
                synced.image[m].path = p /\ index[p] = Entry(synced.image[m].id)
      BY <1>1, <3>1, EntryLemma
    <3>3. f = synced.image[job.pos]
      BY <1>4, <2>2, <3>1, <3>2
    <3>4. job'.pos - 1 = job.pos /\ synced.end .. job.pos = synced.end .. job.pos - 1 \cup {job.pos}
      <4>1. job.pos \in Nat /\ synced.end \in Nat /\ job.pos >= synced.end
        BY <1>2, <3>2
      <4>2. \A x, y \in Nat : x >= y => (x + 1) - 1 = x /\ y .. x = (y .. x - 1) \cup {x}
        OBVIOUS
      <4>3. /\ (job.pos + 1) - 1 = job.pos
            /\ synced.end .. job.pos = (synced.end .. job.pos - 1) \cup {job.pos}
        BY <4>1, <4>2, Zenon
      <4> QED
        BY <2>3, <4>3, Zenon
    <3>5. \A m \in synced.end .. job'.pos - 1 : synced.image[m].path \in DOMAIN index'
      BY <2>8, <3>2, <3>3, <3>4
    <3>6. \A p \in DOMAIN index' : \E m \in synced.end .. job'.pos - 1 :
             synced.image[m].path = p /\ index'[p] = Entry(synced.image[m].id)
      BY <2>8, <3>2, <3>3, <3>4
    <3>7. /\ DOMAIN blobs \subseteq DOMAIN synced.blobs /\ 0 = Cardinality(Left) /\ Left = {}
      BY <1>1, <3>1, IntactLemma
    <3>8. job'.pos >= synced.end /\ job'.pos + job'.files = synced.end + synced.image[0].files
      <4>1. job.pos + 1 >= synced.end /\ (job.pos + 1) + (job.files - 1) = job.pos + job.files
        <5>1. /\ job.pos \in Nat /\ synced.end \in Nat /\ job.pos >= synced.end
              /\ job.files \in Nat
          BY <1>2, <3>2
        <5>2. \A x, y, z \in Nat : x >= y => x + 1 >= y /\ (x + 1) + (z - 1) = x + z
          OBVIOUS
        <5> QED
          BY <5>1, <5>2, Zenon
      <4> QED
        BY <2>3, <3>2, <4>1
    <3> QED
      BY <3>5, <3>6, <3>7, <3>8
  <2>13. LoadInv'
    <3>1. Complete(job.part)' /\ Len(job'.part.data) <= job'.part.size /\ job'.pos >= 1
      BY <1>2, <2>3 DEF Complete
    <3> QED
      BY <1>1, <2>3, <2>4, <2>10, <2>11, <2>12, <3>1 DEF LoadInv
  <2> QED
    BY <2>4, <2>6, <2>7, <2>9, <2>13
<1> QED
  BY <1>7, <1>8

\* load_from_disk: its end.
LEMMA LoadEndStep ==
    ASSUME IInv, LoadEnd
    PROVE  IInv'
<1> USE DEF IInv
<1>1. /\ job.phase = "load" /\ job.blobs = 0 /\ job.files = 0 /\ job' = Idle /\ run' = NewRun
      /\ expected' = [p \in Paths |-> ReadFile(p)] /\ damaged' = (damaged \/ ~Sound)
      /\ UNCHANGED <<disk, cache, lru, index, blobs, hashes, nextBlob, store, faults, synced>>
  BY DEF LoadEnd, cacheVars, fs
<1>2. DOMAIN store = {} /\ Dirty = {} /\ damaged \in BOOLEAN
  BY <1>1 DEF LoadInv, TablesType
<1>3. CacheType' /\ CleanMatchesDisk'
  BY <1>1 DEF CacheType, CleanMatchesDisk, OnDisk
<1>4. TablesType' /\ (~damaged' => ~damaged)
  BY <1>1 DEF TablesType
<1>5. JobType'
  BY <1>1 DEF JobType, NewRun
<1>6. FlushInv' /\ RunInv' /\ SyncInv' /\ ImageInv' /\ SameInv' /\ LoadInv'
  BY <1>1, AtRest DEF Idle
<1>7. SyncedInv'
  BY <1>1, <1>2 DEF SyncedInv, OnDisk, Dirty, Idle
<1>8. StayInv'
  BY <1>1, <1>4 DEF StayInv, OnDisk, CountsThem
<1>9. UpInv'
  <2>1. ~damaged' => Sound'
    BY <1>1 DEF Sound
  <2>2. \A p \in Paths : ReadFile(p)' = ReadFile(p) /\ Get(p)' = ReadFile(p)
    BY <1>1, <1>2 DEF ReadFile, Get
  <2>3. GetReturnsLastSet'
    BY <1>1, <2>2 DEF GetReturnsLastSet
  <2> QED
    BY <2>1, <2>3 DEF UpInv
<1>10. ExtendsInv'
  <2>1. ~damaged => Extends(DOMAIN blobs)
    BY <1>1, NoneLeft DEF Trusted
  <2> QED
    BY <1>1, <1>4, <2>1 DEF ExtendsInv, Extends
<1> QED
  BY <1>3, <1>4, <1>5, <1>6, <1>7, <1>8, <1>9, <1>10

-----------------------------------------------------------------------------
(* The theorems.                                                           *)

\* Every step keeps the invariant.
LEMMA NextLemmaAll ==
    ASSUME IInv, [Next]_vars
    PROVE  IInv'
<1>1. CASE \E p \in Keys, v \in Values : Set(p, v)
  BY <1>1, SetStep
<1>2. CASE \E p \in Keys : Delete(p)
  <2>1. PICK p \in Keys : Forget({p})
    BY <1>2 DEF Delete
  <2>2. {p} \in SUBSET Paths
    BY FsAssumption
  <2> QED
    BY <2>1, <2>2, ForgetStep
<1>3. CASE \E a \in Range(Owner) : ClearAgent(a)
  <2>1. PICK a \in Range(Owner) : Forget({p \in Paths : Owner[p] = a})
    BY <1>3 DEF ClearAgent
  <2>2. {p \in Paths : Owner[p] = a} \in SUBSET Paths
    OBVIOUS
  <2> QED
    BY <2>1, <2>2, ForgetStep
<1>4. CASE \E ok \in BOOLEAN : SyncStart(ok) \/ SyncBlob(ok) \/ SyncFile(ok)
  BY <1>4, SyncStartStep, SyncBlobStep, SyncFileStep
<1>5. CASE SyncFlush \/ FlushStep \/ FlushError \/ SyncEnd
  BY <1>5, SyncFlushStep, FlushStepStep, FlushErrorStep, SyncEndStep
<1>6. CASE Reboot
  BY <1>6, RebootStep
<1>7. CASE \E ok \in BOOLEAN : LoadSuper(ok) \/ LoadBlob(ok) \/ LoadCont(ok) \/ LoadFile(ok)
  BY <1>7, LoadSuperStep, LoadBlobStep, LoadContStep, LoadFileStep
<1>8. CASE LoadEnd
  BY <1>8, LoadEndStep
<1>9. CASE UNCHANGED vars
  <2> USE DEF IInv
  <2>1. UNCHANGED <<disk, cache, lru, index, blobs, hashes, nextBlob, store, job, faults,
                    syncs, run, expected, synced, damaged>>
    BY <1>9 DEF vars, cacheVars, fs, history
  <2>2. CacheType' /\ CleanMatchesDisk' /\ TablesType' /\ JobType'
    <3>1. CacheType' /\ CleanMatchesDisk'
      BY <2>1 DEF CacheType, CleanMatchesDisk, OnDisk
    <3>2. TablesType'
      BY <2>1 DEF TablesType
    <3>3. JobType'
      BY <2>1 DEF JobType
    <3> QED
      BY <3>1, <3>2, <3>3
  <2>3. FlushInv' /\ RunInv'
    BY <2>1 DEF FlushInv, RunInv, Dirty, OnDisk
  <2>4. SyncInv' /\ ImageInv'
    BY <2>1 DEF SyncInv, ImageInv, Done, Base, HoldsSuper, HoldsFiles, SyncEntry, Alive
  <2>5. SyncedInv'
    BY <2>1 DEF SyncedInv, Dirty, OnDisk
  <2>6. UpInv' /\ ExtendsInv'
    BY <2>1 DEF UpInv, ExtendsInv, Up, Sound, GetReturnsLastSet, Get, ReadFile, Extends
  <2>7. StayInv' /\ SameInv'
    BY <2>1 DEF StayInv, SameInv, OnDisk, CountsThem, Done, Base
  <2>8. LoadInv'
    BY <2>1 DEF LoadInv, Left, Trusted, Complete, Extends, Dirty
  <2> QED
    BY <2>2, <2>3, <2>4, <2>5, <2>6, <2>7, <2>8
<1> QED
  BY <1>1, <1>2, <1>3, <1>4, <1>5, <1>6, <1>7, <1>8, <1>9 DEF Next

\* The invariant holds always.
THEOREM FsInvariant == Spec => []IInv
<1>1. Init => IInv
  BY InitLemma
<1>2. IInv /\ [Next]_vars => IInv'
  BY NextLemmaAll
<1> QED
  BY <1>1, <1>2, PTL DEF Spec

\* block_cache.rs: also after write-backs and flushes that failed half-way, when a
\* failed write leaves the disk as it was, a clean block in the cache is what is on
\* the disk, the cache keeps to its limit and lru lists its blocks, once.
THEOREM CacheIsSound == Spec => []CleanMatchesDisk
<1>1. IInv => CleanMatchesDisk
  BY DEF IInv
<1> QED
  BY <1>1, FsInvariant, PTL

\* context_store.rs and oxide_fs.rs: what was set last is what get and read_file
\* return, for any hash function, however files share blobs, and across syncs,
\* power failures and loads that met no damage.
THEOREM LastSetIsRead == Spec => []GetReturnsLastSet
<1>1. IInv => GetReturnsLastSet
  BY DEF IInv, UpInv, GetReturnsLastSet
<1> QED
  BY <1>1, FsInvariant, PTL

\* oxide_fs.rs, sync_to_disk: no later sync, power failure or failed write moves or
\* overwrites a blob of the last good sync.
THEOREM SyncedBlobsStay == Spec => []BlobsStayPut
<1>1. IInv => BlobsStayPut
  BY DEF IInv, StayInv, BlobsStayPut
<1> QED
  BY <1>1, FsInvariant, PTL

-----------------------------------------------------------------------------
(* The image of the last good sync comes back.                             *)

\* A load ends in this step, could read everything, and the last good sync is
\* intact.
EndsWell ==
    /\ job.phase \in {"boot", "load"} /\ job'.phase \in {"idle", "garbled"}
    /\ synced.intact /\ run.ok /\ faults' = faults

\* The superblock is found.
LEMMA SuperIsFound ==
    ASSUME IInv, EndsWell, NEW ok \in BOOLEAN
    PROVE  ~LoadSuper(ok)
<1> SUFFICES ASSUME LoadSuper(ok)
             PROVE  FALSE
  OBVIOUS
<1> USE DEF IInv
<1> DEFINE sb == Loaded(0, ok)
<1>1. /\ job.phase = "boot" /\ LoadRead(0, ok)
      /\ sb.kind = "super" =>
            job' = [phase |-> "load", blobs |-> sb.blobs, files |-> sb.files,
                    pos |-> 1, part |-> NoPart]
  BY DEF LoadSuper
<1>2. ReadWell(0, ok)
  BY <1>1, ReadLemma DEF LoadInv, TablesType
<1>3. 0 \in DOMAIN synced.image /\ synced.intact /\ faults' = faults
  BY SyncedLemma DEF SyncedInv, EndsWell
<1>4. 0 \in DOMAIN disk /\ disk[0].kind = "super"
  BY <1>3 DEF SyncedInv, OnDisk
<1>5. sb = disk[0]
  BY <1>2, <1>3, <1>4 DEF ReadWell
<1> HIDE DEF sb
<1>6. job'.phase = "load"
  BY <1>1, <1>4, <1>5
<1> QED
  BY <1>6 DEF EndsWell

\* Each blob is found.
LEMMA BlobsAreFound ==
    ASSUME IInv, EndsWell, NEW ok \in BOOLEAN
    PROVE  ~LoadBlob(ok)
<1> SUFFICES ASSUME LoadBlob(ok)
             PROVE  FALSE
  OBVIOUS
<1> USE DEF IInv
<1> DEFINE b == Loaded(job.pos, ok)
           part == [id |-> b.id, size |-> b.size,
                    data |-> IF b.size = 0 THEN <<>> ELSE <<b.chunk>>]
<1>1. /\ job.phase = "load" /\ job.blobs > 0 /\ Complete(job.part) /\ LoadRead(job.pos, ok)
      /\ b.kind = "blob" => Take(part)
  BY DEF LoadBlob
<1>2. job \in LoadJob /\ job.pos \in Nat /\ Dirty = {} /\ faults \in Nat
  BY <1>1, PhaseLemma DEF LoadJob, TablesType, LoadInv
<1>3. ReadWell(job.pos, ok)
  BY <1>1, <1>2, ReadLemma
<1>4. synced.intact /\ run.ok /\ faults' = faults
  BY DEF EndsWell
<1>5. Left # {} /\ Trusted
  BY <1>1, <1>4, IntactLemma DEF Trusted
<1>6. job.pos \in DOMAIN disk /\ disk[job.pos].kind = "blob"
  BY <1>1, <1>5, HeadLemma DEF BlobHead
<1>7. b = disk[job.pos]
  BY <1>3, <1>4, <1>6 DEF ReadWell
<1> HIDE DEF b, part
<1>8. Take(part)
  BY <1>1, <1>6, <1>7
<1>9. job'.phase = "load"
  BY <1>1, <1>2, <1>8 DEF Take, LoadJob
<1> QED
  BY <1>9 DEF EndsWell

\* Each entry is found.
LEMMA FilesAreFound ==
    ASSUME IInv, EndsWell, NEW ok \in BOOLEAN
    PROVE  ~LoadFile(ok)
<1> SUFFICES ASSUME LoadFile(ok)
             PROVE  FALSE
  OBVIOUS
<1> USE DEF IInv
<1> DEFINE b == Loaded(job.pos, ok)
<1>1. /\ job.phase = "load" /\ job.blobs = 0 /\ job.files > 0 /\ LoadRead(job.pos, ok)
      /\ b.kind = "file" => job' = [job EXCEPT !.pos = job.pos + 1, !.files = job.files - 1]
  BY DEF LoadFile
<1>2. job \in LoadJob /\ job.pos \in Nat /\ Dirty = {} /\ faults \in Nat
  BY <1>1, PhaseLemma DEF LoadJob, TablesType, LoadInv
<1>3. ReadWell(job.pos, ok)
  BY <1>1, <1>2, ReadLemma
<1>4. synced.intact /\ run.ok /\ faults' = faults
  BY DEF EndsWell
<1>5. job.pos \in DOMAIN disk /\ disk[job.pos].kind = "file"
  BY <1>1, <1>4, EntryLemma
<1>6. b = disk[job.pos]
  BY <1>3, <1>4, <1>5 DEF ReadWell
<1> HIDE DEF b
<1>7. job'.phase = "load"
  BY <1>1, <1>2, <1>5, <1>6 DEF LoadJob
<1> QED
  BY <1>7 DEF EndsWell

\* A load does not end inside a blob.
LEMMA LoadContGoesOn ==
    ASSUME IInv, EndsWell, NEW ok \in BOOLEAN
    PROVE  ~LoadCont(ok)
<1> SUFFICES ASSUME LoadCont(ok)
             PROVE  FALSE
  OBVIOUS
<1>1. PICK part : job.phase = "load" /\ Take(part)
  BY DEF LoadCont
<1>2. job \in LoadJob
  BY <1>1, PhaseLemma DEF IInv
<1>3. job'.phase = "load"
  BY <1>1, <1>2 DEF Take, LoadJob
<1> QED
  BY <1>3 DEF EndsWell

\* At the end the blobs and the files are those of the last good sync.
LEMMA LoadIsExact ==
    ASSUME IInv, EndsWell, LoadEnd
    PROVE  /\ job' = Idle /\ blobs' = synced.blobs
           /\ \A p \in Paths : Keeps(p) => ReadFile(p)' = synced.files[p]
<1> USE DEF IInv
<1>1. /\ job.phase = "load" /\ job.blobs = 0 /\ job.files = 0 /\ job' = Idle
      /\ UNCHANGED <<index, blobs>>
  BY DEF LoadEnd, fs
<1>2. synced.intact /\ run.ok /\ Trusted
  BY DEF EndsWell, Trusted
<1>3. Left = {} /\ Extends(DOMAIN blobs) /\ DOMAIN blobs \subseteq DOMAIN synced.blobs
  BY <1>1, <1>2, NoneLeft, IntactLemma
<1>4. blobs = synced.blobs
  <2>1. DOMAIN blobs = DOMAIN synced.blobs /\ \A i \in DOMAIN blobs : blobs[i] = synced.blobs[i]
    BY <1>3 DEF Extends
  <2>2. IsMap(blobs) /\ IsMap(synced.blobs)
    BY DEF TablesType, SyncedInv, IdMap
  <2> QED
    BY <2>1, <2>2 DEF IsMap
<1> DEFINE to == synced.end + synced.image[0].files
<1>5. job.pos = to
  <2>1. job.pos + job.files = to
    BY <1>1, <1>2, <1>3 DEF LoadInv
  <2>2. job.pos \in Nat
    BY <1>1, PhaseLemma DEF LoadJob
  <2> QED
    BY <1>1, <2>1, <2>2
<1>6. /\ \A m \in synced.end .. to - 1 : synced.image[m].path \in DOMAIN index
      /\ \A p \in DOMAIN index : \E m \in synced.end .. to - 1 :
            synced.image[m].path = p /\ index[p] = Entry(synced.image[m].id)
  BY <1>1, <1>2, <1>3, <1>5 DEF LoadInv
<1>7. FilesMatch(synced, to)
  BY <1>2 DEF SyncedInv
<1> HIDE DEF to
<1>8. ASSUME NEW p \in Paths, Keeps(p)
      PROVE  ReadFile(p) = synced.files[p]
  <2>1. CASE p \in DOMAIN index
    <3>1. PICK m \in synced.end .. to - 1 :
             synced.image[m].path = p /\ index[p] = Entry(synced.image[m].id)
      BY <1>6, <2>1
    <3>2. ~index[p].deleted /\ index[p].blob = synced.image[m].id
      BY <3>1 DEF Entry
    <3>3. synced.files[p] = IF synced.image[m].id \in DOMAIN synced.blobs
                            THEN synced.blobs[synced.image[m].id] ELSE None
      BY <1>7, <1>8, <3>1 DEF FilesMatch
    <3> QED
      BY <1>4, <2>1, <3>2, <3>3, Zenon DEF ReadFile
  <2>2. CASE p \notin DOMAIN index
    <3>1. ~ \E m \in synced.end .. to - 1 : synced.image[m].path = p
      BY <1>6, <2>2
    <3>2. synced.files[p] = None
      BY <1>7, <1>8, <3>1 DEF FilesMatch
    <3> QED
      BY <2>2, <3>2 DEF ReadFile
  <2> QED
    BY <2>1, <2>2
<1>9. \A p : ReadFile(p)' = ReadFile(p)
  BY <1>1 DEF ReadFile
<1> QED
  BY <1>1, <1>4, <1>8, <1>9

\* oxide_fs.rs, load_from_disk after a sync_to_disk that lost no write: a load that
\* can read the disk ends well, with exactly the blobs and files of that sync.
THEOREM SyncedImageComesBack == Spec => SyncedImageLoads
<1> DEFINE Exact == /\ job' = Idle /\ blobs' = synced.blobs
                    /\ \A p \in Paths : Keeps(p) => ReadFile(p)' = synced.files[p]
<1>1. ASSUME IInv, [Next]_vars, EndsWell
      PROVE  Exact
  <2>1. job.phase \in {"boot", "load"} /\ job'.phase \in {"idle", "garbled"} /\ job' # job
    BY <1>1 DEF EndsWell
  <2>2. \/ \E ok \in BOOLEAN : LoadSuper(ok) \/ LoadBlob(ok) \/ LoadCont(ok) \/ LoadFile(ok)
        \/ LoadEnd
    <3>1. ~ \E p \in Keys, v \in Values : Set(p, v)
      BY <2>1 DEF Set
    <3>2. ~ \E p \in Keys : Delete(p)
      BY <2>1 DEF Delete, Forget
    <3>3. ~ \E a \in Range(Owner) : ClearAgent(a)
      BY <2>1 DEF ClearAgent, Forget
    <3>4. ~ \E ok \in BOOLEAN : SyncStart(ok) \/ SyncBlob(ok) \/ SyncFile(ok)
      BY <2>1 DEF SyncStart, SyncBlob, SyncFile
    <3>5. ~(SyncFlush \/ FlushStep \/ FlushError \/ SyncEnd)
      BY <2>1 DEF SyncFlush, FlushStep, FlushError, SyncEnd
    <3>6. ~Reboot
      BY <2>1 DEF Reboot, Boot
    <3>7. ~UNCHANGED vars
      BY <2>1 DEF vars
    <3> QED
      BY <1>1, <3>1, <3>2, <3>3, <3>4, <3>5, <3>6, <3>7, Zenon DEF Next
  <2>3. LoadEnd
    BY <1>1, <2>2, SuperIsFound, BlobsAreFound, LoadContGoesOn, FilesAreFound
  <2> QED
    BY <1>1, <2>3, LoadIsExact
<1>2. IInv /\ [Next]_vars => [EndsWell => Exact]_vars
  BY <1>1
<1> QED
  BY <1>2, FsInvariant, PTL DEF Spec, SyncedImageLoads, EndsWell
=============================================================================
