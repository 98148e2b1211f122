-------------------------- MODULE VirtioNetProofs --------------------------
(***************************************************************************)
(* Proofs about VirtioNet, for any size of the queues, any width of the    *)
(* ring indices that it divides, and any number of packets.                *)
(***************************************************************************)
EXTENDS VirtioNet, SequenceTheorems, TLAPS

-----------------------------------------------------------------------------
(* Remainders.                                                             *)

LEMMA Mono == ASSUME NEW m \in Nat \ {0}, NEW d \in Int, d >= 1 PROVE m * d >= m
  OBVIOUS

LEMMA Divides == ASSUME NEW m \in Nat \ {0}, NEW a \in Int
  PROVE  /\ a % m \in 0 .. m - 1
         /\ \E q \in Int : a = m * q + (a % m)
  <1>1. a % m \in 0 .. m - 1
    OBVIOUS
  <1>2. a = m * (a \div m) + (a % m) /\ a \div m \in Int
    OBVIOUS
  <1> QED BY <1>1, <1>2

LEMMA Unique == ASSUME NEW m \in Nat \ {0}, NEW p \in Int, NEW q \in Int,
     NEW r \in 0 .. m - 1, NEW s \in 0 .. m - 1, m * p + r = m * q + s
   PROVE p = q /\ r = s
  <1>1. ~(p - q >= 1)
    <2> SUFFICES ASSUME p - q >= 1 PROVE FALSE OBVIOUS
    <2>1. m * (p - q) >= m BY Mono
    <2>2. m * (p - q) = m * p - m * q OBVIOUS
    <2>3. m * p \in Int /\ m * q \in Int OBVIOUS
    <2> DEFINE x == m * p  y == m * q
    <2>4. x - y >= m /\ x + r = y + s /\ x \in Int /\ y \in Int BY <2>1, <2>2, <2>3
    <2> HIDE DEF x, y
    <2> QED BY <2>4
  <1>2. ~(q - p >= 1)
    <2> SUFFICES ASSUME q - p >= 1 PROVE FALSE OBVIOUS
    <2>1. m * (q - p) >= m BY Mono
    <2>2. m * (q - p) = m * q - m * p OBVIOUS
    <2>3. m * p \in Int /\ m * q \in Int OBVIOUS
    <2> DEFINE x == m * p  y == m * q
    <2>4. y - x >= m /\ x + r = y + s /\ x \in Int /\ y \in Int BY <2>1, <2>2, <2>3
    <2> HIDE DEF x, y
    <2> QED BY <2>4
  <1>3. p = q BY <1>1, <1>2
  <1>4. m * p \in Int OBVIOUS
  <1> QED BY <1>3, <1>4

\* The remainder is what is left of a after any multiple of m, if it is in range.
LEMMA Remainder ==
  ASSUME NEW m \in Nat \ {0}, NEW a \in Int, NEW q \in Int, NEW r \in 0 .. m - 1,
         a = m * q + r
  PROVE  a % m = r
  BY Divides, Unique

LEMMA Same ==
  ASSUME NEW m \in Nat \ {0}, NEW a \in Int, NEW b \in Int, NEW t \in Int, b = a + m * t
  PROVE  a % m = b % m
  <1>1. PICK q \in Int : a = m * q + (a % m)
    BY Divides
  <1>2. PICK r \in 0 .. m - 1 : r = a % m
    BY Divides
  <1>3. PICK x \in Int, y \in Int, z \in Int : x = m * q /\ y = m * t /\ z = m * (q + t)
    OBVIOUS
  <1>4. z = x + y
    BY <1>3
  <1>5. a = x + r
    BY <1>1, <1>2, <1>3
  <1>6. b = a + y
    BY <1>3
  <1>7. b = z + r
    BY ONLY <1>4, <1>5, <1>6, r \in Int, x \in Int, y \in Int
  <1>8. b = m * (q + t) + r /\ q + t \in Int
    BY <1>7, <1>3
  <1>9. b % m = r
    BY <1>8, Remainder
  <1> QED
    BY <1>9, <1>2

LEMMA ModShift ==
  ASSUME NEW m \in Nat \ {0}, NEW a \in Int, NEW c \in Int
  PROVE  ((a % m) + c) % m = (a + c) % m
  <1>1. PICK q \in Int : a = m * q + (a % m)
    BY Divides
  <1>2. PICK r \in 0 .. m - 1 : r = a % m
    BY Divides
  <1>3. PICK x \in Int : x = m * q
    OBVIOUS
  <1>4. a = x + r
    BY <1>1, <1>2, <1>3
  <1>5. a + c = (r + c) + x
    BY ONLY <1>4, r \in Int, x \in Int, c \in Int
  <1>6. a + c = (r + c) + m * q /\ r + c \in Int /\ a + c \in Int
    BY <1>5, <1>3
  <1>7. (r + c) % m = (a + c) % m
    BY <1>6, Same
  <1> QED
    BY <1>7, <1>2

LEMMA ModDistance ==
  ASSUME NEW m \in Nat \ {0}, NEW a \in Int, NEW b \in Int, b - a \in 0 .. m - 1
  PROVE  ((b % m) - (a % m)) % m = b - a
  <1>1. PICK r \in 0 .. m - 1 : r = a % m
    BY Divides
  <1>2. ((b % m) + (0 - r)) % m = (b + (0 - r)) % m
    BY ModShift, 0 - r \in Int
  <1>3. (r + (b - a) + (0 - r)) % m = (b - a) % m
    BY r + (b - a) + (0 - r) = b - a
  <1>4. (r + ((b - a) + (0 - r))) % m = (a + ((b - a) + (0 - r))) % m
    BY <1>1, ModShift, (b - a) + (0 - r) \in Int
  <1>5. a + ((b - a) + (0 - r)) = b + (0 - r) /\ r + ((b - a) + (0 - r)) = b - a
    OBVIOUS
  <1>6. (b - a) % m = b - a
    <2>1. b - a = m * 0 + (b - a)
      OBVIOUS
    <2> QED
      BY <2>1, Remainder
  <1>7. b % m \in Int
    BY Divides
  <1>8. (b % m) + (0 - r) = (b % m) - r
    BY <1>7
  <1>9. ((b % m) - r) % m = b - a
    BY <1>2, <1>4, <1>5, <1>6, <1>8
  <1> QED
    BY <1>9, <1>1

LEMMA ModInjective ==
  ASSUME NEW m \in Nat \ {0}, NEW a \in Int, NEW b \in Int, b - a \in 0 .. m - 1,
         a % m = b % m
  PROVE  a = b
  <1>1. a % m \in 0 .. m - 1
    BY Divides
  <1>2. (b % m) - (a % m) = 0
    BY <1>1
  <1>3. 0 % m = 0
    BY Remainder, 0 = m * 0 + 0
  <1>4. b - a = 0
    BY ONLY <1>2, <1>3, ModDistance, m \in Nat \ {0}, a \in Int, b \in Int, b - a \in 0 .. m - 1
  <1> QED
    BY ONLY <1>4, a \in Int, b \in Int

LEMMA ModMod ==
  ASSUME NEW m \in Nat \ {0}, NEW n \in Nat \ {0}, m % n = 0, NEW a \in Int
  PROVE  (a % m) % n = a % n
  <1>1. PICK q \in Int : a = m * q + (a % m)
    BY Divides
  <1>2. PICK r \in Int : r = a % m
    BY Divides
  <1>3. PICK t \in Int : m = n * t + (m % n)
    BY ONLY Divides, m \in Int, n \in Nat \ {0}
  <1>4. m = n * t
    BY <1>3, m % n = 0
  <1>5. PICK u \in Int : u = t * q
    OBVIOUS
  <1>6. m * q = n * u
    BY <1>4, <1>5
  <1>7. PICK x \in Int : x = m * q
    OBVIOUS
  <1>8. a = x + r
    BY <1>1, <1>2, <1>7
  <1>9. a = r + x
    BY ONLY <1>8, x \in Int, r \in Int
  <1>10. a = r + n * u
    BY ONLY <1>9, <1>6, <1>7
  <1>11. r % n = a % n
    BY <1>10, Same
  <1> QED
    BY <1>11, <1>2

-----------------------------------------------------------------------------
(* Ring indices.  The k-th entry ever made has the index Idx(k) and is in  *)
(* the slot Slot(k), and for the entries that are in a ring at the same    *)
(* time these can be told apart.                                           *)

Idx(k) == k % IDX_MOD
Slot(k) == k % QUEUE_SIZE

LEMMA IdxLemma ==
  ASSUME NEW k \in Nat
  PROVE  /\ Idx(k) \in Nat /\ Slot(k) \in Slots
         /\ Inc(Idx(k)) = Idx(k + 1)
         /\ Idx(k) % QUEUE_SIZE = Slot(k)
         /\ (Slot(k) + 1) % QUEUE_SIZE = Slot(k + 1)
  <1>1. IDX_MOD \in Nat \ {0} /\ QUEUE_SIZE \in Nat \ {0} /\ IDX_MOD % QUEUE_SIZE = 0
    BY NetAssumption
  <1>2. Idx(k) \in Nat /\ Slot(k) \in Slots
    BY <1>1, Divides DEF Idx, Slot, Slots
  <1>i. k \in Int /\ 1 \in Int
    OBVIOUS
  <1>3. Inc(Idx(k)) = Idx(k + 1)
    BY <1>1, <1>i, ModShift, Zenon DEF Idx, Inc
  <1>4. Idx(k) % QUEUE_SIZE = Slot(k)
    BY <1>1, <1>i, ModMod, Zenon DEF Idx, Slot
  <1>5. (Slot(k) + 1) % QUEUE_SIZE = Slot(k + 1)
    BY <1>1, <1>i, ModShift, Zenon DEF Slot
  <1> QED
    BY <1>2, <1>3, <1>4, <1>5

LEMMA WindowLemma ==
  ASSUME NEW a \in Nat, NEW b \in Nat, a <= b, b - a <= QUEUE_SIZE
  PROVE  /\ Distance(Idx(a), Idx(b)) = b - a
         /\ Idx(a) = Idx(b) => a = b
         /\ b - a < QUEUE_SIZE /\ Slot(a) = Slot(b) => a = b
  <1>1. IDX_MOD \in Nat \ {0} /\ QUEUE_SIZE \in Nat \ {0}
    BY NetAssumption
  <1>2. b - a \in 0 .. IDX_MOD - 1 /\ a \in Int /\ b \in Int
    BY NetAssumption
  <1>3. Distance(Idx(a), Idx(b)) = b - a
    BY <1>1, <1>2, ModDistance, Zenon DEF Distance, Idx
  <1>4. Idx(a) = Idx(b) => a = b
    BY <1>1, <1>2, ModInjective, Zenon DEF Idx
  <1>5. ASSUME b - a < QUEUE_SIZE, Slot(a) = Slot(b) PROVE a = b
    <2>1. b - a \in 0 .. QUEUE_SIZE - 1
      BY <1>1, <1>5
    <2> QED
      BY <2>1, <1>1, <1>2, <1>5, ModInjective, Zenon DEF Slot
  <1> QED
    BY <1>3, <1>4, <1>5

\* The entries from the a-th up to the b-th, as Entries lists them.
LEMMA EntriesLemma ==
  ASSUME NEW a \in Nat, NEW b \in Nat, a <= b, b - a <= QUEUE_SIZE, NEW ring
  PROVE  /\ DOMAIN Entries(ring, Idx(a), Idx(b)) = 1 .. b - a
         /\ \A i \in 1 .. b - a : Entries(ring, Idx(a), Idx(b))[i] = ring[Slot(a + i - 1)]
  <1>1. Distance(Idx(a), Idx(b)) = b - a
    BY WindowLemma
  <1>2. ASSUME NEW i \in 1 .. b - a
        PROVE  (Idx(a) + i - 1) % QUEUE_SIZE = Slot(a + i - 1)
    <2>1. QUEUE_SIZE \in Nat \ {0} /\ Idx(a) \in Int /\ a \in Int
      BY NetAssumption, IdxLemma
    <2>2. PICK c \in Int : c = i - 1
      OBVIOUS
    <2>3. ((Idx(a) % QUEUE_SIZE) + c) % QUEUE_SIZE = (Idx(a) + c) % QUEUE_SIZE
      BY <2>1, ModShift, Zenon
    <2>4. ((a % QUEUE_SIZE) + c) % QUEUE_SIZE = (a + c) % QUEUE_SIZE
      BY <2>1, ModShift, Zenon
    <2>5. Idx(a) % QUEUE_SIZE = a % QUEUE_SIZE
      BY IdxLemma DEF Slot
    <2>6. (Idx(a) + c) % QUEUE_SIZE = (a + c) % QUEUE_SIZE
      BY <2>3, <2>4, <2>5
    <2>7. Idx(a) + i - 1 = Idx(a) + c /\ a + i - 1 = a + c
      BY <2>1, <2>2
    <2> QED
      BY <2>6, <2>7 DEF Slot
  <1> QED
    BY <1>1, <1>2 DEF Entries

-----------------------------------------------------------------------------
(* Transmission.                                                           *)

UsedEntry == [id : Slots, short : BOOLEAN]

Queue == [on : BOOLEAN, ring : [Slots -> Slots], avail : Nat,
          used : [Slots -> UsedEntry], usedIdx : Nat,
          pkt : [Slots -> Nat], free : 0 .. QUEUE_SIZE, head : Slots, last : Nat]

\* How many descriptors of the transmit queue q were ever reclaimed.
Back(q) == accepted + q.free - QUEUE_SIZE

\* The transmit queue q in terms of the packets ever accepted, sent and
\* reclaimed: packet k + 1 is in the ring entry and the buffer Slot(k).
TxOn(q) ==
    /\ Back(q) \in Nat /\ Back(q) <= sent.count
    /\ q.avail = Idx(accepted) /\ q.head = Slot(accepted)
    /\ q.usedIdx = Idx(sent.count) /\ txDev = Idx(sent.count)
    /\ q.last = Idx(Back(q))
    /\ \A k \in Back(q) .. accepted - 1 : q.ring[Slot(k)] = Slot(k)
    /\ \A k \in sent.count .. accepted - 1 : q.pkt[Slot(k)] = k + 1

TxInv ==
    /\ tx \in Queue /\ accepted \in Nat /\ txDev \in Nat
    /\ sent \in [count : Nat, last : Nat]
    /\ sent.last = sent.count /\ sent.count <= accepted
    /\ tx.on => initialized
    /\ IF tx.on THEN TxOn(tx) ELSE accepted = 0 /\ sent.count = 0 /\ txDev = 0

LEMMA ZeroedLemma == Zeroed \in Queue /\ 0 \in Slots /\ Slots \subseteq Nat
  BY NetAssumption DEF Zeroed, Queue, UsedEntry, Slots

\* reclaim_tx on a full queue: all that was sent is free again.
LEMMA ReclaimLemma ==
  ASSUME TxInv, tx.on, tx.free = 0
  PROVE  Reclaimed \in Queue /\ TxOn(Reclaimed)
  <1>1. TxOn(tx) /\ tx \in Queue
    BY DEF TxInv
  <1>2. /\ accepted \in Nat /\ sent.count \in Nat /\ sent.count <= accepted
        /\ QUEUE_SIZE \in Nat \ {0} /\ tx.free \in 0 .. QUEUE_SIZE
    BY NetAssumption DEF TxInv, Queue
  <1>3. Back(tx) \in Nat /\ Back(tx) <= sent.count /\ Back(tx) = accepted - QUEUE_SIZE
    BY <1>1, <1>2 DEF TxOn, Back
  <1>4. Distance(tx.last, tx.usedIdx) = sent.count - Back(tx)
    BY <1>1, <1>2, <1>3, WindowLemma DEF TxOn
  <1>5. PICK n \in 0 .. QUEUE_SIZE : n = sent.count - Back(tx)
    BY <1>2, <1>3
  <1>6. Reclaimed = [tx EXCEPT !.free = n, !.last = tx.usedIdx]
    <2>1. tx.free + Distance(tx.last, tx.usedIdx) = n
      BY <1>4, <1>5
    <2> QED
      BY <2>1 DEF Reclaimed
  <1>7. Reclaimed \in Queue
    BY <1>1, <1>5, <1>6 DEF Queue
  <1>8. /\ Reclaimed.free = n /\ Reclaimed.last = tx.usedIdx /\ Reclaimed.ring = tx.ring
        /\ Reclaimed.pkt = tx.pkt /\ Reclaimed.avail = tx.avail /\ Reclaimed.head = tx.head
        /\ Reclaimed.usedIdx = tx.usedIdx
    BY <1>1, <1>6 DEF Queue
  <1>9. Back(Reclaimed) = sent.count
    BY <1>2, <1>3, <1>5, <1>8 DEF Back
  <1>10. \A k \in sent.count .. accepted - 1 : k \in Back(tx) .. accepted - 1
    BY <1>2, <1>3
  <1> QED
    BY <1>1, <1>2, <1>7, <1>8, <1>9, <1>10 DEF TxOn

LEMMA TxInit == Init => TxInv
  BY ZeroedLemma DEF Init, TxInv, Zeroed

\* transmit with a free descriptor: the next packet is put behind the others.
LEMMA PutLemma ==
  ASSUME TxInv, NEW q \in Queue, TxOn(q), q.on, q.free > 0,
         tx' = [q EXCEPT !.free = @ - 1,
                         !.head = (@ + 1) % QUEUE_SIZE,
                         !.pkt[q.head] = accepted + 1,
                         !.ring[q.avail % QUEUE_SIZE] = q.head,
                         !.avail = Inc(@)],
         accepted' = accepted + 1, UNCHANGED <<txDev, sent>>, initialized'
  PROVE  TxInv'
  <1>1. /\ accepted \in Nat /\ sent \in [count : Nat, last : Nat] /\ txDev \in Nat
        /\ sent.count <= accepted /\ sent.last = sent.count
        /\ QUEUE_SIZE \in Nat \ {0} /\ q.free \in 0 .. QUEUE_SIZE
    BY NetAssumption DEF TxInv, Queue
  <1>2. PICK r \in Nat : r = Back(q)
    BY DEF TxOn
  <1>3. r = accepted + q.free - QUEUE_SIZE /\ r <= sent.count
    BY <1>2 DEF TxOn, Back
  <1>4. PICK s \in Slots : s = Slot(accepted)
    BY <1>1, IdxLemma
  <1>5. /\ q.head = s /\ q.avail % QUEUE_SIZE = s
        /\ (q.head + 1) % QUEUE_SIZE = Slot(accepted + 1)
        /\ Inc(q.avail) = Idx(accepted + 1)
    BY <1>1, <1>4, IdxLemma DEF TxOn
  <1>6. tx' = [q EXCEPT !.free = q.free - 1, !.head = Slot(accepted + 1),
                        !.pkt = [q.pkt EXCEPT ![s] = accepted + 1],
                        !.ring = [q.ring EXCEPT ![s] = s],
                        !.avail = Idx(accepted + 1)]
    BY <1>5 DEF Queue
  <1>7. Slot(accepted + 1) \in Slots /\ Idx(accepted + 1) \in Nat
    BY <1>1, IdxLemma
  <1>8. q.free - 1 \in 0 .. QUEUE_SIZE /\ q.pkt \in [Slots -> Nat] /\ q.ring \in [Slots -> Slots]
    BY <1>1 DEF Queue
  <1>9. tx' \in Queue
    <2>1. PICK f \in 0 .. QUEUE_SIZE : f = q.free - 1
      BY <1>8
    <2>2. PICK b \in [Slots -> Nat] : b = [q.pkt EXCEPT ![s] = accepted + 1]
      <3>1. accepted + 1 \in Nat /\ q.pkt \in [Slots -> Nat]
        BY <1>1, <1>8
      <3> QED
        BY ONLY <3>1, s \in Slots
    <2>3. PICK g \in [Slots -> Slots] : g = [q.ring EXCEPT ![s] = s]
      BY <1>8
    <2>4. PICK h \in Slots, i \in Nat : h = Slot(accepted + 1) /\ i = Idx(accepted + 1)
      BY <1>7
    <2>5. tx' = [q EXCEPT !.free = f, !.head = h, !.pkt = b, !.ring = g, !.avail = i]
      BY <1>6, <2>1, <2>2, <2>3, <2>4
    <2> QED
      BY ONLY <2>5, q \in Queue DEF Queue
  <1>10. /\ tx'.free = q.free - 1 /\ tx'.head = Slot(accepted + 1) /\ tx'.on
         /\ tx'.pkt = [q.pkt EXCEPT ![s] = accepted + 1]
         /\ tx'.ring = [q.ring EXCEPT ![s] = s]
         /\ tx'.avail = Idx(accepted + 1) /\ tx'.usedIdx = q.usedIdx /\ tx'.last = q.last
    BY <1>6 DEF Queue
  <1>11. Back(tx)' = r
    BY <1>1, <1>3, <1>10 DEF Back
  \* The entries still in use are other ones.
  <1>12. \A k \in r .. accepted - 1 : k \in Nat /\ Slot(k) \in Slots /\ Slot(k) # s
    <2> SUFFICES ASSUME NEW k \in r .. accepted - 1
                 PROVE  k \in Nat /\ Slot(k) \in Slots /\ Slot(k) # s
      OBVIOUS
    <2>1. k \in Nat /\ k <= accepted /\ accepted - k < QUEUE_SIZE /\ k # accepted
      BY <1>1, <1>3
    <2>2. accepted - k <= QUEUE_SIZE
      BY <2>1, <1>1
    <2> QED
      BY <2>1, <2>2, <1>1, <1>4, IdxLemma, WindowLemma
  <1>13. \A k \in r .. accepted : tx'.ring[Slot(k)] = Slot(k)
    <2>1. \A k \in r .. accepted - 1 : q.ring[Slot(k)] = Slot(k)
      BY <1>2 DEF TxOn
    <2>2. \A k \in r .. accepted : k \in r .. accepted - 1 \/ k = accepted
      BY <1>1
    <2> QED
      BY <2>1, <2>2, <1>4, <1>8, <1>10, <1>12
  <1>14. \A k \in sent.count .. accepted : tx'.pkt[Slot(k)] = k + 1
    <2>1. \A k \in sent.count .. accepted - 1 : q.pkt[Slot(k)] = k + 1
      BY DEF TxOn
    <2>2. \A k \in sent.count .. accepted :
            (k \in sent.count .. accepted - 1 /\ k \in r .. accepted - 1) \/ k = accepted
      BY <1>1, <1>3
    <2> QED
      BY <2>1, <2>2, <1>4, <1>8, <1>10, <1>12
  <1>15. accepted' - 1 = accepted /\ accepted' \in Nat /\ sent.count <= accepted'
    BY <1>1
  <1>16. /\ q.usedIdx = Idx(sent.count) /\ txDev = Idx(sent.count) /\ q.last = Idx(r)
    BY <1>2 DEF TxOn
  <1>17. TxOn(tx)'
    BY <1>3, <1>10, <1>11, <1>13, <1>14, <1>15, <1>16 DEF TxOn
  <1> QED
    BY <1>1, <1>9, <1>10, <1>15, <1>17 DEF TxInv

LEMMA SendLemma == TxInv /\ DeviceSends => TxInv'
  <1> SUFFICES ASSUME TxInv, DeviceSends PROVE TxInv'
    OBVIOUS
  <1>1. /\ accepted \in Nat /\ sent \in [count : Nat, last : Nat] /\ tx \in Queue
        /\ sent.count \in Nat /\ sent.count <= accepted
        /\ QUEUE_SIZE \in Nat \ {0} /\ tx.free \in 0 .. QUEUE_SIZE
    BY NetAssumption DEF TxInv, Queue
  <1>2. tx.on /\ txDev # tx.avail /\ accepted' = accepted
    BY DEF DeviceSends
  <1>3. TxOn(tx)
    BY <1>2 DEF TxInv
  <1>4. PICK n \in Nat : n = sent.count
    BY <1>1
  <1>5. PICK r \in Nat : r = Back(tx)
    BY <1>3 DEF TxOn
  <1>6. r = accepted + tx.free - QUEUE_SIZE /\ r <= n /\ n <= accepted
    BY <1>1, <1>3, <1>4, <1>5 DEF TxOn, Back
  <1>7. n < accepted
    BY <1>1, <1>2, <1>3, <1>4, <1>6 DEF TxOn
  <1>8. PICK s \in Slots : s = Slot(n)
    BY IdxLemma
  <1>9. txDev = Idx(n) /\ tx.usedIdx = Idx(n)
    BY <1>3, <1>4 DEF TxOn
  <1>10. txDev % QUEUE_SIZE = s /\ tx.usedIdx % QUEUE_SIZE = s /\ Inc(txDev) = Idx(n + 1)
         /\ Inc(tx.usedIdx) = Idx(n + 1) /\ Idx(n + 1) \in Nat
    BY <1>8, <1>9, IdxLemma
  <1>11. n \in r .. accepted - 1 /\ n \in sent.count .. accepted - 1
    BY <1>1, <1>4, <1>6, <1>7
  <1>12. tx.ring[s] = s /\ tx.pkt[s] = n + 1
    BY <1>3, <1>5, <1>8, <1>11 DEF TxOn
  <1>13. sent' = [count |-> n + 1, last |-> n + 1] /\ txDev' = Idx(n + 1)
    BY <1>4, <1>10, <1>12 DEF DeviceSends
  <1>14. tx' = [tx EXCEPT !.used[s] = [id |-> s, short |-> FALSE], !.usedIdx = Idx(n + 1)]
    BY <1>10, <1>12 DEF DeviceSends
  <1>15. tx' \in Queue
    BY <1>1, <1>8, <1>10, <1>14 DEF Queue, UsedEntry
  <1>16. /\ tx'.on = tx.on /\ tx'.ring = tx.ring /\ tx'.avail = tx.avail /\ tx'.pkt = tx.pkt
         /\ tx'.free = tx.free /\ tx'.head = tx.head /\ tx'.last = tx.last
         /\ tx'.usedIdx = Idx(n + 1)
    BY <1>1, <1>14 DEF Queue
  <1>17. Back(tx)' = r
    BY <1>2, <1>5, <1>16 DEF Back
  <1>18. sent'.count = n + 1 /\ sent'.last = n + 1 /\ r <= n + 1 /\ n + 1 <= accepted
    BY <1>1, <1>6, <1>7, <1>13
  <1>19. \A k \in n + 1 .. accepted - 1 : tx.pkt[Slot(k)] = k + 1
    <2>1. \A k \in n + 1 .. accepted - 1 : k \in sent.count .. accepted - 1
      BY <1>1, <1>4
    <2> QED
      BY <2>1, <1>3 DEF TxOn
  <1>20. TxOn(tx)'
    BY <1>2, <1>3, <1>5, <1>13, <1>16, <1>17, <1>18, <1>19 DEF TxOn
  <1>21. sent' \in [count : Nat, last : Nat]
    BY <1>13
  <1> QED
    BY <1>1, <1>2, <1>10, <1>13, <1>15, <1>16, <1>18, <1>20, <1>21 DEF TxInv, DeviceSends

LEMMA TxStep == TxInv /\ [Next]_vars => TxInv'
  <1> SUFFICES ASSUME TxInv, [Next]_vars PROVE TxInv'
    OBVIOUS
  <1>s. ASSUME UNCHANGED txVars, initialized => initialized' PROVE TxInv'
    BY <1>s DEF TxInv, TxOn, Back, txVars
  <1>1. ASSUME NEW hasRx \in BOOLEAN, NEW hasTx \in BOOLEAN, Initialize(hasRx, hasTx)
        PROVE  TxInv'
    <2>1. CASE ~hasTx
      BY <2>1, <1>1, <1>s DEF Initialize, txVars
    <2>2. CASE hasTx /\ ~tx.on
      <3>1. tx' = TxQueue /\ UNCHANGED <<txDev, accepted, sent>>
        BY <2>2, <1>1 DEF Initialize
      <3>2. accepted = 0 /\ sent.count = 0 /\ txDev = 0 /\ QUEUE_SIZE \in Nat \ {0}
        BY <2>2, NetAssumption DEF TxInv
      <3>3. QUEUE_SIZE \in 0 .. QUEUE_SIZE
        BY <3>2
      <3>4. tx' \in Queue /\ tx'.on /\ tx'.free = QUEUE_SIZE /\ tx'.avail = 0
            /\ tx'.usedIdx = 0 /\ tx'.head = 0 /\ tx'.last = 0
        BY <3>1, <3>3, ZeroedLemma DEF TxQueue, Zeroed, Queue
      <3>5. Idx(0) = 0 /\ Slot(0) = 0
        BY NetAssumption, Remainder, 0 = IDX_MOD * 0 + 0, 0 = QUEUE_SIZE * 0 + 0
           DEF Idx, Slot
      <3>6. Back(tx)' = 0
        BY <3>1, <3>2, <3>4 DEF Back
      <3>7. 0 .. 0 - 1 = {}
        OBVIOUS
      <3>8. TxOn(tx)'
        BY <3>1, <3>2, <3>4, <3>5, <3>6, <3>7 DEF TxOn
      <3> QED
        BY <3>1, <3>4, <3>8, <1>1 DEF TxInv, Initialize
    <2> QED
      BY <2>1, <2>2, <1>1 DEF Initialize, TxInv
  <1>2. CASE Receive \/ \E short \in BOOLEAN : DeviceStores(short)
    <2>1. Receive => UNCHANGED txVars /\ initialized' = initialized
      BY DEF Receive
    <2>2. \A short \in BOOLEAN :
            DeviceStores(short) => UNCHANGED txVars /\ initialized' = initialized
      BY DEF DeviceStores
    <2> QED
      BY <1>2, <2>1, <2>2, <1>s
  <1>3. CASE Transmit
    <2>1. PICK q : q = IF tx.free = 0 THEN Reclaimed ELSE tx
      OBVIOUS
    <2>2. tx.on /\ TxOn(tx) /\ tx \in Queue
      BY <1>3 DEF Transmit, TxInv
    <2>3. q \in Queue /\ TxOn(q) /\ q.on
      <3>1. CASE tx.free = 0
        BY <3>1, <2>1, <2>2, ReclaimLemma DEF Reclaimed, Queue
      <3>2. CASE tx.free # 0
        BY <3>2, <2>1, <2>2
      <3> QED
        BY <3>1, <3>2
    <2>4. /\ q.free > 0
          /\ tx' = [q EXCEPT !.free = @ - 1,
                             !.head = (@ + 1) % QUEUE_SIZE,
                             !.pkt[q.head] = accepted + 1,
                             !.ring[q.avail % QUEUE_SIZE] = q.head,
                             !.avail = Inc(@)]
          /\ accepted' = accepted + 1 /\ UNCHANGED <<txDev, sent>> /\ initialized'
      BY <1>3, <2>1 DEF Transmit
    <2> QED
      BY <2>3, <2>4, PutLemma
  <1>4. CASE DeviceSends
    BY <1>4, SendLemma
  <1>5. CASE UNCHANGED vars
    BY <1>5, <1>s DEF vars
  <1> QED
    BY <1>1, <1>2, <1>3, <1>4, <1>5 DEF Next

LEMMA TxInvariant == Spec => []TxInv
  BY TxInit, TxStep, PTL DEF Spec

\* transmit and the device pass every packet on once and in order, for any size
\* of the queue: no buffer is filled again before its packet was sent.
THEOREM SendTheorem == Spec => []SendsInOrder
  <1>1. ASSUME TxInv PROVE SendsInOrder
    <2>1. /\ accepted \in Nat /\ sent.count \in Nat /\ tx \in Queue
          /\ sent.last = sent.count /\ sent.count <= accepted
          /\ QUEUE_SIZE \in Nat \ {0} /\ tx.free \in 0 .. QUEUE_SIZE
      BY <1>1, NetAssumption DEF TxInv, Queue
    <2>2. ASSUME tx.on
          PROVE  /\ tx.free + Distance(tx.last, tx.avail) = QUEUE_SIZE
                 /\ IsInjective(Entries(tx.ring, tx.last, tx.avail))
      <3>1. TxOn(tx)
        BY <1>1, <2>2 DEF TxInv
      <3>2. PICK r \in Nat : r = Back(tx)
        BY <3>1 DEF TxOn
      <3>3. /\ r = accepted + tx.free - QUEUE_SIZE
            /\ r <= accepted /\ accepted - r <= QUEUE_SIZE
        BY <2>1, <3>2 DEF Back
      <3>4. tx.last = Idx(r) /\ tx.avail = Idx(accepted)
        BY <3>1, <3>2 DEF TxOn
      <3>5. Distance(tx.last, tx.avail) = accepted - r
        BY <2>1, <3>3, <3>4, WindowLemma
      <3> DEFINE E == Entries(tx.ring, tx.last, tx.avail)
      <3>6. DOMAIN E = 1 .. accepted - r
            /\ \A i \in 1 .. accepted - r : E[i] = tx.ring[Slot(r + i - 1)]
        <4>1. accepted \in Nat /\ r <= accepted /\ accepted - r <= QUEUE_SIZE
          BY <2>1, <3>3
        <4>2. E = Entries(tx.ring, Idx(r), Idx(accepted))
          BY <3>4
        <4>3. PICK g : g = tx.ring
          OBVIOUS
        <4>4. /\ DOMAIN Entries(g, Idx(r), Idx(accepted)) = 1 .. accepted - r
              /\ \A i \in 1 .. accepted - r :
                   Entries(g, Idx(r), Idx(accepted))[i] = g[Slot(r + i - 1)]
          BY <4>1, EntriesLemma
        <4> HIDE DEF E
        <4> QED
          BY <4>2, <4>3, <4>4
      <3> HIDE DEF E
      <3>7. \A i \in 1 .. accepted - r : r + i - 1 \in r .. accepted - 1
        BY <2>1, <3>3
      <3>8. \A i \in 1 .. accepted - r : tx.ring[Slot(r + i - 1)] = Slot(r + i - 1)
        BY <3>1, <3>2, <3>7 DEF TxOn
      <3>9. ASSUME NEW i \in 1 .. accepted - r, NEW j \in 1 .. accepted - r, i <= j,
                   Slot(r + i - 1) = Slot(r + j - 1)
            PROVE  i = j
        <4>1. PICK a \in Nat, b \in Nat : a = r + i - 1 /\ b = r + j - 1
          OBVIOUS
        <4>2. a <= b /\ b - a < QUEUE_SIZE /\ b - a <= QUEUE_SIZE /\ Slot(a) = Slot(b)
          BY <2>1, <3>3, <3>9, <4>1
        <4>3. a = b
          BY <4>2, WindowLemma
        <4> QED
          BY <4>1, <4>3
      <3>10. \A i, j \in 1 .. accepted - r :
               tx.ring[Slot(r + i - 1)] = tx.ring[Slot(r + j - 1)] => i = j
        <4>1. \A i, j \in 1 .. accepted - r : i <= j \/ j <= i
          OBVIOUS
        <4> QED
          BY <4>1, <3>8, <3>9
      <3>11. IsInjective(E)
        BY <3>6, <3>10 DEF IsInjective
      <3>12. tx.free + (accepted - r) = QUEUE_SIZE
        BY <2>1, <3>3
      <3> QED
        BY <3>5, <3>11, <3>12 DEF E
    <2> QED
      BY <2>1, <2>2 DEF SendsInOrder
  <1> QED
    BY <1>1, TxInvariant, PTL

-----------------------------------------------------------------------------
(* Reception.                                                              *)

\* Used entries that receive has read, and descriptors that were ever posted.
ReadCount == received.count + Len(lost)
Made == QUEUE_SIZE + received.count

\* The k-th descriptor posted, when u of them were used: the device gives them
\* back in the order in which they were posted.
At(u, k) == IF k < u THEN rx.used[Slot(k)].id ELSE rx.ring[Slot(k)]

\* Of p descriptors posted u were used and l of these were read: the ones in
\* between are all different, and only lost ones are missing.
RxRing(l, u, p) ==
    /\ l <= u /\ u <= p /\ p - l <= QUEUE_SIZE
    /\ rx.avail = Idx(p) /\ rxDev = Idx(u) /\ rx.usedIdx = Idx(u) /\ rx.last = Idx(l)
    /\ \A j, k \in l .. p - 1 : At(u, j) = At(u, k) => j = k
    /\ \A s \in Slots \ Range(lost) : \E k \in l .. p - 1 : At(u, k) = s

\* f counts the full packets before each used entry, and is the number of the
\* packet in the buffer of each full one that was not read.
RxCount(l, u, f) ==
    /\ f[l] = received.count /\ f[u] = arrived
    /\ \A k \in l .. u : f[k] <= arrived
    /\ \A k \in l .. u - 1 :
         IF rx.used[Slot(k)].short THEN f[k + 1] = f[k]
         ELSE f[k + 1] = f[k] + 1 /\ rx.pkt[rx.used[Slot(k)].id] = f[k + 1]

RxOn == \E u \in Nat, f \in [Nat -> Nat] :
          RxRing(ReadCount, u, Made) /\ RxCount(ReadCount, u, f)

RxTypes ==
    /\ rx \in Queue /\ rxDev \in Nat /\ arrived \in Nat /\ lost \in Seq(Slots)
    /\ received \in [count : Nat, last : Nat]

RxInv ==
    /\ RxTypes
    /\ received.last = received.count /\ received.count <= arrived
    /\ rx.on => initialized
    /\ IF rx.on THEN RxOn
       ELSE rxDev = 0 /\ arrived = 0 /\ received.count = 0 /\ lost = <<>>

LEMMA RxNumbers ==
  ASSUME RxTypes
  PROVE  /\ ReadCount \in Nat /\ Made \in Nat /\ QUEUE_SIZE \in Nat \ {0}
         /\ received.count \in Nat /\ Len(lost) \in Nat
         /\ Made - ReadCount <= QUEUE_SIZE
  BY NetAssumption DEF RxTypes, ReadCount, Made

LEMMA RxInit == Init => RxInv
  BY ZeroedLemma DEF Init, RxInv, RxTypes, Zeroed

\* Which slots an entry shares with others that are in the ring.
LEMMA SlotsDiffer ==
  ASSUME NEW a \in Nat, NEW b \in Nat, a < b, b - a < QUEUE_SIZE
  PROVE  Slot(a) # Slot(b) /\ Slot(a) \in Slots /\ Slot(b) \in Slots
  <1>1. a <= b /\ b - a <= QUEUE_SIZE /\ a # b
    BY NetAssumption
  <1> QED
    BY <1>1, WindowLemma, IdxLemma

\* The device stores a packet: the next descriptor posted becomes the next used.
LEMMA StoreLemma ==
  ASSUME RxInv, NEW short \in BOOLEAN, DeviceStores(short)
  PROVE  RxInv'
  <1>1. RxTypes /\ rx.on /\ initialized' = initialized /\ UNCHANGED <<received, lost>>
    BY DEF RxInv, DeviceStores
  <1>2. PICK u \in Nat, f \in [Nat -> Nat] :
          RxRing(ReadCount, u, Made) /\ RxCount(ReadCount, u, f)
    BY <1>1 DEF RxInv, RxOn
  <1>3. PICK l \in Nat, p \in Nat : l = ReadCount /\ p = Made
    BY <1>1, RxNumbers
  <1>4. RxRing(l, u, p) /\ RxCount(l, u, f) /\ QUEUE_SIZE \in Nat \ {0}
    BY <1>2, <1>3, NetAssumption
  <1>5. l <= u /\ u < p /\ p - l <= QUEUE_SIZE
    <2>1. l <= u /\ u <= p /\ p - l <= QUEUE_SIZE /\ rx.avail = Idx(p) /\ rxDev = Idx(u)
      BY <1>4 DEF RxRing
    <2>2. rxDev # rx.avail
      BY DEF DeviceStores
    <2> QED
      BY <2>1, <2>2
  <1>6. PICK t \in Slots : t = Slot(u)
    BY IdxLemma
  <1>7. rxDev % QUEUE_SIZE = t /\ rx.usedIdx % QUEUE_SIZE = t
        /\ Inc(rxDev) = Idx(u + 1) /\ Inc(rx.usedIdx) = Idx(u + 1) /\ Idx(u + 1) \in Nat
    BY <1>4, <1>6, IdxLemma DEF RxRing
  <1>8. rx.ring \in [Slots -> Slots] /\ rx.pkt \in [Slots -> Nat] /\ rx.used \in [Slots -> UsedEntry]
    BY <1>1 DEF RxTypes, Queue
  <1>9. PICK x \in Slots : x = rx.ring[t]
    BY <1>8
  <1>10. arrived \in Nat /\ received.count \in Nat /\ arrived' \in Nat
         /\ arrived' = IF short THEN arrived ELSE arrived + 1
    <2>1. arrived \in Nat /\ received.count \in Nat
      BY <1>1 DEF RxTypes
    <2>2. arrived' = IF short THEN arrived ELSE arrived + 1
      BY DEF DeviceStores
    <2> QED
      BY ONLY <2>1, <2>2
  <1>11. PICK n \in Nat : n = IF short THEN 0 ELSE arrived + 1
    BY <1>10
  <1>12. PICK b \in [Slots -> Nat] : b = [rx.pkt EXCEPT ![x] = n]
    BY ONLY <1>8, n \in Nat, x \in Slots
  <1>13. PICK g \in [Slots -> UsedEntry] : g = [rx.used EXCEPT ![t] = [id |-> x, short |-> short]]
    BY ONLY <1>8, t \in Slots, x \in Slots, short \in BOOLEAN DEF UsedEntry
  <1>14. rx' = [rx EXCEPT !.pkt = b, !.used = g, !.usedIdx = Idx(u + 1)]
    BY <1>1, <1>7, <1>9, <1>11, <1>12, <1>13 DEF DeviceStores
  <1>15. PICK i \in Nat : i = Idx(u + 1)
    BY <1>7
  <1>16. rx' \in Queue /\ rx'.pkt = b /\ rx'.used = g /\ rx'.usedIdx = Idx(u + 1)
         /\ rx'.ring = rx.ring /\ rx'.avail = rx.avail /\ rx'.last = rx.last /\ rx'.on
    <2>1. rx \in Queue /\ rx.on
      BY <1>1 DEF RxTypes
    <2>2. rx' = [rx EXCEPT !.pkt = b, !.used = g, !.usedIdx = i]
      BY <1>14, <1>15
    <2> QED
      BY ONLY <2>1, <2>2, <1>15, b \in [Slots -> Nat], g \in [Slots -> UsedEntry], i \in Nat
         DEF Queue
  <1>17. rxDev' = Idx(u + 1) /\ RxTypes'
    BY <1>1, <1>7, <1>10, <1>16 DEF RxTypes, DeviceStores
  \* Entries that were used and not read are in other slots.
  <1>18. \A k \in l .. u - 1 :
           k \in Nat /\ k < u /\ Slot(k) \in Slots /\ Slot(k) # t /\ g[Slot(k)] = rx.used[Slot(k)]
    <2> SUFFICES ASSUME NEW k \in l .. u - 1
                 PROVE  /\ k \in Nat /\ k < u /\ Slot(k) \in Slots /\ Slot(k) # t
                        /\ g[Slot(k)] = rx.used[Slot(k)]
      OBVIOUS
    <2>1. k \in Nat /\ k < u /\ u - k < QUEUE_SIZE
      BY <1>4, <1>5
    <2>2. Slot(k) \in Slots /\ Slot(k) # t
      BY <2>1, <1>6, SlotsDiffer
    <2> QED
      BY <2>1, <2>2, <1>8, <1>13
  <1>19. \A k \in l .. p - 1 : At(u + 1, k)' = At(u, k)
    <2> SUFFICES ASSUME NEW k \in l .. p - 1 PROVE At(u + 1, k)' = At(u, k)
      OBVIOUS
    <2>1. CASE k \in l .. u - 1
      <3>1. k < u + 1
        BY <2>1
      <3> QED
        BY <2>1, <3>1, <1>16, <1>18 DEF At
    <2>2. CASE k = u
      <3>1. k < u + 1 /\ ~(k < u)
        BY <2>2
      <3>2. g[t].id = x
        BY <1>8, <1>13
      <3> QED
        BY <2>2, <3>1, <3>2, <1>6, <1>9, <1>16 DEF At
    <2>3. CASE k > u
      <3>1. ~(k < u + 1) /\ ~(k < u)
        BY <2>3
      <3> QED
        BY <3>1, <1>16 DEF At
    <2> QED
      BY <2>1, <2>2, <2>3, <1>5
  <1>20. RxRing(l, u + 1, p)'
    <2>1. l <= u + 1 /\ u + 1 <= p
      BY <1>5
    <2>2. \A j, k \in l .. p - 1 : At(u + 1, j)' = At(u + 1, k)' => j = k
      BY <1>4, <1>19 DEF RxRing
    <2>3. \A s \in Slots \ Range(lost)' : \E k \in l .. p - 1 : At(u + 1, k)' = s
      <3>1. Range(lost)' = Range(lost)
        BY <1>1
      <3> QED
        BY <3>1, <1>4, <1>19 DEF RxRing
    <2> QED
      BY <2>1, <2>2, <2>3, <1>4, <1>16, <1>17 DEF RxRing
  <1>21. PICK h \in [Nat -> Nat] : h = [f EXCEPT ![u + 1] = arrived']
    BY <1>10
  <1>22. \A k \in l .. u : k \in Nat /\ h[k] = f[k]
    BY <1>21
  <1>23. h[u + 1] = arrived'
    BY <1>21
  <1>24. RxCount(l, u + 1, h)'
    <2>1. h[l] = received'.count
      BY <1>1, <1>4, <1>5, <1>22 DEF RxCount
    <2>2. \A k \in l .. u + 1 : h[k] <= arrived'
      <3>1. \A k \in l .. u : h[k] <= arrived'
        BY <1>4, <1>10, <1>22 DEF RxCount
      <3>2. \A k \in l .. u + 1 : k \in l .. u \/ k = u + 1
        BY <1>5
      <3> QED
        BY <3>1, <3>2, <1>10, <1>23
    <2>3. ASSUME NEW k \in l .. u - 1
          PROVE  IF g[Slot(k)].short THEN h[k + 1] = h[k]
                 ELSE h[k + 1] = h[k] + 1 /\ b[g[Slot(k)].id] = h[k + 1]
      <3>1. k \in l .. u /\ k + 1 \in l .. u /\ k \in l .. p - 1 /\ u \in l .. p - 1 /\ k # u
        BY <1>5
      <3>2. PICK y \in Slots : y = rx.used[Slot(k)].id
        BY <1>8, <1>18 DEF UsedEntry
      <3>3. At(u, k) = y /\ At(u, u) = x
        BY <3>2, <1>6, <1>9, <1>18 DEF At
      <3>4. y # x
        BY <3>1, <3>3, <1>4 DEF RxRing
      <3>5. b[y] = rx.pkt[y]
        BY <3>2, <3>4, <1>8, <1>12
      <3>6. IF rx.used[Slot(k)].short THEN f[k + 1] = f[k]
            ELSE f[k + 1] = f[k] + 1 /\ rx.pkt[y] = f[k + 1]
        BY <3>2, <1>4 DEF RxCount
      <3> QED
        BY <3>1, <3>2, <3>5, <3>6, <1>18, <1>22
    <2>4. IF g[t].short THEN h[u + 1] = h[u] ELSE h[u + 1] = h[u] + 1 /\ b[g[t].id] = h[u + 1]
      <3>1. h[u] = arrived
        BY <1>4, <1>5, <1>22 DEF RxCount
      <3>2. g[t].short = short /\ g[t].id = x /\ b[x] = n
        BY <1>8, <1>12, <1>13
      <3> QED
        BY <3>1, <3>2, <1>10, <1>11, <1>23
    <2>5. \A k \in l .. (u + 1) - 1 : k \in l .. u - 1 \/ k = u
      BY <1>5
    <2>6. \A k \in l .. (u + 1) - 1 :
            IF rx'.used[Slot(k)].short THEN h[k + 1] = h[k]
            ELSE h[k + 1] = h[k] + 1 /\ rx'.pkt[rx'.used[Slot(k)].id] = h[k + 1]
      BY <2>3, <2>4, <2>5, <1>6, <1>16
    <2> QED
      BY <2>1, <2>2, <2>6, <1>23 DEF RxCount
  <1>25. RxOn'
    <2>1. ReadCount' = l /\ Made' = p
      BY <1>1, <1>3 DEF ReadCount, Made
    <2>2. u + 1 \in Nat
      OBVIOUS
    <2> QED
      BY <2>1, <2>2, <1>20, <1>24 DEF RxOn
  <1>26. received.last = received.count /\ received.count <= arrived'
    <2>1. received.last = received.count /\ received.count <= arrived
      BY DEF RxInv
    <2> QED
      BY ONLY <2>1, <1>10
  <1> QED
    BY <1>1, <1>16, <1>17, <1>25, <1>26 DEF RxInv

\* receive returns a packet: its descriptor is posted behind the others.
LEMMA ReceiveLemma ==
  ASSUME RxInv, Receive, ~rx.used[rx.last % QUEUE_SIZE].short
  PROVE  RxInv'
  <1>1. /\ RxTypes /\ rx.on /\ UNCHANGED <<initialized, lost, rxDev, arrived>>
        /\ rx.last # rx.usedIdx
    BY DEF RxInv, Receive
  <1>2. PICK u \in Nat, f \in [Nat -> Nat] :
          RxRing(ReadCount, u, Made) /\ RxCount(ReadCount, u, f)
    BY <1>1 DEF RxInv, RxOn
  <1>3. PICK l \in Nat, p \in Nat : l = ReadCount /\ p = Made
    BY <1>1, RxNumbers
  <1>4. RxRing(l, u, p) /\ RxCount(l, u, f) /\ QUEUE_SIZE \in Nat \ {0}
    BY <1>2, <1>3, NetAssumption
  <1>5. l < u /\ u <= p /\ p - l <= QUEUE_SIZE
    <2>1. l <= u /\ u <= p /\ p - l <= QUEUE_SIZE /\ rx.last = Idx(l) /\ rx.usedIdx = Idx(u)
      BY <1>4 DEF RxRing
    <2> QED
      BY <2>1, <1>1
  <1>6. PICK t \in Slots, w \in Slots : t = Slot(l) /\ w = Slot(p)
    BY IdxLemma
  <1>7. rx.last % QUEUE_SIZE = t /\ rx.avail % QUEUE_SIZE = w
        /\ Inc(rx.last) = Idx(l + 1) /\ Inc(rx.avail) = Idx(p + 1)
        /\ Idx(l + 1) \in Nat /\ Idx(p + 1) \in Nat
    BY <1>4, <1>6, IdxLemma DEF RxRing
  <1>8. rx.ring \in [Slots -> Slots] /\ rx.pkt \in [Slots -> Nat] /\ rx.used \in [Slots -> UsedEntry]
    BY <1>1 DEF RxTypes, Queue
  <1>9. PICK x \in Slots : x = rx.used[t].id
    BY <1>8 DEF UsedEntry
  <1>10. PICK g \in [Slots -> Slots] : g = [rx.ring EXCEPT ![w] = x]
    BY ONLY <1>8, w \in Slots, x \in Slots
  <1>11. PICK i \in Nat, m \in Nat : i = Idx(l + 1) /\ m = Idx(p + 1)
    BY <1>7
  <1>12. rx' = [rx EXCEPT !.ring = g, !.avail = m, !.last = i]
    <2>1. rx \in Queue
      BY <1>1 DEF RxTypes
    <2>2. Posted(x) = [rx EXCEPT !.ring = g, !.avail = m]
      BY <1>7, <1>10, <1>11 DEF Posted
    <2>3. Posted(x).last = rx.last
      BY ONLY <2>1, <2>2 DEF Queue
    <2>4. rx' = [Posted(x) EXCEPT !.last = Inc(@)]
      BY <1>7, <1>9 DEF Receive
    <2>5. rx' = [Posted(x) EXCEPT !.last = i]
      BY ONLY <2>3, <2>4, <1>7, <1>11
    <2> QED
      BY ONLY <2>1, <2>2, <2>5 DEF Queue
  <1>13. rx' \in Queue /\ rx'.ring = g /\ rx'.avail = m /\ rx'.last = i /\ rx'.on
         /\ rx'.used = rx.used /\ rx'.pkt = rx.pkt /\ rx'.usedIdx = rx.usedIdx
    <2>1. rx \in Queue /\ rx.on
      BY <1>1 DEF RxTypes
    <2> QED
      BY ONLY <2>1, <1>12, g \in [Slots -> Slots], i \in Nat, m \in Nat DEF Queue
  \* The packet it returns is the next one.
  <1>14. /\ rx.pkt[x] = received.count + 1 /\ f[l + 1] = received.count + 1
         /\ received.count + 1 <= arrived /\ received.count \in Nat /\ arrived \in Nat
    <2>1. l \in l .. u - 1 /\ l + 1 \in l .. u
      BY <1>5
    <2>2. f[l + 1] = f[l] + 1 /\ rx.pkt[x] = f[l + 1] /\ f[l] = received.count
          /\ f[l + 1] <= arrived
      BY <2>1, <1>4, <1>6, <1>7, <1>9 DEF RxCount
    <2> QED
      BY <2>2, <1>1 DEF RxTypes
  <1>15. received' = [count |-> received.count + 1, last |-> received.count + 1]
    BY <1>7, <1>9, <1>14 DEF Receive
  <1>16. RxTypes'
    BY <1>1, <1>13, <1>14, <1>15 DEF RxTypes
  <1>17. \A k \in l + 1 .. p - 1 : k \in Nat /\ k \in l .. p - 1 /\ At(u, k)' = At(u, k)
    <2> SUFFICES ASSUME NEW k \in l + 1 .. p - 1
                 PROVE  k \in Nat /\ k \in l .. p - 1 /\ At(u, k)' = At(u, k)
      OBVIOUS
    <2>1. k \in Nat /\ k \in l .. p - 1 /\ k < p
      OBVIOUS
    <2>2. CASE k < u
      BY <2>1, <2>2, <1>13 DEF At
    <2>3. CASE ~(k < u)
      <3>1. p - k < QUEUE_SIZE
        BY <2>1, <1>4, <1>5
      <3>2. Slot(k) # w /\ Slot(k) \in Slots
        BY <2>1, <3>1, <1>6, SlotsDiffer
      <3> QED
        BY <2>1, <2>3, <3>2, <1>8, <1>10, <1>13 DEF At
    <2> QED
      BY <2>2, <2>3
  <1>18. At(u, p)' = x /\ At(u, l) = x
    <2>1. ~(p < u)
      BY <1>5
    <2> QED
      BY <2>1, <1>5, <1>6, <1>8, <1>9, <1>10, <1>13 DEF At
  <1>19. RxRing(l + 1, u, p + 1)'
    <2>1. l + 1 <= u /\ u <= p + 1 /\ (p + 1) - (l + 1) <= QUEUE_SIZE
      BY <1>4, <1>5
    <2>2. \A k \in l + 1 .. (p + 1) - 1 : k \in l + 1 .. p - 1 \/ k = p
      OBVIOUS
    <2>3. l \in l .. p - 1 /\ \A k \in l + 1 .. p - 1 : k # l
      BY <1>5
    <2>4. \A j, k \in l .. p - 1 : At(u, j) = At(u, k) => j = k
      BY <1>4 DEF RxRing
    <2>5. \A j, k \in l + 1 .. (p + 1) - 1 : At(u, j)' = At(u, k)' => j = k
      <3>1. ASSUME NEW k \in l + 1 .. p - 1 PROVE At(u, k)' # x
        BY <2>3, <2>4, <1>17, <1>18
      <3> QED
        BY <2>2, <2>4, <3>1, <1>17, <1>18
    <2>6. ASSUME NEW s \in Slots \ Range(lost)'
          PROVE  \E k \in l + 1 .. (p + 1) - 1 : At(u, k)' = s
      <3>1. PICK k \in l .. p - 1 : At(u, k) = s
        BY <1>1, <1>4 DEF RxRing
      <3>2. CASE k = l
        <4>1. p \in l + 1 .. (p + 1) - 1
          BY <1>5
        <4> QED
          BY <3>1, <3>2, <4>1, <1>18
      <3>3. CASE k # l
        <4>1. k \in l + 1 .. p - 1 /\ k \in l + 1 .. (p + 1) - 1
          BY <3>3
        <4> QED
          BY <3>1, <4>1, <1>17
      <3> QED
        BY <3>2, <3>3
    <2>7. rx'.avail = Idx(p + 1) /\ rxDev' = Idx(u) /\ rx'.usedIdx = Idx(u)
          /\ rx'.last = Idx(l + 1)
      BY <1>1, <1>4, <1>11, <1>13 DEF RxRing
    <2> QED
      BY <2>1, <2>5, <2>6, <2>7 DEF RxRing
  <1>20. RxCount(l + 1, u, f)'
    <2>1. f[l + 1] = received'.count /\ f[u] = arrived'
      BY <1>1, <1>4, <1>14, <1>15 DEF RxCount
    <2>2. \A k \in l + 1 .. u : k \in l .. u
      OBVIOUS
    <2>3. \A k \in l + 1 .. u - 1 : k \in l .. u - 1
      OBVIOUS
    <2> QED
      BY <2>1, <2>2, <2>3, <1>1, <1>4, <1>13 DEF RxCount
  <1>21. RxOn'
    <2>1. received'.count = received.count + 1
      BY <1>15
    <2>n. received.count \in Nat /\ Len(lost) \in Nat /\ QUEUE_SIZE \in Nat
      BY <1>1, RxNumbers
    <2>l. Len(lost') = Len(lost)
      BY <1>1
    <2>2. ReadCount' = l + 1 /\ Made' = p + 1
      <3>1. PICK c \in Nat, n \in Nat : c = received.count /\ n = Len(lost)
        BY <2>n
      <3>2. l = c + n /\ p = QUEUE_SIZE + c
        BY <3>1, <1>3 DEF ReadCount, Made
      <3>3. ReadCount' = (c + 1) + n /\ Made' = QUEUE_SIZE + (c + 1)
        BY <3>1, <2>1, <2>l DEF ReadCount, Made
      <3> QED
        BY ONLY <3>2, <3>3, <2>n, c \in Nat, n \in Nat
    <2> QED
      BY <2>2, <1>19, <1>20 DEF RxOn
  <1>22. received'.last = received'.count /\ received'.count <= arrived'
    BY <1>1, <1>14, <1>15
  <1> QED
    BY <1>1, <1>13, <1>16, <1>21, <1>22 DEF RxInv

\* receive meets a short packet: its descriptor is lost.
LEMMA ShortLemma ==
  ASSUME RxInv, Receive, rx.used[rx.last % QUEUE_SIZE].short
  PROVE  RxInv'
  <1>1. /\ RxTypes /\ rx.on /\ UNCHANGED <<initialized, received, rxDev, arrived>>
        /\ rx.last # rx.usedIdx
    BY DEF RxInv, Receive
  <1>2. PICK u \in Nat, f \in [Nat -> Nat] :
          RxRing(ReadCount, u, Made) /\ RxCount(ReadCount, u, f)
    BY <1>1 DEF RxInv, RxOn
  <1>3. PICK l \in Nat, p \in Nat : l = ReadCount /\ p = Made
    BY <1>1, RxNumbers
  <1>4. RxRing(l, u, p) /\ RxCount(l, u, f) /\ QUEUE_SIZE \in Nat \ {0}
    BY <1>2, <1>3, NetAssumption
  <1>5. l < u /\ u <= p /\ p - l <= QUEUE_SIZE
    <2>1. l <= u /\ u <= p /\ p - l <= QUEUE_SIZE /\ rx.last = Idx(l) /\ rx.usedIdx = Idx(u)
      BY <1>4 DEF RxRing
    <2> QED
      BY <2>1, <1>1
  <1>6. PICK t \in Slots : t = Slot(l)
    BY IdxLemma
  <1>7. rx.last % QUEUE_SIZE = t /\ Inc(rx.last) = Idx(l + 1) /\ Idx(l + 1) \in Nat
    BY <1>4, <1>6, IdxLemma DEF RxRing
  <1>8. PICK x \in Slots : x = rx.used[t].id
    <2>1. rx.used \in [Slots -> UsedEntry]
      BY <1>1 DEF RxTypes, Queue
    <2> QED
      BY <2>1 DEF UsedEntry
  <1>9. PICK i \in Nat : i = Idx(l + 1)
    BY <1>7
  <1>10. rx' = [rx EXCEPT !.last = i] /\ lost' = Append(lost, x)
    BY <1>7, <1>8, <1>9 DEF Receive
  <1>11. rx' \in Queue /\ rx'.last = i /\ rx'.on /\ rx'.used = rx.used /\ rx'.pkt = rx.pkt
         /\ rx'.usedIdx = rx.usedIdx /\ rx'.avail = rx.avail /\ rx'.ring = rx.ring
    <2>1. rx \in Queue /\ rx.on
      BY <1>1 DEF RxTypes
    <2> QED
      BY ONLY <2>1, <1>10, i \in Nat DEF Queue
  <1>12. /\ lost' \in Seq(Slots) /\ Len(lost') = Len(lost) + 1 /\ Len(lost) \in Nat
         /\ Range(lost)' = Range(lost) \cup {x}
    <2>1. lost \in Seq(Slots)
      BY <1>1 DEF RxTypes
    <2>2. lost' \in Seq(Slots) /\ Len(lost') = Len(lost) + 1 /\ Len(lost) \in Nat
      BY ONLY <2>1, <1>10, x \in Slots
    <2>3. DOMAIN lost = 1 .. Len(lost) /\ DOMAIN lost' = 1 .. Len(lost) + 1
      BY ONLY <2>1, <2>2
    <2>4. (\A k \in 1 .. Len(lost) : lost'[k] = lost[k]) /\ lost'[Len(lost) + 1] = x
      BY ONLY <2>1, <1>10
    <2>5. 1 .. Len(lost) + 1 = (1 .. Len(lost)) \cup {Len(lost) + 1}
      <3>1. PICK n \in Nat : n = Len(lost)
        BY <2>2
      <3>2. 1 .. n + 1 = (1 .. n) \cup {n + 1}
        BY ONLY n \in Nat
      <3> QED
        BY <3>1, <3>2
    <2>6. Range(lost') = {lost'[k] : k \in 1 .. Len(lost) + 1}
      BY <2>3 DEF Range
    <2>7. Range(lost) = {lost[k] : k \in 1 .. Len(lost)}
      BY <2>3 DEF Range
    <2>8. Range(lost') = Range(lost) \cup {x}
      BY ONLY <2>4, <2>5, <2>6, <2>7
    <2> QED
      BY <2>2, <2>8
  <1>13. RxTypes'
    BY <1>1, <1>11, <1>12 DEF RxTypes
  <1>14. At(u, l) = x /\ \A k : At(u, k)' = At(u, k)
    BY <1>5, <1>6, <1>8, <1>11 DEF At
  <1>15. RxRing(l + 1, u, p)'
    <2>1. l + 1 <= u /\ p - (l + 1) <= QUEUE_SIZE
      BY <1>4, <1>5
    <2>2. \A k \in l + 1 .. p - 1 : k \in l .. p - 1
      OBVIOUS
    <2>3. \A j, k \in l + 1 .. p - 1 : At(u, j)' = At(u, k)' => j = k
      BY <2>2, <1>4, <1>14 DEF RxRing
    <2>4. ASSUME NEW s \in Slots \ Range(lost)'
          PROVE  \E k \in l + 1 .. p - 1 : At(u, k)' = s
      <3>1. s \in Slots \ Range(lost) /\ s # x
        BY <1>12
      <3>2. PICK k \in l .. p - 1 : At(u, k) = s
        BY <3>1, <1>4 DEF RxRing
      <3>3. k # l
        BY <3>1, <3>2, <1>14
      <3>4. k \in l + 1 .. p - 1
        BY <3>3
      <3> QED
        BY <3>2, <3>4, <1>14
    <2>5. rx'.avail = Idx(p) /\ rxDev' = Idx(u) /\ rx'.usedIdx = Idx(u) /\ rx'.last = Idx(l + 1)
      BY <1>1, <1>4, <1>9, <1>11 DEF RxRing
    <2> QED
      BY <2>1, <2>3, <2>4, <2>5, <1>5 DEF RxRing
  <1>16. RxCount(l + 1, u, f)'
    <2>1. l \in l .. u - 1
      BY <1>5
    <2>2. f[l + 1] = f[l] /\ f[l] = received.count
      BY <2>1, <1>4, <1>6, <1>7 DEF RxCount
    <2>3. \A k \in l + 1 .. u : k \in l .. u
      OBVIOUS
    <2>4. \A k \in l + 1 .. u - 1 : k \in l .. u - 1
      OBVIOUS
    <2> QED
      BY <2>2, <2>3, <2>4, <1>1, <1>4, <1>11 DEF RxCount
  <1>17. RxOn'
    <2>n. /\ received.count \in Nat /\ Len(lost) \in Nat /\ QUEUE_SIZE \in Nat
          /\ received'.count = received.count
      BY <1>1, RxNumbers
    <2>l. Len(lost') = Len(lost) + 1
      BY <1>12
    <2>1. ReadCount' = l + 1 /\ Made' = p
      <3>1. PICK c \in Nat, n \in Nat : c = received.count /\ n = Len(lost)
        BY <2>n
      <3>2. l = c + n /\ p = QUEUE_SIZE + c
        BY <3>1, <1>3 DEF ReadCount, Made
      <3>3. ReadCount' = c + (n + 1) /\ Made' = QUEUE_SIZE + c
        BY <3>1, <2>n, <2>l DEF ReadCount, Made
      <3> QED
        BY ONLY <3>2, <3>3, c \in Nat, n \in Nat
    <2> QED
      BY <2>1, <1>15, <1>16 DEF RxOn
  <1> QED
    BY <1>1, <1>11, <1>13, <1>17 DEF RxInv

LEMMA RxStep == RxInv /\ [Next]_vars => RxInv'
  <1> SUFFICES ASSUME RxInv, [Next]_vars PROVE RxInv'
    OBVIOUS
  <1>s. ASSUME UNCHANGED rxVars, initialized => initialized' PROVE RxInv'
    <2>1. UNCHANGED <<rx, rxDev, arrived, received, lost>>
      BY <1>s DEF rxVars
    <2>2. RxTypes' /\ ReadCount' = ReadCount /\ Made' = Made
      BY <2>1 DEF RxInv, RxTypes, ReadCount, Made
    <2>3. ASSUME NEW u \in Nat, NEW f \in [Nat -> Nat], NEW l, NEW p,
                 RxRing(l, u, p), RxCount(l, u, f)
          PROVE  RxRing(l, u, p)' /\ RxCount(l, u, f)'
      <3>1. \A k : At(u, k)' = At(u, k)
        BY <2>1 DEF At
      <3>2. RxRing(l, u, p)'
        BY <2>1, <2>3, <3>1 DEF RxRing
      <3>3. RxCount(l, u, f)'
        BY <2>1, <2>3 DEF RxCount
      <3> QED
        BY <3>2, <3>3
    <2>4. RxOn => RxOn'
      <3> SUFFICES ASSUME RxOn PROVE RxOn'
        OBVIOUS
      <3>1. PICK u \in Nat, f \in [Nat -> Nat] :
              RxRing(ReadCount, u, Made) /\ RxCount(ReadCount, u, f)
        BY DEF RxOn
      <3>2. PICK l, p : l = ReadCount /\ p = Made
        OBVIOUS
      <3>3. RxRing(l, u, p)' /\ RxCount(l, u, f)'
        BY <2>3, <3>1, <3>2
      <3> QED
        BY <3>2, <3>3, <2>2 DEF RxOn
    <2> QED
      BY <1>s, <2>1, <2>2, <2>4 DEF RxInv
  <1>1. ASSUME NEW hasRx \in BOOLEAN, NEW hasTx \in BOOLEAN, Initialize(hasRx, hasTx)
        PROVE  RxInv'
    <2>1. CASE ~hasRx
      BY <2>1, <1>1, <1>s DEF Initialize, rxVars
    <2>2. CASE hasRx /\ ~rx.on
      <3>1. rx' = RxQueue /\ initialized' /\ UNCHANGED <<rxDev, arrived, received, lost>>
        BY <2>2, <1>1 DEF Initialize
      <3>2. /\ rxDev = 0 /\ arrived = 0 /\ received.count = 0 /\ lost = <<>>
            /\ received.last = 0 /\ RxTypes /\ QUEUE_SIZE \in Nat \ {0}
        BY <2>2, NetAssumption DEF RxInv
      <3>3. rx' \in Queue /\ rx'.on /\ rx'.ring = [s \in Slots |-> s] /\ rx'.avail = QUEUE_SIZE
            /\ rx'.usedIdx = 0 /\ rx'.last = 0
        BY <3>1, <3>2, ZeroedLemma DEF RxQueue, Zeroed, Queue
      <3>4. Idx(0) = 0 /\ Idx(QUEUE_SIZE) = QUEUE_SIZE /\ \A k \in Slots : Slot(k) = k
        <4>1. /\ IDX_MOD \in Nat \ {0} /\ QUEUE_SIZE \in 0 .. IDX_MOD - 1
              /\ 0 \in 0 .. IDX_MOD - 1
          BY NetAssumption
        <4>2. 0 = IDX_MOD * 0 + 0 /\ QUEUE_SIZE = IDX_MOD * 0 + QUEUE_SIZE
          BY <4>1
        <4>3. Idx(0) = 0 /\ Idx(QUEUE_SIZE) = QUEUE_SIZE
          BY <4>1, <4>2, Remainder DEF Idx
        <4>4. ASSUME NEW k \in Slots PROVE Slot(k) = k
          <5>1. k = QUEUE_SIZE * 0 + k
            BY <3>2 DEF Slots
          <5> QED
            BY <5>1, <3>2, Remainder DEF Slot, Slots
        <4> QED
          BY <4>3, <4>4
      <3>5. ReadCount' = 0 /\ Made' = QUEUE_SIZE /\ Range(lost)' = {}
        BY <3>1, <3>2 DEF ReadCount, Made, Range
      <3>6. 0 .. QUEUE_SIZE - 1 = Slots /\ 0 .. 0 - 1 = {} /\ 0 .. 0 = {0}
        BY DEF Slots
      <3>7. \A k \in Slots : At(0, k)' = k
        <4>1. \A k \in Slots : ~(k < 0)
          BY DEF Slots
        <4> QED
          BY <4>1, <3>3, <3>4 DEF At
      <3>8. RxRing(0, 0, QUEUE_SIZE)'
        BY <3>1, <3>2, <3>3, <3>4, <3>5, <3>6, <3>7 DEF RxRing
      <3>9. PICK f \in [Nat -> Nat] : f = [k \in Nat |-> 0]
        OBVIOUS
      <3>10. RxCount(0, 0, f)'
        BY <3>1, <3>2, <3>6, <3>9 DEF RxCount
      <3>11. RxOn'
        BY <3>5, <3>8, <3>10 DEF RxOn
      <3>12. RxTypes'
        BY <3>1, <3>2, <3>3 DEF RxTypes
      <3> QED
        BY <3>1, <3>2, <3>3, <3>11, <3>12 DEF RxInv
    <2> QED
      BY <2>1, <2>2, <1>1 DEF Initialize, RxInv
  <1>2. CASE Receive
    BY <1>2, ReceiveLemma, ShortLemma
  <1>3. ASSUME NEW short \in BOOLEAN, DeviceStores(short) PROVE RxInv'
    BY <1>3, StoreLemma
  <1>4. CASE Transmit
    BY <1>4, <1>s DEF Transmit
  <1>5. CASE DeviceSends
    BY <1>5, <1>s DEF DeviceSends
  <1>6. CASE UNCHANGED vars
    BY <1>6, <1>s DEF vars
  <1> QED
    BY <1>1, <1>2, <1>3, <1>4, <1>5, <1>6 DEF Next

LEMMA RxInvariant == Spec => []RxInv
  BY RxInit, RxStep, PTL DEF Spec

\* The parts of a sequence put together from three.
LEMMA ConcatLemma ==
  ASSUME NEW S, NEW a \in Seq(S), NEW b \in Seq(S), NEW c \in Seq(S)
  PROVE  Range(a \o b \o c) = Range(a) \cup Range(b) \cup Range(c)
  <1>1. ASSUME NEW d \in Seq(S), NEW e \in Seq(S)
        PROVE  d \o e \in Seq(S) /\ Range(d \o e) = Range(d) \cup Range(e)
    <2>1. PICK m \in Nat, n \in Nat : m = Len(d) /\ n = Len(e)
      OBVIOUS
    <2>2. d \o e \in Seq(S) /\ Len(d \o e) = m + n
      BY <2>1
    <2>3. DOMAIN d = 1 .. m /\ DOMAIN e = 1 .. n /\ DOMAIN (d \o e) = 1 .. m + n
      BY <2>1, <2>2
    <2>4. \A i \in 1 .. m : (d \o e)[i] = d[i] /\ i \in 1 .. m + n
      BY <2>1
    <2>5. \A i \in 1 .. n : (d \o e)[m + i] = e[i] /\ m + i \in 1 .. m + n
      BY <2>1
    <2>6. \A i \in 1 .. m + n : i \in 1 .. m \/ \E j \in 1 .. n : i = m + j
      <3> SUFFICES ASSUME NEW i \in 1 .. m + n, i \notin 1 .. m
                   PROVE  \E j \in 1 .. n : i = m + j
        OBVIOUS
      <3>1. i - m \in 1 .. n /\ i = m + (i - m)
        OBVIOUS
      <3> QED
        BY <3>1
    <2>7. Range(d \o e) \subseteq Range(d) \cup Range(e)
      BY <2>3, <2>4, <2>5, <2>6 DEF Range
    <2>8. Range(d) \subseteq Range(d \o e) /\ Range(e) \subseteq Range(d \o e)
      BY <2>3, <2>4, <2>5 DEF Range
    <2> QED
      BY <2>1, <2>2, <2>7, <2>8
  <1>2. a \o b \in Seq(S) /\ Range(a \o b) = Range(a) \cup Range(b)
    BY <1>1
  <1>3. Range((a \o b) \o c) = Range(a \o b) \cup Range(c)
    BY <1>1, <1>2
  <1> QED
    BY <1>2, <1>3

LEMMA FunctionSeq ==
  ASSUME NEW S, NEW n \in Nat, NEW q \in [1 .. n -> S]
  PROVE  q \in Seq(S) /\ Len(q) = n
  <1>1. q \in Seq(S)
    BY SeqDef, Zenon
  <1>2. Len(q) \in Nat /\ 1 .. Len(q) = 1 .. n
    BY <1>1, LenProperties
  <1> QED
    BY <1>1, <1>2

\* receive returns every packet once and in the order of arrival, for any size of
\* the queue, and no descriptor is ever in two places or lost but by a short
\* packet.
THEOREM ReceiveTheorem == Spec => []ReceivesInOrder
  <1>1. ASSUME RxInv PROVE ReceivesInOrder
    <2> DEFINE usedEntries == Entries(rx.used, rx.last, rx.usedIdx)
               posted == Entries(rx.ring, rxDev, rx.avail)
               ids == [i \in DOMAIN usedEntries |-> usedEntries[i].id]
               places == posted \o ids \o lost
    <2>1. RxTypes /\ received.last = received.count /\ received.count <= arrived
      BY <1>1 DEF RxInv
    <2>2. ASSUME rx.on PROVE Len(places) = QUEUE_SIZE /\ Range(places) = Slots
      <3>1. PICK u \in Nat, f \in [Nat -> Nat] : RxRing(ReadCount, u, Made)
        BY <1>1, <2>2 DEF RxInv, RxOn
      <3>2. PICK l \in Nat, p \in Nat : l = ReadCount /\ p = Made
        BY <2>1, RxNumbers
      <3>3. RxRing(l, u, p)
        BY <3>1, <3>2
      <3>4. /\ l <= u /\ u <= p /\ u - l <= QUEUE_SIZE /\ p - u <= QUEUE_SIZE
            /\ QUEUE_SIZE \in Nat \ {0}
        <4>1. l <= u /\ u <= p /\ p - l <= QUEUE_SIZE /\ QUEUE_SIZE \in Nat \ {0}
          BY <3>3, NetAssumption DEF RxRing
        <4> QED
          BY ONLY <4>1, l \in Nat, u \in Nat, p \in Nat
      <3>5. rx.avail = Idx(p) /\ rxDev = Idx(u) /\ rx.usedIdx = Idx(u) /\ rx.last = Idx(l)
        BY <3>3 DEF RxRing
      <3>6. PICK g, e : g = rx.ring /\ e = rx.used
        OBVIOUS
      <3>7. g \in [Slots -> Slots] /\ e \in [Slots -> UsedEntry] /\ lost \in Seq(Slots)
        BY <2>1, <3>6 DEF RxTypes, Queue
      <3>8. posted = Entries(g, Idx(u), Idx(p)) /\ usedEntries = Entries(e, Idx(l), Idx(u))
        BY <3>5, <3>6
      <3>9. /\ DOMAIN Entries(g, Idx(u), Idx(p)) = 1 .. p - u
            /\ \A i \in 1 .. p - u : Entries(g, Idx(u), Idx(p))[i] = g[Slot(u + i - 1)]
        BY <3>4, EntriesLemma
      <3>10. /\ DOMAIN Entries(e, Idx(l), Idx(u)) = 1 .. u - l
             /\ \A i \in 1 .. u - l : Entries(e, Idx(l), Idx(u))[i] = e[Slot(l + i - 1)]
        BY <3>4, EntriesLemma
      <3>11. /\ DOMAIN posted = 1 .. p - u
             /\ \A i \in 1 .. p - u : posted[i] = g[Slot(u + i - 1)]
        BY <3>8, <3>9
      <3>12. /\ DOMAIN usedEntries = 1 .. u - l
             /\ \A i \in 1 .. u - l : usedEntries[i] = e[Slot(l + i - 1)]
        BY <3>8, <3>10
      <3> HIDE DEF usedEntries, posted
      <3>13. DOMAIN ids = 1 .. u - l /\ \A i \in 1 .. u - l : ids[i] = e[Slot(l + i - 1)].id
        BY <3>12
      <3>14. posted \in Seq(Slots) /\ Len(posted) = p - u
        <4>1. \A i \in 1 .. p - u : posted[i] \in Slots
          <5>1. \A i \in 1 .. p - u : u + i - 1 \in Nat
            OBVIOUS
          <5> QED
            BY <5>1, <3>7, <3>11, IdxLemma
        <4>2. posted = [i \in 1 .. p - u |-> posted[i]]
          BY <3>8, <3>11 DEF Entries
        <4>3. PICK n \in Nat : n = p - u
          BY <3>4
        <4>4. posted \in [1 .. n -> Slots]
          BY <4>1, <4>2, <4>3
        <4> QED
          BY <4>3, <4>4, FunctionSeq
      <3>15. ids \in Seq(Slots) /\ Len(ids) = u - l
        <4>1. \A i \in 1 .. u - l : ids[i] \in Slots
          <5>1. \A i \in 1 .. u - l : l + i - 1 \in Nat
            OBVIOUS
          <5> QED
            BY <5>1, <3>7, <3>13, IdxLemma DEF UsedEntry
        <4>2. ids = [i \in 1 .. u - l |-> ids[i]]
          BY <3>12
        <4>3. PICK n \in Nat : n = u - l
          BY <3>4
        <4> HIDE DEF ids
        <4>4. ids \in [1 .. n -> Slots]
          BY <4>1, <4>2, <4>3
        <4> QED
          BY <4>3, <4>4, FunctionSeq
      <3> HIDE DEF ids
      <3>16. Len(places) = QUEUE_SIZE
        <4>0. Len(places) = Len(posted) + Len(ids) + Len(lost)
          <5>1. PICK a \in Seq(Slots), b \in Seq(Slots), c \in Seq(Slots) :
                  a = posted /\ b = ids /\ c = lost
            BY <3>7, <3>14, <3>15
          <5>2. Len(a \o b \o c) = Len(a) + Len(b) + Len(c)
            <6>1. a \o b \in Seq(Slots) /\ Len(a \o b) = Len(a) + Len(b)
              BY ONLY a \in Seq(Slots), b \in Seq(Slots), ConcatProperties
            <6>2. Len((a \o b) \o c) = Len(a \o b) + Len(c)
              BY ONLY <6>1, c \in Seq(Slots), ConcatProperties
            <6> QED
              BY ONLY <6>1, <6>2
          <5> QED
            BY <5>1, <5>2, Zenon
        <4>1. Len(places) = (p - u) + (u - l) + Len(lost)
          BY <4>0, <3>14, <3>15
        <4>2. PICK c \in Nat, n \in Nat : c = received.count /\ n = Len(lost)
          BY <2>1, RxNumbers
        <4>3. l = c + n /\ p = QUEUE_SIZE + c
          BY <3>2, <4>2 DEF ReadCount, Made
        <4>4. (p - u) + (u - l) + n = QUEUE_SIZE
          BY ONLY <4>3, <3>4, c \in Nat, n \in Nat, u \in Nat
        <4> QED
          BY <4>1, <4>2, <4>4
      <3>17. Range(places) = Range(posted) \cup Range(ids) \cup Range(lost)
        BY <3>7, <3>14, <3>15, ConcatLemma
      <3>18. Range(places) \subseteq Slots
        <4>1. \A q \in Seq(Slots) : Range(q) \subseteq Slots
          BY DEF Range
        <4> QED
          BY <4>1, <3>7, <3>14, <3>15, <3>17
      <3>19. ASSUME NEW s \in Slots, s \notin Range(lost) PROVE s \in Range(places)
        <4>1. PICK k \in l .. p - 1 : At(u, k) = s
          BY <3>3, <3>19 DEF RxRing
        <4>2. CASE k < u
          <5>1. PICK i \in 1 .. u - l : i = k - l + 1
            BY <4>2
          <5>2. l + i - 1 = k
            BY <5>1
          <5>3. ids[i] = s
            BY <4>1, <4>2, <5>2, <3>6, <3>13 DEF At
          <5> QED
            BY <5>3, <3>13, <3>17 DEF Range
        <4>3. CASE ~(k < u)
          <5>1. PICK i \in 1 .. p - u : i = k - u + 1
            BY <4>3
          <5>2. u + i - 1 = k
            BY <5>1
          <5>3. posted[i] = s
            BY <4>1, <4>3, <5>2, <3>6, <3>11 DEF At
          <5> QED
            BY <5>3, <3>11, <3>17 DEF Range
        <4> QED
          BY <4>2, <4>3
      <3> HIDE DEF places
      <3> QED
        BY <3>16, <3>17, <3>18, <3>19
    <2> QED
      BY <2>1, <2>2 DEF ReceivesInOrder
  <1> QED
    BY <1>1, RxInvariant, PTL
=============================================================================
