----------------------------- MODULE VirtioNet -----------------------------
(***************************************************************************)
(* The network driver net/virtio_net.rs with its two virtqueues, and the   *)
(* device as the driver sees it.  The driver's calls are made under the    *)
(* lock DEVICE and are atomic; the device runs beside them.                *)
(*                                                                         *)
(* A packet's payload is its number; headers, sizes (but for packets of no *)
(* more than the 10 bytes of the header, which are short) and the register *)
(* handshake of init are left out.  The device's queues are taken to have  *)
(* QUEUE_SIZE entries.                                                     *)
(*                                                                         *)
(* The packet buffers are allocated on the kernel heap.  The driver uses   *)
(* them through the page table, the device at the physical address that    *)
(* their descriptor holds.  What passes through the rings and what is in   *)
(* the buffers are kept apart: the addresses decide whether the device     *)
(* reaches the buffer.                                                     *)
(***************************************************************************)
EXTENDS Integers, Sequences, SequencesExt

CONSTANTS QUEUE_SIZE,   \* descriptors and ring entries of a queue
          IDX_MOD,      \* the ring indices are u16: 2^16
          MaxPackets,   \* bound on the packets in each direction
          RxAddr,       \* virtual address of each buffer of the receive queue
          TxAddr,       \* and of the transmit queue, in the kernel heap
          PhysOf        \* the page table: physical address behind each of them

ASSUME NetAssumption ==
    /\ QUEUE_SIZE \in Nat \ {0} /\ IDX_MOD \in Nat
    /\ IDX_MOD > QUEUE_SIZE /\ IDX_MOD % QUEUE_SIZE = 0
    /\ MaxPackets \in Nat
ASSUME AddrAssumption ==
    /\ RxAddr \in [0 .. QUEUE_SIZE - 1 -> Nat] /\ TxAddr \in [0 .. QUEUE_SIZE - 1 -> Nat]
    /\ PhysOf \in [Range(RxAddr) \cup Range(TxAddr) -> Nat]

VARIABLES
    initialized,
    rx, tx,       \* rx_queue and tx_queue: ring and avail (avail.ring, avail.idx),
                  \* used and usedIdx (used.ring, used.idx), free (num_free), head
                  \* (free_head), last (last_used_idx); on: the Option is Some; pkt:
                  \* the packet last put through each descriptor, which transmit
                  \* wrote to its buffer (tx) or the device stored for it (rx)
    rxDev, txDev, \* device: avail index up to which it has taken descriptors
    arrived,      \* history: full packets that the device has stored
    received,     \* history: packets that receive returned, and the last of them
    lost,         \* history: descriptors that came back with a short packet
    rxMem,        \* what is in the buffers of rx_queue
    delivered,    \* history: what the last receive returned
    accepted,     \* history: packets that transmit took
    sent,         \* history: packets that the device sent, and the last of them
    wire          \* history: what the device read and sent for it

rxVars == <<rx, rxDev, arrived, received, lost, rxMem, delivered>>
txVars == <<tx, txDev, accepted, sent, wire>>
vars == <<initialized, rxVars, txVars>>

Slots == 0 .. QUEUE_SIZE - 1

Inc(i) == (i + 1) % IDX_MOD

Distance(a, b) == (b - a) % IDX_MOD

\* The ring entries from index a up to index b.
Entries(ring, a, b) ==
    [i \in 1 .. Distance(a, b) |-> ring[(a + i - 1) % QUEUE_SIZE]]

\* A virtqueue in zeroed memory.
Zeroed == [on |-> FALSE, ring |-> [s \in Slots |-> 0], avail |-> 0,
           used |-> [s \in Slots |-> [id |-> 0, short |-> FALSE]], usedIdx |-> 0,
           pkt |-> [s \in Slots |-> 0], free |-> 0, head |-> 0, last |-> 0]

Init ==
    /\ initialized = FALSE
    /\ rx = Zeroed /\ tx = Zeroed /\ rxDev = 0 /\ txDev = 0
    /\ arrived = 0 /\ received = [count |-> 0, last |-> 0] /\ lost = <<>>
    /\ rxMem = [s \in Slots |-> 0] /\ delivered = 0
    /\ accepted = 0 /\ sent = [count |-> 0, last |-> 0] /\ wire = 0

\* descs[id].addr, as setup_virtqueue fills it in: the virtual address of the
\* buffer (the physical one, buf_phys, is computed and not used).
DescAddr(addrs, id) == addrs[id]

\* The buffers that the device reaches at the address in descriptor id.
Reached(addrs, id) == {s \in Slots : PhysOf[addrs[s]] = DescAddr(addrs, id)}

\* setup_virtqueue; all receive descriptors are posted at once.
RxQueue == [Zeroed EXCEPT !.on = TRUE, !.ring = [s \in Slots |-> s], !.avail = QUEUE_SIZE]
TxQueue == [Zeroed EXCEPT !.on = TRUE, !.free = QUEUE_SIZE]

\* init, when there is a device with an I/O BAR; a queue that the device does
\* not have, or that there are no frames for, stays None.
Initialize(hasRx, hasTx) ==
    /\ ~initialized
    /\ initialized' = TRUE
    /\ rx' = IF hasRx THEN RxQueue ELSE rx
    /\ tx' = IF hasTx THEN TxQueue ELSE tx
    /\ UNCHANGED <<rxDev, txDev, arrived, received, lost, rxMem, delivered,
                   accepted, sent, wire>>

-----------------------------------------------------------------------------
(* The driver.                                                             *)

\* Mutant of Posted: the descriptor at the used index is posted, not the one
\* that the used entry names.
PostedBySlot(id) ==
    [rx EXCEPT !.ring[rx.avail % QUEUE_SIZE] = rx.last % QUEUE_SIZE, !.avail = Inc(@)]

\* A receive descriptor goes back to the device.
Posted(id) == [rx EXCEPT !.ring[rx.avail % QUEUE_SIZE] = id, !.avail = Inc(@)]

\* receive: the next used entry; the contents of its descriptor's buffer are
\* returned.  After a short packet the descriptor is not posted again.
Receive ==
    /\ initialized /\ rx.on
    /\ rx.last # rx.usedIdx
    /\ LET e == rx.used[rx.last % QUEUE_SIZE]
       IN  IF e.short
           THEN /\ rx' = [rx EXCEPT !.last = Inc(@)]
                /\ lost' = Append(lost, e.id)
                /\ UNCHANGED <<received, delivered>>
           ELSE /\ rx' = [Posted(e.id) EXCEPT !.last = Inc(@)]
                /\ received' = [count |-> received.count + 1, last |-> rx.pkt[e.id]]
                /\ delivered' = rxMem[e.id]
                /\ UNCHANGED lost
    /\ UNCHANGED <<initialized, rxDev, arrived, rxMem, txVars>>

\* Mutant of Reclaimed: it runs up to the available index.
ReclaimedAll == [tx EXCEPT !.free = @ + Distance(tx.last, tx.avail), !.last = tx.avail]

\* reclaim_tx: counts the used entries, whatever descriptors they name.
Reclaimed == [tx EXCEPT !.free = @ + Distance(tx.last, tx.usedIdx), !.last = tx.usedIdx]

\* transmit; with a full queue it fails and nothing changes.
Transmit ==
    /\ initialized /\ tx.on
    /\ accepted < MaxPackets
    /\ LET q == IF tx.free = 0 THEN Reclaimed ELSE tx
       IN  /\ q.free > 0
           /\ tx' = [q EXCEPT !.free = @ - 1,
                              !.head = (@ + 1) % QUEUE_SIZE,
                              !.pkt[q.head] = accepted + 1,
                              !.ring[q.avail % QUEUE_SIZE] = q.head,
                              !.avail = Inc(@)]
    /\ accepted' = accepted + 1
    /\ UNCHANGED <<initialized, rxVars, txDev, sent, wire>>

-----------------------------------------------------------------------------
(* The device.                                                             *)

\* A packet arrives and is stored at the address of the next descriptor that
\* was posted; a store to an address without memory has no effect.
DeviceStores(short) ==
    /\ rx.on /\ rxDev # rx.avail
    /\ arrived < MaxPackets
    /\ LET id == rx.ring[rxDev % QUEUE_SIZE]
           p  == IF short THEN 0 ELSE arrived + 1
       IN  /\ rx' = [rx EXCEPT !.pkt[id] = p,
                               !.used[rx.usedIdx % QUEUE_SIZE] = [id |-> id, short |-> short],
                               !.usedIdx = Inc(@)]
           /\ rxMem' = [s \in Slots |-> IF s \in Reached(RxAddr, id) THEN p ELSE rxMem[s]]
    /\ rxDev' = Inc(rxDev)
    /\ arrived' = IF short THEN arrived ELSE arrived + 1
    /\ UNCHANGED <<initialized, received, lost, delivered, txVars>>

\* The device sends what is at the address of the next descriptor (0: no packet)
\* and gives the descriptor back, in the order in which they were made available:
\* reclaim_tx and free_head rely on it.
DeviceSends ==
    /\ tx.on /\ txDev # tx.avail
    /\ LET id == tx.ring[txDev % QUEUE_SIZE]
       IN  /\ sent' = [count |-> sent.count + 1, last |-> tx.pkt[id]]
           /\ wire' \in IF Reached(TxAddr, id) = {} THEN {0}
                        ELSE {tx.pkt[s] : s \in Reached(TxAddr, id)}
           /\ tx' = [tx EXCEPT !.used[tx.usedIdx % QUEUE_SIZE] = [id |-> id, short |-> FALSE],
                               !.usedIdx = Inc(@)]
    /\ txDev' = Inc(txDev)
    /\ UNCHANGED <<initialized, rxVars, accepted>>

Next ==
    \/ \E hasRx, hasTx \in BOOLEAN : Initialize(hasRx, hasTx)
    \/ Receive \/ Transmit
    \/ \E short \in BOOLEAN : DeviceStores(short)
    \/ DeviceSends

Spec == Init /\ [][Next]_vars

-----------------------------------------------------------------------------
(* Properties.                                                             *)

\* In the rings, the entries of the packets reach receive once each and in the
\* order of arrival, and nothing was put through a descriptor again before receive
\* has taken its entry; no receive descriptor is ever in two places: each is
\* posted, or used and not yet read, or (the only way to lose one) came back with
\* a short packet, over wrap-arounds of both ring indices.  It is about entries
\* and descriptors, wherever their addresses lead.
ReceivesInOrder ==
    LET usedEntries == Entries(rx.used, rx.last, rx.usedIdx)
        places == Entries(rx.ring, rxDev, rx.avail)
                    \o [i \in DOMAIN usedEntries |-> usedEntries[i].id] \o lost
    IN  /\ received.last = received.count /\ received.count <= arrived
        /\ rx.on => Len(places) = QUEUE_SIZE /\ Range(places) = Slots

\* The device takes the descriptors of the packets once each, in the order of
\* transmit, and when it does the buffer of the descriptor still holds its packet:
\* none is filled again before, although descriptors are taken round robin and
\* reclaimed by number only; free descriptors, those with the device and those
\* not yet reclaimed add up.
SendsInOrder ==
    /\ sent.last = sent.count /\ sent.count <= accepted
    /\ tx.on => /\ tx.free + Distance(tx.last, tx.avail) = QUEUE_SIZE
                /\ IsInjective(Entries(tx.ring, tx.last, tx.avail))

\* What VirtqDesc says of its field addr, "Physical address of buffer": the device
\* uses the driver's buffers, so receive returns the packet that arrived and the
\* packet that transmit was given goes out.  (It does not: addr holds the virtual
\* address, and the heap is mapped above all physical memory.)
DeviceUsesTheBuffers ==
    delivered = received.last /\ wire = sent.last
=============================================================================
