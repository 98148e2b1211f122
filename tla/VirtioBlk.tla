----------------------------- MODULE VirtioBlk -----------------------------
(***************************************************************************)
(* The block driver storage/virtio_blk.rs from the end of its init on, and *)
(* the device as the driver sees it.                                       *)
(*                                                                         *)
(* One request is made at a time, through one DMA page (header, data,      *)
(* status) and a chain of three descriptors; the driver spins until the    *)
(* device's used index moves, or gives up.  The device runs by itself: it  *)
(* fetches a request from the available ring, and some time later moves    *)
(* the data, writes the status and advances the used index.                *)
(***************************************************************************)
EXTENDS Integers

CONSTANTS QUEUE_SIZE,   \* entries of the rings and descriptors, 128
          IDX_MOD,      \* the ring indices are u16: 2^16, a multiple of QUEUE_SIZE
          Sectors, Values,
          MaxTimeouts   \* bound on the requests ever given up

ASSUME QueueAssumption ==
    /\ QUEUE_SIZE \in Nat \ {0} /\ IDX_MOD \in Nat \ {0}
    /\ IDX_MOD % QUEUE_SIZE = 0
    /\ Sectors # {} /\ Values # {}
    /\ MaxTimeouts \in Nat

VARIABLES
    descs,      \* descriptor table: part of the DMA page, WRITE flag, next
    ring,       \* avail.ring
    availIdx,   \* avail.idx
    usedIdx,    \* used.idx
    nextDesc,   \* next_desc
    lastUsed,   \* last_used_idx
    dma,        \* the DMA page: header (type, sector), data, status
    call,       \* the call in progress or the last one, with its result
    timeouts,   \* history: how many calls timed out
    fresh,      \* history: a request succeeded since the last one was made
    disk,       \* device: contents of the sectors
    fetched,    \* device: avail index up to which it has fetched
    inflight    \* device: requests fetched and not completed

driver == <<descs, ring, availIdx, nextDesc, lastUsed, call, timeouts>>
device == <<disk, fetched, inflight>>
vars == <<driver, dma, usedIdx, fresh, device>>

Slots == 0 .. QUEUE_SIZE - 1
None == QUEUE_SIZE

Inc(i) == (i + 1) % IDX_MOD

Init ==
    /\ descs = [i \in Slots |-> [part |-> "none", write |-> FALSE, next |-> None]]
    /\ ring = [i \in Slots |-> 0]
    /\ availIdx = 0 /\ usedIdx = 0 /\ nextDesc = 0 /\ lastUsed = 0
    /\ disk \in [Sectors -> Values]
    /\ dma = [type |-> "IN", sector |-> CHOOSE s \in Sectors : TRUE,
              data |-> CHOOSE v \in Values : TRUE, status |-> "OK"]
    /\ call = [state |-> "err", type |-> "IN", sector |-> dma.sector, val |-> dma.data]
    /\ timeouts = 0 /\ fresh = FALSE
    /\ fetched = 0 /\ inflight = {}

-----------------------------------------------------------------------------
(* The driver: do_block_io.                                                *)

\* Mutant of Chain: the WRITE flag is on the data of writes.
ChainFlagsSwapped(b, type) ==
    LET d1 == (b + 1) % QUEUE_SIZE
        d2 == (b + 2) % QUEUE_SIZE
    IN  [descs EXCEPT
           ![b]  = [part |-> "header", write |-> FALSE, next |-> d1],
           ![d1] = [part |-> "data", write |-> (type = "OUT"), next |-> d2],
           ![d2] = [part |-> "status", write |-> TRUE, next |-> None]]

\* The chain of three descriptors from slot b on.
Chain(b, type) ==
    LET d1 == (b + 1) % QUEUE_SIZE
        d2 == (b + 2) % QUEUE_SIZE
    IN  [descs EXCEPT
           ![b]  = [part |-> "header", write |-> FALSE, next |-> d1],
           ![d1] = [part |-> "data", write |-> (type = "IN"), next |-> d2],
           ![d2] = [part |-> "status", write |-> TRUE, next |-> None]]

\* Mutant of Fill: a request does not reset the status.
FillKeepsStatus(type, s, v) ==
    [dma EXCEPT !.type = type, !.sector = s, !.data = IF type = "OUT" THEN v ELSE @]

\* Header, the data of a write, and 0xFF as the status.
Fill(type, s, v) ==
    [dma EXCEPT !.type = type, !.sector = s, !.status = "FF",
                !.data = IF type = "OUT" THEN v ELSE @]

\* read_block and write_block up to the notification; v is what is written.
Submit(type, s, v) ==
    /\ call.state # "wait"
    /\ dma' = Fill(type, s, v)
    /\ descs' = Chain(nextDesc, type)
    /\ nextDesc' = (nextDesc + 3) % QUEUE_SIZE
    /\ ring' = [ring EXCEPT ![availIdx % QUEUE_SIZE] = nextDesc]
    /\ availIdx' = Inc(availIdx)
    /\ call' = [state |-> "wait", type |-> type, sector |-> s, val |-> v]
    /\ fresh' = FALSE
    /\ UNCHANGED <<usedIdx, lastUsed, timeouts, device>>

\* The spin loop sees the used index move: the status decides.
Completed ==
    /\ call.state = "wait"
    /\ usedIdx # lastUsed
    /\ lastUsed' = Inc(lastUsed)
    /\ call' = [call EXCEPT
                  !.state = IF dma.status = "OK" THEN "ok" ELSE "err",
                  !.val = IF dma.status = "OK" /\ call.type = "IN" THEN dma.data ELSE @]
    /\ UNCHANGED <<descs, ring, availIdx, nextDesc, timeouts, dma, usedIdx, fresh, device>>

\* The spin loop gives up.  The request stays with the device, and last_used_idx
\* behind the completion that may still come.
TimedOut ==
    /\ call.state = "wait"
    /\ usedIdx = lastUsed
    /\ timeouts < MaxTimeouts
    /\ timeouts' = timeouts + 1
    /\ call' = [call EXCEPT !.state = "err"]
    /\ UNCHANGED <<descs, ring, availIdx, nextDesc, lastUsed, dma, usedIdx, fresh, device>>

-----------------------------------------------------------------------------
(* The device.                                                             *)

\* The chain a request starts with, if it has the parts of a block request.
Data(h)   == descs[h].next
Status(h) == descs[Data(h)].next
WellFormed(h) ==
    /\ descs[h].part = "header" /\ Data(h) \in Slots
    /\ descs[Data(h)].part = "data" /\ Status(h) \in Slots
    /\ descs[Status(h)].part = "status"

\* The device takes the next request and reads its header and descriptors.
DeviceFetch ==
    /\ fetched # availIdx
    /\ LET h == ring[fetched % QUEUE_SIZE]
       IN  /\ WellFormed(h)
           /\ inflight' = inflight \cup
                {[type |-> dma.type, sector |-> dma.sector,
                  write |-> descs[Data(h)].write, at |-> fetched]}
    /\ fetched' = Inc(fetched)
    /\ UNCHANGED <<driver, dma, usedIdx, fresh, disk>>

\* The device carries out a request, with success.  It writes into the page
\* only where the descriptor allows it.
DeviceOk(r) ==
    /\ r \in inflight
    /\ inflight' = inflight \ {r}
    /\ disk' = IF r.type = "OUT" THEN [disk EXCEPT ![r.sector] = dma.data] ELSE disk
    /\ dma' = [dma EXCEPT !.status = "OK",
                          !.data = IF r.type = "IN" /\ r.write THEN disk[r.sector] ELSE @]
    /\ usedIdx' = Inc(usedIdx)
    /\ fresh' = TRUE
    /\ UNCHANGED <<driver, fetched>>

\* The device reports an error.
DeviceError(r) ==
    /\ r \in inflight
    /\ inflight' = inflight \ {r}
    /\ dma' = [dma EXCEPT !.status = "IOERR"]
    /\ usedIdx' = Inc(usedIdx)
    /\ UNCHANGED <<driver, fresh, disk, fetched>>

Next ==
    \/ \E s \in Sectors, v \in Values : Submit("OUT", s, v)
    \/ \E s \in Sectors : Submit("IN", s, dma.data)
    \/ Completed \/ TimedOut
    \/ DeviceFetch
    \/ \E r \in inflight : DeviceOk(r) \/ DeviceError(r)

Spec == Init /\ [][Next]_vars

-----------------------------------------------------------------------------
(* Properties.                                                             *)

\* Until a request times out, a call that returns Ok has been carried out: a
\* write is on the disk, and a read returned what is there, over wrap-arounds
\* of the descriptor chains and of both ring indices.
OkMeansDone ==
    call.state = "ok" /\ timeouts = 0 => disk[call.sector] = call.val

\* With any number of late completions of requests that timed out, a call that
\* returns Ok did so after the device completed some request since the call was
\* made: the 0xFF in the status byte keeps an older completion from being taken
\* for this one's.  (It may still be an older request that completed, since all
\* share one status byte and one data buffer: this is all that is left of
\* OkMeansDone then.)
OkNeedsCompletion == call.state = "ok" => fresh
=============================================================================
