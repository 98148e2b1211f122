---------------------------- MODULE MCVirtioNet ----------------------------
(* The addresses for the runs of VirtioNet: HEAP_START of allocator.rs,    *)
(* 0xFFFF_A000_0000_0000, is above all physical memory, and the heap's     *)
(* pages are mapped to frames at its bottom.                               *)
EXTENDS VirtioNet

HeapStart == 100
MCRxAddr == [s \in 0 .. QUEUE_SIZE - 1 |-> HeapStart + s]
MCTxAddr == [s \in 0 .. QUEUE_SIZE - 1 |-> HeapStart + QUEUE_SIZE + s]
MCPhysOf == [a \in HeapStart .. HeapStart + 2 * QUEUE_SIZE - 1 |-> a - HeapStart]
=============================================================================
