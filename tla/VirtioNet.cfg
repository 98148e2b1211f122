\* Three descriptors per queue, indices that wrap at six, eight packets each
\* way: every descriptor and both indices wrap around with the queues full.
SPECIFICATION Spec
CONSTANTS
    QUEUE_SIZE = 3
    IDX_MOD = 6
    MaxPackets = 8
    RxAddr <- MCRxAddr
    TxAddr <- MCTxAddr
    PhysOf <- MCPhysOf
INVARIANTS
    ReceivesInOrder
    SendsInOrder
CHECK_DEADLOCK FALSE
