\* Expected to fail: the descriptors hold virtual addresses.
SPECIFICATION Spec
CONSTANTS
    QUEUE_SIZE = 3
    IDX_MOD = 6
    MaxPackets = 4
    RxAddr <- MCRxAddr
    TxAddr <- MCTxAddr
    PhysOf <- MCPhysOf
INVARIANT DeviceUsesTheBuffers
CHECK_DEADLOCK FALSE
