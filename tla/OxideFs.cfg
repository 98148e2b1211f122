\* Two keys, contents of one and two blocks, a cache of three blocks under
\* images of up to six on a disk of five, two syncs, two failures.
SPECIFICATION Spec
CONSTANTS
    CACHE_SIZE = 3
    LastBlock = 4
    Paths = {1, 2, 3}
    Keys = {1, 2}
    Owner <- MCOwner
    Stored <- MCStored
    Chunks = {"a", "b"}
    Values <- MCValues
    Hash <- MCHash
    MaxBlobs = 2
    MaxFaults = 2
    MaxSyncs = 2
INVARIANTS
    CleanMatchesDisk
    GetReturnsLastSet
    BlobsStayPut
PROPERTIES
    SyncedImageLoads
CHECK_DEADLOCK FALSE
