\* Two tasks, mailboxes of two messages, three capabilities, two messages
\* numbered and any number published.
SPECIFICATION IpcSpec
CONSTANTS
    Tasks = {t1, t2}
    PermSets <- MCPermSets
    Resources <- MCResources
    Hosts = {}
    Ports = {}
    AddrMax = 0
    MaxCaps = 3
    MaxRoots = 1
    Channels = {"results"}
    MAILBOX_CAPACITY = 2
    MaxMessages = 2
SYMMETRY TaskSymmetry
INVARIANTS
    DeliveryOrder
    TransferArrivesWithRights
    SubscriptionsGranted
PROPERTIES
    TableImplemented
CHECK_DEADLOCK FALSE
