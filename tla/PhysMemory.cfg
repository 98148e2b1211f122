\* Ten frames with a hole (5) and a reserved frame (0), six padding bits.
SPECIFICATION PhysSpec
CONSTANTS
    TotalFrames = 10
    Usable = {0, 1, 2, 3, 4, 6, 7, 8, 9}
    Reserved = {0}
    Tasks = {1, 2}
    STACK_PAGES = 2
    RegionPages = {0, 3}
    MaxRegions = 2
    MaxTables = 1
    Delegators = {2}
INVARIANTS
    NothingFreeBelowHint
    BitmapAccountsForAll
    FramesAccounted
    ExtentsOwnUntilFirstFree
PROPERTIES
    ImplementsPool
CHECK_DEADLOCK FALSE
