\* Three task ids (MAX_TASKS = 4), two of them with a mailbox from boot on, and
\* two priorities: none, one or two of the other tasks are more urgent.
SPECIFICATION FairSpec
CONSTANTS
    MaxTasks = 4
    SpawnPriorities = {0, 1}
    BootMailboxes = {1, 2}
INVARIANTS
    OnePlacePerTask
    IdsPartitioned
    MailboxesMatchTasks
    CurrentIsExecuting
    ResumableUnlessStranded
PROPERTIES
    NoEmptyContextLoaded
    NoIdleWhileReady
    WaitsOnlyBehindTwoMoreUrgent
