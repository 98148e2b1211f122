\* Two tasks that sleep and exchange two requests, one that never blocks.
SPECIFICATION FairSpec
CONSTANTS
    Tasks = {b, t1, t2}
    Busy = b
    MaxTicks = 1
    MaxRequests = 2
    CheckEvery = 2
    PollEvery = 1
INVARIANTS
    BlockedWillBeWoken
    RequestEndsOnce
PROPERTY WokenUnlessMissed
