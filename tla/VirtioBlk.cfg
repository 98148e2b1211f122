\* Seven descriptors: chains of three wrap around in all three places, and two
\* requests fit at once (one that timed out and one more); indices wrap at
\* fourteen.
SPECIFICATION Spec
CONSTANTS
    QUEUE_SIZE = 7
    IDX_MOD = 14
    Sectors = {s0, s1}
    Values = {a, b}
    MaxTimeouts = 1
INVARIANTS
    OkMeansDone
    OkNeedsCompletion
