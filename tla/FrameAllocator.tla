--------------------------- MODULE FrameAllocator ---------------------------
(***************************************************************************)
(* The bitmap allocator of physical frames, memory/frame_allocator.rs,     *)
(* from the end of its init on.  Every call runs under the FRAME_ALLOCATOR *)
(* lock.  The bitmap is the set of its one-bits; it has whole bytes, so    *)
(* past the last frame there are padding bits, which new() sets too.       *)
(***************************************************************************)
EXTENDS Integers, FiniteSets

CONSTANTS TotalFrames,   \* frames up to the highest usable address
          Usable,        \* frames of the memory map's usable regions
          Reserved       \* frames of the bitmap, the kernel and the boot loader

ASSUME TotalAssumption == TotalFrames \in Nat \ {0}
ASSUME RegionsAssumption ==
    Usable \subseteq 0 .. TotalFrames - 1 /\ Reserved \subseteq 0 .. TotalFrames - 1

VARIABLES bitmap,     \* bits that are set
          next_free,  \* where the search starts
          held,       \* history: frames handed out and not given back
          answer      \* what the last allocate_frame returned

vars == <<bitmap, next_free, held, answer>>

NoFrame == -1
Frames  == 0 .. TotalFrames - 1
Bits    == 0 .. 8 * ((TotalFrames + 7) \div 8) - 1
Padding == Bits \ Frames

\* init: new() sets every bit, the usable regions are marked free, then the
\* bitmap itself and the protected regions are marked used.
Init ==
    /\ bitmap = (Bits \ Usable) \cup Reserved
    /\ next_free = 0
    /\ held = {} /\ answer = NoFrame

-----------------------------------------------------------------------------

\* The clear bits of the two loops of allocate_frame, and the one it takes.
AtHint    == {i \in next_free .. TotalFrames - 1 : i \notin bitmap}
BelowHint == {i \in 0 .. next_free - 1 : i \notin bitmap}
Lowest(S) == CHOOSE i \in S : \A j \in S : i <= j
Scan      == Lowest(IF AtHint # {} THEN AtHint ELSE BelowHint)

\* Mutant of AllocateFrame: the bit is not set.
AllocateUnmarked ==
    /\ AtHint \cup BelowHint # {}
    /\ next_free' = Scan + 1
    /\ held' = held \cup {Scan}
    /\ answer' = Scan
    /\ UNCHANGED bitmap

AllocateFrame ==
    /\ AtHint \cup BelowHint # {}
    /\ bitmap' = bitmap \cup {Scan}
    /\ next_free' = Scan + 1
    /\ held' = held \cup {Scan}
    /\ answer' = Scan

AllocateNone ==
    /\ AtHint \cup BelowHint = {}
    /\ answer' = NoFrame
    /\ UNCHANGED <<bitmap, next_free, held>>

\* Mutants of FreeFrame: the hint is not lowered; the bit is not cleared.
FreeKeepsHint(f) ==
    /\ f \in held
    /\ bitmap' = bitmap \ {f}
    /\ held' = held \ {f}
    /\ UNCHANGED <<next_free, answer>>

FreeKeepsBit(f) ==
    /\ f \in held
    /\ next_free' = IF f < next_free THEN f ELSE next_free
    /\ held' = held \ {f}
    /\ UNCHANGED <<bitmap, answer>>

\* free_frame.  Its one caller, cleanup_dead_task, gives back each frame that
\* Task::new was given, once.
FreeFrame(f) ==
    /\ f \in held
    /\ bitmap' = bitmap \ {f}
    /\ next_free' = IF f < next_free THEN f ELSE next_free
    /\ held' = held \ {f}
    /\ UNCHANGED answer

Next ==
    \/ AllocateFrame
    \/ AllocateNone
    \/ \E f \in Frames : FreeFrame(f)

Spec == Init /\ [][Next]_vars

-----------------------------------------------------------------------------
(* Properties.                                                             *)

TypeOK ==
    /\ bitmap \subseteq Bits
    /\ next_free \in 0 .. TotalFrames
    /\ held \subseteq Frames
    /\ answer \in Frames \cup {NoFrame}

\* No frame below next_free is free, in whatever order frames were taken and
\* given back: free_frame lowers the hint far enough.  So the wrap-around loop
\* of allocate_frame never finds anything, and the lowest free frame is taken.
NothingFreeBelowHint == BelowHint = {}

\* The bitmap accounts for every frame: a bit is set exactly for the frames
\* that are handed out, were never usable, or are reserved, and the padding.
BitmapAccountsForAll ==
    /\ bitmap = Padding \cup (Frames \ Usable) \cup Reserved \cup held
    /\ held \cap Reserved = {} /\ held \subseteq Usable

\* The allocator implements the pool its callers rely on: never a frame that
\* somebody has, None only when nothing is left.
Pool == INSTANCE FramePool WITH avail <- Frames \ bitmap, out <- held
ImplementsPool == Pool!PoolSpec
=============================================================================
