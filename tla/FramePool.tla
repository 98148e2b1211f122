----------------------------- MODULE FramePool -----------------------------
(***************************************************************************)
(* What the users of the physical frame allocator rely on (Task::new,      *)
(* paging::alloc_and_map, the drivers, shared memory): a request is        *)
(* answered with a frame nobody has, and is refused only if none is left.  *)
(***************************************************************************)
EXTENDS Integers

CONSTANT NoFrame     \* the answer None

VARIABLES avail,     \* frames that can be handed out
          out,       \* frames that have been handed out
          answer     \* what the last request returned

poolVars == <<avail, out, answer>>

PoolInit == out = {} /\ answer = NoFrame

Take(f) ==
    /\ f \in avail
    /\ avail' = avail \ {f}
    /\ out' = out \cup {f}
    /\ answer' = f

Refuse ==
    /\ avail = {}
    /\ answer' = NoFrame
    /\ UNCHANGED <<avail, out>>

Release(f) ==
    /\ f \in out
    /\ avail' = avail \cup {f}
    /\ out' = out \ {f}
    /\ UNCHANGED answer

PoolNext ==
    \/ \E f \in avail : Take(f)
    \/ Refuse
    \/ \E f \in out : Release(f)

PoolSpec == PoolInit /\ [][PoolNext]_poolVars
=============================================================================
