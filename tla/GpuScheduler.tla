---------------------------- MODULE GpuScheduler ----------------------------
(***************************************************************************)
(* The inference queue gpu/scheduler.rs.  Nothing in the kernel calls it   *)
(* yet: any caller may make any call at any time.  Who may submit is       *)
(* decided by CapTable's validate with EXECUTE; agent and model ids are    *)
(* left out.                                                               *)
(***************************************************************************)
EXTENDS Integers, Sequences, FiniteSets

CONSTANTS MaxRequests,  \* bound on the requests ever submitted
          MaxTick       \* bound on the ticks of the timer

ASSUME GpuAssumption == MaxRequests \in Nat /\ MaxTick \in Nat

VARIABLES
    now,            \* ticks
    nextId,         \* NEXT_REQUEST_ID
    queue,          \* the heap, as a set: pop takes any greatest element
    current,        \* the Option, as a set of at most one request
    totalCompleted, totalFailed,
    displaced,      \* history: requests that another one took the place of
    served          \* history: the requests in the order of their dequeuing,
                    \* each with the tick when it was taken

vars == <<now, nextId, queue, current, totalCompleted, totalFailed, displaced, served>>

Urgent == 0
Normal == 1
Batch  == 2

Never == MaxTick + 1    \* deadline_tick of None

Init ==
    /\ now = 0 /\ nextId = 1 /\ queue = {} /\ current = {}
    /\ totalCompleted = 0 /\ totalFailed = 0
    /\ displaced = {} /\ served = <<>>

Tick ==
    /\ now < MaxTick
    /\ now' = now + 1
    /\ UNCHANGED <<nextId, queue, current, totalCompleted, totalFailed, displaced, served>>

\* Mutant of Before: the order of the deadlines is reversed with that of the heap.
BeforeReversed(a, b) ==
    \/ a.priority < b.priority
    \/ a.priority = b.priority /\ a.deadline > b.deadline

\* Ord: a is more urgent than b.  Equal deadlines are a tie.
Before(a, b) ==
    \/ a.priority < b.priority
    \/ /\ a.priority = b.priority
       /\ \/ a.deadline < b.deadline
          \/ a.deadline = Never /\ b.deadline = Never /\ a.submitted < b.submitted

\* submit
Submit(priority, deadline) ==
    /\ nextId <= MaxRequests
    /\ queue' = queue \cup {[id |-> nextId, priority |-> priority, deadline |-> deadline,
                             submitted |-> now]}
    /\ nextId' = nextId + 1
    /\ UNCHANGED <<now, current, totalCompleted, totalFailed, displaced, served>>

\* dequeue: also when a request is current, which is then forgotten.
Dequeue(r) ==
    /\ r \in queue
    /\ \A q \in queue : ~Before(q, r)
    /\ queue' = queue \ {r}
    /\ current' = {r}
    /\ displaced' = displaced \cup current
    /\ served' = Append(served, [req |-> r, taken |-> now])
    /\ UNCHANGED <<now, nextId, totalCompleted, totalFailed>>

\* complete_current
CompleteCurrent ==
    /\ current # {}
    /\ current' = {}
    /\ totalCompleted' = totalCompleted + 1
    /\ UNCHANGED <<now, nextId, queue, totalFailed, displaced, served>>

\* fail_current
FailCurrent ==
    /\ current # {}
    /\ current' = {}
    /\ totalFailed' = totalFailed + 1
    /\ UNCHANGED <<now, nextId, queue, totalCompleted, displaced, served>>

\* What expire_deadlines drops.
Overdue == {r \in queue : r.deadline # Never /\ now > r.deadline}

\* Mutant of ExpireDeadlines: the expired requests are not counted.
ExpireUncounted ==
    /\ Overdue # {}
    /\ queue' = queue \ Overdue
    /\ UNCHANGED <<now, nextId, current, totalCompleted, totalFailed, displaced, served>>

\* expire_deadlines
ExpireDeadlines ==
    /\ Overdue # {}
    /\ queue' = queue \ Overdue
    /\ totalFailed' = totalFailed + Cardinality(Overdue)
    /\ UNCHANGED <<now, nextId, current, totalCompleted, displaced, served>>

Next ==
    \/ Tick
    \/ \E p \in {Urgent, Normal, Batch}, d \in 1 .. Never : Submit(p, d)
    \/ \E r \in queue : Dequeue(r)
    \/ CompleteCurrent \/ FailCurrent \/ ExpireDeadlines

Spec == Init /\ [][Next]_vars

-----------------------------------------------------------------------------
(* Properties.                                                             *)

\* The entry e of served did not overtake the request b, which was still to be
\* served when e was.
NotPast(e, b) ==
    LET a == e.req
        waiting == b.submitted < e.taken
    IN  /\ waiting => b.priority >= a.priority
        /\ waiting /\ a.priority = b.priority => b.deadline >= a.deadline

\* A request is never served before one that was waiting and is of a higher
\* priority, or of the same and due earlier (without a deadline: last), however
\* submissions, expiry, which rebuilds the heap, and the timer interleave.  It
\* says nothing of requests with the same priority and deadline: the heap may
\* pop any of them.
NoOvertaking ==
    \A i, j \in DOMAIN served : i < j => NotPast(served[i], served[j].req)

\* Every request is queued, current, counted as completed or as failed, once,
\* but for those that dequeue replaced while they were still current: they are
\* counted nowhere.
RequestsAccounted ==
    nextId - 1 = Cardinality(queue) + Cardinality(current) + totalCompleted
                   + totalFailed + Cardinality(displaced)
=============================================================================
