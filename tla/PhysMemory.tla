----------------------------- MODULE PhysMemory -----------------------------
(***************************************************************************)
(* The users of the frame allocator: task stacks (Task::new with           *)
(* alloc_and_map, cleanup_dead_task), shared memory regions                *)
(* (ipc/shared_memory.rs) and virtqueues (setup_virtqueue of the two       *)
(* virtio drivers).  A user takes its frames one by one, so a call is a    *)
(* job of several allocator steps; no other call starts before it ends.    *)
(***************************************************************************)
EXTENDS FrameAllocator, Sequences, SequencesExt

CONSTANTS Tasks,         \* task ids; a recycled one never serves (see Scheduler)
          STACK_PAGES,
          RegionPages,   \* page counts that regions and queues are asked for
          MaxRegions,    \* bound on the regions and queues ever created
          MaxTables,     \* bound on the page-table frames ever taken
          Delegators     \* tasks with a DELEGATE capability for something else

ASSUME PhysAssumption ==
    /\ STACK_PAGES \in Nat \ {0} /\ RegionPages \subseteq Nat /\ MaxRegions \in Nat
    /\ Delegators \subseteq Tasks

VARIABLES
    job,      \* the call in progress: kind, its task, pages asked for, frames
    stacks,   \* stack_frames of the tasks that live
    born,     \* tasks that were created so far
    regions,  \* SHARED_REGIONS and queues: base and pages as recorded, frames
              \* really taken (history), owner and grants
    memCaps,  \* root capabilities for Memory: owner, base, pages, DELEGATE or not
    tables,   \* frames that map_to took for page tables
    leaked    \* history: frames of regions that could not be completed

users == <<job, stacks, born, regions, memCaps, tables, leaked>>

Idle == [kind |-> "idle", task |-> 0, pages |-> 0, got |-> <<>>]

PhysInit ==
    /\ Init
    /\ job = Idle
    /\ stacks = <<>> /\ born = {} /\ regions = <<>> /\ memCaps = {}
    /\ tables = {} /\ leaked = {}

-----------------------------------------------------------------------------
(* Starting a job.                                                         *)

Begin(kind, t, n) ==
    /\ job.kind = "idle"
    /\ job' = [kind |-> kind, task |-> t, pages |-> n, got |-> <<>>]
    /\ UNCHANGED vars

NewTask(t) ==
    /\ t \notin born
    /\ Begin("stack", t, STACK_PAGES)
    /\ born' = born \cup {t}
    /\ UNCHANGED <<stacks, regions, memCaps, tables, leaked>>

\* create_region; size 0 makes page_count 0, and still takes one frame.
CreateRegion(t, n) ==
    /\ Len(regions) < MaxRegions
    /\ Begin("region", t, n)
    /\ UNCHANGED <<stacks, born, regions, memCaps, tables, leaked>>

\* setup_virtqueue; its pages are used through the base like a region's.  The
\* DMA page of the block driver is a job of one page.
SetupVirtqueue(n) ==
    /\ n > 0 /\ Len(regions) < MaxRegions
    /\ Begin("queue", 0, n)
    /\ UNCHANGED <<stacks, born, regions, memCaps, tables, leaked>>

\* cleanup_dead_task.
CleanupDeadTask(t) ==
    /\ t \in DOMAIN stacks
    /\ job.kind = "idle"
    /\ job' = [kind |-> "free", task |-> t, pages |-> 0, got |-> stacks[t]]
    /\ stacks' = Restrict(stacks, DOMAIN stacks \ {t})
    /\ UNCHANGED <<vars, born, regions, memCaps, tables, leaked>>

-----------------------------------------------------------------------------
(* The steps of a job.                                                     *)

Wants == job.kind \in {"stack", "region", "queue"} /\ (Len(job.got) < job.pages \/ job.got = <<>>)

TakeFrame ==
    /\ Wants
    /\ AllocateFrame
    /\ job' = [job EXCEPT !.got = Append(@, Scan)]
    /\ UNCHANGED <<stacks, born, regions, memCaps, tables, leaked>>

\* map_to may need frames of its own for the page just taken.
Maps == job.kind = "stack" /\ job.got # <<>>

TakeTable ==
    /\ Maps
    /\ Cardinality(tables) < MaxTables
    /\ AllocateFrame
    /\ tables' = tables \cup {Scan}
    /\ UNCHANGED <<job, stacks, born, regions, memCaps, leaked>>

\* Mutant of OutOfFrames: the frames taken so far are forgotten by the books.
OutOfFramesUnbooked ==
    /\ Wants
    /\ AllocateNone
    /\ job' = Idle
    /\ UNCHANGED <<stacks, born, regions, memCaps, tables, leaked>>

\* Nothing is left: alloc_and_map panics (for the page or for its tables), create_region and setup_virtqueue
\* return an error and keep what they have taken.
OutOfFrames ==
    /\ Wants \/ Maps
    /\ AllocateNone
    /\ job' = IF job.kind = "stack" THEN [job EXCEPT !.kind = "halted"] ELSE Idle
    /\ leaked' = IF job.kind = "stack" THEN leaked ELSE leaked \cup Range(job.got)
    /\ UNCHANGED <<stacks, born, regions, memCaps, tables>>

FinishStack ==
    /\ job.kind = "stack" /\ Len(job.got) = job.pages
    /\ stacks' = [t \in DOMAIN stacks \cup {job.task} |->
                    IF t = job.task THEN job.got ELSE stacks[t]]
    /\ job' = Idle
    /\ UNCHANGED <<vars, born, regions, memCaps, tables, leaked>>

MemCap(t, base, n, d) == [owner |-> t, base |-> base, pages |-> n, delegate |-> d]

\* Mutant of FinishRegion: one page more than was taken is recorded.
FinishRegionRoundsUp ==
    /\ job.kind \in {"region", "queue"} /\ ~Wants
    /\ regions' = Append(regions, [owner |-> job.task, base |-> Head(job.got),
                                   pages |-> job.pages + 1, frames |-> Range(job.got),
                                   grants |-> {}])
    /\ UNCHANGED memCaps
    /\ job' = Idle
    /\ UNCHANGED <<vars, stacks, born, tables, leaked>>

\* The first frame and the page count are recorded; the owner of a region gets
\* a root capability for that range.
FinishRegion ==
    /\ job.kind \in {"region", "queue"} /\ ~Wants
    /\ regions' = Append(regions, [owner |-> job.task, base |-> Head(job.got),
                                   pages |-> job.pages, frames |-> Range(job.got),
                                   grants |-> {}])
    /\ memCaps' = IF job.kind = "queue" THEN memCaps
                  ELSE memCaps \cup {MemCap(job.task, Head(job.got), job.pages, TRUE)}
    /\ job' = Idle
    /\ UNCHANGED <<vars, stacks, born, tables, leaked>>

FreeNext ==
    /\ job.kind = "free"
    /\ FreeFrame(Head(job.got))
    /\ job' = IF Len(job.got) = 1 THEN Idle ELSE [job EXCEPT !.got = Tail(@)]
    /\ UNCHANGED <<stacks, born, regions, memCaps, tables, leaked>>

\* grant_access: any live capability of the granter with DELEGATE will do, for
\* this region, another one or no memory at all; the grantee gets a root
\* capability for the recorded range.  (Nothing is revoked here: see CapTable.)
GrantAccess(r, granter, grantee) ==
    /\ job.kind = "idle"
    /\ regions[r].owner # 0
    /\ \/ granter \in Delegators
       \/ \E c \in memCaps : c.owner = granter /\ c.delegate
    /\ regions' = [regions EXCEPT ![r].grants = @ \cup {grantee}]
    /\ memCaps' = memCaps \cup {MemCap(grantee, regions[r].base, regions[r].pages, FALSE)}
    /\ UNCHANGED <<vars, job, stacks, born, tables, leaked>>

PhysNext ==
    \/ \E t \in Tasks : NewTask(t) \/ CleanupDeadTask(t)
    \/ \E t \in Tasks, n \in RegionPages : CreateRegion(t, n)
    \/ \E n \in RegionPages : SetupVirtqueue(n)
    \/ TakeFrame \/ TakeTable \/ OutOfFrames \/ FinishStack \/ FinishRegion \/ FreeNext
    \/ \E r \in DOMAIN regions, t, u \in Tasks : GrantAccess(r, t, u)

PhysSpec == PhysInit /\ [][PhysNext]_<<vars, users>>

-----------------------------------------------------------------------------
(* Properties.                                                             *)

\* Who can have frames: page tables, abandoned jobs, the job in progress, the
\* regions and queues, and the stacks of tasks.
Users == ({"tables", "leaked", "job"} \X {0}) \cup ({"region"} \X (1 .. MaxRegions))
         \cup ({"stack"} \X Tasks)

\* The frames in the books of every user.
Shares ==
    [u \in Users |->
        CASE u[1] = "tables" -> tables
          [] u[1] = "leaked" -> leaked
          [] u[1] = "job"    -> Range(job.got)
          [] u[1] = "region" -> IF u[2] \in DOMAIN regions THEN regions[u[2]].frames ELSE {}
          [] u[1] = "stack"  -> IF u[2] \in DOMAIN stacks THEN Range(stacks[u[2]]) ELSE {}]

\* Every frame the allocator handed out is in the books of exactly one user,
\* whatever order tasks come and go in and however calls fail half-way; the
\* only ones without a user are the first pages of a region or a queue whose
\* later pages could not be had.  (Those are never given back.)
FramesAccounted ==
    /\ held = UNION {Shares[u] : u \in Users}
    /\ \A u, v \in Users : u # v => Shares[u] \cap Shares[v] = {}

\* What a region, queue or memory capability is taken to cover: consecutive
\* frames from its base on.
Extent(r) == r.base .. r.base + r.pages - 1

\* No task has died yet.
NothingFreed ==
    \A t \in born :
        t \in DOMAIN stacks \cup (IF job.kind \in {"stack", "halted"} THEN {job.task} ELSE {})

\* Frames are handed out in ascending order until the first one is given back,
\* so up to then a region's extent holds, beside its own frames, only frames
\* that nobody can be given (holes of the memory map and reserved ones), and the
\* same is true of every capability for it.  Once a task's stack was freed, an
\* extent may run over other users' frames: nothing checks that the frames of a
\* region are adjacent.
ExtentsOwnUntilFirstFree ==
    NothingFreed =>
        \A r \in Range(regions) \cup memCaps :
            \E q \in Range(regions) :
                q.base = r.base /\ Extent(r) \cap (Usable \ Reserved) \subseteq q.frames
=============================================================================
