# A TLA+ model of the OxideOS kernel

OxideOS is a small x86-64 kernel in Rust (`src/oxide-os/kernel`) that runs
"agents": kernel tasks with capabilities, mailboxes and a supervisor tree. This
directory models its core, checks it with TLC on small instances and proves the
main properties with TLAPS for all instances.

Paths below are relative to `src/oxide-os/kernel/src/`.

## The system

One CPU, one address space, no preemption: the timer interrupt only sets a flag
(and wakes sleepers), and a task gives up the CPU by calling into the scheduler.
Shared state is in statics behind spin locks.

| Component | State | Operations | Correct when |
|---|---|---|---|
| Scheduler (`task/scheduler.rs`) | three ready queues, the current task, the blocked list, the saved contexts, `NEED_RESCHEDULE` | `spawn`, `yield_now`, `block_and_yield`, `exit_current`, `unblock`, `timer_tick` | no task is lost or duplicated, the task on the CPU is the one the scheduler believes in, a task is resumed where it was suspended, every ready task runs |
| Task ids and stacks (`task/mod.rs`) | next id, free list, stack mappings | `alloc`, `free`, `Task::new`, `cleanup_dead_task` | an id in use is never handed out, none is lost |
| Capability table (`capability/`) | the capabilities ever created, each with owner, parent, rights, resource and a revoked flag | `create_root`, `delegate`, `revoke`, `validate` | rights only shrink along a delegation chain, revoking a capability disables everything below it |
| Firewall (`net/firewall.rs`) | none | `check_outbound` | it agrees with the delegation rules |
| Frame allocator (`memory/frame_allocator.rs`) | a bitmap and a search hint | `init`, `allocate_frame`, `free_frame`, `stats` | a frame is never handed out twice, "none" means none |
| IPC (`ipc/`) | mailboxes, channels, pending requests, replies, shared regions | `send`, `receive`, `publish`, `request`, `reply`, `check_timeouts`, `create_region`, `grant_access` | no wake-up is lost, a request ends once, messages arrive in order and with their capabilities |
| Deadlines (`timer/deadline.rs`, `interrupts.rs`) | a heap of deadlines, the tick counter | `schedule`, `cancel`, `tick` (in the interrupt) | every sleeper is woken |
| Agents (`agent/`) | the registry tree with its name index, restart counts | `spawn`, `kill`, `suspend`, `notify_child_death` | the tree and the index stay consistent, restarts are bounded |
| GPU scheduler (`gpu/scheduler.rs`) | a priority queue and the request that runs | `submit`, `dequeue`, `complete_current`, `fail_current`, `expire_deadlines` | urgent requests first, none lost |
| Storage (`storage/`) | the block cache, OxideFS tables, the context store, virtio rings | reads, writes, `sync`, `set`/`get` | a read returns what was written last, a crash leaves a usable disk |
| Network (`net/`) | virtio rings, the smoltcp stack | `poll`, `send`, `receive` | packets pass once and in order, descriptors are not in two places |

Interactions: `send`, `reply`, `check_timeouts` and the deadlines wake tasks in
the scheduler; the scheduler's cleanup calls the frame allocator, the mailboxes
and the id allocator; IPC, channels, shared memory and the firewall ask the
capability table; spawning an agent creates a task, a mailbox and a registry
entry. What is hard: the places where the scheduler has nothing to switch to,
work done in the timer interrupt against a thread that holds a lock, operations
that undo only part of what another one did, and failures in the middle of an
operation on several components. The list is in `PROJECT.json` under "hazards".

## Modules

### `Scheduler`, `SchedulerProofs`

`yield_now`, `block_and_yield` and `exit_current` run with interrupts disabled
up to the context switch, so each is one action; the timer, wake-ups and spawns
happen between them.

| TLA+ | Code |
|---|---|
| `nextId`, `freeList` | `IdAllocator.next`, `.free_list` |
| `mapped` | ids whose stack pages are in the page table (`paging::alloc_and_map`); nothing unmaps them |
| `mailboxes` | the keys of `MAILBOXES`; `BootMailboxes` are those `main.rs` registers before it spawns the first agent (`main.rs:168`) |
| `state`, `pri` | `Task.state`, `Task.priority` by task id; `"None"`: no task has the id |
| `queues`, `current`, `blocked` | the fields of `Scheduler` |
| `ctx`, `idleCtx` | whose registers, and which suspension of it, `CONTEXTS[i]` and `IDLE_CONTEXT` hold |
| `cpu` | the thread that really executes (0: the boot thread, later the idle loop) |
| `panic` | the panic message once the kernel spins in its panic handler |
| `stranded` | history: a task was blocked without being switched away from |

`current` and `cpu` are separate on purpose: the scheduler picks the slot to save
registers in by `current`, whichever thread really executes. `Task.state` is written only in the scheduler, and the tag a current
task carries into `reschedule` is the parameter of `YieldAs`. While the kernel
spins in the panic handler the model stands still (the interrupt may still set
the flag, which nobody reads).

`Spawn` is `lifecycle::spawn`: `Task::new`, `register_mailbox`, `Scheduler::spawn`,
in this order. It can halt the kernel in two places: in `Task::new`, before the
mailbox is registered (`SpawnPanics`), and in the assert of `Scheduler::spawn`,
after it (`SpawnAsserts`).

Bounds: `MaxTasks` is the size of `CONTEXTS` (256 in the code, 4 in the
run). Four gives three tasks: one current, one to switch to, one waiting, and
exhausting the ids takes only three spawns.

Run `scheduler` (three ids, two priorities, two mailboxes from boot; 55,428 states):
the seven safety properties proved below, and the liveness property
`WaitsOnlyBehindTwoMoreUrgent`. `MailboxesMatchTasks`: every live task has a
mailbox, and one without a live task is a boot mailbox whose id was not handed out
yet. `WaitsOnlyBehindTwoMoreUrgent`: each ready task is eventually run, unless two
more urgent ones are runnable at the same time; tasks of one priority, which is what
`agent::lifecycle::spawn` gives to every agent, thus always take turns. Two
priorities put each task above, beside and below others; a third level adds no new
relation between two tasks, and the proofs allow any. Fairness: the timer keeps
firing (hardware), and the executing thread keeps yielding; the idle loop and each
agent of `main.rs` poll `should_reschedule` in their loops. A task that never polls
is outside this assumption: nothing preempts it.

A limit of the code that a property is stated around: when the only runnable task
blocks it executes on (`stranded`), and is later resumed from an older suspension;
`ResumableUnlessStranded` excludes it.

Proved for every `MaxTasks` > 1, every set of priorities and of boot mailboxes:
`TypeOK`, `OnePlacePerTask`, `IdsPartitioned`, `MailboxesMatchTasks`,
`CurrentIsExecuting`, `ResumableUnlessStranded`, `NoEmptyContextLoaded`,
`NoIdleWhileReady`. None but `TypeOK` is inductive alone; `IInv` is their
conjunction with `Bookkeeping`: `nextId` passes `MaxTasks` only in a panic, the
stack of each live or recycled id is mapped, so that no live task's id is handed
out again, and the slot of a live task was written (this is why no empty context
is loaded). The argument: `PutBackQueues` and `NewCurrentTask` say what the two
halves of `reschedule` do to the queues, `RescheduleMoves` that every task stays
in one place, `YieldPreserves` adds the context switch for all three callers at
once; `SpawnPreserves`, `AssertPreserves` and `UnblockPreserves` are the other
actions.

### `ResourceRef`, `CapTable`, `MCCapTable`

`ResourceRef` holds `is_subset_of`, the permission tests and the firewall's
resource test. A path is the sequence of its characters, since the code uses
`starts_with`; the variants compared only by equality share one form.
`CapTable` is the table: `caps` is the sequence of all capabilities ever created
(ids count up from 1, slots are never emptied, `next_id` is the length plus
one). Each operation runs under `CAP_TABLE`'s lock and is one action; a call
that returns an error changes nothing and is not an action. `Cascade` is the
set `revoke_recursive` marks, as the least set closed under live children;
`MCCapTable` writes the recursion of the code and checks that it marks the same
set and returns its size (`CascadeIsRecursive`).

Run `captable`: two tasks, three permission sets, a wildcard and a concrete
network resource, up to four capabilities of which two are roots; chains of
length four and all trees of that size. Deadlock is not checked: the run ends
when `MaxCaps` is reached, the table itself is unbounded.

Proved for all tasks, permission sets, resources and bounds, in the first half of
`IpcProofs`: `TypeOK`, `LineageAuthorizes`, `OutboundWithinLineage`, `RightsOnlyShrink`,
`RevokesWholeSubtree`. The inductive invariant speaks of a capability and its
parent only: the child's rights are the parent's or fewer (`Attenuated`), and a
live child has a live parent (`RevocationClosed`). The step from there to the
whole lineage uses that the lineage is the least set closed under parents
(`LineageLeast`): the set of ancestors with the wanted property is closed, so it
contains the lineage. `SubsetTransitive` and `SubsetAllowsLess` are the facts
about resources.

### `FramePool`, `FrameAllocator`

`FrameAllocator` is the bitmap allocator after its `init`, for any memory map:
`Usable` are the frames of usable regions, `Reserved` those of the bitmap, the
kernel and the boot loader. The bitmap is the set of one-bits, including the
padding bits of its last byte. `held` is a history variable; `FreeFrame` is
guarded by it because the only caller of `free_frame` (`cleanup_dead_task`) gives
back what `Task::new` got. `FramePool` is what callers rely on; the allocator
refines it with `avail` as the clear bits of frames.

The run is `phys_memory` below.

Proved for every memory map, in `PhysMemoryProofs`: `NothingFreeBelowHint`,
`BitmapAccountsForAll`, `ImplementsPool`. The inductive
invariant is `TypeOK` with the first two: the refinement needs that a scan from
the hint finds the lowest free frame of all, so that "none" means none.
`NothingFreeBelowHint` also shows that the wrap-around loop of `allocate_frame`
never finds a frame.

### `Wakeups`, `WakeupsProofs`

Tasks that block until something wakes them, and the timer interrupt that does
the waking: `sys_sleep` with the deadline queue, `request`, `reply`,
`collect_reply` and `check_timeouts`. The interrupt handler is not interrupted
itself and there is one CPU, so a whole tick is one step (`Tick`), between two
steps of the running thread; the locks it can find taken are those of that
thread, and `pc` says which (`Held`). What the handler `try_lock`s it skips;
where it would wait for a lock of the thread it interrupted it never returns
(`Hang`). `sys_sleep` is one step because `SFMASK` masks interrupts from the
`syscall` instruction on. Nothing calls `request` yet; the model follows its doc
comment, the caller blocks and collects the reply when it runs again. Times are
kept as ticks left. The scheduler is reduced to `running` and `blocked`, with
one task (`Busy`) that never blocks; what happens when nothing is runnable is in
`Scheduler`. `missed`, `answered`, `timedOut` are history variables.

* `wakeups` (two sleeping and requesting tasks, two requests, waits of zero or
  one tick; 67,760 states): a request ends once, with its reply or its timeout;
  a blocked task always has an entry that will wake it, and is eventually woken,
  unless the interrupt consumed its wake-up without effect or hangs. (A tick
  that finds the scheduler locked pops the deadline and drops it,
  `timer/deadline.rs:60`: the exception is needed.) Waits of
  one tick are enough: longer ones only add ticks in which nothing is due.
  Fairness: the timer fires again and again (`WF` of `Tick \/ Hang`), the
  CPU goes on with the running thread.
* `wakeups_spin` (violation): `poll` in the interrupt spins on the network locks
  of the thread it interrupted. The heap's lock is exposed in the same way
  (`poll` and `check_timeouts` allocate), and is in the model.

Proved for any tasks, requests and waits: `BlockedWillBeWoken` and
`RequestEndsOnce`. `BlockedWillBeWoken` speaks of blocked tasks only, and must be
extended to the task on its way: one that has made its request and not blocked
yet still has it, or is in `missed`, and the request is the task's own
(`WakerExists`); with `OneRuns`, that every other task is at a point where it can
be switched away from, and only the running one is giving a reply, it is
inductive (`WakeInv`). For
`RequestEndsOnce` the ids of all requests, open or ended, must lie below the next
one (`IdsFresh`), or a new request could take the id of an old one.

### `PhysMemory`, `PhysMemoryProofs`

Extends `FrameAllocator` with everything that takes or returns frames: task
stacks with their page tables, shared regions, virtqueues. A call takes its
frames one by one, so it is a `job` of several allocator steps and may fail at
each; `stacks`, `regions`, `tables` and `leaked` are the books of the users.
`memCaps` are the memory capabilities that `create_region` and `grant_access`
create. `grant_access` asks for a capability with `DELEGATE`, for whatever resource
(its comment says "on the region"): `Delegators` are the tasks that have one besides
their memory capabilities.

Run `phys_memory` (ten frames with a hole and a reserved one, so six padding
bits; two tasks, regions of no or three pages; 352,611 states): memory runs out
in every kind of job. `FramesAccounted`: each frame handed out belongs to one
user. The first pages of a region or a queue that could not be completed belong
to nobody and are never returned (`leaked`). `ExtentsOwnUntilFirstFree`: a region
is described by its first frame and a length; that is right only while frames
come in ascending order, that is until a task dies. Afterwards a region, and
each memory capability for it, may cover frames of other users. The refinement
of `FramePool` is checked here under the real callers, who discharge the
guard of `FreeFrame`.

Proved for every memory map and any tasks, stack size, page counts and regions:
`FramesAccounted`, `ExtentsOwnUntilFirstFree`, and that every step of the users
is a step of the allocator or leaves it alone (`AllocatorTheorem`), which carries
the theorems of the allocator over (`UsersSeePool`). `FramesAccounted` is
inductive with the shape of the books (`UsersOK`): a frame is held once before it
is passed on, and the proof follows it from one user to the next (`DividesGrow`,
`DividesShrink`, `DividesMove`: a set divided among users stays so when a user
gains, loses or hands over a part). `ExtentsOwnUntilFirstFree` needs that,
before the first free, every held frame is below the search hint and the frames
of the job in progress are all that can be handed out between its first one and
the hint (`Ascending`), and that each memory capability covers what was recorded
for some region (`CapsRecorded`).

### `Ipc`, `MCIpc`, `IpcProofs`

Extends `CapTable`, whose actions interleave with those of mailboxes and
channels. `boxes` is `MAILBOXES`, `subs` the subscribers of `CHANNELS`, `nextId`
is `NEXT_MSG_ID`; a message is reduced to its id (0 for published ones) and the
capability it carries. `Send` is the whole of `send`: it may delegate the
capability and then find no mailbox or a full one; then the delegation and the
id stay used, and the error is the only trace. `RegisterMailbox` replaces a mailbox
that is there already by an empty one, as it happens at boot, where the ids 1 to 4
are registered by `main.rs` and again by `lifecycle::spawn`.

Run `ipc` (two tasks, mailboxes of two, three capabilities, two numbered
messages; 816,919 states): `DeliveryOrder`, `TransferArrivesWithRights` and
`SubscriptionsGranted`, and `TableImplemented`, that everything messages do to
the table is something the table's own operations may do, so the theorems about
the table hold of the composition. Two messages are enough for order; a
full box takes two published ones or one of each. A subscription outlives
the capability it was made with and the subscriber (`publish` asks for
neither).

Proved for any tasks, rights, resources, mailbox size and number of messages: all
four. `TableImplemented` is by cases over `IpcNext`: what changes `caps` is
`Delegate` inside `send`, or an action of the table itself; so the table's
invariant holds in the composition (`TableInvariant`) and the other proofs use
it. `DeliveryOrder` needs that no number in a box reaches `nextId` and that what
was read is below what waits; `TransferArrivesWithRights` counts, so its
step adds one message and one grant at a time, and uses that capabilities are
never removed or changed but by revocation.

### `Agents`

The registry as one record, `reg`, and the functions `kill`,
`notify_child_death` and `escalate` as mutually recursive operators from
registry to registry, called in the code's order; no thread is switched in
between, so a call is one step. `named` and `spawned` are history variables.
`spawn` checks nothing about its parent's id; the model takes parents among the
ids handed out so far, registered or gone, or none. All callers in `main.rs` do;
an agent that named itself or an id yet to come as its parent could become its own
ancestor, and `kill` would not return.

Run `agents` (four agents in any tree, all distinct policies, one restart before
escalation): `TreeConsistent`, `KillTakesOneSubtree`, `NameIndexSound`. Four
agents give an escalation over two levels with a sibling beside it. What the
model shows besides: a kill that escalates is reported to the grandparent by
`kill` and again by `escalate`, so one death may use up several restarts;
spawning under a parent that is gone leaves a dangling `parent`; with two agents
of one name the death of either hides the other; `RestartAll` counts like
`RestartOne`, and nothing is restarted; killing an agent leaves its task running
(`Scheduler`).

### `VirtioBlk`, `VirtioBlkProofs`

The block driver after `init`, and the device beside it (external: modelled from
what the driver relies on). `descs`, `ring`, the indices and the one DMA page
are shared memory; the device fetches requests in order and completes them in
any order, at any time, with success or error. Ring indices are modulo
`IDX_MOD` (2^16 in the code, a multiple of the queue size). The device's queue
is taken to have `QUEUE_SIZE` entries: the driver lays the rings out for that
size whatever the device reports.

Run `virtio_blk` (seven descriptors, so that chains of three wrap at each
position; indices modulo fourteen; one time-out): `OkMeansDone` until the first
time-out, `OkNeedsCompletion` also after it. After a time-out an `Ok` may come
from the completion of the older request, since all share one status byte and
data buffer.

Proved for any queue size, index width, disk and number of time-outs: both. Until
the first time-out a call goes through four phases, `Idle`, `Posted`, `Taken`,
`Finished`, each of which fixes the distance of the two pairs of indices and what
the device holds; the descriptor chain matters only in `Posted`, where
`ChainLemma` says that a chain the device accepts has its three parts in three
slots, wherever it wraps. For `OkNeedsCompletion` it is enough that an OK in the
status byte of a waiting call is fresh. The only assumptions are those of
`QueueAssumption`.

### `BlockCache`, `OxideFs`, `MCOxideFs`, `OxideFsProofs`

`BlockCache` is the write-back cache over a disk whose single reads and writes may
fail: `cache` and `lru` (the order of `access_count`). A write that fails leaves the
disk as it was, and all four properties below rest on it; one that timed out in the
driver and is completed late is the subject of `VirtioBlk`. Nothing in the kernel
calls `sync_to_disk` yet (`TODO.md:11` lists persistence as open); the model takes
it to be called at any time between two operations. `OxideFs` extends it with the file system and the context
store:

| TLA+ | Code |
|---|---|
| `index`, `blobs`, `hashes`, `nextBlob` | the fields of `OxideFs` |
| `store` | `ContextStore.cache`, by path |
| `job` | how far `sync_to_disk`, `flush` or `load_from_disk` has come: the loop variables |
| `expected`, `synced`, `run`, `damaged` | history |

`sync_to_disk` and `load_from_disk` take one step for each block they write or
read, each with its outcome `ok`, and power may fail between any two steps
(`Reboot`). A write past the end of the disk fails like any other. Contents are
sequences of chunks of a block each; a block is a record of its kind. A block that
cannot be read counts as zeros, as in the code; a load that meets a block of
another kind would take arbitrary bytes for sizes and ids, or panic, and stays in
`garbled` until the next boot. `Hash` is a parameter of the model; the run uses one
under which everything collides.

Run `oxidefs` (two keys, one of them longer than 255 bytes and cut to a third
path; contents of one and two blocks; a cache of three blocks under images of up
to six on a disk of five, so that blocks are evicted in the middle of a sync and a
load, and the disk is full; two syncs, two faults; 275,565 states):
`CleanMatchesDisk`, `GetReturnsLastSet`, `SyncedImageLoads`, `BlobsStayPut`. Two
syncs make the second overwrite the first, and two faults are a failed write and a
power failure, or two power failures.

What the properties are stated around:

* A sync whose write-back failed reports success; only `run.ok` knows. Such a sync
  is not a good one (`synced`).
* A power failure in a sync can destroy the index behind the blobs: the superblock
  already counts the new blobs, and the old index is read where they belong.
* `damaged`: a load met a block it could not read or of the wrong kind, or ids that
  contradict each other: a blob whose id does not ascend or is still to be given by
  the superblock's `next`, an entry whose blob is not there. These come from
  a superblock that was lost while later blocks were written, or the other way
  round, and `load_from_disk` accepts them: afterwards an entry without its blob
  adopts the contents of the next blob that gets its id, and a new blob replaces a
  loaded one. `GetReturnsLastSet` and `BlobsStayPut` hold until then;
  `SyncedImageLoads` and `CleanMatchesDisk` hold afterwards too.

Proved for any paths, cut in any way, any contents and hash function, any size of
cache and disk, and any number of syncs and faults: all four
(`CacheIsSound`, `LastSetIsRead`, `SyncedBlobsStay`, `SyncedImageComesBack`). They
share one inductive invariant, `IInv`, whose parts follow an image from memory
through the cache to the disk and back:

* `RunInv` and `FlushInv`: what this sync wrote is dirty in the cache or was written
  back, unless a write-back failed; what flush has passed is on the disk. This makes
  the whole image reach the disk when no write was lost.
* `SyncInv` and `ImageInv`: where in the image the blobs and entries written so far
  are. `Layout` says it of blobs: in the order of their ids, one right behind the
  other, from block 1. That alone determines each place, so it is what makes a sync
  write the old blobs where they are (`SameInv`) and a load find them.
* `SyncedInv`: the image of the last good sync is on the disk, block by block, until
  the next sync begins.
* `ExtendsInv` and `StayInv`: the blobs of the last good sync come first in memory,
  and are on the disk and in the cache with a superblock that counts at least them.
  Both need each other: a load finds them because they stayed, and the next sync
  leaves them because they were loaded.
* `LoadInv`: how far a load has come through that image. It is stated for a load
  that can be trusted (`Trusted`): without damage so far, or with the last good sync
  intact and every block read; the first gives `ExtendsInv` after the load, the
  second `SyncedImageLoads`.
* `UpInv`: the tables agree with each other and with `expected`. `Sound` is needed
  because a new blob must not have an id that some entry names already.

The action property `SyncedImageLoads` follows from `IInv` step by step: with an
intact image the superblock, each blob and each entry is found where the load looks
(`SuperIsFound`, `BlobsAreFound`, `FilesAreFound`), so only `LoadEnd` can end the
load, and there nothing is left (`LoadIsExact`). `IInv` was checked by TLC on the
instance of the run before it was proved.

### `VirtioNet`, `VirtioNetProofs`

The network driver's two queues (`rx`, `tx`) and the device, as in `VirtioBlk`;
`receive` and `transmit` run under the lock `DEVICE`. The device is taken to
complete transmissions in order: `reclaim_tx` counts used entries without
reading them, so the driver relies on it.

What passes through the rings is kept apart from what is in memory. `pkt` is the
packet last put through a descriptor; `rxMem` is what the driver finds in a receive
buffer, `delivered` what `receive` returned and `wire` what the device sent.
The driver uses a buffer at its virtual address (`RxAddr`, `TxAddr`), the
device at the address in the descriptor (`DescAddr`), taken as a physical one;
`PhysOf` is the page table. `Reached` are the buffers that the device gets to.
`MCVirtioNet` gives the runs a heap above all physical memory, as `allocator.rs:17`
does.

* `virtio_net` (three descriptors a queue, indices modulo six, eight packets
  each way; 41,777 states): `ReceivesInOrder`, `SendsInOrder`, over full queues and
  wrap-arounds. Both speak of ring entries and descriptors, wherever the addresses
  lead. A packet of no more than its header costs a receive descriptor for good
  (`lost`); after `QUEUE_SIZE` of them nothing is received any more.
* `virtio_net_addresses` (violation of `DeviceUsesTheBuffers`): `setup_virtqueue`
  puts the virtual address into the descriptor (`virtio_net.rs:375`; the physical
  one of line 370 is not used), so the device does not reach the buffer, although
  line 57 says "Physical address of buffer". Line 375 expects an emulator to accept
  it; the virtio interface has no such translation, and the block driver next to it
  passes physical addresses. If `DescAddr` were the physical address, the property
  would hold on this instance.

Proved for any queue size, any wider index range that it divides (the code has
2^16) and any number of packets: both. The invariants forget the wrap-around: they
number all entries ever made, and the k-th has index `Idx(k)` and slot `Slot(k)`,
the remainders of k. `WindowLemma` says that entries which are in a ring together
can be told apart by either; it and `IdxLemma` rest on a few facts about
remainders, proved from division with remainder. For transmission
(`TxInv`) the packets accepted, sent and reclaimed are three such numbers at most
`QUEUE_SIZE` apart, and every entry between them is in the slot of its number,
which is why counting is enough for `reclaim_tx`. For reception (`RxInv`) the
entries read, used and posted are one line of descriptors (`At`): the device moves
the border inside it, and `receive` moves the first one to the end or loses it,
so none is ever twice in it; a function counts the full packets before each used
entry, which gives the order.

### `GpuScheduler`, `GpuSchedulerProofs`

The heap is a set from which `Dequeue` takes any request with no more urgent one;
this covers every order a binary heap can produce among equals.

Run `gpu` (three requests, three priorities, two ticks; 2.6 million states):
`NoOvertaking` and `RequestsAccounted`. `dequeue` while a request is current
displaces it, and it is counted nowhere (`displaced`). Requests with the same priority
and deadline may be served in any order.

Proved for any number of requests and ticks: both. `NoOvertaking` relates requests
that were served; the invariant says the same of a served request and one that
still waits (`QueueNotPast`), and that nothing was submitted in the future.
`RequestsAccounted` needs that the queue, the current request and the displaced
ones are disjoint, which holds because ids are fresh (`PlacesOK`).

## Where the code and its comments disagree

Two disagreements have a run of their own that refutes what the comment says:
`wakeups_spin` (`net/socket.rs:42`) and `virtio_net_addresses`
(`net/virtio_net.rs:57`). The others are behaviours of the model, and TLC shows each
in a few steps when it is given the formula as an invariant or property:

* `task/mod.rs:83`, "IDs are reused after tasks die", and `TODO.md:36`, which calls
  recycling fixed. Nothing unmaps the stack of a dead task (`TODO.md:14`), and its
  place is computed from the id, so the spawn that takes the id from the free list
  halts the kernel in `map_to`. `Scheduler`: `panic # "map_to failed"` is violated.
* `task/scheduler.rs:131`, "each yield rotates to the next ready task regardless of
  priority". `pick_next_fair` takes the first level that has another task, so two
  tasks of a more urgent priority hand the CPU to each other while a third waits.
  `Scheduler` with `FairSpec`: `state[t] = "Ready" ~> state[t] # "Ready" \/ panic #
  "none"` is violated; `WaitsOnlyBehindTwoMoreUrgent` is what holds instead. Only
  `lifecycle.rs:26` creates tasks, all of `Priority::Normal`, so the kernel as it
  boots does not get there.
* `task/scheduler.rs:266`, "Should never reach here". When the only runnable task
  exits, `yield_now` has nothing to switch to and returns, and `exit_current` runs
  into its `unreachable!()`. `Scheduler`: `panic # "dead task resumed"` is violated.
* `memory/frame_allocator.rs:156` prints `stats()` as "frames free"; it subtracts all
  one-bits of the bitmap, so each padding bit of the last byte makes it one too low.
  `FrameAllocator`: `TotalFrames - Cardinality(bitmap) = Cardinality(Frames \ bitmap)`
  is false in the initial state.
* `gpu/scheduler.rs:39`, "Tie-break by deadline then submit time". Two equal
  deadlines compare as equal, and the submission time is looked at only when neither
  request has a deadline. `GpuScheduler`: a request may be served before one of the
  same priority and deadline that was submitted earlier; `NoOvertaking` speaks of
  priority and deadline only.
* `ipc/shared_memory.rs:67`, "requires DELEGATE on the region": any live capability
  of the granter with `DELEGATE` will do (`GrantAccess`, `Delegators`).

## What is only model-checked

* The liveness properties `WaitsOnlyBehindTwoMoreUrgent` and `WokenUnlessMissed`:
  fairness is outside what TLAPS proves.
* `CascadeIsRecursive` and all of `Agents`: they rest on recursive operators,
  as the code is mutually recursive there.
* The two properties that the code does not have and a run refutes:
  `SocketLocksNeverDeadlock` and `DeviceUsesTheBuffers`.

All other properties of the runs are theorems.

Some properties that hold make an exception for a loss the code allows, and a
history variable marks it: `stranded` (`ResumableUnlessStranded`), `missed` and a
hung interrupt (`BlockedWillBeWoken`, `WokenUnlessMissed`), `leaked`
(`FramesAccounted`), `lost` (`ReceivesInOrder`), `displaced` (`RequestsAccounted`),
`damaged` and `run.ok` (`GetReturnsLastSet`, `BlobsStayPut`, `SyncedImageLoads`).
They show that this loss is the only one, not that it does not happen; the notes of
the hazards in `PROJECT.json` say which hazard is meant.

Deadlock checking is off (`CHECK_DEADLOCK FALSE`) in the runs whose bounds on
ever-growing counters (capabilities, messages, agents, regions, faults, packets,
requests) end the behaviour; the programs themselves go on.

## Not modelled

* PCI enumeration and the register handshakes of the drivers' `init`, APIC, GDT,
  serial port: hardware I/O without state of its own.
* The network stack and its clients (`net/stack.rs`, `socket.rs`, `dns.rs`,
  `http.rs`, `tls.rs`): the protocols are the smoltcp library's, the rest is polling
  and formatting. The locks they take against the interrupt are in `Wakeups`.
* Cryptographic primitives: numeric functions without state.
* User processes: the ELF loader is not reached from `main.rs`.
* Register contents, page-table layout, formatting and logging everywhere.
* Operations without a caller that change nothing others depend on: `cancel` of a
  deadline, the per-task capability list.

## What could follow

* `Agents`: the recursion of `kill`, `notify_child_death` and `escalate` as single
  steps with an explicit stack of calls, so that `TreeConsistent` and
  `NameIndexSound` can be proved of the steps.
* `OxideFs` over `VirtioBlk` instead of a disk that writes or fails: a write that
  timed out may reach the disk after a later one.
