----------------------------- MODULE Scheduler -----------------------------
(***************************************************************************)
(* The kernel's task scheduler: task/scheduler.rs with the parts of        *)
(* task/mod.rs (task ids, stacks, cleanup) and agent/lifecycle.rs (spawn)  *)
(* that it is driven by.                                                   *)
(*                                                                         *)
(* There is one CPU.  yield_now, block_and_yield and exit_current run with *)
(* interrupts disabled from their first instruction to the context switch, *)
(* so each of them is one step; between two steps the timer interrupt may  *)
(* fire and wake-ups may arrive.  "current" is the task the scheduler      *)
(* believes is running, "cpu" the thread whose stack is really executing   *)
(* (0 is the boot thread, which becomes the idle loop of main.rs).         *)
(***************************************************************************)
EXTENDS Integers, Sequences, SequencesExt

CONSTANTS MaxTasks,         \* size of the CONTEXTS array; a task id is below it
          SpawnPriorities,  \* the priorities tasks are spawned with
          BootMailboxes     \* ids main.rs registers mailboxes for at boot

ASSUME MaxTasksAssumption == MaxTasks \in Nat /\ MaxTasks > 1
ASSUME PrioritiesAssumption == SpawnPriorities \subseteq 0 .. 2
ASSUME BootMailboxesAssumption == BootMailboxes \subseteq Nat \ {0}

VARIABLES
    nextId,      \* IdAllocator.next
    freeList,    \* IdAllocator.free_list, a stack of recycled ids
    mapped,      \* ids whose stack slot is mapped in the page table
    mailboxes,   \* keys of MAILBOXES
    state,       \* Task.state of each id ("None": no task has the id)
    pri,         \* Task.priority of each id
    queues,      \* Scheduler.queues, one ready queue per priority
    current,     \* Scheduler.current, 0 for None
    blocked,     \* Scheduler.blocked (only looked up by id: a set)
    ctx,         \* what CONTEXTS[slot] holds
    idleCtx,     \* thread whose registers IDLE_CONTEXT holds, -1 for none
    cpu,         \* the thread that is executing
    needResched, \* NEED_RESCHEDULE
    panic,       \* the message the kernel halted with, "none" while it runs
    stranded     \* history: some task was blocked without being switched out

vars == <<nextId, freeList, mapped, mailboxes, state, pri, queues, current,
          blocked, ctx, idleCtx, cpu, needResched, panic, stranded>>

idVars == <<nextId, freeList, mapped, mailboxes>>
schedVars == <<state, pri, queues, current, blocked>>
cpuVars == <<ctx, idleCtx, cpu, needResched>>

Ids == 1 .. MaxTasks - 1
Slots == 0 .. MaxTasks - 1
Prios == 0 .. 2                    \* Realtime, Normal, Background
States == {"None", "Ready", "Running", "Blocked"}
Panics == {"none", "map_to failed", "out of physical memory",
           "task ID exceeds MAX_TASKS", "dead task resumed"}

\* "Fresh": the entry context of a task that never ran; "Saved": registers
\* of the task's thread at its last switch; "Stale": the thread has run on
\* since (it is executing, or was saved elsewhere); "Empty": never written.
Contexts == {"Empty", "Fresh", "Saved", "Stale"}

Live == {t \in Ids : state[t] # "None"}

\* The kernel when main.rs has registered its mailboxes and is about to spawn
\* the first agent.
Init ==
    /\ nextId = 1 /\ freeList = <<>> /\ mapped = {}
    /\ mailboxes = BootMailboxes
    /\ state = [t \in Ids |-> "None"]
    /\ pri = [t \in Ids |-> 1]
    /\ queues = [p \in Prios |-> <<>>]
    /\ current = 0 /\ blocked = {}
    /\ ctx = [s \in Slots |-> "Empty"] /\ idleCtx = -1
    /\ cpu = 0 /\ needResched = FALSE
    /\ panic = "none" /\ stranded = FALSE

-----------------------------------------------------------------------------
(* Task ids and task creation.                                             *)

\* IdAllocator::alloc: the most recently freed id, else the next unused one.
NewId == IF freeList # <<>> THEN Last(freeList) ELSE nextId

AllocId ==
    IF freeList # <<>>
    THEN freeList' = Front(freeList) /\ UNCHANGED nextId
    ELSE nextId' = nextId + 1 /\ UNCHANGED freeList

\* lifecycle::spawn: Task::new, register_mailbox, then Scheduler::spawn.
Spawn(p) ==
    /\ panic = "none"
    /\ NewId \notin mapped
    /\ NewId < MaxTasks
    /\ AllocId
    /\ mapped' = mapped \cup {NewId}
    /\ mailboxes' = mailboxes \cup {NewId}
    /\ state' = [state EXCEPT ![NewId] = "Ready"]
    /\ pri' = [pri EXCEPT ![NewId] = p]
    /\ ctx' = [ctx EXCEPT ![NewId] = "Fresh"]
    /\ queues' = [queues EXCEPT ![p] = Append(@, NewId)]
    /\ UNCHANGED <<current, blocked, idleCtx, cpu, needResched, panic, stranded>>

\* Task::new halts the kernel when alloc_and_map finds the page of the slot
\* already mapped, or no frame left.  Mailbox and queues are untouched then (the
\* pages of the slot that were mapped before are of no use to a halted kernel).
SpawnPanics ==
    /\ panic = "none"
    /\ AllocId
    /\ panic' \in {"out of physical memory"}
                  \cup {m \in {"map_to failed"} : NewId \in mapped}
    /\ UNCHANGED <<mapped, mailboxes, schedVars, cpuVars, stranded>>

\* Scheduler::spawn's assert halts it when the stack is mapped and the mailbox
\* registered already.
SpawnAsserts ==
    /\ panic = "none"
    /\ NewId \notin mapped
    /\ NewId >= MaxTasks
    /\ AllocId
    /\ mapped' = mapped \cup {NewId}
    /\ mailboxes' = mailboxes \cup {NewId}
    /\ panic' = "task ID exceeds MAX_TASKS"
    /\ UNCHANGED <<schedVars, cpuVars, stranded>>

-----------------------------------------------------------------------------
(* Choosing the next task.                                                 *)

\* The tasks of a queue that pick_next_fair's first pass looks for.
Others(q, last) == {i \in DOMAIN q : q[i] # last}

First(S) == CHOOSE x \in S : \A y \in S : x <= y

\* Mutant of PickNextFair: no second pass.
PickNextOther(qs, last) ==
    LET fair  == {p \in Prios : Others(qs[p], last) # {}}
    IN  IF fair # {} THEN <<First(fair), First(Others(qs[First(fair)], last))>>
        ELSE <<>>

\* Mutant of PickNextFair: pop_back instead of pop_front.
PickNewest(qs, last) ==
    LET fair  == {p \in Prios : Others(qs[p], last) # {}}
        ready == {p \in Prios : qs[p] # <<>>}
        Newest(S) == CHOOSE x \in S : \A y \in S : y <= x
    IN  IF fair # {} THEN <<First(fair), Newest(Others(qs[First(fair)], last))>>
        ELSE IF ready # {} THEN <<First(ready), 1>>
        ELSE <<>>

\* <<level, position>> of the task pick_next_fair takes out of the queues:
\* the first one that is not last in the first level that has one, else the
\* head of the first non-empty level (pick_next); <<>> when none is ready.
PickNextFair(qs, last) ==
    LET fair  == {p \in Prios : Others(qs[p], last) # {}}
        ready == {p \in Prios : qs[p] # <<>>}
    IN  IF fair # {} THEN <<First(fair), First(Others(qs[First(fair)], last))>>
        ELSE IF ready # {} THEN <<First(ready), 1>>
        ELSE <<>>

-----------------------------------------------------------------------------
(* yield_now, with the state that current carries when it is called.       *)

\* Mutants of CleanupDeadTask: the id is not recycled; the mailbox is kept.
CleanupLeaksId(t) ==
    /\ mailboxes' = mailboxes \ {t}
    /\ UNCHANGED <<nextId, mapped, freeList>>

CleanupKeepsMailbox(t) ==
    /\ freeList' = Append(freeList, t)
    /\ UNCHANGED <<nextId, mapped, mailboxes>>

\* cleanup_dead_task: the stack's frames, the mailbox and the id are given
\* back; the stack's pages stay mapped.
CleanupDeadTask(t) ==
    /\ mailboxes' = mailboxes \ {t}
    /\ freeList' = Append(freeList, t)
    /\ UNCHANGED <<nextId, mapped>>

\* reschedule, first half: the queues with a current task that is still
\* runnable put back, and its new state ("None": dropped after the cleanup).
PutBack(tag) ==
    IF current # 0 /\ tag \in {"Running", "Ready"}
    THEN [queues EXCEPT ![pri[current]] = Append(@, current)]
    ELSE queues

StateAfter(tag) ==
    IF tag \in {"Running", "Ready"} THEN "Ready"
    ELSE IF tag = "Dead" THEN "None" ELSE "Blocked"

\* reschedule, second half: the place of the next task, and the task.
Chosen(tag) == PickNextFair(PutBack(tag), current)
NewCurrent(tag) ==
    IF Chosen(tag) = <<>> THEN 0
    ELSE PutBack(tag)[Chosen(tag)[1]][Chosen(tag)[2]]

Reschedule(tag) ==
    /\ current' = NewCurrent(tag)
    /\ queues' = IF Chosen(tag) = <<>> THEN PutBack(tag)
                 ELSE [PutBack(tag) EXCEPT ![Chosen(tag)[1]] =
                                        RemoveAt(@, Chosen(tag)[2])]
    /\ state' = [t \in Ids |-> IF t = NewCurrent(tag) THEN "Running"
                               ELSE IF t = current THEN StateAfter(tag)
                               ELSE state[t]]
    /\ blocked' = IF current # 0 /\ tag = "Blocked"
                  THEN blocked \cup {current} ELSE blocked
    /\ IF current # 0 /\ tag = "Dead"
       THEN CleanupDeadTask(current) ELSE UNCHANGED idVars
    /\ UNCHANGED pri

\* Mutants of Switches: slot 0 is loaded when nothing is ready; the idle loop
\* is never switched out.
SwitchesToNone == current # current'
SwitchesFromTask == current # current' /\ current' # 0 /\ current # 0

\* Whether yield_now calls context_switch.
Switches == current # current' /\ current' # 0

\* Mutant of ContextSwitch: every thread is saved in IDLE_CONTEXT.
ContextSwitchToIdle ==
    /\ cpu' = current'
    /\ idleCtx' = cpu
    /\ ctx' = [ctx EXCEPT ![current'] = "Stale"]

\* context_switch(old, new): the executing thread's registers go to the slot
\* of the scheduler's old task (IDLE_CONTEXT for none), the new task's slot
\* is loaded and its contents are stale from then on.
ContextSwitch ==
    /\ cpu' = current'
    /\ idleCtx' = IF current = 0 THEN cpu ELSE idleCtx
    /\ ctx' = [s \in Slots |->
                  IF s = current' THEN "Stale"
                  ELSE IF s = current /\ s # 0
                       THEN IF cpu = s THEN "Saved" ELSE "Stale"
                  ELSE ctx[s]]

YieldAs(tag) ==
    /\ needResched' = FALSE
    /\ Reschedule(tag)
    /\ IF Switches THEN ContextSwitch ELSE UNCHANGED <<ctx, idleCtx, cpu>>

-----------------------------------------------------------------------------
(* The operations of the executing thread, and the events around it.       *)

\* yield_now: tasks call it when they poll the flag or through sys_yield; the
\* idle loop only once the timer has set the flag.
YieldNow ==
    /\ panic = "none"
    /\ cpu = 0 => needResched
    /\ YieldAs("Running")
    /\ UNCHANGED <<panic, stranded>>

\* block_and_yield.  block_current does nothing when there is no current task.
BlockAndYield ==
    /\ panic = "none" /\ cpu # 0
    /\ YieldAs("Blocked")
    /\ stranded' = (stranded \/ (current # 0 /\ ~Switches))
    /\ UNCHANGED panic

\* exit_current: a return from yield_now runs into unreachable!().
ExitCurrent ==
    /\ panic = "none" /\ cpu # 0
    /\ YieldAs("Dead")
    /\ panic' = IF Switches THEN "none" ELSE "dead task resumed"
    /\ UNCHANGED stranded

\* Mutant of Unblock: the task's entry stays in "blocked".
UnblockKeepsEntry(t) ==
    /\ panic = "none"
    /\ t \in blocked
    /\ state' = [state EXCEPT ![t] = "Ready"]
    /\ queues' = [queues EXCEPT ![pri[t]] = Append(@, t)]
    /\ UNCHANGED <<blocked, idVars, pri, current, cpuVars, panic, stranded>>

\* Scheduler::unblock, from send, reply, check_timeouts or a deadline.
Unblock(t) ==
    /\ panic = "none"
    /\ t \in blocked
    /\ blocked' = blocked \ {t}
    /\ state' = [state EXCEPT ![t] = "Ready"]
    /\ queues' = [queues EXCEPT ![pri[t]] = Append(@, t)]
    /\ UNCHANGED <<idVars, pri, current, cpuVars, panic, stranded>>

\* The scheduler's part of the timer interrupt.
TimerTick ==
    /\ panic = "none"
    /\ needResched' = TRUE
    /\ UNCHANGED <<idVars, schedVars, ctx, idleCtx, cpu, panic, stranded>>

\* The panic handler spins for ever.
Halted == panic # "none" /\ UNCHANGED vars

Next ==
    \/ \E p \in SpawnPriorities : Spawn(p)
    \/ SpawnPanics
    \/ SpawnAsserts
    \/ YieldNow
    \/ BlockAndYield
    \/ ExitCurrent
    \/ \E t \in Ids : Unblock(t)
    \/ TimerTick
    \/ Halted

Spec == Init /\ [][Next]_vars

\* The timer keeps firing, and every thread keeps polling the flag: the idle
\* loop and all agents of main.rs do, preemption does not exist.
FairSpec == Spec /\ WF_vars(TimerTick) /\ WF_vars(YieldNow)
-----------------------------------------------------------------------------
(* Properties.                                                             *)

TypeOK ==
    /\ nextId \in 1 .. MaxTasks + 1
    /\ freeList \in Seq(Ids)
    /\ mapped \subseteq 1 .. MaxTasks /\ mailboxes \subseteq Nat \ {0}
    /\ state \in [Ids -> States] /\ pri \in [Ids -> Prios]
    /\ queues \in [Prios -> Seq(Ids)]
    /\ current \in Slots /\ blocked \subseteq Ids
    /\ ctx \in [Slots -> Contexts] /\ idleCtx \in Slots \cup {-1}
    /\ cpu \in Slots /\ needResched \in BOOLEAN
    /\ panic \in Panics /\ stranded \in BOOLEAN

\* The state tag a task carries says where its record is: a Running task is
\* current, a Blocked one is in "blocked", a Ready one is in the queue of its
\* priority, in no place twice and in no other place, whatever sequence of
\* yields, blocks, exits and wake-ups moved it (reschedule, unblock, spawn).
OnePlacePerTask ==
    /\ \A t \in Ids : state[t] = "Running" <=> current = t
    /\ \A t \in Ids : state[t] = "Blocked" <=> t \in blocked
    /\ \A t \in Ids, p \in Prios :
          t \in Range(queues[p]) <=> state[t] = "Ready" /\ pri[t] = p
    /\ \A p \in Prios : IsInjective(queues[p])

\* IdAllocator never holds the id of a live task, never holds an id twice, and
\* loses none: an id handed out so far belongs to a live task or is free.
IdsPartitioned ==
    /\ IsInjective(freeList)
    /\ \A t \in Range(freeList) : t < nextId /\ state[t] = "None"
    /\ \A t \in Live : t < nextId
    /\ panic = "none" => \A t \in Ids : t < nextId => t \in Live \cup Range(freeList)

\* Every live task has a mailbox, and while the kernel runs a mailbox without a
\* live task is one main.rs registered for an id not handed out yet: whatever
\* died meanwhile, cleanup_dead_task leaves no box in which messages for a dead
\* task would wait, and takes no box from a task that is still to come.
MailboxesMatchTasks ==
    /\ Live \subseteq mailboxes
    /\ panic = "none" =>
          \A m \in mailboxes \ Live : m \in BootMailboxes /\ m >= nextId

\* Whenever the scheduler has a current task, that task's thread is the one
\* executing, so sys_getpid, block_current and kill_current act on the caller.
CurrentIsExecuting == current # 0 => cpu = current

\* As long as no task was ever blocked with nothing else to run, the executing
\* thread is the scheduler's current task (or the idle loop) and each waiting
\* task can be resumed: its slot holds its entry or its last suspension.
ResumableUnlessStranded ==
    panic = "none" /\ ~stranded =>
        /\ cpu = current
        /\ \A t \in Ids : state[t] \in {"Ready", "Blocked"} =>
              ctx[t] \in {"Fresh", "Saved"}

\* yield_now never loads a context that was never written; slot 0 of CONTEXTS
\* is such a context (it would jump to address 0).
NoEmptyContextLoaded == [][cpu' # cpu => ctx[cpu'] # "Empty"]_vars

\* The scheduler gives up its current task for nothing only if nothing is
\* ready: pick_next_fair falls back to the task that has just yielded.
NoIdleWhileReady ==
    [][current # 0 /\ current' = 0 => \A p \in Prios : queues'[p] = <<>>]_vars

\* Two tasks more urgent than t are runnable at the same time.
TwoMoreUrgent(t) ==
    \E u, v \in Ids : /\ u # v /\ pri[u] < pri[t] /\ pri[v] < pri[t]
                      /\ {state[u], state[v]} \subseteq {"Ready", "Running"}

\* A ready task is eventually run, unless the kernel halts or two more urgent
\* tasks are runnable at once: they may hand the CPU to each other for ever, and
\* that is the only way to starve.  One more urgent task that never blocks does
\* not keep the CPU (the first pass of pick_next_fair skips the task that yields),
\* and equals take turns (push_back, pop from the front).
WaitsOnlyBehindTwoMoreUrgent ==
    \A t \in Ids : state[t] = "Ready" ~>
                      (state[t] # "Ready" \/ panic # "none" \/ TwoMoreUrgent(t))
=============================================================================
