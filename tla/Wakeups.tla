------------------------------ MODULE Wakeups ------------------------------
(***************************************************************************)
(* Blocking and waking: sys_sleep and the deadline queue, request/reply    *)
(* with its timeouts, and the timer interrupt that serves both.            *)
(*                                                                         *)
(* There is one CPU and the interrupt handler is not interrupted itself,   *)
(* so one tick is one step, taken between two steps of the running thread. *)
(* The only locks the handler can find taken are those of the running      *)
(* thread's current step; it skips what it try_locks and spins for ever on *)
(* what it locks.  Absolute ticks are kept as the ticks left until then.   *)
(*                                                                         *)
(* The scheduler is reduced to who runs and who is blocked; Busy is a task *)
(* that never blocks, so there is always something to switch to (what      *)
(* happens otherwise is in module Scheduler).                              *)
(***************************************************************************)
EXTENDS Integers, FiniteSets

CONSTANTS Tasks, Busy,
          MaxTicks,      \* longest sleep and longest request timeout
          MaxRequests,   \* bound on the number of requests ever made
          CheckEvery,    \* timeouts are checked every so many ticks (50)
          PollEvery      \* the network is polled every so many ticks (10)

ASSUME BusyAssumption == Busy \in Tasks
ASSUME BoundsAssumption ==
    /\ MaxTicks \in Nat /\ MaxRequests \in Nat
    /\ PollEvery \in Nat \ {0} /\ CheckEvery \in Nat \ {0}
    /\ CheckEvery % PollEvery = 0

VARIABLES
    pc,         \* where each task's thread is
    left,       \* ticks left for the request a task is setting up
    req,        \* id of each task's last request, 0 for none
    running,    \* the task that executes
    blocked,    \* Scheduler.blocked
    deadlines,  \* DEADLINES: [task, left]; equal entries expire together
    pending,    \* PENDING: [id, requester, left]
    giving,     \* the pending request that reply() has taken out, a set
    replies,    \* keys of REPLIES
    nextReq,    \* next request id
    phase,      \* TIMER_TICKS modulo CheckEvery
    hung,       \* the interrupt handler spins on a lock of its own CPU
    missed,     \* history: tasks whose wake-up was consumed without effect
    answered, timedOut   \* history: requests by how they ended

vars == <<pc, left, req, running, blocked, deadlines, pending, giving, replies,
          nextReq, phase, hung, missed, answered, timedOut>>

queueVars == <<deadlines, pending, giving, replies>>
histVars == <<missed, answered, timedOut>>

Locks == {"HEAP", "SCHEDULER", "NET"}

\* The locks a thread holds, with interrupts enabled, at each point.
Held(at) == CASE at \in Locks      -> {at}
              [] at = "reqInsert"  -> {"PENDING"}
              [] OTHER             -> {}

Init ==
    /\ pc = [t \in Tasks |-> "run"]
    /\ left = [t \in Tasks |-> 0] /\ req = [t \in Tasks |-> 0]
    /\ running = Busy /\ blocked = {}
    /\ deadlines = {} /\ pending = {} /\ giving = {} /\ replies = {}
    /\ nextReq = 1 /\ phase = 0 /\ hung = FALSE
    /\ missed = {} /\ answered = {} /\ timedOut = {}

\* The running thread goes from one point to another.
Goto(from, to) ==
    /\ ~hung
    /\ pc[running] = from
    /\ pc' = [pc EXCEPT ![running] = to]

-----------------------------------------------------------------------------
(* Steps of the running thread.                                            *)

\* Any code that allocates or frees memory, asks the scheduler something
\* (task_count, current_task, spawn, unblock) or uses the network holds a lock
\* of the handler's for a while, with interrupts enabled.
Lock(l) ==
    /\ Goto("run", l)
    /\ UNCHANGED <<left, req, running, blocked, queueVars, nextReq, phase, hung,
                   histVars>>

Unlock(l) ==
    /\ Goto(l, "run")
    /\ UNCHANGED <<left, req, running, blocked, queueVars, nextReq, phase, hung,
                   histVars>>

\* yield_now: another task that is not blocked runs on.
SwitchAway == running' \in Tasks \ (blocked' \cup {running})

Yield ==
    /\ Goto("run", "run")
    /\ UNCHANGED <<left, req, blocked, queueVars, nextReq, phase, hung, histVars>>
    /\ SwitchAway

\* sys_sleep(n): schedules the deadline, blocks and yields.  Interrupts are
\* masked from the syscall instruction (SFMASK) until yield_now enables them on
\* the next thread, so this is one step.
Sleep(n) ==
    /\ running # Busy
    /\ Goto("run", "asleep")
    /\ deadlines' = deadlines \cup {[task |-> running, left |-> n]}
    /\ blocked' = blocked \cup {running}
    /\ missed' = missed \ {running}
    /\ SwitchAway
    /\ UNCHANGED <<left, req, pending, giving, replies, nextReq, phase, hung,
                   answered, timedOut>>

\* sys_sleep returns when the task runs again.
Woken ==
    /\ Goto("asleep", "run")
    /\ UNCHANGED <<left, req, running, blocked, queueVars, nextReq, phase, hung,
                   histVars>>

\* request(): send puts the message in r's mailbox and wakes r, whatever r
\* waits for; then the deadline is computed.  No caller exists yet: that it
\* blocks afterwards and collects the reply when woken is request()'s contract.
Request(r, n) ==
    /\ running # Busy /\ nextReq <= MaxRequests
    /\ Goto("run", "reqInsert")
    /\ blocked' = blocked \ {r}
    /\ req' = [req EXCEPT ![running] = nextReq]
    /\ left' = [left EXCEPT ![running] = n]
    /\ nextReq' = nextReq + 1
    /\ missed' = missed \ {running}
    /\ UNCHANGED <<running, queueVars, phase, hung, answered, timedOut>>

ReqInsert ==
    /\ Goto("reqInsert", "reqBlock")
    /\ pending' = pending \cup {[id |-> req[running], requester |-> running,
                                 left |-> left[running]]}
    /\ left' = [left EXCEPT ![running] = 0]
    /\ UNCHANGED <<req, running, blocked, deadlines, giving, replies,
                   nextReq, phase, hung, histVars>>

\* block_and_yield, with interrupts disabled.
ReqBlock ==
    /\ Goto("reqBlock", "awaiting")
    /\ blocked' = blocked \cup {running}
    /\ SwitchAway
    /\ UNCHANGED <<left, req, queueVars, nextReq, phase, hung, histVars>>

\* collect_reply, when the requester runs again.
Collect ==
    /\ Goto("awaiting", "run")
    /\ replies' = replies \ {req[running]}
    /\ UNCHANGED <<left, req, running, blocked, deadlines, pending, giving,
                   nextReq, phase, hung, histVars>>

\* Mutant of ReplyTake: the entry is read and left in PENDING.
ReplyPeek(p) ==
    /\ p.requester # running
    /\ Goto("run", "replyGive")
    /\ giving' = {p}
    /\ UNCHANGED <<left, req, running, blocked, deadlines, pending, replies,
                   nextReq, phase, hung, histVars>>

\* reply(), first half: the request is taken out of PENDING (refused if it is
\* not there any more).
ReplyTake(p) ==
    /\ p.requester # running
    /\ Goto("run", "replyGive")
    /\ pending' = pending \ {p}
    /\ giving' = {p}
    /\ UNCHANGED <<left, req, running, blocked, deadlines, replies,
                   nextReq, phase, hung, histVars>>

\* Mutant of ReplyGive: the requester is not woken.
ReplyNoWake ==
    /\ Goto("replyGive", "run")
    /\ replies' = replies \cup {p.id : p \in giving}
    /\ answered' = answered \cup {p.id : p \in giving}
    /\ giving' = {}
    /\ UNCHANGED <<left, req, running, blocked, deadlines, pending, nextReq,
                   phase, hung, missed, timedOut>>

\* reply(), second half: REPLIES, then the wake-up, which finds the scheduler
\* unlocked since it is the running thread that asks.
ReplyGive ==
    /\ Goto("replyGive", "run")
    /\ replies' = replies \cup {p.id : p \in giving}
    /\ answered' = answered \cup {p.id : p \in giving}
    /\ blocked' = blocked \ {p.requester : p \in giving}
    /\ giving' = {}
    /\ UNCHANGED <<left, req, running, deadlines, pending, nextReq, phase, hung,
                   missed, timedOut>>

-----------------------------------------------------------------------------
(* The timer interrupt.                                                    *)

Dec(n) == IF n > 0 THEN n - 1 ELSE 0

\* The time that is left after one more tick.
Aged(S) == {[e EXCEPT !.left = Dec(@)] : e \in S}
Due(S)  == {e \in Aged(S) : e.left = 0}

heldNow == Held(pc[running])
Polls  == (phase + 1) % PollEvery = 0
Checks == (phase + 1) % CheckEvery = 0 /\ "PENDING" \notin heldNow

\* Mutant of Expired: an entry is due only in the tick of its deadline.
ExpiredExactly == Aged({e \in deadlines : e.left = 1})

\* check_expired.  DEADLINES is only ever locked with interrupts masked, so the
\* handler's try_lock succeeds.
Expired == Due(deadlines)

\* check_timeouts, unless PENDING is locked.
TimeOuts == IF Checks THEN Due(pending) ELSE {}

\* Whether the handler spins: poll locks the interface, the sockets and the
\* device and allocates a receive buffer; check_timeouts collects into a Vec.
\* "NET" stands for the three locks of the network.
Spins == \/ Polls /\ heldNow \cap {"NET", "HEAP"} # {}
         \/ TimeOuts # {} /\ "HEAP" \in heldNow

\* The tasks the handler takes off a queue to wake them, and those of them it
\* does wake: unblock does nothing for a task that is not blocked yet, and is
\* not called when the scheduler is locked.
ToWake == {e.task : e \in Expired} \cup {p.requester : p \in TimeOuts}
Wakes  == IF "SCHEDULER" \in heldNow THEN {} ELSE ToWake \cap blocked

\* unblock appends to the ready queue, which has to allocate when it is full.
MaySpin == Spins \/ (Wakes # {} /\ "HEAP" \in heldNow)

Hang ==
    /\ ~hung /\ MaySpin
    /\ hung' = TRUE
    /\ UNCHANGED <<pc, left, req, running, blocked, queueVars, nextReq, phase,
                   histVars>>

\* timer_handler: counts, polls, checks the timeouts, fires the deadlines.
Tick ==
    /\ ~hung /\ ~Spins
    /\ phase' = (phase + 1) % CheckEvery
    /\ left' = [t \in Tasks |-> Dec(left[t])]
    /\ pending' = Aged(pending) \ TimeOuts
    /\ deadlines' = Aged(deadlines) \ Expired
    /\ blocked' = blocked \ Wakes
    /\ timedOut' = timedOut \cup {p.id : p \in TimeOuts}
    /\ missed' = missed \cup (ToWake \ Wakes)
    /\ UNCHANGED <<pc, req, running, giving, replies, nextReq, hung, answered>>

Stopped == hung /\ UNCHANGED vars

\* A thread goes on with what it has started.
Continue ==
    \/ \E l \in Locks : Unlock(l)
    \/ Woken
    \/ ReqInsert \/ ReqBlock \/ Collect
    \/ ReplyGive

Next ==
    \/ \E l \in Locks : Lock(l)
    \/ Yield
    \/ \E n \in 0 .. MaxTicks : Sleep(n)
    \/ \E r \in Tasks \ {running}, n \in 0 .. MaxTicks : Request(r, n)
    \/ \E p \in pending : ReplyTake(p)
    \/ Continue
    \/ Tick
    \/ Hang
    \/ Stopped

Spec == Init /\ [][Next]_vars

\* The timer keeps firing, whatever becomes of its handler, and the CPU keeps executing the running thread.
FairSpec == Spec /\ WF_vars(Tick \/ Hang) /\ WF_vars(Continue)
-----------------------------------------------------------------------------
(* Properties.                                                             *)

\* A blocked task has something that will wake it: a sleeper its deadline, a
\* requester its pending request or the reply that is being given.  The only
\* exceptions are tasks whose entry the interrupt consumed before they had
\* blocked or while the scheduler was locked.
BlockedWillBeWoken ==
    \A t \in blocked :
        \/ t \in missed
        \/ pc[t] = "asleep" /\ \E e \in deadlines : e.task = t
        \/ pc[t] = "awaiting" /\ \E p \in pending \cup giving : p.id = req[t]

\* A request ends once, with a reply or with its timeout: whoever removes it
\* from PENDING first (reply, check_timeouts) decides, and a late reply is
\* refused.
RequestEndsOnce ==
    LET open == {p.id : p \in pending} IN
    /\ answered \cap timedOut = {}
    /\ open \cap (answered \cup timedOut) = {}
    /\ {p.id : p \in giving} \cap (open \cup answered \cup timedOut) = {}

\* Every blocked task is eventually woken, unless its wake-up was consumed too
\* early or the kernel hangs.
WokenUnlessMissed ==
    \A t \in Tasks : t \in blocked ~> (t \notin blocked \/ t \in missed \/ hung)

\* "Lock order: INTERFACE first, then SOCKETS (matches poll() order - prevents
\* deadlock)": the poll in the timer interrupt never spins on INTERFACE, SOCKETS
\* or DEVICE held by the very thread it interrupted.
SocketLocksNeverDeadlock == ~(hung /\ "NET" \in heldNow)
=============================================================================
