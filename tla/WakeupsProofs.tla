--------------------------- MODULE WakeupsProofs ---------------------------
(***************************************************************************)
(* Proofs about blocking and waking, for any tasks, timeouts, polling and  *)
(* checking periods: nothing that blocks is forgotten, and a request ends  *)
(* once.                                                                   *)
(***************************************************************************)
EXTENDS Wakeups, TLAPS

Points == Locks \cup {"run", "asleep", "reqInsert", "reqBlock", "awaiting", "replyGive"}

PendingEntry == [id : Nat, requester : Tasks, left : Nat]
Deadline     == [task : Tasks, left : Nat]

TypeOK ==
    /\ pc \in [Tasks -> Points]
    /\ left \in [Tasks -> Nat]
    /\ req \in [Tasks -> Nat]
    /\ running \in Tasks
    /\ blocked \subseteq Tasks
    /\ deadlines \subseteq Deadline
    /\ pending \subseteq PendingEntry
    /\ giving \subseteq PendingEntry
    /\ nextReq \in Nat \ {0}

\* A task gives up the CPU only where it yields, never when it is blocked, and
\* only the thread that runs can be in the middle of giving a reply.
OneRuns ==
    /\ running \notin blocked
    /\ \A t \in Tasks : t # running => pc[t] \in {"run", "asleep", "awaiting"}
    /\ giving # {} => pc[running] = "replyGive"

\* t has a request of its own in S.
Requested(t, S) == \E p \in S : p.id = req[t] /\ p.requester = t

\* Who has blocked, or is about to, has something that will wake it, unless that
\* was consumed before it took effect.
WakerExists ==
    /\ \A t \in blocked : \/ t \in missed
                          \/ pc[t] = "asleep" /\ \E e \in deadlines : e.task = t
                          \/ pc[t] = "awaiting" /\ Requested(t, pending \cup giving)
    /\ pc[running] = "reqBlock" => running \in missed \/ Requested(running, pending)

WakeInv == TypeOK /\ OneRuns /\ WakerExists

\* Nothing is blocked at first.
LEMMA WakeInit == Init => WakeInv
BY BusyAssumption DEF Init, WakeInv, TypeOK, OneRuns, WakerExists, Points, Locks

\* A tick keeps who an entry is for, and takes only time from it.
LEMMA AgedPending ==
    ASSUME NEW S \in SUBSET PendingEntry
    PROVE  /\ Aged(S) \in SUBSET PendingEntry
           /\ \A e \in Aged(S) : \E d \in S : e.id = d.id /\ e.requester = d.requester
           /\ \A d \in S : \E e \in Aged(S) : e.id = d.id /\ e.requester = d.requester
           /\ (\A d, f \in S : d.id = f.id => d = f) =>
                 \A d, f \in Aged(S) : d.id = f.id => d = f
<1>1. \A d \in S : /\ [d EXCEPT !.left = Dec(@)] \in PendingEntry
                   /\ [d EXCEPT !.left = Dec(@)].id = d.id
                   /\ [d EXCEPT !.left = Dec(@)].requester = d.requester
  BY DEF PendingEntry, Dec
<1>2. \A e \in Aged(S) : \E d \in S : e = [d EXCEPT !.left = Dec(@)]
  BY DEF Aged
<1>3. \A d \in S : [d EXCEPT !.left = Dec(@)] \in Aged(S)
  BY DEF Aged
<1>4. ASSUME \A d, f \in S : d.id = f.id => d = f,
             NEW d \in Aged(S), NEW f \in Aged(S), d.id = f.id
      PROVE  d = f
  <2>1. PICK a \in S : d = [a EXCEPT !.left = Dec(@)]
    BY <1>2
  <2>2. PICK b \in S : f = [b EXCEPT !.left = Dec(@)]
    BY <1>2
  <2>3. a.id = b.id
    BY <1>1, <1>4, <2>1, <2>2
  <2> QED
    BY <1>4, <2>1, <2>2, <2>3
<1>5. Aged(S) \in SUBSET PendingEntry
  BY <1>1, <1>2
<1>6. \A e \in Aged(S) : \E d \in S : e.id = d.id /\ e.requester = d.requester
  BY <1>1, <1>2
<1>7. \A d \in S : \E e \in Aged(S) : e.id = d.id /\ e.requester = d.requester
  BY <1>1, <1>3
<1> QED
  BY <1>4, <1>5, <1>6, <1>7

\* The same for the deadlines.
LEMMA AgedDeadlines ==
    ASSUME NEW S \in SUBSET Deadline
    PROVE  /\ Aged(S) \in SUBSET Deadline
           /\ \A d \in S : \E e \in Aged(S) : e.task = d.task
<1>1. \A d \in S : /\ [d EXCEPT !.left = Dec(@)] \in Deadline
                   /\ [d EXCEPT !.left = Dec(@)].task = d.task
  BY DEF Deadline, Dec
<1> QED
  BY <1>1 DEF Aged

-----------------------------------------------------------------------------
(* Steps of the running thread.                                            *)

\* A step that only moves the running thread, to a point where it does not wait.
LEMMA MovePreserves ==
    ASSUME WakeInv, NEW from \in Points, NEW to \in Points \ {"reqBlock"},
           Goto(from, to), from # "replyGive",
           UNCHANGED <<left, req, running, blocked, deadlines, pending, giving,
                       nextReq, missed>>
    PROVE  WakeInv'
<1>1. /\ pc[running] = from /\ pc' = [pc EXCEPT ![running] = to]
      /\ pc' \in [Tasks -> Points] /\ pc'[running] = to
      /\ \A t \in Tasks : t # running => pc'[t] = pc[t]
  BY DEF Goto, WakeInv, TypeOK
<1>2. TypeOK'
  BY <1>1 DEF WakeInv, TypeOK
<1>3. OneRuns'
  BY <1>1 DEF WakeInv, TypeOK, OneRuns
<1>4. WakerExists'
  BY <1>1 DEF WakeInv, TypeOK, OneRuns, WakerExists, Requested
<1> QED
  BY <1>2, <1>3, <1>4 DEF WakeInv

\* yield_now.
LEMMA YieldPreserves == ASSUME WakeInv, Yield PROVE WakeInv'
<1>1. /\ pc[running] = "run" /\ pc' = [pc EXCEPT ![running] = "run"]
      /\ running' \in Tasks \ blocked /\ blocked' = blocked
      /\ UNCHANGED <<left, req, deadlines, pending, giving, nextReq, missed>>
  BY DEF Yield, Goto, SwitchAway, queueVars, histVars
<1>2. pc' = pc
  BY <1>1 DEF WakeInv, TypeOK
<1>3. TypeOK' /\ OneRuns'
  BY <1>1, <1>2 DEF WakeInv, TypeOK, OneRuns
<1>4. running' # running \/ pc[running'] # "reqBlock"
  BY <1>1
<1>5. WakerExists'
  BY <1>1, <1>2, <1>4 DEF WakeInv, OneRuns, WakerExists, Requested
<1> QED
  BY <1>3, <1>5 DEF WakeInv

\* sys_sleep.
LEMMA SleepPreserves ==
    ASSUME WakeInv, NEW n \in 0 .. MaxTicks, Sleep(n)
    PROVE  WakeInv'
<1>1. /\ pc[running] = "run" /\ pc' = [pc EXCEPT ![running] = "asleep"]
      /\ deadlines' = deadlines \cup {[task |-> running, left |-> n]}
      /\ blocked' = blocked \cup {running}
      /\ missed' = missed \ {running}
      /\ running' \in Tasks \ (blocked' \cup {running})
      /\ UNCHANGED <<left, req, pending, giving, nextReq>>
  BY DEF Sleep, Goto, SwitchAway
<1>2. /\ pc' \in [Tasks -> Points] /\ pc'[running] = "asleep"
      /\ \A t \in Tasks : t # running => pc'[t] = pc[t]
  BY <1>1 DEF WakeInv, TypeOK, Points
<1>3. [task |-> running, left |-> n] \in Deadline
  BY BoundsAssumption DEF Deadline, WakeInv, TypeOK
<1>4. TypeOK'
  BY <1>1, <1>2, <1>3 DEF WakeInv, TypeOK
<1>5. OneRuns'
  BY <1>1, <1>2 DEF WakeInv, TypeOK, OneRuns
<1>6. WakerExists'
  <2>1. pc'[running'] # "reqBlock"
    BY <1>1, <1>2 DEF WakeInv, OneRuns
  <2>2. ASSUME NEW t \in blocked', t # running
        PROVE  \/ t \in missed'
               \/ pc'[t] = "asleep" /\ \E e \in deadlines' : e.task = t
               \/ pc'[t] = "awaiting" /\ Requested(t, pending \cup giving)'
    BY <1>1, <1>2, <2>2 DEF WakeInv, TypeOK, WakerExists, Requested
  <2>3. pc'[running] = "asleep" /\ \E e \in deadlines' : e.task = running
    <3>1. [task |-> running, left |-> n].task = running
      OBVIOUS
    <3> QED
      BY <1>1, <1>2, <3>1
  <2> QED
    BY <2>1, <2>2, <2>3 DEF WakerExists
<1> QED
  BY <1>4, <1>5, <1>6 DEF WakeInv

\* request(), up to the deadline.
LEMMA RequestPreserves ==
    ASSUME WakeInv, NEW r \in Tasks, NEW n \in 0 .. MaxTicks, Request(r, n)
    PROVE  WakeInv'
<1>1. /\ pc[running] = "run" /\ pc' = [pc EXCEPT ![running] = "reqInsert"]
      /\ blocked' = blocked \ {r}
      /\ req' = [req EXCEPT ![running] = nextReq]
      /\ left' = [left EXCEPT ![running] = n]
      /\ nextReq' = nextReq + 1
      /\ missed' = missed \ {running}
      /\ UNCHANGED <<running, deadlines, pending, giving>>
  BY DEF Request, Goto, queueVars
<1>2. /\ pc' \in [Tasks -> Points] /\ pc'[running] = "reqInsert"
      /\ \A t \in Tasks : t # running => pc'[t] = pc[t] /\ req'[t] = req[t]
  BY <1>1 DEF WakeInv, TypeOK, Points
<1>3. TypeOK'
  BY <1>1, <1>2, BoundsAssumption DEF WakeInv, TypeOK
<1>4. OneRuns'
  BY <1>1, <1>2 DEF WakeInv, TypeOK, OneRuns
<1>5. WakerExists'
  BY <1>1, <1>2 DEF WakeInv, TypeOK, OneRuns, WakerExists, Requested
<1> QED
  BY <1>3, <1>4, <1>5 DEF WakeInv

\* request() inserts into PENDING.
LEMMA ReqInsertPreserves == ASSUME WakeInv, ReqInsert PROVE WakeInv'
<1>1. PICK new : new = [id |-> req[running], requester |-> running, left |-> left[running]]
  OBVIOUS
<1>2. /\ pc[running] = "reqInsert" /\ pc' = [pc EXCEPT ![running] = "reqBlock"]
      /\ pending' = pending \cup {new}
      /\ left' = [left EXCEPT ![running] = 0]
      /\ UNCHANGED <<req, running, blocked, deadlines, giving, nextReq, missed>>
  BY <1>1 DEF ReqInsert, Goto, histVars
<1>3. /\ pc' \in [Tasks -> Points] /\ pc'[running] = "reqBlock"
      /\ \A t \in Tasks : t # running => pc'[t] = pc[t]
  BY <1>2 DEF WakeInv, TypeOK, Points
<1>4. new \in PendingEntry /\ new.id = req[running] /\ new.requester = running
  BY <1>1 DEF WakeInv, TypeOK, PendingEntry
<1>5. TypeOK'
  BY <1>2, <1>3, <1>4 DEF WakeInv, TypeOK
<1>6. OneRuns'
  BY <1>2, <1>3 DEF WakeInv, TypeOK, OneRuns
<1>7. WakerExists'
  BY <1>2, <1>3, <1>4 DEF WakeInv, TypeOK, OneRuns, WakerExists, Requested
<1> QED
  BY <1>5, <1>6, <1>7 DEF WakeInv

\* The requester blocks.
LEMMA ReqBlockPreserves == ASSUME WakeInv, ReqBlock PROVE WakeInv'
<1>1. /\ pc[running] = "reqBlock" /\ pc' = [pc EXCEPT ![running] = "awaiting"]
      /\ blocked' = blocked \cup {running}
      /\ running' \in Tasks \ (blocked' \cup {running})
      /\ UNCHANGED <<left, req, deadlines, pending, giving, nextReq, missed>>
  BY DEF ReqBlock, Goto, SwitchAway, queueVars, histVars
<1>2. /\ pc' \in [Tasks -> Points] /\ pc'[running] = "awaiting"
      /\ \A t \in Tasks : t # running => pc'[t] = pc[t]
  BY <1>1 DEF WakeInv, TypeOK, Points
<1>3. TypeOK'
  BY <1>1, <1>2 DEF WakeInv, TypeOK
<1>4. OneRuns'
  BY <1>1, <1>2 DEF WakeInv, TypeOK, OneRuns
<1>5. WakerExists'
  <2>1. pc'[running'] # "reqBlock"
    BY <1>1, <1>2 DEF WakeInv, OneRuns
  <2>2. running \in missed \/ Requested(running, pending \cup giving)
    BY <1>1 DEF WakeInv, WakerExists, Requested
  <2> QED
    BY <1>1, <1>2, <2>1, <2>2 DEF WakeInv, TypeOK, WakerExists, Requested
<1> QED
  BY <1>3, <1>4, <1>5 DEF WakeInv

\* reply() takes a request out of PENDING.
LEMMA ReplyTakePreserves ==
    ASSUME WakeInv, NEW p \in pending, ReplyTake(p)
    PROVE  WakeInv'
<1>1. /\ pc[running] = "run" /\ pc' = [pc EXCEPT ![running] = "replyGive"]
      /\ pending' = pending \ {p} /\ giving' = {p}
      /\ UNCHANGED <<left, req, running, blocked, deadlines, nextReq, missed>>
  BY DEF ReplyTake, Goto, histVars
<1>2. /\ pc' \in [Tasks -> Points] /\ pc'[running] = "replyGive"
      /\ \A t \in Tasks : t # running => pc'[t] = pc[t]
  BY <1>1 DEF WakeInv, TypeOK, Points
<1>3. giving = {}
  BY <1>1 DEF WakeInv, OneRuns
<1>4. TypeOK'
  BY <1>1, <1>2 DEF WakeInv, TypeOK
<1>5. OneRuns'
  BY <1>1, <1>2 DEF WakeInv, TypeOK, OneRuns
<1>6. pending' \cup giving' = pending \cup giving
  BY <1>1, <1>3
<1>7. WakerExists'
  BY <1>1, <1>2, <1>6 DEF WakeInv, TypeOK, OneRuns, WakerExists, Requested
<1> QED
  BY <1>4, <1>5, <1>7 DEF WakeInv

\* reply() wakes the requester.
LEMMA ReplyGivePreserves == ASSUME WakeInv, ReplyGive PROVE WakeInv'
<1>1. /\ pc[running] = "replyGive" /\ pc' = [pc EXCEPT ![running] = "run"]
      /\ blocked' = blocked \ {p.requester : p \in giving} /\ giving' = {}
      /\ UNCHANGED <<left, req, running, deadlines, pending, nextReq, missed>>
  BY DEF ReplyGive, Goto
<1>2. /\ pc' \in [Tasks -> Points] /\ pc'[running] = "run"
      /\ \A t \in Tasks : t # running => pc'[t] = pc[t]
  BY <1>1 DEF WakeInv, TypeOK, Points
<1>3. TypeOK'
  BY <1>1, <1>2 DEF WakeInv, TypeOK
<1>4. OneRuns'
  BY <1>1, <1>2 DEF WakeInv, TypeOK, OneRuns
<1>5. \A t \in blocked' : Requested(t, pending \cup giving) => Requested(t, pending)
  BY <1>1 DEF Requested
<1>6. WakerExists'
  BY <1>1, <1>2, <1>5 DEF WakeInv, TypeOK, OneRuns, WakerExists, Requested
<1> QED
  BY <1>3, <1>4, <1>6 DEF WakeInv

-----------------------------------------------------------------------------
(* The timer interrupt.                                                    *)

\* A tick wakes whom it takes off a queue, or counts him as missed.
LEMMA TickPreserves == ASSUME WakeInv, Tick PROVE WakeInv'
<1>1. /\ left' = [t \in Tasks |-> Dec(left[t])]
      /\ pending' = Aged(pending) \ TimeOuts
      /\ deadlines' = Aged(deadlines) \ Expired
      /\ blocked' = blocked \ Wakes
      /\ missed' = missed \cup (ToWake \ Wakes)
      /\ UNCHANGED <<pc, req, running, giving, nextReq>>
  BY DEF Tick
<1>2. TypeOK'
  <2>1. left' \in [Tasks -> Nat]
    BY <1>1 DEF WakeInv, TypeOK, Dec
  <2>2. pending' \subseteq PendingEntry /\ deadlines' \subseteq Deadline
    BY <1>1, AgedPending, AgedDeadlines DEF WakeInv, TypeOK
  <2> QED
    BY <1>1, <2>1, <2>2 DEF WakeInv, TypeOK
<1>3. OneRuns'
  BY <1>1 DEF WakeInv, OneRuns
<1>4. \A t \in blocked' : t \in missed' \/ t \notin ToWake
  BY <1>1
<1>5. \A t \in Tasks : t \in ToWake /\ t \notin blocked => t \in missed'
  BY <1>1 DEF Wakes
<1>6. ASSUME NEW t \in Tasks, t \notin ToWake, Requested(t, pending)
      PROVE  Requested(t, pending)'
  <2>1. PICK d \in pending : d.id = req[t] /\ d.requester = t
    BY <1>6 DEF Requested
  <2>2. PICK e \in Aged(pending) : e.id = req[t] /\ e.requester = t
    BY <2>1, AgedPending DEF WakeInv, TypeOK
  <2>3. e \notin TimeOuts
    BY <1>6, <2>2 DEF ToWake
  <2> QED
    BY <1>1, <2>2, <2>3 DEF Requested
<1>7. ASSUME NEW t \in Tasks, t \notin ToWake, \E d \in deadlines : d.task = t
      PROVE  \E d \in deadlines' : d.task = t
  <2>1. PICK e \in Aged(deadlines) : e.task = t
    BY <1>7, AgedDeadlines DEF WakeInv, TypeOK
  <2>2. e \notin Expired
    BY <1>7, <2>1 DEF ToWake
  <2> QED
    BY <1>1, <2>1, <2>2
<1>8. WakerExists'
  <2>1. ASSUME NEW t \in blocked'
        PROVE  \/ t \in missed'
               \/ pc'[t] = "asleep" /\ \E e \in deadlines' : e.task = t
               \/ pc'[t] = "awaiting" /\ Requested(t, pending \cup giving)'
    <3>1. t \in blocked /\ t \in Tasks
      BY <1>1, <2>1 DEF WakeInv, TypeOK
    <3>2. CASE t \in missed'
      BY <3>2
    <3>3. CASE t \notin missed'
      <4>1. t \notin ToWake /\ t \notin missed
        BY <1>1, <1>4, <3>3
      <4>2. \/ pc[t] = "asleep" /\ \E e \in deadlines : e.task = t
            \/ pc[t] = "awaiting" /\ Requested(t, pending \cup giving)
        BY <3>1, <4>1 DEF WakeInv, WakerExists
      <4>3. CASE pc[t] = "asleep" /\ \E e \in deadlines : e.task = t
        BY <1>1, <1>7, <3>1, <4>1, <4>3
      <4>4. CASE pc[t] = "awaiting" /\ Requested(t, pending \cup giving)
        <5>1. CASE Requested(t, pending)
          BY <1>1, <1>6, <3>1, <4>1, <4>4, <5>1 DEF Requested
        <5>2. CASE Requested(t, giving)
          BY <1>1, <4>4, <5>2 DEF Requested
        <5> QED
          BY <4>4, <5>1, <5>2 DEF Requested
      <4> QED
        BY <4>2, <4>3, <4>4
    <3> QED
      BY <3>2, <3>3
  <2>2. ASSUME pc'[running'] = "reqBlock"
        PROVE  running' \in missed' \/ Requested(running, pending)'
    <3>1. running' = running /\ running \in Tasks /\ running \notin blocked
      BY <1>1 DEF WakeInv, TypeOK, OneRuns
    <3>2. running \in missed \/ Requested(running, pending)
      BY <1>1, <2>2 DEF WakeInv, WakerExists
    <3>3. CASE running \in ToWake \/ running \in missed
      BY <1>1, <1>5, <3>1, <3>3
    <3>4. CASE running \notin ToWake /\ Requested(running, pending)
      <4>1. PICK t : t = running
        OBVIOUS
      <4>2. Requested(t, pending)'
        BY <1>6, <3>1, <3>4, <4>1
      <4> QED
        BY <1>1, <4>1, <4>2 DEF Requested
    <3> QED
      BY <3>2, <3>3, <3>4
  <2> QED
    BY <2>1, <2>2 DEF WakerExists
<1> QED
  BY <1>2, <1>3, <1>8 DEF WakeInv

\* Every step preserves the invariant.
LEMMA WakePreserved == WakeInv /\ [Next]_vars => WakeInv'
<1> SUFFICES ASSUME WakeInv, [Next]_vars
             PROVE  WakeInv'
  OBVIOUS
<1>1. ASSUME NEW l \in Locks, Lock(l) \/ Unlock(l)
      PROVE  WakeInv'
  BY <1>1, MovePreserves DEF Lock, Unlock, Points, Locks, queueVars, histVars
<1>2. ASSUME Woken
      PROVE  WakeInv'
  BY <1>2, MovePreserves DEF Woken, Points, queueVars, histVars
<1>3. ASSUME Collect
      PROVE  WakeInv'
  BY <1>3, MovePreserves DEF Collect, Points, histVars
<1>4. CASE Hang \/ UNCHANGED vars
  BY <1>4 DEF Hang, vars, queueVars, histVars, WakeInv, TypeOK, OneRuns, WakerExists, Requested
<1> QED
  BY <1>1, <1>2, <1>3, <1>4, YieldPreserves, SleepPreserves, RequestPreserves,
     ReqInsertPreserves, ReqBlockPreserves, ReplyTakePreserves, ReplyGivePreserves,
     TickPreserves DEF Next, Continue, Stopped

\* Whoever blocks has something that will wake it.
THEOREM WakeTheorem == Spec => []BlockedWillBeWoken
<1>1. WakeInv => BlockedWillBeWoken
  BY DEF WakeInv, WakerExists, BlockedWillBeWoken, Requested
<1> QED
  BY WakeInit, WakePreserved, <1>1, PTL DEF Spec

-----------------------------------------------------------------------------
(* A request ends once.                                                    *)

Ids(S) == {p.id : p \in S}

\* PENDING holds a request once, ids are handed out in order, and the id of a
\* request that is about to be inserted is not in use.
IdsFresh ==
    /\ \A p, q \in pending : p.id = q.id => p = q
    /\ \A i \in Ids(pending) \cup Ids(giving) \cup answered \cup timedOut : i \in Nat /\ i < nextReq
    /\ pc[running] = "reqInsert" =>
          /\ req[running] < nextReq
          /\ req[running] \notin Ids(pending) \cup Ids(giving) \cup answered \cup timedOut

EndInv == IdsFresh /\ RequestEndsOnce

\* The parts of RequestEndsOnce.
LEMMA EndsOnce ==
    RequestEndsOnce <=>
        /\ answered \cap timedOut = {}
        /\ Ids(pending) \cap (answered \cup timedOut) = {}
        /\ Ids(giving) \cap (Ids(pending) \cup answered \cup timedOut) = {}
BY DEF RequestEndsOnce, Ids

\* The same after a step.
LEMMA EndsOnceNext ==
    RequestEndsOnce' <=>
        /\ answered' \cap timedOut' = {}
        /\ Ids(pending') \cap (answered' \cup timedOut') = {}
        /\ Ids(giving') \cap (Ids(pending') \cup answered' \cup timedOut') = {}
BY DEF RequestEndsOnce, Ids

\* A step that does not touch the requests, and leads to no insertion.
LEMMA QuietEnd ==
    ASSUME EndInv, UNCHANGED <<pending, giving, answered, timedOut, nextReq>>,
           pc'[running'] = "reqInsert" =>
              pc[running] = "reqInsert" /\ UNCHANGED <<running, req>>
    PROVE  EndInv'
<1>1. RequestEndsOnce'
  BY DEF EndInv, RequestEndsOnce
<1>2. IdsFresh'
  BY DEF EndInv, IdsFresh, Ids
<1> QED
  BY <1>1, <1>2 DEF EndInv

\* request() takes an id that nobody has had.
LEMMA RequestEnd ==
    ASSUME WakeInv, EndInv, NEW r, NEW n, Request(r, n)
    PROVE  EndInv'
<1>1. /\ UNCHANGED <<pending, giving, answered, timedOut, running>>
      /\ nextReq' = nextReq + 1 /\ req' = [req EXCEPT ![running] = nextReq]
  BY DEF Request, queueVars
<1>2. req'[running'] = nextReq /\ nextReq \in Nat
  BY <1>1 DEF WakeInv, TypeOK
<1>3. RequestEndsOnce'
  BY <1>1 DEF EndInv, RequestEndsOnce
<1>4. IdsFresh'
  BY <1>1, <1>2 DEF EndInv, IdsFresh, Ids
<1> QED
  BY <1>3, <1>4 DEF EndInv

\* The insertion.
LEMMA ReqInsertEnd == ASSUME WakeInv, EndInv, ReqInsert PROVE EndInv'
<1>1. PICK new : new = [id |-> req[running], requester |-> running, left |-> left[running]]
  OBVIOUS
<1>2. /\ pc[running] = "reqInsert" /\ pc'[running'] = "reqBlock"
      /\ pending' = pending \cup {new}
      /\ UNCHANGED <<giving, nextReq, answered, timedOut>>
  BY <1>1 DEF ReqInsert, Goto, histVars, WakeInv, TypeOK
<1>3. /\ new.id = req[running] /\ new.id \in Nat /\ new.id < nextReq
      /\ new.id \notin Ids(pending) \cup Ids(giving) \cup answered \cup timedOut
  BY <1>1, <1>2 DEF EndInv, IdsFresh, WakeInv, TypeOK
<1>4. Ids(pending') = Ids(pending) \cup {new.id}
  BY <1>2 DEF Ids
<1>5. RequestEndsOnce'
  BY <1>2, <1>3, <1>4, EndsOnce, EndsOnceNext DEF EndInv
<1>6. \A p, q \in pending' : p.id = q.id => p = q
  BY <1>2, <1>3 DEF EndInv, IdsFresh, Ids
<1>7. IdsFresh'
  BY <1>2, <1>3, <1>4, <1>6 DEF EndInv, IdsFresh, Ids
<1> QED
  BY <1>5, <1>7 DEF EndInv

\* reply() takes the only entry of the request.
LEMMA ReplyTakeEnd ==
    ASSUME WakeInv, EndInv, NEW p \in pending, ReplyTake(p)
    PROVE  EndInv'
<1>1. /\ pc'[running'] = "replyGive"
      /\ pending' = pending \ {p} /\ giving' = {p}
      /\ UNCHANGED <<answered, timedOut, nextReq>>
  BY DEF ReplyTake, Goto, histVars, WakeInv, TypeOK
<1>2. Ids(giving') = {p.id} /\ p.id \in Ids(pending)
  BY <1>1 DEF Ids
<1>3. Ids(pending') = Ids(pending) \ {p.id}
  BY <1>1 DEF Ids, EndInv, IdsFresh
<1>4. RequestEndsOnce'
  BY <1>1, <1>2, <1>3, EndsOnce, EndsOnceNext DEF EndInv
<1>5. \A a, b \in pending' : a.id = b.id => a = b
  BY <1>1 DEF EndInv, IdsFresh
<1>6. \A i \in Ids(pending') \cup Ids(giving') \cup answered' \cup timedOut' :
         i \in Nat /\ i < nextReq'
  BY <1>1, <1>2, <1>3 DEF EndInv, IdsFresh
<1>7. IdsFresh'
  BY <1>1, <1>5, <1>6 DEF IdsFresh, Ids
<1> QED
  BY <1>4, <1>7 DEF EndInv

\* reply() gives it.
LEMMA ReplyGiveEnd == ASSUME WakeInv, EndInv, ReplyGive PROVE EndInv'
<1>1. /\ pc'[running'] = "run" /\ pending' = pending /\ giving' = {}
      /\ answered' = answered \cup Ids(giving)
      /\ UNCHANGED <<timedOut, nextReq>>
  BY DEF ReplyGive, Goto, Ids, WakeInv, TypeOK
<1>2. Ids(giving') = {} /\ Ids(pending') = Ids(pending)
  BY <1>1 DEF Ids
<1>3. RequestEndsOnce'
  BY <1>1, <1>2, EndsOnce, EndsOnceNext DEF EndInv
<1>4. \A i \in Ids(pending') \cup Ids(giving') \cup answered' \cup timedOut' :
         i \in Nat /\ i < nextReq'
  BY <1>1, <1>2 DEF EndInv, IdsFresh
<1>5. IdsFresh'
  BY <1>1, <1>4 DEF EndInv, IdsFresh, Ids
<1> QED
  BY <1>3, <1>5 DEF EndInv

\* check_timeouts removes every request that it reports.
LEMMA TickEnd == ASSUME WakeInv, EndInv, Tick PROVE EndInv'
<1>1. /\ pending' = Aged(pending) \ TimeOuts
      /\ timedOut' = timedOut \cup Ids(TimeOuts)
      /\ UNCHANGED <<pc, req, running, giving, nextReq, answered>>
  BY DEF Tick, Ids
<1>2. TimeOuts \subseteq Aged(pending)
  BY DEF TimeOuts, Due
<1>3. \A p, q \in Aged(pending) : p.id = q.id => p = q
  BY AgedPending DEF EndInv, IdsFresh, WakeInv, TypeOK
<1>4. Ids(Aged(pending)) = Ids(pending)
  <2>1. /\ \A e \in Aged(pending) : \E d \in pending : e.id = d.id
        /\ \A d \in pending : \E e \in Aged(pending) : e.id = d.id
    BY AgedPending DEF WakeInv, TypeOK
  <2> QED
    BY <2>1 DEF Ids
<1>5. Ids(pending') = Ids(pending) \ Ids(TimeOuts) /\ Ids(TimeOuts) \subseteq Ids(pending)
  <2>1. Ids(pending') = Ids(Aged(pending)) \ Ids(TimeOuts)
    BY <1>1, <1>2, <1>3 DEF Ids
  <2>2. Ids(TimeOuts) \subseteq Ids(Aged(pending))
    BY <1>2 DEF Ids
  <2> QED
    BY <1>4, <2>1, <2>2
<1>6. Ids(giving') = Ids(giving)
  BY <1>1
<1>7. RequestEndsOnce'
  BY <1>1, <1>5, <1>6, EndsOnce, EndsOnceNext DEF EndInv
<1>8. \A i \in Ids(pending') \cup Ids(giving') \cup answered' \cup timedOut' :
         i \in Nat /\ i < nextReq'
  BY <1>1, <1>5, <1>6 DEF EndInv, IdsFresh
<1>9. pc'[running'] = "reqInsert" =>
         /\ req'[running'] < nextReq'
         /\ req'[running'] \notin Ids(pending') \cup Ids(giving') \cup answered' \cup timedOut'
  BY <1>1, <1>5, <1>6 DEF EndInv, IdsFresh
<1>10. \A p, q \in pending' : p.id = q.id => p = q
  BY <1>1, <1>3
<1>11. IdsFresh'
  BY <1>8, <1>9, <1>10 DEF IdsFresh, Ids
<1> QED
  BY <1>7, <1>11 DEF EndInv

\* A request is answered or timed out, never both, and a late reply is refused.
THEOREM EndTheorem == Spec => []RequestEndsOnce
<1>1. Init => EndInv
  BY BusyAssumption DEF Init, EndInv, IdsFresh, Ids, RequestEndsOnce
<1>2. WakeInv /\ EndInv /\ [Next]_vars => EndInv'
  <2> SUFFICES ASSUME WakeInv, EndInv, [Next]_vars
               PROVE  EndInv'
    OBVIOUS
  <2>1. running \in Tasks /\ pc \in [Tasks -> Points]
    BY DEF WakeInv, TypeOK
  <2>2. ASSUME NEW l \in Locks, Lock(l) \/ Unlock(l)
        PROVE  EndInv'
    BY <2>1, <2>2, QuietEnd DEF Lock, Unlock, Goto, Locks, queueVars, histVars
  <2>3. ASSUME Yield
        PROVE  EndInv'
    BY <2>1, <2>3, QuietEnd DEF Yield, Goto, SwitchAway, queueVars, histVars, WakeInv, OneRuns
  <2>4. ASSUME NEW n, Sleep(n)
        PROVE  EndInv'
    BY <2>1, <2>4, QuietEnd DEF Sleep, Goto, SwitchAway, WakeInv, OneRuns
  <2>5. ASSUME ReqBlock
        PROVE  EndInv'
    BY <2>1, <2>5, QuietEnd DEF ReqBlock, Goto, SwitchAway, queueVars, histVars, WakeInv, OneRuns
  <2>6. ASSUME Woken \/ Collect
        PROVE  EndInv'
    BY <2>1, <2>6, QuietEnd DEF Woken, Collect, Goto, queueVars, histVars
  <2>7. CASE Hang \/ UNCHANGED vars
    BY <2>7, QuietEnd DEF Hang, vars, queueVars, histVars
  <2> QED
    BY <2>2, <2>3, <2>4, <2>5, <2>6, <2>7, RequestEnd, ReqInsertEnd, ReplyTakeEnd,
       ReplyGiveEnd, TickEnd DEF Next, Continue, Stopped
<1>3. EndInv => RequestEndsOnce
  BY DEF EndInv
<1> QED
  BY WakeInit, WakePreserved, <1>1, <1>2, <1>3, PTL DEF Spec
=============================================================================
