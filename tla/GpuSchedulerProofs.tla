------------------------- MODULE GpuSchedulerProofs -------------------------
(***************************************************************************)
(* Proofs about GpuScheduler, for any number of requests and ticks: the    *)
(* order requests are served in, and what becomes of each of them.         *)
(***************************************************************************)
EXTENDS GpuScheduler, FiniteSetTheorems, TLAPS

Req == [id : Nat, priority : {Urgent, Normal, Batch}, deadline : 1 .. Never,
        submitted : Nat]
Entry == [req : Req, taken : Nat]

TypeOK ==
    /\ now \in Nat /\ nextId \in Nat \ {0}
    /\ queue \subseteq Req /\ current \subseteq Req /\ displaced \subseteq Req
    /\ totalCompleted \in Nat /\ totalFailed \in Nat
    /\ served \in Seq(Entry)

\* Nothing was submitted or taken in the future.
PastOK ==
    /\ \A r \in queue : r.submitted <= now
    /\ \A i \in DOMAIN served : served[i].taken <= now

\* No request that was served overtook one that still waits: what NoOvertaking
\* says of the requests that are served later.
QueueNotPast == \A i \in DOMAIN served : \A r \in queue : NotPast(served[i], r)

OrderInv == TypeOK /\ PastOK /\ QueueNotPast /\ NoOvertaking

\* A request is in one place, and its id was given out; at most one is current.
PlacesOK ==
    /\ \A r \in queue \cup current \cup displaced : r.id < nextId
    /\ queue \cap current = {} /\ queue \cap displaced = {} /\ current \cap displaced = {}
    /\ IsFiniteSet(queue) /\ IsFiniteSet(current) /\ IsFiniteSet(displaced)
    /\ current # {} => Cardinality(current) = 1

BooksInv == PlacesOK /\ RequestsAccounted

-----------------------------------------------------------------------------
(* The order of service.                                                   *)

\* A request the heap may pop overtakes none that is queued.
LEMMA PopLemma ==
  ASSUME NEW r \in Req, NEW q \in Req, NEW t \in Nat, ~Before(q, r)
  PROVE  NotPast([req |-> r, taken |-> t], q)
  BY GpuAssumption DEF Before, NotPast, Req, Urgent, Normal, Batch, Never

\* What is submitted now is not overtaken by what was served until now.
LEMMA LateLemma ==
  ASSUME NEW e \in Entry, NEW q \in Req, e.taken <= q.submitted
  PROVE  NotPast(e, q)
  BY GpuAssumption DEF NotPast, Entry, Req, Never

\* What a request that is served later is compared with.
LEMMA ServedLemma ==
  ASSUME NEW e \in Entry, served \in Seq(Entry), served' = Append(served, e)
  PROVE  /\ served' \in Seq(Entry)
         /\ DOMAIN served' = DOMAIN served \cup {Len(served) + 1}
         /\ \A i \in DOMAIN served :
              i \in Nat /\ i < Len(served) + 1 /\ served'[i] = served[i]
         /\ served'[Len(served) + 1] = e
  OBVIOUS

LEMMA OrderInit == Init => OrderInv
  <1> SUFFICES ASSUME Init PROVE OrderInv
    OBVIOUS
  <1>1. served = <<>> /\ DOMAIN served = {} /\ served \in Seq(Entry)
    BY DEF Init
  <1> QED
    BY <1>1 DEF Init, OrderInv, TypeOK, PastOK, QueueNotPast, NoOvertaking

LEMMA OrderStep == OrderInv /\ PlacesOK /\ [Next]_vars => OrderInv'
  <1> SUFFICES ASSUME OrderInv, PlacesOK, [Next]_vars PROVE OrderInv'
    OBVIOUS
  <1>0. TypeOK /\ PastOK /\ QueueNotPast /\ NoOvertaking
    BY DEF OrderInv
  <1>e. \A i \in DOMAIN served : served[i] \in Entry
    BY <1>0 DEF TypeOK
  \* Steps that serve nothing keep what was served.
  <1>s. ASSUME served' = served, TypeOK', PastOK', QueueNotPast' PROVE OrderInv'
    BY <1>0, <1>s DEF OrderInv, NoOvertaking
  <1>1. CASE Tick
    <2>1. now' \in Nat /\ now <= now' /\ UNCHANGED <<queue, served>>
      BY <1>0, <1>1 DEF Tick, TypeOK
    <2>2. TypeOK'
      BY <1>0, <1>1, <2>1 DEF Tick, TypeOK
    <2>3. PastOK'
      <3>1. \A r \in queue : r.submitted \in Nat
        BY <1>0 DEF TypeOK, Req
      <3>2. \A i \in DOMAIN served : served[i].taken \in Nat
        BY <1>e DEF Entry
      <3>3. now \in Nat
        BY <1>0 DEF TypeOK
      <3>4. \A r \in queue : r.submitted <= now'
        BY <1>0, <3>1, <3>3, <2>1 DEF PastOK
      <3>5. \A i \in DOMAIN served : served[i].taken <= now'
        BY <1>0, <3>2, <3>3, <2>1 DEF PastOK
      <3> QED
        BY <3>4, <3>5, <2>1 DEF PastOK
    <2>4. QueueNotPast'
      BY <1>0, <2>1 DEF QueueNotPast
    <2> QED
      BY <2>1, <2>2, <2>3, <2>4, <1>s
  <1>2. ASSUME NEW p \in {Urgent, Normal, Batch}, NEW d \in 1 .. Never, Submit(p, d)
        PROVE  OrderInv'
    <2> DEFINE r == [id |-> nextId, priority |-> p, deadline |-> d, submitted |-> now]
    <2>1. r \in Req /\ r.submitted = now
      BY <1>0 DEF Req, TypeOK
    <2>2. queue' = queue \cup {r} /\ UNCHANGED <<now, served>>
      BY <1>2 DEF Submit
    <2> HIDE DEF r
    <2>3. TypeOK'
      BY <1>0, <1>2, <2>1, <2>2 DEF Submit, TypeOK
    <2>4. PastOK'
      BY <1>0, <2>1, <2>2 DEF PastOK, TypeOK
    <2>5. \A i \in DOMAIN served : NotPast(served[i], r)
      BY <1>0, <1>e, <2>1, LateLemma DEF PastOK
    <2>6. QueueNotPast'
      BY <1>0, <2>2, <2>5 DEF QueueNotPast
    <2> QED
      BY <2>2, <2>3, <2>4, <2>6, <1>s
  <1>3. ASSUME NEW r \in queue, Dequeue(r) PROVE OrderInv'
    <2> DEFINE e == [req |-> r, taken |-> now]
    <2>1. r \in Req /\ now \in Nat
      BY <1>0, <1>3 DEF TypeOK
    <2>2. e \in Entry /\ e.taken = now /\ e.req = r
      BY <2>1 DEF Entry
    <2>3. \A q \in queue : NotPast(e, q)
      BY <1>0, <1>3, <2>1, PopLemma DEF Dequeue, TypeOK
    <2>4. served' = Append(served, e) /\ queue' = queue \ {r} /\ now' = now
      BY <1>3 DEF Dequeue
    <2> HIDE DEF e
    <2>5. /\ served' \in Seq(Entry)
          /\ DOMAIN served' = DOMAIN served \cup {Len(served) + 1}
          /\ \A i \in DOMAIN served :
               i \in Nat /\ i < Len(served) + 1 /\ served'[i] = served[i]
          /\ served'[Len(served) + 1] = e
      BY <1>0, <2>2, <2>4, ServedLemma DEF TypeOK
    <2>6. TypeOK'
      BY <1>0, <1>3, <2>5 DEF Dequeue, TypeOK
    <2>7. PastOK'
      BY <1>0, <2>1, <2>2, <2>4, <2>5 DEF PastOK
    <2>8. QueueNotPast'
      BY <1>0, <2>3, <2>4, <2>5 DEF QueueNotPast
    <2>9. NoOvertaking'
      <3> SUFFICES ASSUME NEW i \in DOMAIN served', NEW j \in DOMAIN served', i < j
                   PROVE  NotPast(served'[i], served'[j].req)
        BY DEF NoOvertaking, NotPast
      <3>l. Len(served) \in Nat
        BY <1>0 DEF TypeOK
      <3>1. i \in DOMAIN served
        BY <2>5, <3>l
      <3>2. CASE j \in DOMAIN served
        BY <3>1, <3>2, <2>5, <1>0 DEF NoOvertaking
      <3>3. CASE j = Len(served) + 1
        BY <3>1, <3>3, <2>5, <2>2, <1>0 DEF QueueNotPast
      <3> QED
        BY <3>2, <3>3, <2>5
    <2> QED
      BY <2>6, <2>7, <2>8, <2>9 DEF OrderInv
  <1>4. CASE CompleteCurrent \/ FailCurrent
    <2>1. TypeOK'
      BY <1>0, <1>4 DEF CompleteCurrent, FailCurrent, TypeOK
    <2>2. UNCHANGED <<now, queue, served>>
      BY <1>4 DEF CompleteCurrent, FailCurrent
    <2> QED
      BY <1>0, <1>s, <2>1, <2>2 DEF PastOK, QueueNotPast
  <1>5. CASE ExpireDeadlines
    <2>0. totalFailed' \in Nat
      <3>1. IsFiniteSet(Overdue)
        BY FS_Subset DEF PlacesOK, Overdue
      <3>2. Cardinality(Overdue) \in Nat
        BY <3>1, FS_CardinalityType
      <3> QED
        BY <1>0, <1>5, <3>2 DEF ExpireDeadlines, TypeOK
    <2>1. UNCHANGED <<now, served>> /\ queue' \subseteq queue
      BY <1>5 DEF ExpireDeadlines
    <2>2. TypeOK'
      BY <1>0, <1>5, <2>0, <2>1 DEF ExpireDeadlines, TypeOK
    <2> QED
      BY <1>0, <1>s, <2>1, <2>2 DEF PastOK, QueueNotPast
  <1>6. CASE UNCHANGED vars
    <2>1. TypeOK'
      BY <1>0, <1>6 DEF TypeOK, vars
    <2>2. UNCHANGED <<now, queue, served>>
      BY <1>6 DEF vars
    <2> QED
      BY <1>0, <1>s, <2>1, <2>2 DEF PastOK, QueueNotPast
  <1> QED
    BY <1>1, <1>2, <1>3, <1>4, <1>5, <1>6 DEF Next

-----------------------------------------------------------------------------
(* The books.                                                              *)

LEMMA BooksInit == Init => BooksInv
  <1> SUFFICES ASSUME Init PROVE BooksInv
    OBVIOUS
  <1>1. IsFiniteSet({}) /\ Cardinality({}) = 0
    BY FS_EmptySet
  <1> QED
    BY <1>1 DEF Init, BooksInv, PlacesOK, RequestsAccounted

LEMMA BooksStep == TypeOK /\ BooksInv /\ [Next]_vars => BooksInv'
  <1> SUFFICES ASSUME TypeOK, BooksInv, [Next]_vars PROVE BooksInv'
    OBVIOUS
  <1>0. PlacesOK /\ RequestsAccounted
    BY DEF BooksInv
  <1>f. IsFiniteSet(queue) /\ IsFiniteSet(current) /\ IsFiniteSet(displaced)
    BY <1>0 DEF PlacesOK
  <1>n. /\ Cardinality(queue) \in Nat /\ Cardinality(current) \in Nat
        /\ Cardinality(displaced) \in Nat
        /\ nextId \in Nat /\ totalCompleted \in Nat /\ totalFailed \in Nat
    BY <1>f, FS_CardinalityType DEF TypeOK
  <1>i. \A r \in queue \cup current \cup displaced : r.id \in Nat /\ r.id < nextId
    BY <1>0 DEF TypeOK, PlacesOK, Req
  <1>1. CASE Tick \/ UNCHANGED vars
    BY <1>0, <1>1 DEF Tick, vars, BooksInv, PlacesOK, RequestsAccounted
  <1>2. ASSUME NEW p, NEW d, Submit(p, d) PROVE BooksInv'
    <2> DEFINE r == [id |-> nextId, priority |-> p, deadline |-> d, submitted |-> now]
    <2>1. queue' = queue \cup {r} /\ UNCHANGED <<current, displaced>> /\ r.id = nextId
      BY <1>2 DEF Submit
    <2>2. nextId' = nextId + 1 /\ UNCHANGED <<totalCompleted, totalFailed>>
      BY <1>2 DEF Submit
    <2> HIDE DEF r
    <2>3. r \notin queue \cup current \cup displaced
      BY <1>i, <1>n, <2>1
    <2>4. IsFiniteSet(queue') /\ Cardinality(queue') = Cardinality(queue) + 1
      BY <1>f, <2>1, <2>3, FS_AddElement
    <2>5. \A x \in queue' \cup current' \cup displaced' : x.id < nextId'
      BY <1>i, <1>n, <2>1, <2>2
    <2>6. queue' \cap current' = {} /\ queue' \cap displaced' = {}
      BY <1>0, <2>1, <2>3 DEF PlacesOK
    <2>7. RequestsAccounted'
      BY <1>0, <1>n, <2>1, <2>2, <2>4 DEF RequestsAccounted
    <2> QED
      BY <1>0, <2>1, <2>4, <2>5, <2>6, <2>7 DEF BooksInv, PlacesOK
  <1>3. ASSUME NEW r \in queue, Dequeue(r) PROVE BooksInv'
    <2>1. /\ queue' = queue \ {r} /\ current' = {r} /\ displaced' = displaced \cup current
          /\ UNCHANGED <<nextId, totalCompleted, totalFailed>>
      BY <1>3 DEF Dequeue
    <2>2. IsFiniteSet(queue') /\ Cardinality(queue') = Cardinality(queue) - 1
      BY <1>f, <2>1, FS_RemoveElement
    <2>3. IsFiniteSet(current') /\ Cardinality(current') = 1
      BY <2>1, FS_Singleton
    <2>4. displaced \cap current = {} /\ Cardinality({}) = 0
      BY <1>0, FS_EmptySet DEF PlacesOK
    <2>5. /\ IsFiniteSet(displaced')
          /\ Cardinality(displaced') = Cardinality(displaced) + Cardinality(current)
      <3>1. /\ IsFiniteSet(displaced \cup current)
            /\ Cardinality(displaced \cup current)
                 = Cardinality(displaced) + Cardinality(current)
                     - Cardinality(displaced \cap current)
        BY <1>f, FS_Union
      <3>2. Cardinality(displaced \cap current) = 0
        BY <2>4
      <3>3. Cardinality(displaced \cup current) = Cardinality(displaced) + Cardinality(current)
        BY <3>1, <3>2, <1>n
      <3> QED
        BY <3>1, <3>3, <2>1
    <2>6. \A x \in queue' \cup current' \cup displaced' : x.id < nextId'
      BY <1>i, <2>1
    <2>7. /\ queue' \cap current' = {} /\ queue' \cap displaced' = {}
          /\ current' \cap displaced' = {}
      BY <1>0, <2>1 DEF PlacesOK
    <2>8. RequestsAccounted'
      BY <1>0, <1>n, <2>1, <2>2, <2>3, <2>5 DEF RequestsAccounted
    <2> QED
      BY <2>2, <2>3, <2>5, <2>6, <2>7, <2>8 DEF BooksInv, PlacesOK
  <1>4. CASE CompleteCurrent \/ FailCurrent
    <2>1. Cardinality(current) = 1 /\ current' = {} /\ UNCHANGED <<queue, displaced, nextId>>
      BY <1>0, <1>4 DEF CompleteCurrent, FailCurrent, PlacesOK
    <2>2. IsFiniteSet(current') /\ Cardinality(current') = 0
      BY <2>1, FS_EmptySet
    <2>3. \/ totalCompleted' = totalCompleted + 1 /\ totalFailed' = totalFailed
          \/ totalCompleted' = totalCompleted /\ totalFailed' = totalFailed + 1
      BY <1>4 DEF CompleteCurrent, FailCurrent
    <2>c. /\ Cardinality(queue') = Cardinality(queue)
          /\ Cardinality(displaced') = Cardinality(displaced)
          /\ nextId' = nextId
      BY <2>1
    <2>4. RequestsAccounted'
      <3>1. nextId - 1 = Cardinality(queue) + 1 + totalCompleted + totalFailed
                           + Cardinality(displaced)
        BY <1>0, <2>1 DEF RequestsAccounted
      <3>2. nextId' - 1 = Cardinality(queue) + 0 + totalCompleted' + totalFailed'
                            + Cardinality(displaced)
        BY <3>1, <1>n, <2>c, <2>3
      <3> QED
        BY <3>2, <2>c, <2>2 DEF RequestsAccounted
    <2>5. PlacesOK'
      BY <1>0, <2>1, <2>2 DEF PlacesOK
    <2> QED
      BY <2>4, <2>5 DEF BooksInv
  <1>5. CASE ExpireDeadlines
    <2>1. /\ queue' = queue \ Overdue /\ totalFailed' = totalFailed + Cardinality(Overdue)
          /\ UNCHANGED <<nextId, current, displaced, totalCompleted>>
      BY <1>5 DEF ExpireDeadlines
    <2>2. queue \cap Overdue = Overdue /\ IsFiniteSet(Overdue)
      BY <1>f, FS_Subset DEF Overdue
    <2>3. Cardinality(Overdue) \in Nat
      BY <2>2, FS_CardinalityType
    <2>4. /\ IsFiniteSet(queue')
          /\ Cardinality(queue') = Cardinality(queue) - Cardinality(Overdue)
      <3>1. /\ IsFiniteSet(queue \ Overdue)
            /\ Cardinality(queue \ Overdue)
                 = Cardinality(queue) - Cardinality(queue \cap Overdue)
        BY <1>f, FS_Difference
      <3> QED
        BY <3>1, <2>1, <2>2
    <2>5. RequestsAccounted'
      BY <1>0, <1>n, <2>1, <2>3, <2>4 DEF RequestsAccounted
    <2>6. PlacesOK'
      BY <1>0, <2>1, <2>4 DEF PlacesOK
    <2> QED
      BY <2>5, <2>6 DEF BooksInv
  <1> QED
    BY <1>1, <1>2, <1>3, <1>4, <1>5 DEF Next

-----------------------------------------------------------------------------

LEMMA GpuInvariant == Spec => [](OrderInv /\ BooksInv)
  <1>1. OrderInv /\ BooksInv /\ [Next]_vars => OrderInv' /\ BooksInv'
    BY OrderStep, BooksStep DEF OrderInv, BooksInv
  <1> QED
    BY <1>1, OrderInit, BooksInit, PTL DEF Spec

\* dequeue serves requests by priority and deadline, whatever was submitted,
\* expired or completed in between: none overtakes a more urgent one that waits.
THEOREM OrderTheorem == Spec => []NoOvertaking
  BY GpuInvariant, PTL DEF OrderInv

\* Every request that submit numbered is in the queue, current, counted once as
\* completed or failed, or was displaced by a dequeue while it was current.
THEOREM AccountedTheorem == Spec => []RequestsAccounted
  BY GpuInvariant, PTL DEF BooksInv
=============================================================================
