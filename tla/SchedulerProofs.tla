-------------------------- MODULE SchedulerProofs --------------------------
(* Proofs about the scheduler, for any MAX_TASKS and any priorities.       *)
EXTENDS Scheduler, SequenceTheorems, WellFoundedInduction, TLAPS

-----------------------------------------------------------------------------
(* The sequence operations the queues and the free list are built from.    *)

\* push_back adds one element.
LEMMA AppendRange ==
    ASSUME NEW S, NEW s \in Seq(S), NEW x \in S
    PROVE  /\ Append(s, x) \in Seq(S)
           /\ Range(Append(s, x)) = Range(s) \cup {x}
           /\ IsInjective(s) /\ x \notin Range(s) => IsInjective(Append(s, x))
<1> DEFINE r == Append(s, x)
<1>1. /\ r \in Seq(S) /\ DOMAIN s = 1 .. Len(s) /\ DOMAIN r = 1 .. Len(s) + 1
      /\ Len(s) \in Nat
      /\ \A i \in 1 .. Len(s) : r[i] = s[i]
      /\ r[Len(s) + 1] = x
  OBVIOUS
<1> HIDE DEF r
<1>2. Range(r) = Range(s) \cup {x}
  <2>1. ASSUME NEW y \in Range(r) PROVE y \in Range(s) \cup {x}
    <3>1. PICK i \in DOMAIN r : r[i] = y
      BY DEF Range
    <3> QED
      BY <1>1, <3>1 DEF Range
  <2>2. ASSUME NEW y \in Range(s) PROVE y \in Range(r)
    <3>1. PICK i \in DOMAIN s : s[i] = y
      BY DEF Range
    <3>2. i \in DOMAIN r /\ r[i] = y
      BY <1>1, <3>1
    <3> QED
      BY <3>2 DEF Range
  <2>3. x \in Range(r)
    <3>1. Len(s) + 1 \in DOMAIN r
      BY <1>1
    <3> QED
      BY <1>1, <3>1 DEF Range
  <2> QED
    BY <2>1, <2>2, <2>3
<1>3. ASSUME IsInjective(s), x \notin Range(s) PROVE IsInjective(r)
  BY <1>1, <1>3 DEF IsInjective, Range
<1> QED
  BY <1>1, <1>2, <1>3 DEF r

\* Removing a position of a sequence without duplicates removes its element.
LEMMA RemoveAtRange ==
    ASSUME NEW S, NEW s \in Seq(S), IsInjective(s), NEW k \in DOMAIN s
    PROVE  /\ RemoveAt(s, k) \in Seq(S)
           /\ Range(RemoveAt(s, k)) = Range(s) \ {s[k]}
           /\ IsInjective(RemoveAt(s, k))
<1> DEFINE r == RemoveAt(s, k)
<1>1. DOMAIN s = 1 .. Len(s) /\ Len(s) \in Nat /\ k \in 1 .. Len(s)
  OBVIOUS
<1>2. /\ r \in Seq(S) /\ DOMAIN r = 1 .. Len(s) - 1
      /\ \A i \in 1 .. Len(s) - 1 : r[i] = IF i < k THEN s[i] ELSE s[i + 1]
  <2> DEFINE a == SubSeq(s, 1, k - 1)
             b == SubSeq(s, k + 1, Len(s))
  <2>1. /\ a \in Seq(S) /\ Len(a) = k - 1
        /\ \A i \in 1 .. k - 1 : a[i] = s[i]
    BY <1>1
  <2>2. /\ b \in Seq(S) /\ Len(b) = Len(s) - k
        /\ \A i \in 1 .. Len(s) - k : b[i] = s[i + k]
    BY <1>1
  <2>3. r = a \o b
    BY DEF RemoveAt
  <2> HIDE DEF a, b, r
  <2>4. /\ r \in Seq(S) /\ Len(r) = Len(a) + Len(b)
        /\ \A i \in 1 .. Len(a) + Len(b) :
              r[i] = IF i <= Len(a) THEN a[i] ELSE b[i - Len(a)]
    BY <2>1, <2>2, <2>3, ConcatProperties
  <2>5. Len(r) = Len(s) - 1 /\ DOMAIN r = 1 .. Len(s) - 1
    BY <1>1, <2>1, <2>2, <2>4
  <2>6. ASSUME NEW i \in 1 .. Len(s) - 1
        PROVE  r[i] = IF i < k THEN s[i] ELSE s[i + 1]
    <3>1. i \in 1 .. Len(a) + Len(b)
      BY <1>1, <2>1, <2>2
    <3>2. CASE i < k
      <4>1. i \in 1 .. k - 1 /\ i <= Len(a)
        BY <1>1, <2>1, <3>2
      <4> QED
        BY <2>1, <2>4, <3>1, <3>2, <4>1
    <3>3. CASE ~(i < k)
      <4>1. i - (k - 1) \in 1 .. Len(s) - k /\ ~(i <= Len(a))
        BY <1>1, <2>1, <3>3
      <4>2. r[i] = b[i - (k - 1)]
        BY <2>1, <2>4, <3>1, <4>1
      <4>3. b[i - (k - 1)] = s[(i - (k - 1)) + k]
        BY <2>2, <4>1
      <4> QED
        BY <1>1, <3>3, <4>2, <4>3
    <3> QED
      BY <3>2, <3>3
  <2> QED
    BY <2>4, <2>5, <2>6
<1> HIDE DEF r
<1>3. Range(r) = Range(s) \ {s[k]}
  <2>1. ASSUME NEW y \in Range(r) PROVE y \in Range(s) \ {s[k]}
    <3>1. PICK i \in DOMAIN r : r[i] = y
      BY DEF Range
    <3>2. PICK j \in DOMAIN s : j # k /\ s[j] = y
      BY <1>1, <1>2, <3>1
    <3> QED
      BY <3>2 DEF Range, IsInjective
  <2>2. ASSUME NEW y \in Range(s), y # s[k] PROVE y \in Range(r)
    <3>1. PICK j \in DOMAIN s : s[j] = y /\ j # k
      BY <2>2 DEF Range
    <3>2. PICK i \in DOMAIN r : r[i] = y
      <4>1. CASE j < k
        BY <1>1, <1>2, <3>1, <4>1
      <4>2. CASE j > k
        <5>1. j - 1 \in DOMAIN r /\ r[j - 1] = y
          BY <1>1, <1>2, <3>1, <4>2
        <5> QED
          BY <5>1
      <4> QED
        BY <1>1, <3>1, <4>1, <4>2
    <3> QED
      BY <3>2 DEF Range
  <2> QED
    BY <2>1, <2>2
<1>4. IsInjective(r)
  BY <1>1, <1>2 DEF IsInjective
<1> QED
  BY <1>2, <1>3, <1>4 DEF r

\* Popping the last element of a free list without duplicates.
LEMMA FrontRange ==
    ASSUME NEW S, NEW s \in Seq(S), IsInjective(s), s # <<>>
    PROVE  /\ Last(s) \in Range(s) /\ Last(s) \in S
           /\ Front(s) \in Seq(S)
           /\ Range(Front(s)) = Range(s) \ {Last(s)}
           /\ IsInjective(Front(s))
<1>1. Len(s) \in DOMAIN s /\ DOMAIN s = 1 .. Len(s) /\ Len(s) \in Nat \ {0}
  OBVIOUS
<1>2. Front(s) = RemoveAt(s, Len(s))
  BY <1>1 DEF Front, RemoveAt
<1>3. s[Len(s)] \in Range(s) /\ s[Len(s)] \in S
  BY <1>1 DEF Range
<1>4. /\ RemoveAt(s, Len(s)) \in Seq(S)
      /\ Range(RemoveAt(s, Len(s))) = Range(s) \ {s[Len(s)]}
      /\ IsInjective(RemoveAt(s, Len(s)))
  BY <1>1, RemoveAtRange
<1> QED
  BY <1>2, <1>3, <1>4 DEF Last

-----------------------------------------------------------------------------
(* Choosing the next task.                                                 *)

\* A non-empty set of levels or positions has a first element.
LEMMA FirstExists ==
    ASSUME NEW S \in SUBSET Nat, S # {}
    PROVE  First(S) \in S
<1>1. PICK i \in S : \A j \in S : ~(<<j, i>> \in OpToRel(<, Nat))
  BY NatLessThanWellFounded, WFMin
<1>2. \A j \in S : i <= j
  <2>1. \A ss \in Nat \X Nat : ss[1] < ss[2] => ss \in OpToRel(<, Nat)
    BY DEF OpToRel
  <2>2. \A j \in S : j < i => <<j, i>> \in OpToRel(<, Nat)
    BY <2>1
  <2>3. \A j \in S : ~(j < i)
    BY <1>1, <2>2, Zenon
  <2> QED
    BY <2>3
<1> QED
  BY <1>2 DEF First

\* pick_next_fair finds a queued task whenever there is one.
LEMMA PickFindsTask ==
    ASSUME NEW qs \in [Prios -> Seq(Ids)], NEW last
    PROVE  /\ PickNextFair(qs, last) = <<>> => \A p \in Prios : qs[p] = <<>>
           /\ PickNextFair(qs, last) # <<>> =>
                 /\ PickNextFair(qs, last)[1] \in Prios
                 /\ PickNextFair(qs, last)[2]
                       \in DOMAIN qs[PickNextFair(qs, last)[1]]
<1> DEFINE fair == {p \in Prios : Others(qs[p], last) # {}}
           ready == {p \in Prios : qs[p] # <<>>}
           c == PickNextFair(qs, last)
<1>1. fair \in SUBSET Nat /\ ready \in SUBSET Nat
  BY DEF Prios
<1>2. CASE fair # {}
  <2>1. First(fair) \in fair
    BY <1>1, <1>2, FirstExists
  <2> DEFINE os == Others(qs[First(fair)], last)
  <2>2. os \in SUBSET Nat /\ os # {} /\ os \subseteq DOMAIN qs[First(fair)]
    <3>1. qs[First(fair)] \in Seq(Ids) /\ os # {}
      BY <2>1
    <3>2. DOMAIN qs[First(fair)] \subseteq Nat
      <4>1. \A q \in Seq(Ids) : DOMAIN q \subseteq Nat
        OBVIOUS
      <4> QED
        BY <3>1, <4>1, Zenon
    <3>3. os \subseteq DOMAIN qs[First(fair)]
      BY DEF Others
    <3> QED
      BY <3>1, <3>2, <3>3
  <2>3. First(os) \in os
    BY <2>2, FirstExists
  <2>4. c = <<First(fair), First(os)>>
    BY <1>2 DEF PickNextFair
  <2> HIDE DEF fair, os, c
  <2>5. c # <<>> /\ c[1] = First(fair) /\ c[2] = First(os)
    BY <2>4
  <2>6. First(fair) \in Prios
    BY <2>1 DEF fair
  <2> QED
    BY <2>2, <2>3, <2>5, <2>6 DEF c
<1>3. CASE fair = {} /\ ready # {}
  <2>1. First(ready) \in ready
    BY <1>1, <1>3, FirstExists
  <2>2. c = <<First(ready), 1>>
    BY <1>3 DEF PickNextFair
  <2>3. First(ready) \in Prios /\ qs[First(ready)] # <<>>
    BY <2>1
  <2> HIDE DEF fair, ready, c
  <2>4. c # <<>> /\ c[1] = First(ready) /\ c[2] = 1
    BY <2>2
  <2>5. 1 \in DOMAIN qs[First(ready)]
    <3>1. qs[First(ready)] \in Seq(Ids)
      BY <2>3
    <3> QED
      BY <2>3, <3>1
  <2> QED
    BY <2>3, <2>4, <2>5 DEF c
<1>4. CASE fair = {} /\ ready = {}
  BY <1>4 DEF PickNextFair
<1> QED
  BY <1>2, <1>3, <1>4

-----------------------------------------------------------------------------
(* What reschedule does to the places of the tasks.                        *)

Tags == {"Running", "Blocked", "Dead"}

\* The queues after the current task was put back hold the tasks that were
\* ready and, if it was still runnable, the current one.
LEMMA PutBackQueues ==
    ASSUME TypeOK, OnePlacePerTask, NEW tag \in Tags
    PROVE  /\ PutBack(tag) \in [Prios -> Seq(Ids)]
           /\ \A p \in Prios : IsInjective(PutBack(tag)[p])
           /\ \A t \in Ids, p \in Prios : t \in Range(PutBack(tag)[p]) <=>
                 /\ pri[t] = p
                 /\ state[t] = "Ready" \/ (t = current /\ tag = "Running")
<1>1. CASE current # 0 /\ tag = "Running"
  <2> DEFINE c == pri[current]
  <2>1. /\ current \in Ids /\ c \in Prios /\ state[current] = "Running"
        /\ queues[c] \in Seq(Ids) /\ IsInjective(queues[c])
    BY <1>1, MaxTasksAssumption DEF TypeOK, OnePlacePerTask, Slots, Ids
  <2>2. current \notin Range(queues[c])
    BY <2>1 DEF OnePlacePerTask
  <2>3. /\ Append(queues[c], current) \in Seq(Ids)
        /\ Range(Append(queues[c], current)) = Range(queues[c]) \cup {current}
        /\ IsInjective(Append(queues[c], current))
    BY <2>1, <2>2, AppendRange
  <2>4. /\ PutBack(tag) = [queues EXCEPT ![c] = Append(queues[c], current)]
        /\ queues \in [Prios -> Seq(Ids)]
    BY <1>1 DEF PutBack, TypeOK
  <2>5. \A p \in Prios : PutBack(tag)[p] =
            IF p = c THEN Append(queues[c], current) ELSE queues[p]
    BY <2>4
  <2>6. PutBack(tag) \in [Prios -> Seq(Ids)]
    BY <2>1, <2>3, <2>4
  <2>7. \A p \in Prios : IsInjective(PutBack(tag)[p])
    BY <2>3, <2>5 DEF OnePlacePerTask
  <2>8. ASSUME NEW t \in Ids, NEW p \in Prios
        PROVE  t \in Range(PutBack(tag)[p]) <=>
                 /\ pri[t] = p
                 /\ state[t] = "Ready" \/ (t = current /\ tag = "Running")
    <3>1. t \in Range(queues[p]) <=> state[t] = "Ready" /\ pri[t] = p
      BY DEF OnePlacePerTask
    <3>2. CASE p = c
      BY <1>1, <2>1, <2>3, <2>5, <3>1, <3>2
    <3>3. CASE p # c
      BY <1>1, <2>1, <2>5, <3>1, <3>3
    <3> QED
      BY <3>2, <3>3
  <2> QED
    BY <2>6, <2>7, <2>8
<1>2. CASE ~(current # 0 /\ tag = "Running")
  <2>1. PutBack(tag) = queues
    BY <1>2 DEF PutBack, Tags
  <2>2. \A t \in Ids : ~(t = current /\ tag = "Running")
    BY <1>2, MaxTasksAssumption DEF Ids
  <2> QED
    BY <2>1, <2>2 DEF TypeOK, OnePlacePerTask
<1> QED
  BY <1>1, <1>2

\* The task that becomes current was ready or has just yielded; there is none
\* only if no task is left in the queues.
LEMMA NewCurrentTask ==
    ASSUME TypeOK, OnePlacePerTask, NEW tag \in Tags
    PROVE  /\ NewCurrent(tag) = 0 =>
                 Chosen(tag) = <<>> /\ \A p \in Prios : PutBack(tag)[p] = <<>>
           /\ NewCurrent(tag) # 0 =>
                 /\ Chosen(tag) # <<>>
                 /\ NewCurrent(tag) \in Ids
                 /\ \/ state[NewCurrent(tag)] = "Ready"
                    \/ NewCurrent(tag) = current /\ tag = "Running"
                 /\ Chosen(tag)[1] = pri[NewCurrent(tag)]
                 /\ Chosen(tag)[1] \in Prios
                 /\ Chosen(tag)[2] \in DOMAIN PutBack(tag)[Chosen(tag)[1]]
                 /\ NewCurrent(tag) = PutBack(tag)[Chosen(tag)[1]][Chosen(tag)[2]]
<1> DEFINE qs == PutBack(tag)
           c == Chosen(tag)
           n == NewCurrent(tag)
<1>1. /\ qs \in [Prios -> Seq(Ids)]
      /\ \A t \in Ids, p \in Prios : t \in Range(qs[p]) <=>
            /\ pri[t] = p
            /\ state[t] = "Ready" \/ (t = current /\ tag = "Running")
  BY PutBackQueues
<1>2. /\ c = <<>> => \A p \in Prios : qs[p] = <<>>
      /\ c # <<>> => c[1] \in Prios /\ c[2] \in DOMAIN qs[c[1]]
  BY <1>1, PickFindsTask DEF Chosen
<1>3. /\ c = <<>> => n = 0
      /\ c # <<>> => n = qs[c[1]][c[2]]
  BY DEF NewCurrent
<1> HIDE DEF qs, c, n
<1>4. CASE c = <<>>
  BY <1>2, <1>3, <1>4 DEF qs, c, n
<1>5. CASE c # <<>>
  <2>1. qs[c[1]] \in Seq(Ids)
    BY <1>1, <1>2, <1>5
  <2>2. n \in Ids /\ n \in Range(qs[c[1]])
    BY <1>2, <1>3, <1>5, <2>1 DEF Range
  <2>3. n # 0
    BY <2>2, MaxTasksAssumption DEF Ids
  <2>4. pri[n] = c[1] /\ (state[n] = "Ready" \/ (n = current /\ tag = "Running"))
    BY <1>1, <1>2, <1>5, <2>2
  <2> QED
    BY <1>2, <1>3, <1>5, <2>2, <2>3, <2>4 DEF qs, c, n
<1> QED
  BY <1>4, <1>5

\* reschedule moves one task at a time from place to place and loses none.
LEMMA RescheduleMoves ==
    ASSUME TypeOK, OnePlacePerTask, NEW tag \in Tags, Reschedule(tag)
    PROVE  /\ state' \in [Ids -> States] /\ pri' \in [Ids -> Prios]
           /\ queues' \in [Prios -> Seq(Ids)]
           /\ current' \in Slots /\ blocked' \subseteq Ids
           /\ OnePlacePerTask'
           /\ current' = 0 => \A p \in Prios : queues'[p] = <<>>
           /\ current' # 0 =>
                 /\ current' \in Ids
                 /\ \/ state[current'] = "Ready"
                    \/ current' = current /\ tag = "Running"
           /\ tag = "Running" /\ current # 0 => current' # 0
<1> DEFINE qs == PutBack(tag)
           c == Chosen(tag)
           n == NewCurrent(tag)
<1>1. /\ qs \in [Prios -> Seq(Ids)]
      /\ \A p \in Prios : IsInjective(qs[p])
      /\ \A t \in Ids, p \in Prios : t \in Range(qs[p]) <=>
            /\ pri[t] = p
            /\ state[t] = "Ready" \/ (t = current /\ tag = "Running")
  BY PutBackQueues
<1>2. /\ n = 0 => c = <<>> /\ \A p \in Prios : qs[p] = <<>>
      /\ n # 0 => /\ c # <<>> /\ n \in Ids
                  /\ state[n] = "Ready" \/ (n = current /\ tag = "Running")
                  /\ c[1] = pri[n] /\ c[1] \in Prios
                  /\ c[2] \in DOMAIN qs[c[1]] /\ n = qs[c[1]][c[2]]
  BY NewCurrentTask
<1>3. /\ current' = n /\ pri' = pri
      /\ queues' = IF c = <<>> THEN qs
                   ELSE [qs EXCEPT ![c[1]] = RemoveAt(qs[c[1]], c[2])]
      /\ state' = [t \in Ids |-> IF t = n THEN "Running"
                                 ELSE IF t = current THEN StateAfter(tag)
                                 ELSE state[t]]
      /\ blocked' = IF current # 0 /\ tag = "Blocked"
                    THEN blocked \cup {current} ELSE blocked
  BY DEF Reschedule
<1> HIDE DEF qs, c, n
<1>4. StateAfter(tag) = CASE tag = "Running" -> "Ready"
                          [] tag = "Blocked" -> "Blocked"
                          [] tag = "Dead" -> "None"
  BY DEF StateAfter, Tags
<1>5. /\ StateAfter(tag) \in {"Ready", "Blocked", "None"}
      /\ StateAfter(tag) = "Ready" <=> tag = "Running"
      /\ StateAfter(tag) = "Blocked" <=> tag = "Blocked"
  BY <1>4 DEF Tags
<1>6. current # 0 => current \in Ids /\ state[current] = "Running"
  BY MaxTasksAssumption DEF TypeOK, OnePlacePerTask, Slots, Ids
<1>7. n # current \/ n = 0 \/ tag = "Running"
  BY <1>2, <1>6
<1>8. 0 \notin Ids /\ Ids \subseteq Slots /\ 0 \in Slots
  BY MaxTasksAssumption DEF Ids, Slots
<1>9. /\ queues' \in [Prios -> Seq(Ids)]
      /\ \A p \in Prios : IsInjective(queues'[p])
      /\ \A p \in Prios : Range(queues'[p]) =
            IF n # 0 /\ p = pri[n] THEN Range(qs[p]) \ {n} ELSE Range(qs[p])
  <2>1. CASE n = 0
    BY <1>1, <1>2, <1>3, <2>1
  <2>2. CASE n # 0
    <3>1. qs[c[1]] \in Seq(Ids) /\ IsInjective(qs[c[1]])
      BY <1>1, <1>2, <2>2
    <3>2. /\ RemoveAt(qs[c[1]], c[2]) \in Seq(Ids)
          /\ Range(RemoveAt(qs[c[1]], c[2])) = Range(qs[c[1]]) \ {n}
          /\ IsInjective(RemoveAt(qs[c[1]], c[2]))
      BY <1>2, <2>2, <3>1, RemoveAtRange
    <3>3. /\ queues' = [qs EXCEPT ![c[1]] = RemoveAt(qs[c[1]], c[2])]
          /\ c[1] \in Prios /\ c[1] = pri[n]
      BY <1>2, <1>3, <2>2
    <3>4. \A p \in Prios : queues'[p] =
              IF p = c[1] THEN RemoveAt(qs[c[1]], c[2]) ELSE qs[p]
      BY <1>1, <3>3
    <3>5. queues' \in [Prios -> Seq(Ids)]
      BY <1>1, <3>2, <3>3
    <3> QED
      BY <1>1, <2>2, <3>2, <3>3, <3>4, <3>5
  <2> QED
    BY <2>1, <2>2
<1>10. \A t \in Ids : state'[t] = IF t = n THEN "Running"
                                  ELSE IF t = current THEN StateAfter(tag)
                                  ELSE state[t]
  BY <1>3
<1>11. state' \in [Ids -> States]
  BY <1>3, <1>5 DEF TypeOK, States
<1>12. /\ pri' \in [Ids -> Prios] /\ current' \in Slots /\ blocked' \subseteq Ids
  BY <1>2, <1>3, <1>6, <1>8 DEF TypeOK
<1>13. \A t \in Ids : state'[t] = "Running" <=> current' = t
  BY <1>3, <1>5, <1>6, <1>8, <1>10 DEF OnePlacePerTask
<1>14. ASSUME NEW t \in Ids PROVE state'[t] = "Blocked" <=> t \in blocked'
  <2>1. state[t] = "Blocked" <=> t \in blocked
    BY DEF OnePlacePerTask
  <2>2. CASE t = n
    <3>1. t \notin blocked' /\ state'[t] = "Running"
      BY <1>2, <1>3, <1>7, <1>6, <1>8, <1>10, <2>1, <2>2
    <3> QED
      BY <3>1
  <2>3. CASE t # n /\ t = current
    BY <1>3, <1>5, <1>6, <1>8, <1>10, <2>1, <2>3
  <2>4. CASE t # n /\ t # current
    BY <1>3, <1>10, <2>1, <2>4
  <2> QED
    BY <2>2, <2>3, <2>4
<1>15. ASSUME NEW t \in Ids, NEW p \in Prios
       PROVE  t \in Range(queues'[p]) <=> state'[t] = "Ready" /\ pri'[t] = p
  <2>1. t \in Range(qs[p]) <=>
            /\ pri[t] = p
            /\ state[t] = "Ready" \/ (t = current /\ tag = "Running")
    BY <1>1
  <2>2. t \in Range(queues'[p]) <=> t \in Range(qs[p]) /\ ~(t = n /\ p = pri[n])
    BY <1>8, <1>9
  <2>3. CASE t = n
    BY <1>3, <1>10, <2>1, <2>2, <2>3
  <2>4. CASE t # n /\ t = current
    BY <1>3, <1>5, <1>6, <1>8, <1>10, <2>1, <2>2, <2>4
  <2>5. CASE t # n /\ t # current
    BY <1>3, <1>10, <2>1, <2>2, <2>5
  <2> QED
    BY <2>3, <2>4, <2>5
<1>16. OnePlacePerTask'
  BY <1>9, <1>13, <1>14, <1>15 DEF OnePlacePerTask
<1>17. current' = 0 => \A p \in Prios : queues'[p] = <<>>
  BY <1>2, <1>3
<1>18. tag = "Running" /\ current # 0 => current' # 0
  <2> SUFFICES ASSUME tag = "Running", current # 0, n = 0 PROVE FALSE
    BY <1>3
  <2>1. pri[current] \in Prios /\ current \in Range(qs[pri[current]])
    BY <1>1, <1>6 DEF TypeOK
  <2>2. qs[pri[current]] = <<>>
    BY <1>2, <2>1
  <2> QED
    BY <2>1, <2>2 DEF Range
<1> QED
  BY <1>2, <1>3, <1>9, <1>11, <1>12, <1>16, <1>17, <1>18

\* The live tasks after reschedule: all but a current task that was killed.
LEMMA RescheduleLive ==
    ASSUME TypeOK, OnePlacePerTask, NEW tag \in Tags, Reschedule(tag)
    PROVE  Live' = IF current # 0 /\ tag = "Dead" THEN Live \ {current} ELSE Live
<1>1. current' # 0 => /\ current' \in Ids
                      /\ \/ state[current'] = "Ready"
                         \/ current' = current /\ tag = "Running"
  BY RescheduleMoves
<1>2. current # 0 => current \in Ids /\ state[current] = "Running"
  BY MaxTasksAssumption DEF TypeOK, OnePlacePerTask, Slots, Ids
<1>3. 0 \notin Ids
  BY MaxTasksAssumption DEF Ids
<1>4. \A t \in Ids : state'[t] = IF t = current' THEN "Running"
                                 ELSE IF t = current THEN StateAfter(tag)
                                 ELSE state[t]
  BY DEF Reschedule
<1>5. StateAfter(tag) = "None" <=> tag = "Dead"
  BY DEF StateAfter, Tags
<1>6. ASSUME NEW t \in Ids
      PROVE  state'[t] # "None" <=>
                state[t] # "None" /\ ~(tag = "Dead" /\ t = current)
  <2>1. CASE t = current'
    BY <1>1, <1>2, <1>3, <1>4, <2>1
  <2>2. CASE t # current' /\ t = current
    BY <1>2, <1>3, <1>4, <1>5, <2>2
  <2>3. CASE t # current' /\ t # current
    BY <1>4, <2>3
  <2> QED
    BY <2>1, <2>2, <2>3
<1>7. CASE current # 0 /\ tag = "Dead"
  BY <1>6, <1>7 DEF Live
<1>8. CASE ~(current # 0 /\ tag = "Dead")
  <2>1. \A t \in Ids : ~(tag = "Dead" /\ t = current)
    BY <1>3, <1>8
  <2> QED
    BY <1>6, <1>8, <2>1 DEF Live
<1> QED
  BY <1>7, <1>8

-----------------------------------------------------------------------------
(* The inductive invariant.                                                *)

\* What the properties need besides themselves: alloc runs past MAX_TASKS at
\* most once, a stack is mapped for every id in use or recycled, and the slot
\* of a live task was written.
Bookkeeping ==
    /\ panic = "none" => nextId <= MaxTasks
    /\ Live \cup Range(freeList) \subseteq mapped
    /\ \A t \in Live : ctx[t] # "Empty"

IInv == /\ TypeOK /\ OnePlacePerTask /\ IdsPartitioned /\ MailboxesMatchTasks
        /\ CurrentIsExecuting /\ ResumableUnlessStranded /\ Bookkeeping

\* The boot state satisfies the invariant.
LEMMA InitInv == Init => IInv
<1> SUFFICES ASSUME Init PROVE IInv
  OBVIOUS
<1>1. Ids \subseteq Nat /\ 0 \notin Ids /\ 0 \in Slots /\ Live = {}
  BY MaxTasksAssumption DEF Ids, Slots, Init, Live
<1>2. freeList = <<>> /\ freeList \in Seq(Ids) /\ Range(freeList) = {}
  BY DEF Init, Range
<1>3. /\ queues \in [Prios -> Seq(Ids)]
      /\ \A p \in Prios : queues[p] = <<>>
      /\ \A p \in Prios : Range(queues[p]) = {} /\ IsInjective(queues[p])
  BY DEF Init, Range, IsInjective
<1>4. TypeOK
  <2>1. state \in [Ids -> States] /\ pri \in [Ids -> Prios]
    BY DEF Init, States, Prios
  <2>2. ctx \in [Slots -> Contexts]
    BY DEF Init, Contexts
  <2>3. nextId \in 1 .. MaxTasks + 1 /\ panic \in Panics
    BY MaxTasksAssumption DEF Init, Panics
  <2> QED
    BY <1>1, <1>2, <1>3, <2>1, <2>2, <2>3, BootMailboxesAssumption
       DEF Init, TypeOK
<1>5. OnePlacePerTask
  BY <1>1, <1>3 DEF Init, OnePlacePerTask
<1>6. IdsPartitioned
  BY <1>1, <1>2, MaxTasksAssumption
     DEF Init, IdsPartitioned, IsInjective, Ids
<1>7. MailboxesMatchTasks /\ CurrentIsExecuting /\ ResumableUnlessStranded
  BY <1>1, BootMailboxesAssumption
     DEF Init, MailboxesMatchTasks, CurrentIsExecuting, ResumableUnlessStranded
<1>8. Bookkeeping
  BY <1>1, <1>2, MaxTasksAssumption DEF Init, Bookkeeping
<1> QED
  BY <1>4, <1>5, <1>6, <1>7, <1>8 DEF IInv

\* cleanup_dead_task gives back exactly the id and the mailbox of the task.
LEMMA YieldIds ==
    ASSUME IInv, panic = "none", NEW tag \in Tags, Reschedule(tag)
    PROVE  /\ nextId' \in 1 .. MaxTasks + 1 /\ freeList' \in Seq(Ids)
           /\ mapped' \subseteq 1 .. MaxTasks /\ mailboxes' \subseteq Nat \ {0}
           /\ nextId' = nextId /\ mapped' = mapped
           /\ IdsPartitioned' /\ MailboxesMatchTasks'
           /\ Live' \subseteq Live
           /\ Live' \cup Range(freeList') \subseteq mapped'
<1>1. Live' = IF current # 0 /\ tag = "Dead" THEN Live \ {current} ELSE Live
  BY RescheduleLive DEF IInv
<1>2. CASE current # 0 /\ tag = "Dead"
  <2>1. /\ mailboxes' = mailboxes \ {current} /\ freeList' = Append(freeList, current)
        /\ nextId' = nextId /\ mapped' = mapped /\ Live' = Live \ {current}
    BY <1>1, <1>2 DEF Reschedule, CleanupDeadTask
  <2>2. current \in Ids /\ current \in Live /\ current \notin Range(freeList)
    <3>1. current \in Ids /\ state[current] = "Running"
      BY <1>2, MaxTasksAssumption DEF IInv, TypeOK, OnePlacePerTask, Slots, Ids
    <3> QED
      BY <3>1 DEF Live, IInv, IdsPartitioned
  <2>3. /\ freeList' \in Seq(Ids) /\ IsInjective(freeList')
        /\ Range(freeList') = Range(freeList) \cup {current}
    BY <2>1, <2>2, AppendRange DEF IInv, TypeOK, IdsPartitioned
  <2>4. \A t \in Ids : state'[t] = "None" <=> t \notin Live'
    BY DEF Live
  <2>5. \A t \in Ids : state[t] = "None" <=> t \notin Live
    BY DEF Live
  <2>6. Range(freeList) \subseteq Ids
    BY DEF IInv, TypeOK, Range
  <2>7. IdsPartitioned'
    BY <1>2, <2>1, <2>2, <2>3, <2>4, <2>5, <2>6 DEF IInv, IdsPartitioned
  <2> QED
    BY <2>1, <2>2, <2>3, <2>7
       DEF IInv, TypeOK, MailboxesMatchTasks, Bookkeeping
<1>3. CASE ~(current # 0 /\ tag = "Dead")
  <2>1. /\ mailboxes' = mailboxes /\ freeList' = freeList
        /\ nextId' = nextId /\ mapped' = mapped /\ Live' = Live
    BY <1>1, <1>3 DEF Reschedule, idVars
  <2>2. Range(freeList) \subseteq Ids
    BY DEF IInv, TypeOK, Range
  <2>3. \A t \in Ids : (state'[t] = "None" <=> t \notin Live')
                       /\ (state[t] = "None" <=> t \notin Live)
    BY DEF Live
  <2>4. IdsPartitioned'
    BY <2>1, <2>2, <2>3 DEF IInv, IdsPartitioned
  <2> QED
    BY <2>1, <2>4 DEF IInv, TypeOK, MailboxesMatchTasks, Bookkeeping
<1> QED
  BY <1>2, <1>3

\* What yield_now keeps, whatever the state tag of the current task.  The last
\* two assumptions are met by each of its callers.
LEMMA YieldPreserves ==
    ASSUME IInv, panic = "none", NEW tag \in Tags, YieldAs(tag),
           panic' \in Panics, stranded' \in BOOLEAN,
           panic' = "none" /\ ~stranded' =>
              ~stranded /\ (tag = "Running" \/ Switches)
    PROVE  IInv'
<1>1. Reschedule(tag) /\ TypeOK /\ OnePlacePerTask
  BY DEF YieldAs, IInv
<1>2. /\ state' \in [Ids -> States] /\ pri' \in [Ids -> Prios]
      /\ queues' \in [Prios -> Seq(Ids)]
      /\ current' \in Slots /\ blocked' \subseteq Ids
      /\ OnePlacePerTask'
      /\ current' # 0 => /\ current' \in Ids
                         /\ \/ state[current'] = "Ready"
                            \/ current' = current /\ tag = "Running"
      /\ tag = "Running" /\ current # 0 => current' # 0
  BY <1>1, RescheduleMoves
<1>3. /\ nextId' \in 1 .. MaxTasks + 1 /\ freeList' \in Seq(Ids)
      /\ mapped' \subseteq 1 .. MaxTasks /\ mailboxes' \subseteq Nat \ {0}
      /\ nextId' = nextId /\ mapped' = mapped
      /\ IdsPartitioned' /\ MailboxesMatchTasks'
      /\ Live' \subseteq Live
      /\ Live' \cup Range(freeList') \subseteq mapped'
  BY <1>1, YieldIds
<1>4. \A t \in Ids : state'[t] = IF t = current' THEN "Running"
                                 ELSE IF t = current THEN StateAfter(tag)
                                 ELSE state[t]
  BY <1>1 DEF Reschedule
<1>5. 0 \notin Ids /\ Ids \subseteq Slots /\ 0 \in Slots
  BY MaxTasksAssumption DEF Ids, Slots
<1>6. CASE Switches
  <2>1. /\ cpu' = current' /\ idleCtx' = (IF current = 0 THEN cpu ELSE idleCtx)
        /\ ctx' = [s \in Slots |->
                     IF s = current' THEN "Stale"
                     ELSE IF s = current /\ s # 0
                          THEN IF cpu = s THEN "Saved" ELSE "Stale"
                     ELSE ctx[s]]
        /\ needResched' = FALSE /\ current' # current /\ current' # 0
    BY <1>6 DEF YieldAs, ContextSwitch, Switches
  <2>2. \A s \in Slots : ctx'[s] = IF s = current' THEN "Stale"
                     ELSE IF s = current /\ s # 0
                          THEN IF cpu = s THEN "Saved" ELSE "Stale"
                     ELSE ctx[s]
    BY <2>1
  <2>3. ctx' \in [Slots -> Contexts]
    BY <1>1, <2>1 DEF TypeOK, Contexts
  <2>4. cpu' \in Slots /\ idleCtx' \in Slots \cup {-1} /\ needResched' \in BOOLEAN
    BY <1>1, <1>2, <2>1 DEF TypeOK
  <2>5. TypeOK'
    BY <1>2, <1>3, <2>3, <2>4 DEF TypeOK
  <2>6. Bookkeeping'
    <3>1. panic' = "none" => nextId' <= MaxTasks
      BY <1>3 DEF IInv, Bookkeeping
    <3>2. \A t \in Live' : ctx'[t] # "Empty"
      BY <1>3, <1>5, <2>2 DEF IInv, Bookkeeping, Live
    <3> QED
      BY <1>3, <3>1, <3>2 DEF Bookkeeping
  <2>7. ResumableUnlessStranded'
    <3> SUFFICES ASSUME panic' = "none", ~stranded',
                        NEW t \in Ids, state'[t] \in {"Ready", "Blocked"}
                 PROVE  ctx'[t] \in {"Fresh", "Saved"}
      BY <2>1 DEF ResumableUnlessStranded
    <3>1. /\ cpu = current
          /\ state[t] \in {"Ready", "Blocked"} => ctx[t] \in {"Fresh", "Saved"}
      BY DEF IInv, ResumableUnlessStranded
    <3>2. t # current' /\ t \in Slots
      BY <1>4, <1>5
    <3>3. CASE t = current
      BY <1>5, <2>2, <3>1, <3>2, <3>3
    <3>4. CASE t # current
      BY <1>4, <2>2, <3>1, <3>2, <3>4
    <3> QED
      BY <3>3, <3>4
  <2> QED
    BY <1>2, <1>3, <2>1, <2>5, <2>6, <2>7 DEF IInv, CurrentIsExecuting
<1>7. CASE ~Switches
  <2>1. /\ ctx' = ctx /\ idleCtx' = idleCtx /\ cpu' = cpu /\ needResched' = FALSE
        /\ current' = current \/ current' = 0
    BY <1>7 DEF YieldAs, Switches
  <2>2. TypeOK'
    BY <1>1, <1>2, <1>3, <2>1 DEF TypeOK
  <2>3. Bookkeeping'
    BY <1>3, <2>1 DEF IInv, Bookkeeping
  <2>4. CurrentIsExecuting'
    BY <2>1 DEF IInv, CurrentIsExecuting
  <2>5. ResumableUnlessStranded'
    <3> SUFFICES ASSUME panic' = "none", ~stranded'
                 PROVE  /\ cpu' = current'
                        /\ \A t \in Ids : state'[t] \in {"Ready", "Blocked"} =>
                              ctx'[t] \in {"Fresh", "Saved"}
      BY DEF ResumableUnlessStranded
    <3>1. tag = "Running" /\ ~stranded
      BY <1>7
    <3>2. current' = current /\ cpu = current
      BY <1>2, <2>1, <3>1 DEF IInv, ResumableUnlessStranded
    <3>3. \A t \in Ids : state'[t] \in {"Ready", "Blocked"} =>
              state[t] = state'[t]
      BY <1>4, <3>2
    <3> QED
      BY <2>1, <3>1, <3>2, <3>3 DEF IInv, ResumableUnlessStranded
  <2> QED
    BY <1>2, <1>3, <2>2, <2>3, <2>4, <2>5 DEF IInv
<1> QED
  BY <1>6, <1>7

\* alloc takes an id off the free list or the next unused one, and while the
\* kernel runs an unmapped id is always the next unused one.
LEMMA AllocFacts ==
    ASSUME IInv, panic = "none", AllocId
    PROVE  /\ freeList' \in Seq(Ids) /\ nextId' \in 1 .. MaxTasks + 1
           /\ nextId' >= nextId
           /\ IsInjective(freeList') /\ Range(freeList') \subseteq Range(freeList)
           /\ NewId \notin mapped =>
                 NewId = nextId /\ nextId' = nextId + 1 /\ freeList' = freeList
<1>1. /\ freeList \in Seq(Ids) /\ IsInjective(freeList)
      /\ nextId \in 1 .. MaxTasks /\ Range(freeList) \subseteq mapped
  BY MaxTasksAssumption DEF IInv, TypeOK, IdsPartitioned, Bookkeeping
<1>2. CASE freeList # <<>>
  <2>1. /\ Last(freeList) \in Range(freeList) /\ Front(freeList) \in Seq(Ids)
        /\ Range(Front(freeList)) = Range(freeList) \ {Last(freeList)}
        /\ IsInjective(Front(freeList))
    BY <1>1, <1>2, FrontRange
  <2>2. freeList' = Front(freeList) /\ nextId' = nextId /\ NewId = Last(freeList)
    BY <1>2 DEF AllocId, NewId
  <2> QED
    BY <1>1, <2>1, <2>2, MaxTasksAssumption
<1>3. CASE freeList = <<>>
  <2>1. freeList' = freeList /\ nextId' = nextId + 1 /\ NewId = nextId
    BY <1>3 DEF AllocId, NewId
  <2> QED
    BY <1>1, <2>1, MaxTasksAssumption
<1> QED
  BY <1>2, <1>3

\* Spawning a task.
LEMMA SpawnPreserves ==
    ASSUME IInv, NEW p \in SpawnPriorities, Spawn(p)
    PROVE  IInv'
<1> DEFINE n == nextId
<1>1. /\ panic = "none" /\ NewId \notin mapped /\ NewId < MaxTasks /\ AllocId
      /\ mapped' = mapped \cup {NewId} /\ mailboxes' = mailboxes \cup {NewId}
      /\ state' = [state EXCEPT ![NewId] = "Ready"]
      /\ pri' = [pri EXCEPT ![NewId] = p]
      /\ ctx' = [ctx EXCEPT ![NewId] = "Fresh"]
      /\ queues' = [queues EXCEPT ![p] = Append(@, NewId)]
      /\ current' = current /\ blocked' = blocked /\ idleCtx' = idleCtx
      /\ cpu' = cpu /\ needResched' = needResched /\ panic' = panic
      /\ stranded' = stranded
  BY DEF Spawn
<1>2. NewId = n /\ nextId' = n + 1 /\ freeList' = freeList
  BY <1>1, AllocFacts
<1>3. TypeOK /\ OnePlacePerTask /\ p \in Prios
  BY PrioritiesAssumption DEF IInv, Prios
<1>4. /\ n \in Ids /\ n \notin mapped /\ n \notin Live /\ state[n] = "None"
      /\ n \notin Range(freeList) /\ n \in Slots
  <2>1. n \in Ids /\ n \in Slots /\ n \notin mapped
    BY <1>1, <1>2, <1>3, MaxTasksAssumption DEF TypeOK, Ids, Slots
  <2>2. n \notin Live /\ n \notin Range(freeList)
    BY <2>1 DEF IInv, Bookkeeping
  <2> QED
    BY <2>1, <2>2 DEF Live
<1>5. /\ \A t \in Ids : state'[t] = IF t = n THEN "Ready" ELSE state[t]
      /\ \A t \in Ids : pri'[t] = IF t = n THEN p ELSE pri[t]
      /\ \A t \in Slots : ctx'[t] = IF t = n THEN "Fresh" ELSE ctx[t]
      /\ \A q \in Prios : queues'[q] =
             IF q = p THEN Append(queues[p], n) ELSE queues[q]
  BY <1>1, <1>2, <1>3, <1>4 DEF TypeOK
<1>6. Live' = Live \cup {n}
  BY <1>4, <1>5 DEF Live
<1>7. n \notin Range(queues[p]) /\ n # current /\ n \notin blocked
  BY <1>3, <1>4 DEF OnePlacePerTask
<1>8. /\ Append(queues[p], n) \in Seq(Ids) /\ IsInjective(Append(queues[p], n))
      /\ Range(Append(queues[p], n)) = Range(queues[p]) \cup {n}
  <2>1. queues[p] \in Seq(Ids) /\ IsInjective(queues[p])
    BY <1>3 DEF TypeOK, OnePlacePerTask
  <2> QED
    BY <1>4, <1>7, <2>1, AppendRange
<1>9. TypeOK'
  <2>1. state' \in [Ids -> States] /\ pri' \in [Ids -> Prios]
    BY <1>1, <1>2, <1>3, <1>4 DEF TypeOK, States
  <2>2. ctx' \in [Slots -> Contexts]
    BY <1>1, <1>2, <1>3, <1>4 DEF TypeOK, Contexts
  <2>3. queues' \in [Prios -> Seq(Ids)]
    BY <1>1, <1>2, <1>3, <1>8 DEF TypeOK
  <2>4. /\ nextId' \in 1 .. MaxTasks + 1 /\ freeList' \in Seq(Ids)
        /\ mapped' \subseteq 1 .. MaxTasks /\ mailboxes' \subseteq Nat \ {0}
    BY <1>1, <1>2, <1>3, <1>4, MaxTasksAssumption DEF TypeOK
  <2> QED
    BY <1>1, <1>3, <2>1, <2>2, <2>3, <2>4 DEF TypeOK
<1>10. OnePlacePerTask'
  <2>1. \A t \in Ids : state'[t] = "Running" <=> current' = t
    BY <1>1, <1>3, <1>5, <1>7 DEF OnePlacePerTask
  <2>2. \A t \in Ids : state'[t] = "Blocked" <=> t \in blocked'
    BY <1>1, <1>3, <1>5, <1>7 DEF OnePlacePerTask
  <2>3. ASSUME NEW t \in Ids, NEW q \in Prios
        PROVE  t \in Range(queues'[q]) <=> state'[t] = "Ready" /\ pri'[t] = q
    <3>1. t \in Range(queues[q]) <=> state[t] = "Ready" /\ pri[t] = q
      BY <1>3 DEF OnePlacePerTask
    <3>2. CASE t = n
      BY <1>4, <1>5, <1>8, <3>1, <3>2
    <3>3. CASE t # n
      BY <1>5, <1>8, <3>1, <3>3
    <3> QED
      BY <3>2, <3>3
  <2>4. \A q \in Prios : IsInjective(queues'[q])
    BY <1>3, <1>5, <1>8 DEF OnePlacePerTask
  <2> QED
    BY <2>1, <2>2, <2>3, <2>4 DEF OnePlacePerTask
<1>11. IdsPartitioned'
  <2>1. IsInjective(freeList')
    BY <1>2 DEF IInv, IdsPartitioned
  <2>2. \A t \in Range(freeList') : t < nextId' /\ state'[t] = "None"
    <3>1. Range(freeList) \subseteq Ids
      BY <1>3 DEF TypeOK, Range
    <3> QED
      BY <1>2, <1>3, <1>4, <1>5, <3>1, MaxTasksAssumption
         DEF IInv, IdsPartitioned, TypeOK, Ids
  <2>3. \A t \in Live' : t < nextId'
    <3>1. n \in Int /\ Live \subseteq Int /\ \A t \in Live : t < n
      BY <1>3 DEF IInv, IdsPartitioned, TypeOK, Live, Ids
    <3> QED
      BY <1>2, <1>6, <3>1
  <2>4. \A t \in Ids : t < nextId' => t \in Live' \cup Range(freeList')
    BY <1>1, <1>2, <1>3, <1>6, MaxTasksAssumption
       DEF IInv, IdsPartitioned, TypeOK, Ids
  <2> QED
    BY <2>1, <2>2, <2>3, <2>4 DEF IdsPartitioned
<1>12. Bookkeeping'
  <2>1. nextId' <= MaxTasks
    BY <1>1, <1>2, <1>4, MaxTasksAssumption DEF Ids
  <2>2. \A t \in Live' : ctx'[t] # "Empty"
    <3>1. Live \subseteq Slots
      BY MaxTasksAssumption DEF Live, Ids, Slots
    <3> QED
      BY <1>4, <1>5, <1>6, <3>1 DEF IInv, Bookkeeping
  <2> QED
    BY <1>1, <1>2, <1>6, <2>1, <2>2 DEF IInv, Bookkeeping
<1>13. MailboxesMatchTasks' /\ CurrentIsExecuting'
  <2>1. Live' \subseteq mailboxes'
    BY <1>1, <1>2, <1>6 DEF IInv, MailboxesMatchTasks
  <2>2. ASSUME NEW m \in mailboxes' \ Live'
        PROVE  m \in BootMailboxes /\ m >= nextId'
    <3>1. m \in mailboxes \ Live /\ m # n
      BY <1>1, <1>2, <1>6
    <3>2. m \in BootMailboxes /\ m >= n /\ m \in Nat /\ n \in Nat
      BY <1>1, <1>3, <3>1 DEF IInv, MailboxesMatchTasks, TypeOK
    <3> QED
      BY <1>2, <3>1, <3>2
  <2> QED
    BY <1>1, <2>1, <2>2 DEF IInv, MailboxesMatchTasks, CurrentIsExecuting
<1>14. ResumableUnlessStranded'
  <2>1. Ids \subseteq Slots
    BY MaxTasksAssumption DEF Ids, Slots
  <2> QED
    BY <1>1, <1>5, <2>1 DEF IInv, ResumableUnlessStranded
<1> QED
  BY <1>9, <1>10, <1>11, <1>12, <1>13, <1>14 DEF IInv

\* The ids after a spawn that halted the kernel.
LEMMA HaltedIds ==
    ASSUME IInv, panic = "none", AllocId, Live' = Live, state' = state,
           panic' # "none"
    PROVE  IdsPartitioned'
<1>1. /\ freeList' \in Seq(Ids) /\ nextId' \in 1 .. MaxTasks + 1
      /\ nextId' >= nextId /\ IsInjective(freeList')
      /\ Range(freeList') \subseteq Range(freeList)
  BY AllocFacts
<1>2. /\ nextId \in Int /\ nextId' \in Int /\ Live \subseteq Int
      /\ Range(freeList) \subseteq Ids /\ Ids \subseteq Int
  BY <1>1, MaxTasksAssumption DEF IInv, TypeOK, Live, Range, Ids
<1>3. ASSUME NEW t \in Range(freeList')
      PROVE  t < nextId' /\ state'[t] = "None"
  <2>1. t \in Range(freeList) /\ t \in Int
    BY <1>1, <1>2
  <2>2. t < nextId /\ state[t] = "None"
    BY <2>1 DEF IInv, IdsPartitioned
  <2> QED
    BY <1>1, <1>2, <2>1, <2>2
<1>4. \A t \in Live' : t < nextId'
  BY <1>1, <1>2 DEF IInv, IdsPartitioned
<1> QED
  BY <1>1, <1>3, <1>4 DEF IdsPartitioned

\* Scheduler::spawn's assert: a stack and a mailbox too many, no task.
LEMMA AssertPreserves ==
    ASSUME IInv, SpawnAsserts
    PROVE  IInv'
<1>1. /\ panic = "none" /\ NewId \notin mapped /\ AllocId
      /\ mapped' = mapped \cup {NewId} /\ mailboxes' = mailboxes \cup {NewId}
      /\ panic' \in Panics /\ panic' # "none"
  BY DEF SpawnAsserts, Panics
<1>2. /\ state' = state /\ pri' = pri /\ queues' = queues /\ current' = current
      /\ blocked' = blocked /\ ctx' = ctx /\ idleCtx' = idleCtx /\ cpu' = cpu
      /\ needResched' = needResched /\ stranded' = stranded /\ Live' = Live
  BY DEF SpawnAsserts, schedVars, cpuVars, Live
<1>3. /\ freeList' \in Seq(Ids) /\ nextId' \in 1 .. MaxTasks + 1
      /\ NewId = nextId /\ freeList' = freeList
  BY <1>1, AllocFacts
<1>4. NewId \in 1 .. MaxTasks /\ NewId \in Nat \ {0}
  BY <1>1, <1>3, MaxTasksAssumption DEF IInv, TypeOK, Bookkeeping
<1>5. TypeOK' /\ OnePlacePerTask'
  BY <1>1, <1>2, <1>3, <1>4 DEF IInv, TypeOK, OnePlacePerTask
<1>6. IdsPartitioned'
  BY <1>1, <1>2, HaltedIds
<1>7. MailboxesMatchTasks'
  BY <1>1, <1>2 DEF IInv, MailboxesMatchTasks
<1>8. Bookkeeping'
  BY <1>1, <1>2, <1>3 DEF IInv, Bookkeeping
<1> QED
  BY <1>1, <1>2, <1>5, <1>6, <1>7, <1>8
     DEF IInv, CurrentIsExecuting, ResumableUnlessStranded

\* A wake-up moves a task from "blocked" to the queue of its priority.
LEMMA UnblockPreserves ==
    ASSUME IInv, NEW t \in Ids, Unblock(t)
    PROVE  IInv'
<1> DEFINE p == pri[t]
<1>1. /\ panic = "none" /\ t \in blocked /\ blocked' = blocked \ {t}
      /\ state' = [state EXCEPT ![t] = "Ready"]
      /\ queues' = [queues EXCEPT ![p] = Append(@, t)]
      /\ nextId' = nextId /\ freeList' = freeList /\ mapped' = mapped
      /\ mailboxes' = mailboxes /\ pri' = pri /\ current' = current
      /\ ctx' = ctx /\ idleCtx' = idleCtx /\ cpu' = cpu
      /\ needResched' = needResched /\ panic' = panic /\ stranded' = stranded
  BY DEF Unblock, idVars, cpuVars
<1>2. TypeOK /\ OnePlacePerTask /\ p \in Prios
  BY DEF IInv, TypeOK
<1>3. state[t] = "Blocked" /\ t \notin Range(queues[p])
  BY <1>1, <1>2 DEF OnePlacePerTask
<1>4. /\ \A u \in Ids : state'[u] = IF u = t THEN "Ready" ELSE state[u]
      /\ \A q \in Prios : queues'[q] =
             IF q = p THEN Append(queues[p], t) ELSE queues[q]
  BY <1>1, <1>2 DEF TypeOK
<1>5. /\ Append(queues[p], t) \in Seq(Ids) /\ IsInjective(Append(queues[p], t))
      /\ Range(Append(queues[p], t)) = Range(queues[p]) \cup {t}
  <2>1. queues[p] \in Seq(Ids) /\ IsInjective(queues[p])
    BY <1>2 DEF TypeOK, OnePlacePerTask
  <2> QED
    BY <1>3, <2>1, AppendRange
<1>6. TypeOK'
  <2>1. state' \in [Ids -> States] /\ queues' \in [Prios -> Seq(Ids)]
    BY <1>1, <1>2, <1>5 DEF TypeOK, States
  <2> QED
    BY <1>1, <1>2, <2>1 DEF TypeOK
<1>7. OnePlacePerTask'
  <2>1. \A u \in Ids : state'[u] = "Running" <=> current' = u
    BY <1>1, <1>2, <1>3, <1>4 DEF OnePlacePerTask
  <2>2. \A u \in Ids : state'[u] = "Blocked" <=> u \in blocked'
    BY <1>1, <1>2, <1>4 DEF OnePlacePerTask
  <2>3. ASSUME NEW u \in Ids, NEW q \in Prios
        PROVE  u \in Range(queues'[q]) <=> state'[u] = "Ready" /\ pri'[u] = q
    <3>1. u \in Range(queues[q]) <=> state[u] = "Ready" /\ pri[u] = q
      BY <1>2 DEF OnePlacePerTask
    <3>2. CASE u = t
      BY <1>1, <1>3, <1>4, <1>5, <3>1, <3>2
    <3>3. CASE u # t
      BY <1>1, <1>4, <1>5, <3>1, <3>3
    <3> QED
      BY <3>2, <3>3
  <2>4. \A q \in Prios : IsInjective(queues'[q])
    BY <1>2, <1>4, <1>5 DEF OnePlacePerTask
  <2> QED
    BY <2>1, <2>2, <2>3, <2>4 DEF OnePlacePerTask
<1>8. Live' = Live
  BY <1>3, <1>4 DEF Live
<1>9. IdsPartitioned'
  <2>1. Range(freeList) \subseteq Ids
    BY <1>2 DEF TypeOK, Range
  <2> QED
    BY <1>1, <1>3, <1>4, <1>8, <2>1 DEF IInv, IdsPartitioned
<1>10. MailboxesMatchTasks' /\ CurrentIsExecuting' /\ Bookkeeping'
  BY <1>1, <1>8 DEF IInv, MailboxesMatchTasks, CurrentIsExecuting, Bookkeeping
<1>11. ResumableUnlessStranded'
  BY <1>1, <1>3, <1>4 DEF IInv, ResumableUnlessStranded
<1> QED
  BY <1>6, <1>7, <1>9, <1>10, <1>11 DEF IInv

\* Every step of the kernel preserves the invariant.
LEMMA NextPreserves == IInv /\ [Next]_vars => IInv'
<1> SUFFICES ASSUME IInv, [Next]_vars
             PROVE  IInv'
  OBVIOUS
<1>1. ASSUME NEW p \in SpawnPriorities, Spawn(p) PROVE IInv'
  BY <1>1, SpawnPreserves
<1>2. CASE SpawnPanics
  <2>1. /\ freeList' \in Seq(Ids) /\ nextId' \in 1 .. MaxTasks + 1
        /\ nextId' >= nextId /\ IsInjective(freeList')
        /\ Range(freeList') \subseteq Range(freeList)
    BY <1>2, AllocFacts DEF SpawnPanics
  <2>2. panic' \in Panics /\ panic' # "none"
    BY <1>2 DEF SpawnPanics, Panics
  <2>3. /\ mapped' = mapped /\ mailboxes' = mailboxes /\ state' = state
        /\ pri' = pri /\ queues' = queues /\ current' = current
        /\ blocked' = blocked /\ ctx' = ctx /\ idleCtx' = idleCtx /\ cpu' = cpu
        /\ needResched' = needResched /\ stranded' = stranded /\ Live' = Live
    BY <1>2 DEF SpawnPanics, schedVars, cpuVars, Live
  <2>4. TypeOK' /\ OnePlacePerTask'
    BY <2>1, <2>2, <2>3 DEF IInv, TypeOK, OnePlacePerTask
  <2>5. IdsPartitioned'
    BY <1>2, <2>2, <2>3, HaltedIds DEF SpawnPanics
  <2> QED
    BY <2>1, <2>2, <2>3, <2>4, <2>5
       DEF IInv, MailboxesMatchTasks, CurrentIsExecuting, ResumableUnlessStranded,
           Bookkeeping
<1>3. CASE YieldNow
  BY <1>3, YieldPreserves DEF YieldNow, Tags, IInv, TypeOK
<1>4. CASE BlockAndYield
  <2>1. panic = "none" /\ cpu # 0 /\ YieldAs("Blocked") /\ panic' = panic
    BY <1>4 DEF BlockAndYield
  <2>2. stranded' = (stranded \/ (current # 0 /\ ~Switches)) /\ stranded \in BOOLEAN
    BY <1>4 DEF BlockAndYield, IInv, TypeOK
  <2>3. ~stranded => current # 0
    BY <2>1 DEF IInv, ResumableUnlessStranded
  <2>4. stranded' \in BOOLEAN /\ (~stranded' => ~stranded /\ Switches)
    BY <2>2, <2>3, Zenon
  <2>5. panic' \in Panics
    BY <2>1 DEF Panics
  <2> QED
    BY <2>1, <2>4, <2>5, YieldPreserves DEF Tags
<1>5. CASE ExitCurrent
  <2>1. /\ panic = "none" /\ YieldAs("Dead") /\ stranded' = stranded
        /\ panic' = IF Switches THEN "none" ELSE "dead task resumed"
    BY <1>5 DEF ExitCurrent
  <2>2. panic' \in Panics /\ (panic' = "none" => Switches)
    BY <2>1 DEF Panics
  <2>3. stranded' \in BOOLEAN
    BY <2>1 DEF IInv, TypeOK
  <2> QED
    BY <2>1, <2>2, <2>3, YieldPreserves DEF Tags
<1>6. ASSUME NEW t \in Ids, Unblock(t) PROVE IInv'
  BY <1>6, UnblockPreserves
<1>7. CASE TimerTick
  BY <1>7 DEF TimerTick, idVars, schedVars, IInv, TypeOK, OnePlacePerTask,
              IdsPartitioned, MailboxesMatchTasks, CurrentIsExecuting,
              ResumableUnlessStranded, Bookkeeping, Live
<1>8. CASE UNCHANGED vars
  BY <1>8 DEF vars, IInv, TypeOK, OnePlacePerTask,
              IdsPartitioned, MailboxesMatchTasks, CurrentIsExecuting,
              ResumableUnlessStranded, Bookkeeping, Live
<1>9. CASE Halted
  BY <1>8, <1>9 DEF Halted
<1>10. CASE SpawnAsserts
  BY <1>10, AssertPreserves
<1> QED
  BY <1>1, <1>2, <1>3, <1>4, <1>5, <1>6, <1>7, <1>8, <1>9, <1>10 DEF Next

-----------------------------------------------------------------------------
(* The theorems.                                                           *)

\* The invariant holds in every reachable state of the scheduler.
THEOREM InductiveInvariant == Spec => []IInv
BY InitInv, NextPreserves, PTL DEF Spec

\* All state stays within its types: no id reaches past CONTEXTS.
THEOREM TypeCorrect == Spec => []TypeOK
<1>1. IInv => TypeOK
  BY DEF IInv
<1> QED
  BY <1>1, InductiveInvariant, PTL

\* No task is ever lost or queued twice by spawn, reschedule or unblock.
THEOREM PlacesTheorem == Spec => []OnePlacePerTask
<1>1. IInv => OnePlacePerTask
  BY DEF IInv
<1> QED
  BY <1>1, InductiveInvariant, PTL

\* IdAllocator hands out no id that is in use and loses none.
THEOREM IdsTheorem == Spec => []IdsPartitioned
<1>1. IInv => IdsPartitioned
  BY DEF IInv
<1> QED
  BY <1>1, InductiveInvariant, PTL

\* Whatever mailboxes main.rs registers at boot: every live task has one, and
\* the others belong to ids that are still to be handed out.
THEOREM MailboxTheorem == Spec => []MailboxesMatchTasks
<1>1. IInv => MailboxesMatchTasks
  BY DEF IInv
<1> QED
  BY <1>1, InductiveInvariant, PTL

\* The scheduler's current task is the one on the CPU.
THEOREM ExecutingTheorem == Spec => []CurrentIsExecuting
<1>1. IInv => CurrentIsExecuting
  BY DEF IInv
<1> QED
  BY <1>1, InductiveInvariant, PTL

\* Every waiting task can be resumed where it left off, until a task blocks
\* with nothing else to run.
THEOREM ResumableTheorem == Spec => []ResumableUnlessStranded
<1>1. IInv => ResumableUnlessStranded
  BY DEF IInv
<1> QED
  BY <1>1, InductiveInvariant, PTL

\* yield_now never loads an unwritten context.
THEOREM ContextTheorem == Spec => NoEmptyContextLoaded
<1> DEFINE Step == cpu' # cpu => ctx[cpu'] # "Empty"
<1>1. IInv /\ [Next]_vars => [Step]_vars
  <2> SUFFICES ASSUME IInv, Next PROVE Step
    OBVIOUS
  <2>1. ASSUME NEW tag \in Tags, YieldAs(tag) PROVE Step
    <3>1. CASE Switches
      <4>1. cpu' = current' /\ current' # current /\ current' # 0
        BY <2>1, <3>1 DEF YieldAs, Switches, ContextSwitch
      <4>2. current' \in Ids /\ state[current'] = "Ready"
        BY <2>1, <4>1, RescheduleMoves DEF YieldAs, IInv
      <4> QED
        BY <4>1, <4>2 DEF IInv, Bookkeeping, Live
    <3>2. CASE ~Switches
      BY <2>1, <3>2 DEF YieldAs
    <3> QED
      BY <3>1, <3>2
  <2>2. CASE UNCHANGED cpu
    BY <2>2
  <2> QED
    BY <2>1, <2>2
       DEF Next, Spawn, SpawnPanics, SpawnAsserts, YieldNow, BlockAndYield, ExitCurrent,
           Unblock, TimerTick, Halted, Tags, cpuVars, vars
<1> QED
  BY <1>1, InductiveInvariant, PTL DEF Spec, NoEmptyContextLoaded

\* The scheduler is left without a current task only when none is ready.
THEOREM IdleTheorem == Spec => NoIdleWhileReady
<1> DEFINE Step == current # 0 /\ current' = 0 =>
                       \A p \in Prios : queues'[p] = <<>>
<1>1. IInv /\ [Next]_vars => [Step]_vars
  <2> SUFFICES ASSUME IInv, Next PROVE Step
    OBVIOUS
  <2>1. ASSUME NEW tag \in Tags, YieldAs(tag) PROVE Step
    BY <2>1, RescheduleMoves DEF YieldAs, IInv
  <2>2. CASE UNCHANGED current
    BY <2>2
  <2> QED
    BY <2>1, <2>2
       DEF Next, Spawn, SpawnPanics, SpawnAsserts, YieldNow, BlockAndYield, ExitCurrent,
           Unblock, TimerTick, Halted, Tags, schedVars, vars
<1> QED
  BY <1>1, InductiveInvariant, PTL DEF Spec, NoIdleWhileReady
=============================================================================
