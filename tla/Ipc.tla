-------------------------------- MODULE Ipc --------------------------------
(***************************************************************************)
(* Mailboxes (ipc/message.rs) and publish/subscribe channels               *)
(* (ipc/channel.rs), composed with the capability table they consult and,  *)
(* when a message carries a capability, change.                            *)
(*                                                                         *)
(* Threads are switched only when they yield and no interrupt handler      *)
(* touches a mailbox, so every call is one step.  A call that returns an   *)
(* error before it changed anything is not a step; send is one even when   *)
(* it fails after the delegation.  Payloads and message types are left     *)
(* out: nothing here looks at them.                                        *)
(***************************************************************************)
EXTENDS CapTable

CONSTANTS Channels,         \* channel names
          MAILBOX_CAPACITY,
          MaxMessages       \* bound on the messages ever numbered

ASSUME IpcAssumption == MAILBOX_CAPACITY \in Nat \ {0} /\ MaxMessages \in Nat

VARIABLES
    boxes,     \* MAILBOXES: a queue for every task that has a mailbox, of
               \* messages: id (0 when published), sender, cap (0 for none)
    nextId,    \* NEXT_MSG_ID
    subs,      \* CHANNELS: the subscribers of every channel created so far
    blocked,   \* tasks that wait in the scheduler
    ended,     \* tasks that died: a recycled id never serves (see Scheduler)
    lastRead   \* history: the greatest message id each task has received

ipcVars == <<boxes, nextId, subs, blocked, ended, lastRead>>
allVars == <<caps, ipcVars>>

IpcInit ==
    /\ Init
    /\ boxes = <<>> /\ nextId = 1 /\ subs = <<>>
    /\ blocked = {} /\ ended = {} /\ lastRead = [t \in Tasks |-> 0]

\* Tasks that can make a call: with a mailbox and not blocked.
Able == DOMAIN boxes \ blocked

-----------------------------------------------------------------------------
(* The life of a task, as far as messages go.                              *)

\* register_mailbox, called for every new task, and for the first ones by main.rs
\* before: a mailbox that exists is replaced by an empty one.
RegisterMailbox(t) ==
    /\ t \notin ended
    /\ boxes' = [u \in DOMAIN boxes \cup {t} |-> IF u = t THEN <<>> ELSE boxes[u]]
    /\ UNCHANGED <<caps, nextId, subs, blocked, ended, lastRead>>

\* cleanup_dead_task of a task that exited: its messages go with its mailbox,
\* its capabilities and subscriptions stay.
UnregisterMailbox(t) ==
    /\ t \in Able
    /\ boxes' = Restrict(boxes, DOMAIN boxes \ {t})
    /\ ended' = ended \cup {t}
    /\ UNCHANGED <<caps, nextId, subs, blocked, lastRead>>

\* The task sleeps or waits for a reply, until a deadline or the reply.
Block(t) ==
    /\ t \in Able
    /\ blocked' = blocked \cup {t}
    /\ UNCHANGED <<caps, boxes, nextId, subs, ended, lastRead>>

Wake(t) ==
    /\ t \in blocked
    /\ blocked' = blocked \ {t}
    /\ UNCHANGED <<caps, boxes, nextId, subs, ended, lastRead>>

-----------------------------------------------------------------------------
(* Mailboxes.                                                              *)

Accepts(t) == t \in DOMAIN boxes /\ Len(boxes[t]) < MAILBOX_CAPACITY

\* Mutant of Push: the message is queued in front.
PushFront(t, m) == boxes' = [boxes EXCEPT ![t] = <<m>> \o @]

Push(t, m) == boxes' = [boxes EXCEPT ![t] = Append(@, m)]

\* Mutants of Transfer: the message goes out although the delegation failed; the
\* source is neither owned nor delegable.
TransferOrNot(c, from, to) ==
    \/ c = 0 /\ UNCHANGED caps
    \/ c \in DOMAIN caps /\ caps[c].owner # from /\ UNCHANGED caps
    \/ Get(c) /\ Delegate(c, from, to, caps[c].permissions, caps[c].resource)

TransferUnchecked(c, from, to) ==
    \/ c = 0 /\ UNCHANGED caps
    \/ /\ Get(c) /\ Len(caps) < MaxCaps
       /\ caps' = Append(caps, NewCap(caps[c].resource, caps[c].permissions, to, c))

\* The capability attached to a message, if any, is delegated to the recipient
\* with all its permissions; the message will name the sender's capability.
Transfer(c, from, to) ==
    \/ c = 0 /\ UNCHANGED caps
    \/ Get(c) /\ Delegate(c, from, to, caps[c].permissions, caps[c].resource)

\* send: validate, delegate, number the message, then try to deliver it.  When
\* the mailbox is missing or full the caller gets an error, but the delegated
\* capability stays.  The scheduler is never locked while a thread sends, so
\* its try_lock succeeds.
Send(s, r, cap, c) ==
    /\ s \in Able
    /\ nextId <= MaxMessages
    /\ Validate(cap, s, {"WRITE"})
    /\ Transfer(c, s, r)
    /\ nextId' = nextId + 1
    /\ IF Accepts(r)
       THEN /\ Push(r, [id |-> nextId, sender |-> s, cap |-> c])
            /\ blocked' = blocked \ {r}
       ELSE UNCHANGED <<boxes, blocked>>
    /\ UNCHANGED <<subs, ended, lastRead>>

\* receive: the oldest message, or None.
Receive(t) ==
    /\ t \in Able
    /\ boxes[t] # <<>>
    /\ boxes' = [boxes EXCEPT ![t] = Tail(@)]
    /\ lastRead' = [lastRead EXCEPT ![t] = IF Head(boxes[t]).id = 0 THEN @
                                           ELSE Head(boxes[t]).id]
    /\ UNCHANGED <<caps, nextId, subs, blocked, ended>>

-----------------------------------------------------------------------------
(* Channels.                                                               *)

\* create: a channel of the same name is replaced, its subscribers are gone.
CreateChannel(n) ==
    /\ subs' = [m \in DOMAIN subs \cup {n} |-> IF m = n THEN {} ELSE subs[m]]
    /\ UNCHANGED <<caps, boxes, nextId, blocked, ended, lastRead>>

\* Mutant of Subscribe: the capability is not looked up.
SubscribeUnchecked(n, t, cap) ==
    /\ t \in Able /\ n \in DOMAIN subs
    /\ t \notin {s.task : s \in subs[n]}
    /\ subs' = [subs EXCEPT ![n] = @ \cup {[task |-> t, cap |-> cap]}]
    /\ UNCHANGED <<caps, boxes, nextId, blocked, ended, lastRead>>

Subscribe(n, t, cap) ==
    /\ t \in Able
    /\ Validate(cap, t, {"SUBSCRIBE"})
    /\ n \in DOMAIN subs
    /\ t \notin {s.task : s \in subs[n]}
    /\ subs' = [subs EXCEPT ![n] = @ \cup {[task |-> t, cap |-> cap]}]
    /\ UNCHANGED <<caps, boxes, nextId, blocked, ended, lastRead>>

Unsubscribe(n, t) ==
    /\ t \in Able
    /\ n \in DOMAIN subs
    /\ subs' = [subs EXCEPT ![n] = {s \in @ : s.task # t}]
    /\ UNCHANGED <<caps, boxes, nextId, blocked, ended, lastRead>>

\* publish: one unnumbered message to every other subscriber whose mailbox
\* accepts it.  Nobody is woken, and a subscriber's capability is not looked at
\* again.
Publish(n, s, cap) ==
    /\ s \in Able
    /\ Validate(cap, s, {"PUBLISH"})
    /\ n \in DOMAIN subs
    /\ LET to == {u.task : u \in subs[n]} \ {s}
       IN  boxes' = [t \in DOMAIN boxes |->
                       IF t \in to /\ Accepts(t)
                       THEN Append(boxes[t], [id |-> 0, sender |-> s, cap |-> 0])
                       ELSE boxes[t]]
    /\ UNCHANGED <<caps, nextId, subs, blocked, ended, lastRead>>

-----------------------------------------------------------------------------
CapIds == 1 .. MaxCaps

IpcNext ==
    \/ Next /\ UNCHANGED ipcVars
    \/ \E t \in Tasks : \/ RegisterMailbox(t) \/ UnregisterMailbox(t)
                        \/ Block(t) \/ Wake(t) \/ Receive(t)
    \/ \E s, r \in Tasks, cap \in CapIds, c \in CapIds \cup {0} : Send(s, r, cap, c)
    \/ \E n \in Channels :
          \/ CreateChannel(n)
          \/ \E t \in Tasks : Unsubscribe(n, t)
          \/ \E t \in Tasks, cap \in CapIds : Subscribe(n, t, cap) \/ Publish(n, t, cap)

IpcSpec == IpcInit /\ [][IpcNext]_allVars

-----------------------------------------------------------------------------
(* Properties.                                                             *)

\* The numbered messages of q ascend, strictly between lo and hi.
Ascends(q, lo, hi) ==
    \A i \in DOMAIN q : q[i].id # 0 =>
        /\ lo < q[i].id /\ q[i].id < hi
        /\ \A j \in DOMAIN q : i < j /\ q[j].id # 0 => q[i].id < q[j].id

\* Whatever is sent, published, received and refused in between, the numbered
\* messages of a mailbox are in the order in which send numbered them, none
\* twice, and none is older than one that was already received: receive never
\* goes back, over all senders of a mailbox.
DeliveryOrder == \A t \in DOMAIN boxes : Ascends(boxes[t], lastRead[t], nextId)

\* Where q holds messages that name capability c.
Naming(q, c) == {i \in DOMAIN q : q[i].cap = c}

\* What the recipient of a transfer owns because of it.
Grants(c, t) ==
    {e \in DOMAIN caps : /\ caps[e].parent = c /\ caps[e].owner = t
                         /\ caps[e].permissions = caps[c].permissions
                         /\ caps[e].resource = caps[c].resource}

\* A message that announces a capability never arrives without it: for every
\* message in a mailbox that names a capability the recipient was given one of
\* its own with all the rights, although send delegates before it knows whether
\* the message can be delivered and the message does not name the new one.
TransferArrivesWithRights ==
    \A t \in DOMAIN boxes, c \in DOMAIN caps :
        Cardinality(Naming(boxes[t], c)) <= Cardinality(Grants(c, t))

\* A task is subscribed at most once to a channel, so that it gets a published
\* message once, and with a capability of its own that had SUBSCRIBE when it
\* subscribed (it may have been revoked since: publish does not ask).
SubscriptionsGranted ==
    \A n \in DOMAIN subs : \A s \in subs[n] :
        /\ s.cap \in DOMAIN caps
        /\ caps[s.cap].owner = s.task
        /\ HasPerms(caps[s.cap].permissions, {"SUBSCRIBE"})
        /\ \A u \in subs[n] : u.task = s.task => u = s

\* Messages change the capability table only as the table's own operations
\* would, so all that is proved of the table holds with messages as well.
TableImplemented == Init /\ [][caps' # caps => Next]_caps
=============================================================================
