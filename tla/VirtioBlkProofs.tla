-------------------------- MODULE VirtioBlkProofs --------------------------
(***************************************************************************)
(* Proofs about VirtioBlk, for any size of the queue, any width of the     *)
(* ring indices, any disk and any number of timeouts: what a call that     *)
(* returns Ok says about the device.                                       *)
(***************************************************************************)
EXTENDS VirtioBlk, TLAPS

Types == {"IN", "OUT"}
Waiting == call.state = "wait"

Desc == [part : {"none", "header", "data", "status"}, write : BOOLEAN, next : 0 .. None]
Request == [type : Types, sector : Sectors, write : BOOLEAN, at : Nat]

TypeOK ==
    /\ descs \in [Slots -> Desc]
    /\ ring \in [Slots -> Slots]
    /\ availIdx \in Nat /\ usedIdx \in Nat /\ lastUsed \in Nat /\ fetched \in Nat
    /\ nextDesc \in Slots
    /\ dma \in [type : Types, sector : Sectors, data : Values,
                status : {"OK", "FF", "IOERR"}]
    /\ call \in [state : {"wait", "ok", "err"}, type : Types, sector : Sectors, val : Values]
    /\ timeouts \in Nat /\ fresh \in BOOLEAN
    /\ disk \in [Sectors -> Values]
    /\ inflight \subseteq Request

\* The status byte says OK only after some request was completed since the call
\* was made; this survives every timeout.
StatusFresh ==
    /\ Waiting /\ dma.status = "OK" => fresh
    /\ OkNeedsCompletion

\* Until the first timeout a call is in one of four phases, and the device holds
\* at most its request.
Idle ==
    /\ ~Waiting
    /\ usedIdx = lastUsed /\ fetched = availIdx /\ inflight = {}
    /\ call.state = "ok" => disk[call.sector] = call.val

\* The page still holds what the call put there.
PageIsCalls ==
    /\ dma.type = call.type /\ dma.sector = call.sector
    /\ call.type = "OUT" => dma.data = call.val

\* The chain that starts at h lets the device write the data of a read only.
ChainOK(h, type) == WellFormed(h) => descs[Data(h)].write = (type = "IN")

Posted ==
    /\ Waiting /\ PageIsCalls
    /\ usedIdx = lastUsed /\ availIdx = Inc(fetched) /\ inflight = {}
    /\ ChainOK(ring[fetched % QUEUE_SIZE], call.type)

Taken ==
    /\ Waiting /\ PageIsCalls
    /\ usedIdx = lastUsed /\ fetched = availIdx
    /\ \E r \in inflight :
         /\ inflight = {r}
         /\ r.type = call.type /\ r.sector = call.sector
         /\ r.write = (call.type = "IN")

Finished ==
    /\ Waiting /\ PageIsCalls
    /\ usedIdx = Inc(lastUsed) /\ fetched = availIdx /\ inflight = {}
    /\ dma.status = "OK" => disk[call.sector] = dma.data

Phases == timeouts = 0 => Idle \/ Posted \/ Taken \/ Finished

BlkInv == TypeOK /\ StatusFresh /\ Phases

-----------------------------------------------------------------------------

LEMMA SlotLemma == \A i \in Nat : i % QUEUE_SIZE \in Slots /\ Inc(i) \in Nat
  BY QueueAssumption DEF Slots, Inc

\* What a chain looks like wherever it wraps around: if the device accepts it,
\* its three descriptors are different ones and the middle one is the data's.
LEMMA ChainLemma ==
  ASSUME NEW b \in Slots, NEW type \in Types, TypeOK, descs' = Chain(b, type)
  PROVE  ChainOK(b, type)' /\ descs' \in [Slots -> Desc]
  <1> DEFINE d1 == (b + 1) % QUEUE_SIZE
             d2 == (b + 2) % QUEUE_SIZE
             H == [part |-> "header", write |-> FALSE, next |-> d1]
             D == [part |-> "data", write |-> (type = "IN"), next |-> d2]
             S == [part |-> "status", write |-> TRUE, next |-> None]
  <1>1. b \in Nat
    BY QueueAssumption DEF Slots
  <1>2. d1 \in Slots /\ d2 \in Slots
    BY <1>1, SlotLemma
  <1>3. None \notin Slots /\ Slots \subseteq 0 .. None /\ None \in 0 .. None
    BY QueueAssumption DEF Slots, None
  <1>4. H \in Desc /\ D \in Desc /\ S \in Desc
    BY <1>2, <1>3 DEF Desc
  <1>5. descs' = [descs EXCEPT ![b] = H, ![d1] = D, ![d2] = S]
    BY DEF Chain
  <1>6. descs \in [Slots -> Desc]
    BY DEF TypeOK
  <1> HIDE DEF d1, d2
  <1>7. descs' \in [Slots -> Desc]
    BY <1>2, <1>4, <1>5, <1>6
  <1>8. \A x \in Slots : descs'[x] = IF x = d2 THEN S ELSE IF x = d1 THEN D
                                     ELSE IF x = b THEN H ELSE descs[x]
    BY <1>2, <1>5, <1>6
  <1>9. ASSUME WellFormed(b)' PROVE descs'[Data(b)'].write = (type = "IN")
    <2>1. descs'[b].part = "header"
      BY <1>9 DEF WellFormed
    <2>2. b # d2 /\ b # d1
      BY <2>1, <1>8
    <2>3. Data(b)' = d1
      BY <2>2, <1>8 DEF Data
    <2>4. d1 # d2
      BY <1>9, <2>3, <1>2, <1>8 DEF WellFormed
    <2> QED
      BY <2>3, <2>4, <1>2, <1>8
  <1> QED
    BY <1>7, <1>9 DEF ChainOK

LEMMA InitInv == Init => BlkInv
  <1> SUFFICES ASSUME Init PROVE BlkInv
    OBVIOUS
  <1> DEFINE s0 == CHOOSE s \in Sectors : TRUE
             v0 == CHOOSE v \in Values : TRUE
  <1>1. s0 \in Sectors /\ v0 \in Values
    BY QueueAssumption
  <1>2. None \in 0 .. None /\ 0 \in Slots
    BY QueueAssumption DEF None, Slots
  <1>3. dma = [type |-> "IN", sector |-> s0, data |-> v0, status |-> "OK"]
    BY DEF Init
  <1>4. call = [state |-> "err", type |-> "IN", sector |-> dma.sector, val |-> dma.data]
    BY DEF Init
  <1> HIDE DEF s0, v0
  <1>5. dma \in [type : Types, sector : Sectors, data : Values,
                 status : {"OK", "FF", "IOERR"}]
    BY <1>1, <1>3 DEF Types
  <1>6. call \in [state : {"wait", "ok", "err"}, type : Types, sector : Sectors, val : Values]
    BY <1>4, <1>5 DEF Types
  <1>7. TypeOK
    BY <1>2, <1>5, <1>6 DEF Init, TypeOK, Desc
  <1>8. StatusFresh /\ Phases
    BY <1>4 DEF Init, StatusFresh, OkNeedsCompletion, Waiting, Phases, Idle
  <1> QED
    BY <1>7, <1>8 DEF BlkInv

LEMMA TypeStep == BlkInv /\ [Next]_vars => TypeOK'
  <1> SUFFICES ASSUME BlkInv, [Next]_vars PROVE TypeOK'
    OBVIOUS
  <1>0. TypeOK
    BY DEF BlkInv
  <1>1. ASSUME NEW type \in Types, NEW s \in Sectors, NEW v \in Values, Submit(type, s, v)
        PROVE  TypeOK'
    <2>1. descs' \in [Slots -> Desc]
      BY <1>0, <1>1, ChainLemma DEF TypeOK, Submit
    <2>2. nextDesc' \in Slots /\ availIdx % QUEUE_SIZE \in Slots /\ availIdx' \in Nat
      <3>1. nextDesc + 3 \in Nat /\ availIdx \in Nat
        BY <1>0, QueueAssumption DEF TypeOK, Slots
      <3> QED
        BY <3>1, <1>1, SlotLemma DEF Submit
    <2>3. ring' \in [Slots -> Slots]
      BY <1>0, <1>1, <2>2 DEF TypeOK, Submit
    <2>4. dma' \in [type : Types, sector : Sectors, data : Values,
                    status : {"OK", "FF", "IOERR"}]
      BY <1>0, <1>1 DEF TypeOK, Submit, Fill
    <2>5. call' \in [state : {"wait", "ok", "err"}, type : Types, sector : Sectors,
                     val : Values]
      BY <1>1 DEF Submit
    <2> QED
      BY <1>0, <1>1, <2>1, <2>2, <2>3, <2>4, <2>5 DEF TypeOK, Submit, device
  <1>2. CASE Completed
    <2>1. call' \in [state : {"wait", "ok", "err"}, type : Types, sector : Sectors,
                     val : Values]
      BY <1>0, <1>2 DEF TypeOK, Completed
    <2> QED
      BY <1>0, <1>2, <2>1, SlotLemma DEF TypeOK, Completed, device
  <1>3. CASE TimedOut
    BY <1>0, <1>3 DEF TypeOK, TimedOut, device
  <1>4. CASE DeviceFetch
    <2> DEFINE h == ring[fetched % QUEUE_SIZE]
               r == [type |-> dma.type, sector |-> dma.sector,
                     write |-> descs[Data(h)].write, at |-> fetched]
    <2>1. Data(h) \in Slots
      BY <1>4 DEF DeviceFetch, WellFormed
    <2>2. descs[Data(h)].write \in BOOLEAN
      BY <1>0, <2>1 DEF TypeOK, Desc
    <2>3. r \in Request
      BY <1>0, <2>2 DEF TypeOK, Request
    <2>4. inflight' = inflight \cup {r} /\ fetched' \in Nat
      BY <1>0, <1>4, SlotLemma DEF DeviceFetch, TypeOK
    <2> QED
      BY <1>0, <1>4, <2>3, <2>4 DEF TypeOK, DeviceFetch, driver
  <1>5. ASSUME NEW r \in inflight, DeviceOk(r) PROVE TypeOK'
    <2>1. r \in Request
      BY <1>0 DEF TypeOK
    <2>2. disk' \in [Sectors -> Values]
      BY <1>0, <1>5, <2>1 DEF TypeOK, DeviceOk, Request
    <2>3. dma' \in [type : Types, sector : Sectors, data : Values,
                    status : {"OK", "FF", "IOERR"}]
      BY <1>0, <1>5, <2>1 DEF TypeOK, DeviceOk, Request
    <2> QED
      BY <1>0, <1>5, <2>2, <2>3, SlotLemma DEF TypeOK, DeviceOk, driver
  <1>6. ASSUME NEW r \in inflight, DeviceError(r) PROVE TypeOK'
    <2>1. dma' \in [type : Types, sector : Sectors, data : Values,
                    status : {"OK", "FF", "IOERR"}]
      BY <1>0, <1>6 DEF TypeOK, DeviceError
    <2> QED
      BY <1>0, <1>6, <2>1, SlotLemma DEF TypeOK, DeviceError, driver
  <1>7. CASE UNCHANGED vars
    BY <1>0, <1>7 DEF TypeOK, vars, driver, device
  <1>8. dma.data \in Values /\ "IN" \in Types /\ "OUT" \in Types
    BY <1>0 DEF TypeOK, Types
  <1> QED
    BY <1>1, <1>2, <1>3, <1>4, <1>5, <1>6, <1>7, <1>8 DEF Next

LEMMA FreshStep == BlkInv /\ [Next]_vars => StatusFresh'
  <1> SUFFICES ASSUME BlkInv, [Next]_vars PROVE StatusFresh'
    OBVIOUS
  <1>0. TypeOK /\ StatusFresh
    BY DEF BlkInv
  <1> USE DEF StatusFresh, OkNeedsCompletion, Waiting
  <1>1. ASSUME NEW type, NEW s, NEW v, Submit(type, s, v) PROVE StatusFresh'
    BY <1>0, <1>1 DEF Submit, Fill, TypeOK
  <1>2. CASE Completed
    BY <1>0, <1>2 DEF Completed, TypeOK
  <1>3. CASE TimedOut
    BY <1>0, <1>3 DEF TimedOut, TypeOK
  <1>4. CASE DeviceFetch
    BY <1>0, <1>4 DEF DeviceFetch, driver
  <1>5. ASSUME NEW r \in inflight, DeviceOk(r) PROVE StatusFresh'
    BY <1>5 DEF DeviceOk
  <1>6. ASSUME NEW r \in inflight, DeviceError(r) PROVE StatusFresh'
    BY <1>0, <1>6 DEF DeviceError, TypeOK, driver
  <1>7. CASE UNCHANGED vars
    BY <1>0, <1>7 DEF vars, driver
  <1> QED
    BY <1>1, <1>2, <1>3, <1>4, <1>5, <1>6, <1>7 DEF Next

LEMMA PhaseStep == BlkInv /\ [Next]_vars => Phases'
  <1> SUFFICES ASSUME BlkInv, [Next]_vars, timeouts' = 0
               PROVE  (Idle \/ Posted \/ Taken \/ Finished)'
    BY DEF Phases
  <1>0. TypeOK
    BY DEF BlkInv
  <1>t. timeouts = 0 /\ ~TimedOut
    <2>1. \A type, s, v : Submit(type, s, v) => timeouts' = timeouts
      BY DEF Submit
    <2>2. \A r : DeviceOk(r) \/ DeviceError(r) => timeouts' = timeouts
      BY DEF DeviceOk, DeviceError, driver
    <2>3. Completed \/ DeviceFetch \/ UNCHANGED vars => timeouts' = timeouts
      BY DEF Completed, DeviceFetch, vars, driver
    <2>4. ~TimedOut
      BY <1>0 DEF TimedOut, TypeOK
    <2> QED
      BY <2>1, <2>2, <2>3, <2>4 DEF Next
  <1>p. Idle \/ Posted \/ Taken \/ Finished
    BY <1>t DEF BlkInv, Phases
  <1>1. ASSUME NEW type \in Types, NEW s \in Sectors, NEW v \in Values, Submit(type, s, v)
        PROVE  Posted'
    <2>1. Idle
      BY <1>1, <1>p DEF Submit, Waiting, Posted, Taken, Finished
    <2>2. PICK b \in Slots : b = nextDesc
      BY <1>0 DEF TypeOK
    <2>3. ring'[fetched' % QUEUE_SIZE] = b
      BY <2>1, <2>2, <1>0, <1>1, SlotLemma DEF Idle, Submit, TypeOK, device
    <2>4. ChainOK(b, type)'
      BY <2>2, <1>0, <1>1, ChainLemma DEF Submit
    <2>c. call'.type = type
      BY <1>1 DEF Submit
    <2>5. ChainOK(ring[fetched % QUEUE_SIZE], call.type)'
      BY <2>3, <2>4, <2>c DEF ChainOK, WellFormed, Data, Status
    <2>6. PageIsCalls'
      BY <1>0, <1>1 DEF Submit, Fill, PageIsCalls, TypeOK
    <2> QED
      BY <2>1, <2>5, <2>6, <1>1 DEF Idle, Posted, Submit, Waiting, device
  <1>2. CASE Completed
    <2>1. Finished
      BY <1>2, <1>p DEF Completed, Waiting, Idle, Posted, Taken
    <2>2. lastUsed' = usedIdx'
      BY <2>1, <1>2 DEF Completed, Finished
    <2>3. call'.state = "ok" => disk'[call'.sector] = call'.val
      BY <2>1, <1>0, <1>2 DEF Completed, Finished, PageIsCalls, TypeOK, Types, device
    <2>4. call'.state # "wait"
      BY <1>0, <1>2 DEF Completed, TypeOK
    <2> QED
      BY <2>1, <2>2, <2>3, <2>4, <1>2 DEF Completed, Finished, Idle, Waiting, device
  <1>3. CASE DeviceFetch
    <2>1. Posted
      BY <1>3, <1>p DEF DeviceFetch, Idle, Taken, Finished
    <2> DEFINE h == ring[fetched % QUEUE_SIZE]
               r == [type |-> dma.type, sector |-> dma.sector,
                     write |-> descs[Data(h)].write, at |-> fetched]
    <2>2. WellFormed(h) /\ inflight' = inflight \cup {r}
      BY <1>3 DEF DeviceFetch
    <2>3. descs[Data(h)].write = (call.type = "IN")
      BY <2>1, <2>2 DEF Posted, ChainOK
    <2>4. r \in Request
      BY <1>0, <2>3 DEF TypeOK, Request
    <2>5. inflight' = {r}
      BY <2>1, <2>2 DEF Posted
    <2>6. r.type = call'.type /\ r.sector = call'.sector /\ r.write = (call'.type = "IN")
      BY <2>1, <2>3, <1>3 DEF Posted, PageIsCalls, DeviceFetch, driver
    <2>7. fetched' = availIdx'
      BY <2>1, <1>3 DEF Posted, DeviceFetch, driver
    <2> HIDE DEF h, r
    <2> QED
      BY <2>1, <2>4, <2>5, <2>6, <2>7, <1>3
         DEF Posted, Taken, Waiting, PageIsCalls, DeviceFetch, driver
  <1>4. ASSUME NEW r \in inflight, DeviceOk(r) PROVE Finished'
    <2>1. Taken
      BY <1>4, <1>p DEF Idle, Posted, Finished
    <2>2. /\ r \in Request /\ inflight = {r}
          /\ r.type = call.type /\ r.sector = call.sector /\ r.write = (call.type = "IN")
      BY <2>1, <1>0, <1>4 DEF Taken, TypeOK
    <2>3. disk'[call'.sector] = dma'.data
      <3>1. CASE call.type = "OUT"
        BY <3>1, <2>2, <1>0, <1>4 DEF DeviceOk, TypeOK, driver
      <3>2. CASE call.type = "IN"
        BY <3>2, <2>2, <1>0, <1>4 DEF DeviceOk, TypeOK, driver
      <3> QED
        BY <3>1, <3>2, <1>0 DEF TypeOK, Types
    <2>4. PageIsCalls'
      BY <2>1, <2>2, <1>0, <1>4 DEF Taken, PageIsCalls, DeviceOk, TypeOK, driver
    <2> QED
      BY <2>1, <2>2, <2>3, <2>4, <1>4 DEF Taken, Finished, Waiting, DeviceOk, driver
  <1>5. ASSUME NEW r \in inflight, DeviceError(r) PROVE Finished'
    <2>1. Taken
      BY <1>5, <1>p DEF Idle, Posted, Finished
    <2>2. inflight = {r}
      BY <2>1, <1>5 DEF Taken
    <2>3. PageIsCalls' /\ dma'.status = "IOERR"
      BY <2>1, <1>0, <1>5 DEF Taken, PageIsCalls, DeviceError, TypeOK, driver
    <2> QED
      BY <2>1, <2>2, <2>3, <1>5 DEF Taken, Finished, Waiting, DeviceError, driver
  <1>6. CASE UNCHANGED vars
    <2>1. Idle => Idle'
      BY <1>6 DEF vars, driver, device, Idle, Waiting
    <2>2. Posted => Posted'
      BY <1>6 DEF vars, driver, device, Posted, Waiting, PageIsCalls, ChainOK,
                  WellFormed, Data, Status
    <2>3. Taken => Taken'
      BY <1>6 DEF vars, driver, device, Taken, Waiting, PageIsCalls
    <2>4. Finished => Finished'
      BY <1>6 DEF vars, driver, device, Finished, Waiting, PageIsCalls
    <2> QED
      BY <1>p, <2>1, <2>2, <2>3, <2>4
  <1>7. dma.data \in Values /\ "IN" \in Types /\ "OUT" \in Types
    BY <1>0 DEF TypeOK, Types
  <1> QED
    BY <1>t, <1>1, <1>2, <1>3, <1>4, <1>5, <1>6, <1>7 DEF Next

LEMMA BlkInvariant == Spec => []BlkInv
  <1>1. BlkInv /\ [Next]_vars => BlkInv'
    BY TypeStep, FreshStep, PhaseStep DEF BlkInv
  <1> QED
    BY <1>1, InitInv, PTL DEF Spec

-----------------------------------------------------------------------------

\* Until a request times out, a call that do_block_io answers with Ok was carried
\* out by the device, wherever the chains and the ring indices wrap around.
THEOREM DoneTheorem == Spec => []OkMeansDone
  <1>1. BlkInv => OkMeansDone
    BY DEF BlkInv, Phases, Idle, Posted, Taken, Finished, Waiting, OkMeansDone
  <1> QED
    BY <1>1, BlkInvariant, PTL

\* With any number of timeouts and late completions, do_block_io returns Ok only
\* after some request was completed since the call put 0xFF in the status byte.
THEOREM CompletionTheorem == Spec => []OkNeedsCompletion
  <1>1. BlkInv => OkNeedsCompletion
    BY DEF BlkInv, StatusFresh
  <1> QED
    BY <1>1, BlkInvariant, PTL
=============================================================================
