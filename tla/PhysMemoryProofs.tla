-------------------------- MODULE PhysMemoryProofs --------------------------
(***************************************************************************)
(* Proofs about the frame allocator, for every memory map, and about its   *)
(* users, for any tasks, stack size and page counts.                       *)
(***************************************************************************)
EXTENDS PhysMemory, FiniteSetTheorems, TLAPS

-----------------------------------------------------------------------------
(* The allocator by itself.                                                *)

IInv == TypeOK /\ NothingFreeBelowHint /\ BitmapAccountsForAll

\* A non-empty set of frame numbers has a lowest element.
LEMMA LowestExists ==
    ASSUME NEW S \in SUBSET Nat, S # {}
    PROVE  Lowest(S) \in S /\ \A j \in S : Lowest(S) <= j
<1>1. PICK i \in S : \A j \in S : ~(<<j, i>> \in OpToRel(<, Nat))
  BY NatLessThanWellFounded, WFMin
<1>2. \A j \in S : i <= j
  <2>1. \A ss \in Nat \X Nat : ss[1] < ss[2] => ss \in OpToRel(<, Nat)
    BY DEF OpToRel
  <2>2. \A j \in S : j < i => <<j, i>> \in OpToRel(<, Nat)
    BY <2>1
  <2>3. \A j \in S : ~(j < i)
    BY <1>1, <2>2, Zenon
  <2> QED
    BY <2>3
<1> QED
  BY <1>2 DEF Lowest

\* The frame allocate_frame takes is free, and no free frame is below it.
LEMMA ScanIsFree ==
    ASSUME IInv, AtHint \cup BelowHint # {}
    PROVE  /\ Scan \in Frames /\ Scan \notin bitmap
           /\ \A i \in Frames : i < Scan => i \in bitmap
<1>1. AtHint \in SUBSET Nat /\ AtHint # {} /\ AtHint \subseteq Frames
  BY TotalAssumption DEF IInv, TypeOK, NothingFreeBelowHint, AtHint, Frames
<1>2. Scan \in AtHint /\ \A j \in AtHint : Scan <= j
  BY <1>1, LowestExists DEF Scan
<1> QED
  BY <1>1, <1>2, TotalAssumption
     DEF AtHint, Frames, IInv, TypeOK, NothingFreeBelowHint, BelowHint

\* The bitmap that init leaves satisfies the invariant.
LEMMA InitInv == Init => IInv
BY TotalAssumption, RegionsAssumption
   DEF Init, IInv, TypeOK, NothingFreeBelowHint, BelowHint, BitmapAccountsForAll,
       Bits, Frames, Padding, NoFrame

\* allocate_frame and free_frame preserve the invariant.
LEMMA NextPreserves == IInv /\ [Next]_vars => IInv'
<1> SUFFICES ASSUME IInv, [Next]_vars
             PROVE  IInv'
  OBVIOUS
<1> USE TotalAssumption, RegionsAssumption
<1>0. Frames \subseteq Bits
  BY DEF Frames, Bits
<1>1. CASE AllocateFrame
  <2>1. /\ Scan \in Frames /\ Scan \notin bitmap
        /\ \A i \in Frames : i < Scan => i \in bitmap
    BY <1>1, ScanIsFree DEF AllocateFrame
  <2>2. TypeOK'
    BY <1>0, <1>1, <2>1 DEF AllocateFrame, IInv, TypeOK, Frames
  <2>3. NothingFreeBelowHint'
    BY <1>1, <2>1 DEF AllocateFrame, NothingFreeBelowHint, BelowHint, Frames
  <2>4. BitmapAccountsForAll'
    BY <1>1, <2>1 DEF AllocateFrame, IInv, BitmapAccountsForAll
  <2> QED
    BY <2>2, <2>3, <2>4 DEF IInv
<1>2. CASE AllocateNone
  BY <1>2 DEF AllocateNone, IInv, TypeOK, NothingFreeBelowHint, BelowHint,
              BitmapAccountsForAll
<1>3. ASSUME NEW f \in Frames, FreeFrame(f)
      PROVE  IInv'
  <2>1. TypeOK'
    BY <1>3 DEF FreeFrame, IInv, TypeOK, Frames
  <2>2. NothingFreeBelowHint'
    BY <1>3 DEF FreeFrame, IInv, TypeOK, NothingFreeBelowHint, BelowHint, Frames
  <2>3. BitmapAccountsForAll'
    BY <1>3 DEF FreeFrame, IInv, BitmapAccountsForAll, Padding
  <2> QED
    BY <2>1, <2>2, <2>3 DEF IInv
<1>4. CASE UNCHANGED vars
  BY <1>4 DEF vars, IInv, TypeOK, NothingFreeBelowHint, BelowHint,
              BitmapAccountsForAll
<1> QED
  BY <1>1, <1>2, <1>3, <1>4 DEF Next

\* The invariant holds in every reachable state of the allocator.
THEOREM InductiveInvariant == Spec => []IInv
BY InitInv, NextPreserves, PTL DEF Spec

\* The search never misses a free frame below its starting point.
THEOREM HintTheorem == Spec => []NothingFreeBelowHint
<1>1. IInv => NothingFreeBelowHint
  BY DEF IInv
<1> QED
  BY InductiveInvariant, <1>1, PTL

\* No frame is lost, and none is both handed out and reserved.
THEOREM AccountingTheorem == Spec => []BitmapAccountsForAll
<1>1. IInv => BitmapAccountsForAll
  BY DEF IInv
<1> QED
  BY InductiveInvariant, <1>1, PTL

\* The bitmap allocator implements the abstract pool.
THEOREM RefinementTheorem == Spec => ImplementsPool
<1>1. Init => Pool!PoolInit
  BY DEF Init, Pool!PoolInit
<1>2. IInv /\ [Next]_vars => [Pool!PoolNext]_(Pool!poolVars)
  <2> SUFFICES ASSUME IInv, [Next]_vars
               PROVE  [Pool!PoolNext]_(Pool!poolVars)
    OBVIOUS
  <2>1. CASE AllocateFrame
    <3>1. Scan \in Frames /\ Scan \notin bitmap
      BY <2>1, ScanIsFree DEF AllocateFrame
    <3>2. Pool!Take(Scan)
      BY <2>1, <3>1 DEF AllocateFrame, Pool!Take
    <3> QED
      BY <3>1, <3>2 DEF Pool!PoolNext
  <2>2. CASE AllocateNone
    <3>1. Frames \ bitmap = {}
      BY <2>2, TotalAssumption
         DEF AllocateNone, AtHint, BelowHint, IInv, TypeOK, Frames
    <3> QED
      BY <2>2, <3>1 DEF AllocateNone, Pool!PoolNext, Pool!Refuse
  <2>3. ASSUME NEW f \in Frames, FreeFrame(f)
        PROVE  Pool!PoolNext
    <3>1. Pool!Release(f)
      BY <2>3 DEF FreeFrame, Pool!Release
    <3> QED
      BY <2>3, <3>1 DEF FreeFrame, Pool!PoolNext
  <2>4. CASE UNCHANGED vars
    BY <2>4 DEF vars, Pool!poolVars
  <2> QED
    BY <2>1, <2>2, <2>3, <2>4 DEF Next
<1> QED
  BY <1>1, <1>2, InductiveInvariant, PTL DEF Spec, ImplementsPool, Pool!PoolSpec

-----------------------------------------------------------------------------
(* The allocator below its users.                                          *)

\* A step of the users is a step of the allocator or leaves it alone.
LEMMA AllocatorStep ==
    ASSUME IInv, [PhysNext]_<<vars, users>>
    PROVE  [Next]_vars
<1>1. ASSUME FreeNext
      PROVE  Next
  <2>1. FreeFrame(Head(job.got)) /\ Head(job.got) \in Frames
    BY <1>1 DEF FreeNext, FreeFrame, IInv, TypeOK
  <2> QED
    BY <2>1 DEF Next
<1>2. ASSUME NEW t, NewTask(t) \/ CleanupDeadTask(t)
      PROVE  UNCHANGED vars
  BY <1>2 DEF NewTask, CleanupDeadTask, Begin, vars
<1>3. ASSUME NEW t, NEW n, CreateRegion(t, n) \/ SetupVirtqueue(n)
      PROVE  UNCHANGED vars
  BY <1>3 DEF CreateRegion, SetupVirtqueue, Begin, vars
<1>4. ASSUME FinishStack \/ FinishRegion
      PROVE  UNCHANGED vars
  BY <1>4 DEF FinishStack, FinishRegion, vars
<1>5. ASSUME NEW r, NEW t, NEW u, GrantAccess(r, t, u)
      PROVE  UNCHANGED vars
  BY <1>5 DEF GrantAccess, vars
<1>6. ASSUME TakeFrame \/ TakeTable \/ OutOfFrames
      PROVE  Next
  BY <1>6 DEF TakeFrame, TakeTable, OutOfFrames, Next
<1> QED
  BY <1>1, <1>2, <1>3, <1>4, <1>5, <1>6 DEF PhysNext

\* So what is proved of the allocator holds with its users.
THEOREM AllocatorTheorem == PhysSpec => Spec /\ []IInv
<1>1. PhysInit => Init /\ IInv
  BY InitInv DEF PhysInit
<1>2. IInv /\ [PhysNext]_<<vars, users>> => [Next]_vars /\ IInv'
  BY AllocatorStep, NextPreserves
<1> QED
  BY <1>1, <1>2, PTL DEF PhysSpec, Spec

\* The users see the abstract pool.
THEOREM UsersSeePool == PhysSpec => ImplementsPool
BY AllocatorTheorem, RefinementTheorem, PTL

-----------------------------------------------------------------------------
(* Dividing a set among owners.                                            *)

\* The sets f[u] divide H: they cover it and do not overlap.
Divides(f, H) ==
    /\ H = UNION {f[u] : u \in DOMAIN f}
    /\ \A u, v \in DOMAIN f : u # v => f[u] \cap f[v] = {}

\* One owner gets an element that nobody had.
LEMMA DividesGrow ==
    ASSUME NEW f, NEW H, Divides(f, H), NEW o \in DOMAIN f, NEW x, x \notin H,
           NEW g, DOMAIN g = DOMAIN f, g[o] = f[o] \cup {x},
           \A u \in DOMAIN f : u # o => g[u] = f[u]
    PROVE  Divides(g, H \cup {x})
<1>1. H \cup {x} = UNION {g[u] : u \in DOMAIN g}
  BY DEF Divides
<1>2. \A u \in DOMAIN f : x \notin f[u]
  BY DEF Divides
<1>3. \A u, v \in DOMAIN g : u # v => g[u] \cap g[v] = {}
  BY <1>2 DEF Divides
<1> QED
  BY <1>1, <1>3 DEF Divides

\* One owner gives up an element.
LEMMA DividesShrink ==
    ASSUME NEW f, NEW H, Divides(f, H), NEW o \in DOMAIN f, NEW x \in f[o],
           NEW g, DOMAIN g = DOMAIN f, g[o] = f[o] \ {x},
           \A u \in DOMAIN f : u # o => g[u] = f[u]
    PROVE  Divides(g, H \ {x})
<1>1. \A u \in DOMAIN f : u # o => x \notin f[u]
  BY DEF Divides
<1>2. H \ {x} = UNION {g[u] : u \in DOMAIN g}
  BY <1>1 DEF Divides
<1>3. \A u, v \in DOMAIN g : u # v => g[u] \cap g[v] = {}
  BY DEF Divides
<1> QED
  BY <1>2, <1>3 DEF Divides

\* One owner passes all it has on to another one.
LEMMA DividesMove ==
    ASSUME NEW f, NEW H, Divides(f, H), NEW o \in DOMAIN f, NEW p \in DOMAIN f, o # p,
           NEW g, DOMAIN g = DOMAIN f, g[o] = {}, g[p] = f[p] \cup f[o],
           \A u \in DOMAIN f : u \notin {o, p} => g[u] = f[u]
    PROVE  Divides(g, H)
<1>1. H = UNION {g[u] : u \in DOMAIN g}
  BY DEF Divides
<1>2. \A u, v \in DOMAIN g : u # v => g[u] \cap g[v] = {}
  BY DEF Divides
<1> QED
  BY <1>1, <1>2 DEF Divides

-----------------------------------------------------------------------------
(* The inductive invariant: the state of the users.                        *)

\* A list of frames without repetition, as Task::new and create_region make it.
FrameList(s) == s \in Seq(Frames) /\ IsInjective(s)

Kinds == {"idle", "stack", "region", "queue", "free", "halted"}

JobOK ==
    /\ job \in [kind : Kinds, task : Tasks \cup {0}, pages : Nat, got : Seq(Frames)]
    /\ IsInjective(job.got)
    /\ job.kind = "idle" => job.got = <<>>
    /\ job.kind = "free" => job.got # <<>>
    /\ job.kind \in {"stack", "free", "halted"} => job.task \in born \ DOMAIN stacks
    /\ job.kind = "stack" => job.pages > 0
    /\ job.kind \in {"region", "queue"} => Len(regions) < MaxRegions

StacksOK ==
    /\ DOMAIN stacks \subseteq born /\ born \subseteq Tasks
    /\ \A t \in DOMAIN stacks : FrameList(stacks[t]) /\ stacks[t] # <<>>

Region == [owner : Tasks \cup {0}, base : Frames, pages : Nat,
           frames : SUBSET Frames, grants : SUBSET Tasks]

RegionsOK ==
    /\ regions \in Seq(Region)
    /\ Len(regions) <= MaxRegions

UsersOK == JobOK /\ StacksOK /\ RegionsOK

\* A list grows by a frame it does not have.
LEMMA AppendFrame ==
    ASSUME NEW s, FrameList(s), NEW f \in Frames, f \notin Range(s)
    PROVE  /\ FrameList(Append(s, f))
           /\ Range(Append(s, f)) = Range(s) \cup {f}
           /\ Append(s, f) # <<>>
           /\ Len(Append(s, f)) = Len(s) + 1
           /\ Head(Append(s, f)) = IF s = <<>> THEN f ELSE Head(s)
<1>1. s \in Seq(Frames) /\ DOMAIN s = 1 .. Len(s) /\ Len(s) \in Nat
  BY DEF FrameList
<1>2. /\ Append(s, f) \in Seq(Frames) /\ DOMAIN Append(s, f) = 1 .. Len(s) + 1
      /\ \A i \in 1 .. Len(s) : Append(s, f)[i] = s[i]
      /\ Append(s, f)[Len(s) + 1] = f
      /\ Append(s, f) # <<>> /\ Len(Append(s, f)) = Len(s) + 1
      /\ Head(Append(s, f)) = Append(s, f)[1]
  BY <1>1
<1>3. Range(Append(s, f)) = Range(s) \cup {f}
  BY <1>1, <1>2 DEF Range
<1>4. IsInjective(Append(s, f))
  BY <1>1, <1>2 DEF Range, IsInjective, FrameList
<1> QED
  BY <1>1, <1>2, <1>3, <1>4 DEF FrameList

\* A list loses its first frame, and only that one.
LEMMA TailFrame ==
    ASSUME NEW s, FrameList(s), s # <<>>
    PROVE  /\ Head(s) \in Range(s)
           /\ FrameList(Tail(s))
           /\ Range(Tail(s)) = Range(s) \ {Head(s)}
           /\ Tail(s) = <<>> <=> Len(s) = 1
<1>1. s \in Seq(Frames) /\ DOMAIN s = 1 .. Len(s) /\ Len(s) \in Nat \ {0}
  BY DEF FrameList
<1>2. /\ Tail(s) \in Seq(Frames) /\ DOMAIN Tail(s) = 1 .. Len(s) - 1
      /\ \A i \in 1 .. Len(s) - 1 : Tail(s)[i] = s[i + 1]
      /\ Head(s) = s[1]
      /\ Tail(s) = <<>> <=> Len(s) = 1
  BY <1>1
<1>3. \A i, j \in 1 .. Len(s) : s[i] = s[j] => i = j
  BY <1>1 DEF FrameList, IsInjective
<1>4. IsInjective(Tail(s))
  <2>1. \A i, j \in 1 .. Len(s) - 1 : Tail(s)[i] = Tail(s)[j] => i = j
    <3> TAKE i, j \in 1 .. Len(s) - 1
    <3>1. Tail(s)[i] = s[i + 1] /\ Tail(s)[j] = s[j + 1]
      BY <1>2
    <3>2. i + 1 \in 1 .. Len(s) /\ j + 1 \in 1 .. Len(s)
      BY <1>1
    <3>3. s[i + 1] = s[j + 1] => i + 1 = j + 1
      BY <1>3, <3>2
    <3> QED
      BY <3>1, <3>3
  <2> QED
    BY <1>2, <2>1 DEF IsInjective
<1>5. Head(s) \in Range(s)
  BY <1>1, <1>2 DEF Range
<1>6. \A x \in Range(Tail(s)) : x \in Range(s) \ {Head(s)}
  <2> TAKE x \in Range(Tail(s))
  <2>1. PICK i \in 1 .. Len(s) - 1 : x = s[i + 1]
    BY <1>2 DEF Range
  <2>2. i + 1 \in 1 .. Len(s) /\ i + 1 # 1 /\ 1 \in 1 .. Len(s)
    BY <1>1
  <2>3. x # s[1]
    BY <1>3, <2>1, <2>2
  <2> QED
    BY <1>1, <1>2, <2>1, <2>2, <2>3 DEF Range
<1>7. \A x \in Range(s) \ {Head(s)} : x \in Range(Tail(s))
  <2> TAKE x \in Range(s) \ {Head(s)}
  <2>1. PICK i \in 1 .. Len(s) : x = s[i] /\ i # 1
    BY <1>1, <1>2 DEF Range
  <2>2. i - 1 \in 1 .. Len(s) - 1 /\ (i - 1) + 1 = i
    BY <1>1, <2>1
  <2>3. Tail(s)[i - 1] = s[i]
    BY <1>2, <2>2
  <2> QED
    BY <1>2, <2>1, <2>2, <2>3 DEF Range
<1> QED
  BY <1>2, <1>4, <1>5, <1>6, <1>7 DEF FrameList

-----------------------------------------------------------------------------
(* The books.                                                              *)

StackOf(t)  == IF t \in DOMAIN stacks THEN Range(stacks[t]) ELSE {}
RegionOf(r) == IF r \in DOMAIN regions THEN regions[r].frames ELSE {}

\* The books, user by user.
Books ==
    /\ DOMAIN Shares = Users
    /\ <<"tables", 0>> \in Users /\ Shares[<<"tables", 0>>] = tables
    /\ <<"leaked", 0>> \in Users /\ Shares[<<"leaked", 0>>] = leaked
    /\ <<"job", 0>> \in Users /\ Shares[<<"job", 0>>] = Range(job.got)
    /\ \A r \in 1 .. MaxRegions :
          <<"region", r>> \in Users /\ Shares[<<"region", r>>] = RegionOf(r)
    /\ \A t \in Tasks : <<"stack", t>> \in Users /\ Shares[<<"stack", t>>] = StackOf(t)

\* Everybody who can have frames.
LEMMA EveryUser ==
    \A u \in Users : \/ u \in {<<"tables", 0>>, <<"leaked", 0>>, <<"job", 0>>}
                     \/ \E r \in 1 .. MaxRegions : u = <<"region", r>>
                     \/ \E t \in Tasks : u = <<"stack", t>>
BY DEF Users

\* The books hold what Shares says.
LEMMA BooksHold == Books
<1>1. /\ <<"tables", 0>> \in Users /\ <<"leaked", 0>> \in Users /\ <<"job", 0>> \in Users
      /\ \A r \in 1 .. MaxRegions : <<"region", r>> \in Users
      /\ \A t \in Tasks : <<"stack", t>> \in Users
  BY DEF Users
<1>2. DOMAIN Shares = Users
  BY DEF Shares
<1>3. /\ Shares[<<"tables", 0>>] = tables /\ Shares[<<"leaked", 0>>] = leaked
      /\ Shares[<<"job", 0>>] = Range(job.got)
  BY <1>1 DEF Shares
<1>4. \A r \in 1 .. MaxRegions : Shares[<<"region", r>>] = RegionOf(r)
  BY <1>1 DEF Shares, RegionOf
<1>5. \A t \in Tasks : Shares[<<"stack", t>>] = StackOf(t)
  BY <1>1 DEF Shares, StackOf
<1> QED
  BY <1>1, <1>2, <1>3, <1>4, <1>5 DEF Books

\* They do so after every step as well.
LEMMA BooksHoldNext == Books'
BY BooksHold, PTL

\* A user outside of X whose part of the state is unchanged keeps its share.
LEMMA OthersKeep ==
    ASSUME NEW X,
           <<"tables", 0>> \notin X => tables' = tables,
           <<"leaked", 0>> \notin X => leaked' = leaked,
           <<"job", 0>> \notin X => job'.got = job.got,
           \A r \in 1 .. MaxRegions : <<"region", r>> \notin X => RegionOf(r)' = RegionOf(r),
           \A t \in Tasks : <<"stack", t>> \notin X => StackOf(t)' = StackOf(t)
    PROVE  \A u \in Users : u \notin X => Shares'[u] = Shares[u]
BY EveryUser, BooksHold, BooksHoldNext DEF Books

\* FramesAccounted says that the shares divide what is handed out.
LEMMA AccountedDivides == FramesAccounted <=> Divides(Shares, held)
BY BooksHold DEF FramesAccounted, Divides, Books

\* The same after a step.
LEMMA AccountedDividesNext == FramesAccounted' <=> Divides(Shares', held')
BY BooksHoldNext DEF FramesAccounted, Divides, Books

\* A step that changes nobody's books.
LEMMA AllKeep ==
    ASSUME FramesAccounted, tables' = tables, leaked' = leaked, job'.got = job.got,
           \A r \in 1 .. MaxRegions : RegionOf(r)' = RegionOf(r),
           stacks' = stacks, held' = held
    PROVE  FramesAccounted'
<1>1. \A t \in Tasks : StackOf(t)' = StackOf(t)
  BY DEF StackOf
<1>2. \A u \in Users : Shares'[u] = Shares[u]
  BY <1>1, EveryUser, BooksHold, BooksHoldNext DEF Books
<1> QED
  BY <1>2 DEF FramesAccounted

PhysInv == UsersOK /\ FramesAccounted

\* A job's frames are handed out.
LEMMA JobHeld ==
    ASSUME FramesAccounted
    PROVE  Range(job.got) \subseteq held
BY BooksHold DEF FramesAccounted, Books

\* Nobody has anything at first.
LEMMA PhysInitInv == PhysInit => PhysInv
<1> SUFFICES ASSUME PhysInit
             PROVE  PhysInv
  OBVIOUS
<1>1. job.got = <<>> /\ regions = <<>> /\ stacks = <<>> /\ tables = {} /\ leaked = {}
      /\ held = {} /\ born = {}
  BY DEF PhysInit, Init, Idle
<1>2. JobOK
  BY <1>1 DEF PhysInit, Idle, JobOK, Kinds, IsInjective
<1>3. StacksOK
  BY <1>1 DEF StacksOK
<1>4. RegionsOK
  BY <1>1, PhysAssumption DEF RegionsOK
<1>5. \A u \in Users : Shares[u] = {}
  BY <1>1, EveryUser, BooksHold DEF Books, Range, RegionOf, StackOf
<1> QED
  BY <1>1, <1>2, <1>3, <1>4, <1>5 DEF PhysInv, UsersOK, FramesAccounted

\* A call starts without frames.
LEMMA BeginPreserves ==
    ASSUME PhysInv, NEW k \in {"stack", "region", "queue"}, NEW t \in Tasks \cup {0},
           NEW n \in Nat, Begin(k, t, n),
           UNCHANGED <<stacks, regions, tables, leaked>>,
           born \subseteq born', born' \subseteq Tasks,
           k = "stack" => t \in born' \ DOMAIN stacks /\ n > 0,
           k # "stack" => Len(regions) < MaxRegions
    PROVE  PhysInv'
<1>1. job.got = <<>> /\ job'.got = <<>> /\ held' = held
  BY DEF Begin, PhysInv, UsersOK, JobOK, vars
<1>2. JobOK'
  BY DEF Begin, JobOK, Kinds, IsInjective
<1>3. StacksOK' /\ RegionsOK'
  BY DEF PhysInv, UsersOK, StacksOK, RegionsOK
<1>4. FramesAccounted'
  BY <1>1, AllKeep DEF PhysInv, RegionOf
<1> QED
  BY <1>2, <1>3, <1>4 DEF PhysInv, UsersOK

\* A frame that is taken goes into the books of the job.
LEMMA TakeFramePreserves ==
    ASSUME IInv, PhysInv, TakeFrame
    PROVE  PhysInv'
<1>1. /\ Scan \in Frames /\ Scan \notin held
      /\ held' = held \cup {Scan} /\ job' = [job EXCEPT !.got = Append(@, Scan)]
      /\ UNCHANGED <<stacks, born, regions, tables, leaked>>
  <2>1. Scan \in Frames /\ Scan \notin bitmap
    BY ScanIsFree DEF TakeFrame, AllocateFrame
  <2> QED
    BY <2>1 DEF TakeFrame, AllocateFrame, IInv, BitmapAccountsForAll
<1>2. FrameList(job.got) /\ Scan \notin Range(job.got)
  BY <1>1, JobHeld DEF PhysInv, UsersOK, JobOK, FrameList
<1>3. /\ FrameList(Append(job.got, Scan)) /\ Append(job.got, Scan) # <<>>
      /\ Range(Append(job.got, Scan)) = Range(job.got) \cup {Scan}
  BY <1>1, <1>2, AppendFrame
<1>4. JobOK'
  <2>1. job.kind \in {"stack", "region", "queue"}
    BY DEF TakeFrame, Wants
  <2> QED
    BY <1>1, <1>3, <2>1 DEF PhysInv, UsersOK, JobOK, FrameList
<1>5. StacksOK' /\ RegionsOK'
  BY <1>1 DEF PhysInv, UsersOK, StacksOK, RegionsOK
<1>6. \A u \in Users : u \notin {<<"job", 0>>} => Shares'[u] = Shares[u]
  BY <1>1, OthersKeep, Zenon DEF RegionOf, StackOf
<1>7. job'.got = Append(job.got, Scan)
  BY <1>1 DEF PhysInv, UsersOK, JobOK
<1>8. Shares'[<<"job", 0>>] = Shares[<<"job", 0>>] \cup {Scan}
  BY <1>3, <1>7, BooksHold, BooksHoldNext DEF Books
<1>9. Divides(Shares, held)
  BY AccountedDivides DEF PhysInv
<1>10. Divides(Shares', held \cup {Scan})
  BY <1>1, <1>6, <1>8, <1>9, DividesGrow, BooksHold, BooksHoldNext DEF Books
<1> QED
  BY <1>1, <1>4, <1>5, <1>10, AccountedDividesNext DEF PhysInv, UsersOK

\* A frame for a page table goes into the books of the page tables.
LEMMA TakeTablePreserves ==
    ASSUME IInv, PhysInv, TakeTable
    PROVE  PhysInv'
<1>1. /\ Scan \notin held /\ held' = held \cup {Scan} /\ tables' = tables \cup {Scan}
      /\ UNCHANGED <<job, stacks, born, regions, leaked>>
  <2>1. Scan \in Frames /\ Scan \notin bitmap
    BY ScanIsFree DEF TakeTable, AllocateFrame
  <2> QED
    BY <2>1 DEF TakeTable, AllocateFrame, IInv, BitmapAccountsForAll
<1>2. UsersOK'
  BY <1>1 DEF PhysInv, UsersOK, JobOK, StacksOK, RegionsOK
<1>3. \A u \in Users : u \notin {<<"tables", 0>>} => Shares'[u] = Shares[u]
  BY <1>1, OthersKeep, Zenon DEF RegionOf, StackOf
<1>4. Shares'[<<"tables", 0>>] = Shares[<<"tables", 0>>] \cup {Scan}
  BY <1>1, BooksHold, BooksHoldNext DEF Books
<1>5. Divides(Shares, held)
  BY AccountedDivides DEF PhysInv
<1>6. Divides(Shares', held \cup {Scan})
  BY <1>1, <1>3, <1>4, <1>5, DividesGrow, BooksHold, BooksHoldNext DEF Books
<1> QED
  BY <1>1, <1>2, <1>6, AccountedDividesNext DEF PhysInv

\* A job that ends passes its frames on to somebody else's books.
LEMMA PassOn ==
    ASSUME PhysInv, held' = held, NEW o \in Users, NEW p \in Users, o # p,
           Shares'[o] = {}, Shares'[p] = Shares[p] \cup Shares[o],
           \A u \in Users : u \notin {o, p} => Shares'[u] = Shares[u]
    PROVE  FramesAccounted'
<1>1. Divides(Shares, held)
  BY AccountedDivides DEF PhysInv
<1>2. Divides(Shares', held)
  BY <1>1, DividesMove, BooksHold, BooksHoldNext DEF Books
<1> QED
  BY <1>2, AccountedDividesNext

\* The idle job has no frames.
LEMMA IdleJob == ASSUME job' = Idle
                 PROVE  JobOK' /\ job'.got = <<>> /\ Range(job'.got) = {}
BY DEF Idle, JobOK, Kinds, IsInjective, Range

\* A job that cannot go on halts with its frames or leaves them behind.
LEMMA OutOfFramesPreserves ==
    ASSUME IInv, PhysInv, OutOfFrames
    PROVE  PhysInv'
<1>1. held' = held /\ UNCHANGED <<stacks, born, regions, tables>>
  BY DEF OutOfFrames, AllocateNone
<1>2. StacksOK' /\ RegionsOK'
  BY <1>1 DEF PhysInv, UsersOK, StacksOK, RegionsOK
<1>3. CASE job.kind = "stack"
  <2>1. job' = [job EXCEPT !.kind = "halted"] /\ leaked' = leaked
    BY <1>3 DEF OutOfFrames
  <2>2. JobOK' /\ job'.got = job.got
    BY <1>1, <1>3, <2>1 DEF PhysInv, UsersOK, JobOK, Kinds
  <2>3. FramesAccounted'
    BY <1>1, <2>1, <2>2, AllKeep DEF PhysInv, RegionOf
  <2> QED
    BY <1>2, <2>2, <2>3 DEF PhysInv, UsersOK
<1>4. CASE job.kind # "stack"
  <2>1. job' = Idle /\ leaked' = leaked \cup Range(job.got)
    BY <1>4 DEF OutOfFrames
  <2>2. JobOK' /\ Shares'[<<"job", 0>>] = {}
    BY <2>1, IdleJob, BooksHoldNext DEF Books
  <2>3. Shares'[<<"leaked", 0>>] = Shares[<<"leaked", 0>>] \cup Shares[<<"job", 0>>]
    BY <2>1, BooksHold, BooksHoldNext DEF Books
  <2>4. \A u \in Users : u \notin {<<"job", 0>>, <<"leaked", 0>>} => Shares'[u] = Shares[u]
    BY <1>1, OthersKeep, Zenon DEF RegionOf, StackOf
  <2>5. FramesAccounted'
    BY <1>1, <2>2, <2>3, <2>4, PassOn, BooksHold DEF Books
  <2> QED
    BY <1>2, <2>2, <2>5 DEF PhysInv, UsersOK
<1> QED
  BY <1>3, <1>4

\* A stack that is complete becomes its task's.
LEMMA FinishStackPreserves ==
    ASSUME PhysInv, FinishStack
    PROVE  PhysInv'
<1>0. PICK t : t = job.task
  OBVIOUS
<1>1. /\ t \in born /\ t \in Tasks /\ t \notin DOMAIN stacks
      /\ FrameList(job.got) /\ job.got # <<>>
  BY <1>0 DEF FinishStack, PhysInv, UsersOK, JobOK, StacksOK, FrameList
<1>2. /\ DOMAIN stacks' = DOMAIN stacks \cup {t} /\ stacks'[t] = job.got
      /\ \A u \in DOMAIN stacks : stacks'[u] = stacks[u]
      /\ job' = Idle /\ born' = born /\ regions' = regions /\ tables' = tables
      /\ leaked' = leaked /\ held' = held
  BY <1>0, <1>1 DEF FinishStack, vars
<1>3. JobOK' /\ Shares'[<<"job", 0>>] = {}
  BY <1>2, IdleJob, BooksHoldNext DEF Books
<1>4. StacksOK' /\ RegionsOK'
  BY <1>1, <1>2 DEF PhysInv, UsersOK, StacksOK, RegionsOK
<1>5. StackOf(t) = {} /\ StackOf(t)' = Range(job.got)
  BY <1>1, <1>2 DEF StackOf
<1>6. Shares'[<<"stack", t>>] = Shares[<<"stack", t>>] \cup Shares[<<"job", 0>>]
  BY <1>1, <1>5, BooksHold, BooksHoldNext DEF Books
<1>7. \A u \in Tasks : u # t => StackOf(u)' = StackOf(u)
  BY <1>2 DEF StackOf
<1>8. \A u \in Users : u \notin {<<"job", 0>>, <<"stack", t>>} => Shares'[u] = Shares[u]
  <2>1. \A u \in Tasks : <<"stack", u>> \notin {<<"job", 0>>, <<"stack", t>>} => u # t
    OBVIOUS
  <2>2. \A r \in 1 .. MaxRegions : RegionOf(r)' = RegionOf(r)
    BY <1>2 DEF RegionOf
  <2> QED
    BY <1>2, <1>7, <2>1, <2>2, OthersKeep, Zenon
<1>9. FramesAccounted'
  BY <1>1, <1>2, <1>3, <1>6, <1>8, PassOn, BooksHold DEF Books
<1> QED
  BY <1>3, <1>4, <1>9 DEF PhysInv, UsersOK

\* A region or queue that is complete is recorded with its frames.
LEMMA FinishRegionPreserves ==
    ASSUME PhysInv, FinishRegion
    PROVE  PhysInv'
<1>1. PICK new : new = [owner |-> job.task, base |-> Head(job.got),
                        pages |-> job.pages, frames |-> Range(job.got), grants |-> {}]
  OBVIOUS
<1>2. PICK n : n = Len(regions) + 1
  OBVIOUS
<1>3. /\ regions \in Seq(Region) /\ Len(regions) \in Nat
      /\ DOMAIN regions = 1 .. Len(regions) /\ n \in 1 .. MaxRegions
  BY <1>2, PhysAssumption DEF FinishRegion, PhysInv, UsersOK, RegionsOK, JobOK
<1>4. FrameList(job.got) /\ job.got # <<>>
  BY DEF FinishRegion, Wants, PhysInv, UsersOK, JobOK, FrameList
<1>5. Head(job.got) \in Frames /\ Range(job.got) \subseteq Frames
  BY <1>4 DEF FrameList, Range
<1>6. new \in Region /\ new.frames = Range(job.got)
  BY <1>1, <1>5 DEF Region, PhysInv, UsersOK, JobOK
<1>7. /\ regions' = Append(regions, new) /\ job' = Idle
      /\ born' = born /\ stacks' = stacks /\ tables' = tables
      /\ leaked' = leaked /\ held' = held
  BY <1>1 DEF FinishRegion, vars
<1>8. /\ regions' \in Seq(Region) /\ Len(regions') = n
      /\ DOMAIN regions' = 1 .. n /\ regions'[n] = new
      /\ \A r \in 1 .. Len(regions) : regions'[r] = regions[r]
  BY <1>2, <1>3, <1>6, <1>7
<1>9. JobOK' /\ Shares'[<<"job", 0>>] = {}
  BY <1>7, IdleJob, BooksHoldNext DEF Books
<1>10. StacksOK' /\ RegionsOK'
  BY <1>3, <1>7, <1>8 DEF PhysInv, UsersOK, StacksOK, RegionsOK
<1>11. RegionOf(n) = {} /\ RegionOf(n)' = Range(job.got)
  BY <1>2, <1>3, <1>6, <1>8 DEF RegionOf
<1>12. Shares'[<<"region", n>>] = Shares[<<"region", n>>] \cup Shares[<<"job", 0>>]
  BY <1>3, <1>11, BooksHold, BooksHoldNext DEF Books
<1>13. \A r \in 1 .. MaxRegions : r # n => RegionOf(r)' = RegionOf(r)
  BY <1>2, <1>3, <1>8 DEF RegionOf
<1>14. \A u \in Users : u \notin {<<"job", 0>>, <<"region", n>>} => Shares'[u] = Shares[u]
  <2>1. \A r \in 1 .. MaxRegions : <<"region", r>> \notin {<<"job", 0>>, <<"region", n>>} => r # n
    OBVIOUS
  <2>2. \A t \in Tasks : StackOf(t)' = StackOf(t)
    BY <1>7 DEF StackOf
  <2> QED
    BY <1>7, <1>13, <2>1, <2>2, OthersKeep, Zenon
<1>15. FramesAccounted'
  <2>1. <<"job", 0>> \in Users /\ <<"region", n>> \in Users /\ <<"job", 0>> # <<"region", n>>
    BY <1>3, BooksHold DEF Books
  <2> QED
    BY <1>7, <1>9, <1>12, <1>14, <2>1, PassOn
<1> QED
  BY <1>9, <1>10, <1>15 DEF PhysInv, UsersOK

\* The frames of a task that died go to the job that frees them.
LEMMA CleanupPreserves ==
    ASSUME PhysInv, NEW t \in Tasks, CleanupDeadTask(t)
    PROVE  PhysInv'
<1>1. /\ t \in DOMAIN stacks /\ t \in born
      /\ FrameList(stacks[t]) /\ stacks[t] # <<>>
      /\ job.got = <<>>
  BY DEF CleanupDeadTask, PhysInv, UsersOK, StacksOK, JobOK
<1>2. /\ job' = [kind |-> "free", task |-> t, pages |-> 0, got |-> stacks[t]]
      /\ DOMAIN stacks' = DOMAIN stacks \ {t}
      /\ \A u \in DOMAIN stacks' : stacks'[u] = stacks[u]
      /\ born' = born /\ regions' = regions /\ tables' = tables
      /\ leaked' = leaked /\ held' = held
  BY DEF CleanupDeadTask, Restrict, vars
<1>3. JobOK' /\ job'.got = stacks[t]
  BY <1>1, <1>2 DEF JobOK, Kinds, FrameList
<1>4. StacksOK' /\ RegionsOK'
  BY <1>2 DEF PhysInv, UsersOK, StacksOK, RegionsOK
<1>5. StackOf(t) = Range(stacks[t]) /\ StackOf(t)' = {} /\ Range(job.got) = {}
  BY <1>1, <1>2 DEF StackOf, Range
<1>6. /\ Shares'[<<"stack", t>>] = {}
      /\ Shares'[<<"job", 0>>] = Shares[<<"job", 0>>] \cup Shares[<<"stack", t>>]
  BY <1>3, <1>5, BooksHold, BooksHoldNext DEF Books
<1>7. \A u \in Users : u \notin {<<"stack", t>>, <<"job", 0>>} => Shares'[u] = Shares[u]
  <2>1. \A u \in Tasks : <<"stack", u>> \notin {<<"stack", t>>, <<"job", 0>>} => u # t
    OBVIOUS
  <2>2. \A u \in Tasks : u # t => StackOf(u)' = StackOf(u)
    BY <1>2 DEF StackOf
  <2>3. \A r \in 1 .. MaxRegions : RegionOf(r)' = RegionOf(r)
    BY <1>2 DEF RegionOf
  <2> QED
    BY <1>2, <2>1, <2>2, <2>3, OthersKeep, Zenon
<1>8. FramesAccounted'
  <2>1. <<"job", 0>> \in Users /\ <<"stack", t>> \in Users /\ <<"stack", t>> # <<"job", 0>>
    BY BooksHold DEF Books
  <2> QED
    BY <1>2, <1>6, <1>7, <2>1, PassOn
<1> QED
  BY <1>3, <1>4, <1>8 DEF PhysInv, UsersOK

\* free_frame takes the frame it gives back out of the books.
LEMMA FreeNextPreserves ==
    ASSUME PhysInv, FreeNext
    PROVE  PhysInv'
<1>1. FrameList(job.got) /\ job.got # <<>> /\ job.kind = "free"
  BY DEF FreeNext, PhysInv, UsersOK, JobOK, FrameList
<1>2. PICK f : f = Head(job.got)
  OBVIOUS
<1>3. /\ held' = held \ {f} /\ UNCHANGED <<stacks, born, regions, tables, leaked>>
      /\ job' = IF Len(job.got) = 1 THEN Idle ELSE [job EXCEPT !.got = Tail(@)]
  BY <1>2 DEF FreeNext, FreeFrame
<1>4. /\ f \in Range(job.got) /\ FrameList(Tail(job.got))
      /\ Range(Tail(job.got)) = Range(job.got) \ {f}
      /\ Tail(job.got) = <<>> <=> Len(job.got) = 1
  BY <1>1, <1>2, TailFrame
<1>5. job'.got = Tail(job.got) /\ JobOK'
  <2>1. CASE Len(job.got) = 1
    BY <1>3, <1>4, <2>1, IdleJob
  <2>2. CASE Len(job.got) # 1
    <3>1. job' = [job EXCEPT !.got = Tail(job.got)]
      BY <1>3, <2>2
    <3> QED
      BY <1>1, <1>3, <1>4, <2>2, <3>1 DEF PhysInv, UsersOK, JobOK, FrameList
  <2> QED
    BY <2>1, <2>2
<1>6. StacksOK' /\ RegionsOK'
  BY <1>3 DEF PhysInv, UsersOK, StacksOK, RegionsOK
<1>7. /\ f \in Shares[<<"job", 0>>]
      /\ Shares'[<<"job", 0>>] = Shares[<<"job", 0>>] \ {f}
  BY <1>4, <1>5, BooksHold, BooksHoldNext DEF Books
<1>8. \A u \in Users : u \notin {<<"job", 0>>} => Shares'[u] = Shares[u]
  BY <1>3, OthersKeep, Zenon DEF RegionOf, StackOf
<1>9. Divides(Shares, held)
  BY AccountedDivides DEF PhysInv
<1>10. Divides(Shares', held \ {f})
  BY <1>7, <1>8, <1>9, DividesShrink, BooksHold, BooksHoldNext DEF Books
<1> QED
  BY <1>3, <1>5, <1>6, <1>10, AccountedDividesNext DEF PhysInv, UsersOK

\* A grant changes nobody's frames.
LEMMA GrantPreserves ==
    ASSUME PhysInv, NEW r \in DOMAIN regions, NEW t \in Tasks, NEW u \in Tasks,
           GrantAccess(r, t, u)
    PROVE  PhysInv'
<1>1. /\ regions' = [regions EXCEPT ![r].grants = @ \cup {u}]
      /\ job' = job /\ stacks' = stacks /\ born' = born /\ tables' = tables
      /\ leaked' = leaked /\ held' = held
  BY DEF GrantAccess, vars
<1>2. /\ regions \in Seq(Region) /\ Len(regions) \in Nat
      /\ DOMAIN regions = 1 .. Len(regions) /\ regions[r] \in Region
  BY DEF PhysInv, UsersOK, RegionsOK
<1>3. [regions[r] EXCEPT !.grants = @ \cup {u}] \in Region
  BY <1>2 DEF Region
<1>4. /\ regions' \in Seq(Region) /\ Len(regions') = Len(regions)
      /\ DOMAIN regions' = DOMAIN regions
  BY <1>1, <1>2, <1>3
<1>5. \A q \in DOMAIN regions : regions'[q].frames = regions[q].frames
  BY <1>1, <1>2 DEF Region
<1>6. \A q \in 1 .. MaxRegions : RegionOf(q)' = RegionOf(q)
  BY <1>4, <1>5 DEF RegionOf
<1>7. UsersOK'
  BY <1>1, <1>4 DEF PhysInv, UsersOK, JobOK, StacksOK, RegionsOK
<1>8. FramesAccounted'
  BY <1>1, <1>6, AllKeep DEF PhysInv
<1> QED
  BY <1>7, <1>8 DEF PhysInv

\* Every step of the users preserves the invariant.
LEMMA PhysPreserved == IInv /\ PhysInv /\ [PhysNext]_<<vars, users>> => PhysInv'
<1> SUFFICES ASSUME IInv, PhysInv, [PhysNext]_<<vars, users>>
             PROVE  PhysInv'
  OBVIOUS
<1>1. StacksOK /\ RegionsOK /\ JobOK
  BY DEF PhysInv, UsersOK
<1>2. ASSUME NEW t \in Tasks, NewTask(t)
      PROVE  PhysInv'
  <2>1. /\ Begin("stack", t, STACK_PAGES) /\ UNCHANGED <<stacks, regions, tables, leaked>>
        /\ born' = born \cup {t} /\ t \notin born
    BY <1>2 DEF NewTask
  <2>2. t \in born' \ DOMAIN stacks /\ born \subseteq born' /\ born' \subseteq Tasks
    BY <1>1, <2>1 DEF StacksOK
  <2> QED
    BY <2>1, <2>2, BeginPreserves, PhysAssumption
<1>3. ASSUME NEW t \in Tasks, NEW n \in RegionPages, CreateRegion(t, n)
      PROVE  PhysInv'
  <2>1. /\ Begin("region", t, n) /\ UNCHANGED <<stacks, regions, tables, leaked>>
        /\ born' = born /\ Len(regions) < MaxRegions
    BY <1>3 DEF CreateRegion
  <2> QED
    BY <1>1, <2>1, BeginPreserves, PhysAssumption DEF StacksOK
<1>4. ASSUME NEW n \in RegionPages, SetupVirtqueue(n)
      PROVE  PhysInv'
  <2>1. /\ Begin("queue", 0, n) /\ UNCHANGED <<stacks, regions, tables, leaked>>
        /\ born' = born /\ Len(regions) < MaxRegions
    BY <1>4 DEF SetupVirtqueue
  <2> QED
    BY <1>1, <2>1, BeginPreserves, PhysAssumption DEF StacksOK
<1>5. CASE UNCHANGED <<vars, users>>
  <2>1. /\ held' = held /\ tables' = tables /\ leaked' = leaked /\ job' = job
        /\ regions' = regions /\ stacks' = stacks /\ born' = born
    BY <1>5 DEF vars, users
  <2>2. UsersOK'
    BY <1>1, <2>1 DEF UsersOK, JobOK, StacksOK, RegionsOK
  <2>3. FramesAccounted'
    BY <2>1, AllKeep DEF PhysInv, RegionOf
  <2> QED
    BY <2>2, <2>3 DEF PhysInv
<1> QED
  BY <1>2, <1>3, <1>4, <1>5, TakeFramePreserves, TakeTablePreserves, OutOfFramesPreserves,
     FinishStackPreserves, FinishRegionPreserves, CleanupPreserves, FreeNextPreserves,
     GrantPreserves DEF PhysNext

\* Every reachable state satisfies the inductive invariant.
LEMMA PhysInvariant == PhysSpec => []PhysInv
BY AllocatorTheorem, PhysInitInv, PhysPreserved, PTL DEF PhysSpec

\* Every frame handed out is in the books of exactly one user.
THEOREM AccountedTheorem == PhysSpec => []FramesAccounted
<1>1. PhysInv => FramesAccounted
  BY DEF PhysInv
<1> QED
  BY PhysInvariant, <1>1, PTL

-----------------------------------------------------------------------------
(* Extents, until the first frame is given back.                           *)

\* As long as nothing was freed, everything handed out lies below next_free, a
\* region in the making has all that could be handed out from its first frame up
\* to next_free, at least as far as it has frames, and a region recorded has all
\* that could be handed out in its extent.
Ascending ==
    /\ \A f \in held : f < next_free
    /\ job.kind \in {"region", "queue"} /\ job.got # <<>> =>
          /\ Head(job.got) + Len(job.got) <= next_free
          /\ \A f \in Usable \ Reserved :
                Head(job.got) <= f /\ f < next_free => f \in Range(job.got)
    /\ \A r \in DOMAIN regions :
          Extent(regions[r]) \cap (Usable \ Reserved) \subseteq regions[r].frames

\* A memory capability covers what was recorded for some region.
CapsRecorded ==
    \A c \in memCaps : \E r \in DOMAIN regions :
        regions[r].base = c.base /\ regions[r].pages = c.pages

ExtentInv == (NothingFreed => Ascending) /\ CapsRecorded

\* A task that died stays dead: its id is not used again.
LEMMA FreedForGood ==
    ASSUME PhysInv, PhysNext, NothingFreed'
    PROVE  /\ NothingFreed
           /\ job.kind # "free"
           /\ \A t \in Tasks : ~CleanupDeadTask(t)
<1> USE DEF NothingFreed
<1>1. JobOK /\ StacksOK
  BY DEF PhysInv, UsersOK
<1>2. ASSUME NEW t \in Tasks, NewTask(t)
      PROVE  NothingFreed /\ job.kind # "free"
  BY <1>2 DEF NewTask, Begin
<1>3. ASSUME NEW t \in Tasks, CleanupDeadTask(t)
      PROVE  FALSE
  <2>1. t \in born' /\ t \notin DOMAIN stacks' /\ job'.kind = "free"
    BY <1>1, <1>3 DEF CleanupDeadTask, StacksOK, Restrict
  <2> QED
    BY <2>1
<1>4. ASSUME FreeNext
      PROVE  FALSE
  <2>1. job.kind = "free" /\ job.task \in born' \ DOMAIN stacks'
    BY <1>1, <1>4 DEF FreeNext, JobOK
  <2>2. job'.kind \in {"free", "idle"}
    BY <1>1, <1>4, <2>1 DEF FreeNext, Idle, JobOK
  <2> QED
    BY <2>1, <2>2
<1>5. ASSUME FinishStack
      PROVE  NothingFreed /\ job.kind # "free"
  BY <1>5 DEF FinishStack, Idle
<1>6. ASSUME FinishRegion
      PROVE  NothingFreed /\ job.kind # "free"
  BY <1>6 DEF FinishRegion, Idle
<1>7. ASSUME TakeFrame \/ TakeTable
      PROVE  NothingFreed /\ job.kind # "free"
  BY <1>1, <1>7 DEF TakeFrame, TakeTable, Wants, Maps, JobOK
<1>8. ASSUME OutOfFrames
      PROVE  NothingFreed /\ job.kind # "free"
  BY <1>1, <1>8 DEF OutOfFrames, Wants, Maps, JobOK, Idle
<1>9. ASSUME NEW t, NEW n, CreateRegion(t, n) \/ SetupVirtqueue(n)
      PROVE  NothingFreed /\ job.kind # "free"
  BY <1>9 DEF CreateRegion, SetupVirtqueue, Begin
<1>10. ASSUME NEW r, NEW t, NEW u, GrantAccess(r, t, u)
       PROVE  NothingFreed /\ job.kind # "free"
  BY <1>10 DEF GrantAccess
<1>11. PhysNext => (\/ \E t \in Tasks : NewTask(t)
                    \/ FreeNext \/ FinishStack \/ FinishRegion \/ TakeFrame \/ TakeTable
                    \/ OutOfFrames
                    \/ \E t, n : CreateRegion(t, n) \/ SetupVirtqueue(n)
                    \/ \E r, t, u : GrantAccess(r, t, u))
  BY <1>3 DEF PhysNext
<1> QED
  BY <1>2, <1>3, <1>4, <1>5, <1>6, <1>7, <1>8, <1>9, <1>10, <1>11

\* The frame taken next: at or above next_free, and what lies between them cannot
\* be handed out.
LEMMA ScanAscends ==
    ASSUME IInv, AllocateFrame, \A f \in held : f < next_free
    PROVE  /\ Scan \in Frames /\ next_free <= Scan /\ next_free' = Scan + 1
           /\ Scan \in Usable \ Reserved
           /\ \A f \in Usable \ Reserved : next_free <= f /\ f < Scan => FALSE
           /\ \A f \in held' : f < next_free'
<1>1. /\ Scan \in Frames /\ Scan \notin bitmap
      /\ \A i \in Frames : i < Scan => i \in bitmap
  BY ScanIsFree DEF AllocateFrame
<1>2. next_free \in Nat /\ Frames \subseteq Nat /\ Usable \subseteq Frames
  BY RegionsAssumption, TotalAssumption DEF IInv, TypeOK, Frames
<1>3. next_free <= Scan
  BY <1>1, <1>2, TotalAssumption DEF IInv, TypeOK, NothingFreeBelowHint, BelowHint, Frames
<1>4. next_free' = Scan + 1 /\ held' = held \cup {Scan}
  BY DEF AllocateFrame
<1>5. Scan \in Usable \ Reserved
  BY <1>1 DEF IInv, BitmapAccountsForAll
<1>6. ASSUME NEW f \in Usable \ Reserved, next_free <= f, f < Scan
      PROVE  FALSE
  <2>1. f \in bitmap /\ f \notin held /\ f \in Frames
    BY <1>1, <1>2, <1>6
  <2> QED
    BY <1>6, <2>1 DEF IInv, BitmapAccountsForAll, Padding
<1>7. \A f \in held' : f < next_free'
  BY <1>1, <1>2, <1>3, <1>4 DEF IInv, TypeOK
<1> QED
  BY <1>1, <1>3, <1>4, <1>5, <1>6, <1>7

\* The frames of a job go on ascending.
LEMMA TakeFrameAscends ==
    ASSUME IInv, PhysInv, Ascending, TakeFrame
    PROVE  Ascending'
<1>1. AllocateFrame /\ job' = [job EXCEPT !.got = Append(@, Scan)] /\ regions' = regions
  BY DEF TakeFrame
<1>2. /\ Scan \in Frames /\ next_free <= Scan /\ next_free' = Scan + 1
      /\ \A f \in Usable \ Reserved : next_free <= f /\ f < Scan => FALSE
      /\ \A f \in held' : f < next_free'
  BY <1>1, ScanAscends DEF Ascending
<1>3. FrameList(job.got) /\ Scan \notin Range(job.got)
  <2>1. Range(job.got) \subseteq held
    BY JobHeld DEF PhysInv
  <2>2. \A f \in held : f < next_free /\ f \in Nat
    BY TotalAssumption DEF Ascending, IInv, TypeOK, Frames
  <2>3. next_free \in Nat /\ Scan \in Nat
    BY <1>2, TotalAssumption DEF IInv, TypeOK, Frames
  <2>4. Scan \notin held
    BY <1>2, <2>2, <2>3
  <2> QED
    BY <2>1, <2>4 DEF PhysInv, UsersOK, JobOK, FrameList
<1>4. /\ job'.got = Append(job.got, Scan) /\ job'.kind = job.kind
      /\ Range(job'.got) = Range(job.got) \cup {Scan}
      /\ Len(job'.got) = Len(job.got) + 1
      /\ Head(job'.got) = IF job.got = <<>> THEN Scan ELSE Head(job.got)
  <2>1. job'.got = Append(job.got, Scan) /\ job'.kind = job.kind
    BY <1>1 DEF PhysInv, UsersOK, JobOK
  <2> QED
    BY <1>2, <1>3, <2>1, AppendFrame
<1>5. /\ next_free \in Nat /\ Scan \in Nat /\ Usable \subseteq Nat
      /\ Len(job.got) \in Nat /\ (job.got = <<>> => Len(job.got) = 0)
      /\ job.got # <<>> => Head(job.got) \in Nat
  <2>1. job.got \in Seq(Frames) /\ Frames \subseteq Nat
    BY <1>3, TotalAssumption DEF FrameList, Frames
  <2>2. job.got # <<>> => Head(job.got) \in Nat
    <3>1. job.got # <<>> => Head(job.got) \in Frames
      BY <1>3 DEF FrameList
    <3> QED
      BY <2>1, <3>1
  <2>3. Len(job.got) \in Nat /\ (job.got = <<>> => Len(job.got) = 0)
    BY <2>1
  <2> QED
    BY <1>2, <2>1, <2>2, <2>3, RegionsAssumption, TotalAssumption DEF IInv, TypeOK, Frames
<1>6. ASSUME job'.kind \in {"region", "queue"}
      PROVE  /\ Head(job'.got) + Len(job'.got) <= next_free'
             /\ \A f \in Usable \ Reserved :
                   Head(job'.got) <= f /\ f < next_free' => f \in Range(job'.got)
  <2>1. CASE job.got = <<>>
    BY <1>2, <1>4, <1>5, <2>1
  <2>2. CASE job.got # <<>>
    <3>1. /\ Head(job.got) + Len(job.got) <= next_free
          /\ \A f \in Usable \ Reserved :
                Head(job.got) <= f /\ f < next_free => f \in Range(job.got)
      BY <1>4, <1>6, <2>2 DEF Ascending
    <3>2. Head(job'.got) + Len(job'.got) <= next_free'
      BY <1>2, <1>4, <1>5, <2>2, <3>1
    <3>3. ASSUME NEW f \in Usable \ Reserved, Head(job'.got) <= f, f < next_free'
          PROVE  f \in Range(job'.got)
      <4>1. f < next_free \/ f = Scan
        BY <1>2, <1>5, <3>3
      <4> QED
        BY <1>4, <2>2, <3>1, <3>3, <4>1
    <3> QED
      BY <3>2, <3>3
  <2> QED
    BY <2>1, <2>2
<1> QED
  BY <1>1, <1>2, <1>6 DEF Ascending

\* What is recorded of a region covers no more than the job has.
LEMMA FinishRegionAscends ==
    ASSUME IInv, PhysInv, Ascending, FinishRegion
    PROVE  Ascending'
<1>1. PICK new : new = [owner |-> job.task, base |-> Head(job.got),
                        pages |-> job.pages, frames |-> Range(job.got), grants |-> {}]
  OBVIOUS
<1>2. /\ regions' = Append(regions, new) /\ job' = Idle
      /\ held' = held /\ next_free' = next_free
      /\ job.kind \in {"region", "queue"} /\ job.got # <<>> /\ ~(Len(job.got) < job.pages)
  BY <1>1 DEF FinishRegion, Wants, vars
<1>3. /\ Len(job.got) \in Nat /\ job.pages \in Nat /\ Head(job.got) \in Nat
      /\ next_free \in Nat /\ Usable \subseteq Nat
  <2>1. job.got \in Seq(Frames) /\ job.pages \in Nat /\ Frames \subseteq Nat
    BY TotalAssumption DEF PhysInv, UsersOK, JobOK, Frames
  <2>2. Len(job.got) \in Nat /\ Head(job.got) \in Frames
    BY <1>2 DEF PhysInv, UsersOK, JobOK
  <2> QED
    BY <2>1, <2>2, RegionsAssumption, TotalAssumption DEF IInv, TypeOK, Frames
<1>4. Extent(new) \cap (Usable \ Reserved) \subseteq new.frames
  <2> SUFFICES ASSUME NEW f \in Extent(new), f \in Usable \ Reserved
               PROVE  f \in Range(job.got)
    BY <1>1
  <2>1. Head(job.got) <= f /\ f < Head(job.got) + job.pages /\ f \in Nat
    BY <1>1, <1>3 DEF Extent
  <2>2. Head(job.got) + Len(job.got) <= next_free
    BY <1>2 DEF Ascending
  <2>3. f < next_free
    BY <1>2, <1>3, <2>1, <2>2
  <2> QED
    BY <1>2, <2>1, <2>3 DEF Ascending
<1>5. /\ regions \in Seq(Region) /\ Len(regions) \in Nat
      /\ DOMAIN regions = 1 .. Len(regions)
  BY DEF PhysInv, UsersOK, RegionsOK
<1>6. \A r \in DOMAIN regions' :
         \/ r \in DOMAIN regions /\ regions'[r] = regions[r]
         \/ regions'[r] = new
  BY <1>2, <1>5
<1>7. job'.kind = "idle"
  BY <1>2 DEF Idle
<1>8. \A r \in DOMAIN regions' :
         Extent(regions'[r]) \cap (Usable \ Reserved) \subseteq regions'[r].frames
  BY <1>4, <1>6 DEF Ascending
<1> QED
  BY <1>2, <1>7, <1>8 DEF Ascending

\* Other steps of which the extents take no notice.
LEMMA QuietAscends ==
    ASSUME Ascending, UNCHANGED <<held, next_free, regions>>,
           job'.kind \in {"region", "queue"} => job'.got = <<>> \/ job' = job
    PROVE  Ascending'
BY DEF Ascending

\* Every step up to the first that frees keeps the frames ascending.
LEMMA AscendingPreserved ==
    ASSUME IInv, PhysInv, Ascending, PhysNext, NothingFreed'
    PROVE  Ascending'
<1>1. ASSUME NEW t, NewTask(t)
      PROVE  Ascending'
  BY <1>1, QuietAscends DEF NewTask, Begin, vars
<1>2. ASSUME NEW t, NEW n, CreateRegion(t, n) \/ SetupVirtqueue(n)
      PROVE  Ascending'
  BY <1>2, QuietAscends DEF CreateRegion, SetupVirtqueue, Begin, vars
<1>3. ASSUME TakeTable
      PROVE  Ascending'
  <2>1. AllocateFrame /\ job.kind = "stack" /\ job' = job /\ regions' = regions
    BY <1>3 DEF TakeTable, Maps
  <2>2. \A f \in held' : f < next_free'
    BY <2>1, ScanAscends DEF Ascending
  <2> QED
    BY <2>1, <2>2 DEF Ascending
<1>4. ASSUME OutOfFrames
      PROVE  Ascending'
  <2>1. job'.kind \in {"halted", "idle"}
    BY <1>4 DEF OutOfFrames, Idle, PhysInv, UsersOK, JobOK
  <2> QED
    BY <1>4, <2>1, QuietAscends DEF OutOfFrames, AllocateNone
<1>5. ASSUME FinishStack
      PROVE  Ascending'
  BY <1>5, QuietAscends DEF FinishStack, Idle, vars
<1>6. ASSUME NEW r \in DOMAIN regions, NEW t, NEW u, GrantAccess(r, t, u)
      PROVE  Ascending'
  <2>1. /\ regions' = [regions EXCEPT ![r].grants = @ \cup {u}]
        /\ job' = job /\ held' = held /\ next_free' = next_free
    BY <1>6 DEF GrantAccess, vars
  <2>2. \A q \in DOMAIN regions : regions[q] \in Region
    BY DEF PhysInv, UsersOK, RegionsOK
  <2>3. /\ DOMAIN regions' = DOMAIN regions
        /\ \A q \in DOMAIN regions : /\ regions'[q].frames = regions[q].frames
                                     /\ regions'[q].base = regions[q].base
                                     /\ regions'[q].pages = regions[q].pages
    BY <2>1, <2>2 DEF Region
  <2> QED
    BY <2>1, <2>3 DEF Ascending, Extent
<1>7. ~FreeNext /\ \A t \in Tasks : ~CleanupDeadTask(t)
  BY FreedForGood DEF FreeNext
<1> QED
  BY <1>1, <1>2, <1>3, <1>4, <1>5, <1>6, <1>7, TakeFrameAscends, FinishRegionAscends
     DEF PhysNext

\* Capabilities are made for recorded regions, and records are not withdrawn.
LEMMA CapsRecordedPreserved ==
    ASSUME PhysInv, CapsRecorded, PhysNext
    PROVE  CapsRecorded'
<1>1. /\ regions \in Seq(Region) /\ Len(regions) \in Nat
      /\ DOMAIN regions = 1 .. Len(regions) /\ \A q \in DOMAIN regions : regions[q] \in Region
  BY DEF PhysInv, UsersOK, RegionsOK
<1>2. CASE UNCHANGED <<regions, memCaps>>
  BY <1>2 DEF CapsRecorded
<1>3. ASSUME FinishRegion
      PROVE  CapsRecorded'
  <2>1. PICK new : new = [owner |-> job.task, base |-> Head(job.got),
                          pages |-> job.pages, frames |-> Range(job.got), grants |-> {}]
    OBVIOUS
  <2>2. /\ regions' = Append(regions, new)
        /\ memCaps' \subseteq memCaps \cup {MemCap(job.task, Head(job.got), job.pages, TRUE)}
    BY <1>3, <2>1 DEF FinishRegion
  <2>3. /\ \A q \in DOMAIN regions : q \in DOMAIN regions' /\ regions'[q] = regions[q]
        /\ Len(regions) + 1 \in DOMAIN regions' /\ regions'[Len(regions) + 1] = new
    <3>1. regions \in Seq(Region) /\ Len(regions) \in Nat /\ DOMAIN regions = 1 .. Len(regions)
      BY <1>1
    <3> QED
      BY <2>2, <3>1
  <2>4. ASSUME NEW c \in memCaps'
        PROVE  \E r \in DOMAIN regions' : regions'[r].base = c.base /\ regions'[r].pages = c.pages
    <3>1. CASE c \in memCaps
      BY <2>3, <3>1 DEF CapsRecorded
    <3>2. CASE c = MemCap(job.task, Head(job.got), job.pages, TRUE)
      BY <2>1, <2>3, <3>2 DEF MemCap
    <3> QED
      BY <2>2, <3>1, <3>2
  <2> QED
    BY <2>4 DEF CapsRecorded
<1>4. ASSUME NEW r \in DOMAIN regions, NEW t, NEW u, GrantAccess(r, t, u)
      PROVE  CapsRecorded'
  <2>1. /\ regions' = [regions EXCEPT ![r].grants = @ \cup {u}]
        /\ memCaps' = memCaps \cup {MemCap(u, regions[r].base, regions[r].pages, FALSE)}
    BY <1>4 DEF GrantAccess
  <2>2. /\ DOMAIN regions' = DOMAIN regions
        /\ \A q \in DOMAIN regions : /\ regions'[q].base = regions[q].base
                                     /\ regions'[q].pages = regions[q].pages
    BY <1>1, <2>1 DEF Region
  <2>3. ASSUME NEW c \in memCaps'
        PROVE  \E q \in DOMAIN regions' : regions'[q].base = c.base /\ regions'[q].pages = c.pages
    BY <2>1, <2>2 DEF CapsRecorded, MemCap
  <2> QED
    BY <2>3 DEF CapsRecorded
<1> QED
  BY <1>2, <1>3, <1>4 DEF PhysNext, NewTask, CleanupDeadTask, CreateRegion, SetupVirtqueue,
     TakeFrame, TakeTable, OutOfFrames, FinishStack, FreeNext

\* Until a stack is freed, whoever uses a region through its extent, or holds a
\* capability for it, reaches nobody else's frames.
THEOREM ExtentTheorem == PhysSpec => []ExtentsOwnUntilFirstFree
<1>1. PhysInit => ExtentInv
  BY DEF PhysInit, Init, Idle, ExtentInv, Ascending, CapsRecorded
<1>2. IInv /\ PhysInv /\ ExtentInv /\ [PhysNext]_<<vars, users>> => ExtentInv'
  <2>1. ASSUME IInv, PhysInv, ExtentInv, PhysNext
        PROVE  ExtentInv'
    BY <2>1, FreedForGood, AscendingPreserved, CapsRecordedPreserved DEF ExtentInv
  <2>2. ASSUME ExtentInv, UNCHANGED <<vars, users>>
        PROVE  ExtentInv'
    BY <2>2 DEF ExtentInv, vars, users, NothingFreed, Ascending, CapsRecorded
  <2> QED
    BY <2>1, <2>2
<1>3. PhysInv /\ ExtentInv => ExtentsOwnUntilFirstFree
  <2> SUFFICES ASSUME PhysInv, ExtentInv, NothingFreed,
                      NEW r \in Range(regions) \cup memCaps
               PROVE  \E q \in Range(regions) :
                         q.base = r.base /\ Extent(r) \cap (Usable \ Reserved) \subseteq q.frames
    BY DEF ExtentsOwnUntilFirstFree
  <2>1. PICK i \in DOMAIN regions : regions[i].base = r.base /\ regions[i].pages = r.pages
    BY DEF ExtentInv, CapsRecorded, Range
  <2>2. Extent(regions[i]) \cap (Usable \ Reserved) \subseteq regions[i].frames
    BY DEF ExtentInv, Ascending
  <2> QED
    BY <2>1, <2>2 DEF Extent, Range
<1> QED
  BY AllocatorTheorem, PhysInvariant, <1>1, <1>2, <1>3, PTL DEF PhysSpec
=============================================================================
