---------------------------- MODULE CompoundHeap ----------------------------
(***************************************************************************)
(* Compound heaps (sascompoundheap.cpp, sphcompoundpcqheap.h): blocks of   *)
(* pages, each page a simple heap or a queue; an expanding one takes more  *)
(* blocks from the region when the last is loaded.                         *)
(*                                                                         *)
(* A block is a part of its heap and has a lock and a free list of its     *)
(* own; the first part keeps the list of all.  A call takes its locks one  *)
(* after the other, each in a step of its own, and works in the step that  *)
(* takes the last of them; the locks go back with it.                      *)
(***************************************************************************)
EXTENDS SimpleHeaps

CONSTANTS
  LoadFactor,   (* DEFAULT_LOAD_FACTOR, a percentage                       *)
  ListMax,      (* how many parts the list in the header has room for: 254 *)
  SpaceMax      (* ... and the list in a space of its own                  *)

ASSUME CompoundAssumption ==
  /\ LoadFactor \in 1..100
  /\ ListMax \in Nat /\ SpaceMax \in Nat
  /\ 1 <= ListMax /\ ListMax < SpaceMax

VARIABLES
  pc,           (* the lock a thread waits for next, by its place          *)
  call          (* the call: its heap, where it started, what is asked for *)

cvars == <<svars, pc, call>>

NoCall == [heap |-> NoPage, near |-> NoPage, kind |-> "heap", page |-> NoPage,
           last |-> NoPage, i |-> 0]

AtRest(t) == pc[t] = "idle"
Goto(t, place) == pc' = [pc EXCEPT ![t] = place]
Finish(t) ==
  /\ Goto(t, "idle")
  /\ call' = [call EXCEPT ![t] = NoCall]

CInit ==
  /\ SInit
  /\ pc = [t \in Thread |-> "idle"]
  /\ call = [t \in Thread |-> NoCall]

-----------------------------------------------------------------------------
(* initSOMSASBlock: the first page is for the header, the free list has    *)
(* the rest.  The field expandSpace keeps what it was.                     *)
CompoundBlock(p, n) ==
  [hdr[p] EXCEPT !.kind = "compound", !.size = n, !.base = p,
     !.list = <<Piece(Address(p) + PageSize, (n - 1) * PageSize)>>]

(* SASCompoundHeapInit, of an expanding heap: its list is made in the page *)
(* of the header; SASCompoundHeapExpandInit.                               *)
FirstPart(p, n) == [CompoundBlock(p, n) EXCEPT !.expand = <<p>>, !.max = ListMax]
FurtherPart(p, n, first) == [CompoundBlock(p, n) EXCEPT !.expand = <<>>, !.base = first]

IsExpanding(p) == hdr[p].expand # <<>>
Avail(h, p) == h[p].list # <<>>

Parts(h, p) == IF h[p].expand = <<>> THEN <<p>> ELSE h[p].expand
LastPart(p) == hdr[p].expand[Len(hdr[p].expand)]

Contains(p, q) == q > p /\ q < p + hdr[p].size

(* SASCompoundHeapPercentUsed, of the lengths in bytes.                    *)
PercentUsed(p) ==
  IF ~ Avail(hdr, p) THEN 100
  ELSE LET all == hdr[p].size * PageSize
       IN  ((all - SpaceTotal(hdr[p].list)) * 100) \div all

Loaded(p) == PercentUsed(p) >= LoadFactor

(* SASCompoundHeapAllocInternal, SPHCompoundPCQAllocInternal: a page of    *)
(* part p in the memory h, made a simple heap or a queue.                  *)
PageHeader(kind, q, p) ==
  [(IF kind = "heap" THEN SimpleHeap(q, 1) ELSE Header("queue", 1, <<>>)) EXCEPT !.base = p]

PageGiven(h, p) == PageOf(h[p].list[FirstFit(h[p].list, PageSize)].at)

AllocInternal(h, p, kind) ==
  IF FirstFit(h[p].list, PageSize) = 0
    THEN hdr' = h /\ live' = live
    ELSE /\ hdr' = [h EXCEPT ![p].list = AllocNode(@, FirstFit(@, PageSize), PageSize),
                             ![PageGiven(h, p)] = PageHeader(kind, PageGiven(h, p), p)]
         /\ live' = live \cup {PageGiven(h, p)}

(* SASCompoundHeapFreeInternal: the page is cleared and its address goes   *)
(* back.  The program gives up what it has in it.                          *)
FreeInternal(p, q) ==
  hdr' = [hdr EXCEPT ![q] = NoHeader, ![p].list = DeallocSpace(@, Address(q), PageSize)]

(* A program lets go of a page when it calls to free it.                   *)
GiveUp(q) ==
  /\ live' = live \ {q}
  /\ owned' = owned \ PiecesIn(q)

Pages == {q \in live : hdr[q].kind \in {"heap", "queue"} /\ blocks[q] = 0}
Heaps == {p \in live : hdr[p].kind = "compound"}

Busy(p) == \E t \in Thread : call[t].heap = p

-----------------------------------------------------------------------------
(* SASCompoundHeapCreate, SASCompoundFixedHeapCreate.                      *)
CreateCompound(t, expanding, n) ==
  /\ Call(t, IF expanding THEN "expanding" ELSE "fixed")
  /\ AtRest(t)
  /\ n \in use.pages /\ n > 1
  /\ LET p == LowestBlock(n)
     IN  IF p = NoPage
           THEN UNCHANGED <<hdr, blocks, live>>
           ELSE /\ hdr' = [hdr EXCEPT ![p] = IF expanding THEN FirstPart(p, n)
                                                         ELSE CompoundBlock(p, n)]
                /\ blocks' = [blocks EXCEPT ![p] = n]
                /\ live' = live \cup {p}
  /\ UNCHANGED <<lock, owned, pc, call>>

(* SASCompoundHeapDestroy: the other parts, the space of the list, the     *)
(* first part.  No call is under way and the pages are nobody's any more.  *)
DestroyCompound(t, p) ==
  /\ Call(t, "destroy")
  /\ AtRest(t)
  /\ p \in Heaps /\ ~ Busy(p)
  /\ CanLock(p, t)
  /\ LET parts == {Parts(hdr, p)[i] : i \in DOMAIN Parts(hdr, p)}
         pages == {q \in Pages : hdr[q].base \in parts}
         space == {s \in {hdr[p].space} \ {NoPage} : IsExpanding(p) /\ hdr[s].kind = "space"}
     IN  /\ blocks' = [q \in Page |-> IF q \in parts \cup space THEN 0 ELSE blocks[q]]
         /\ hdr' = [q \in Page |-> IF q \in parts \cup space THEN NoHeader ELSE hdr[q]]
         /\ live' = live \ ({p} \cup pages)
         /\ owned' = owned \ UNION {PiecesIn(q) : q \in pages}
  /\ UNCHANGED <<lock, pc, call>>

(* SASCompoundHeapExpandCreate.  A full list moves to a space of its own,  *)
(* once; the block taken for the new part goes back, and one is taken      *)
(* again.  This is the whole of it, for a program that is alone.           *)
ListIsFull(p) == Len(hdr[p].expand) >= hdr[p].max

SpaceFor(p) ==
  LET n == hdr[p].size
      second == BlocksFree(n) \ {LowestBlock(n)}
  IN  IF second = {} THEN NoPage ELSE CHOOSE q \in second : \A r \in second : q <= r

WithPart(h, p, q) ==
  [h EXCEPT ![q] = FurtherPart(q, hdr[p].size, p), ![p].expand = Append(@, q)]

WithSpace(h, p, q) ==
  [h EXCEPT ![q] = SimpleSpace(hdr[p].size), ![p].space = q, ![p].max = SpaceMax]

Expand(t, p, kind) ==
  LET n == hdr[p].size
      q == LowestBlock(n)
      s == SpaceFor(p)
  IN  \/ /\ q # NoPage /\ ~ ListIsFull(p)
         /\ AllocInternal(WithPart(hdr, p, q), q, kind)
         /\ blocks' = [blocks EXCEPT ![q] = n]
      \/ /\ q # NoPage /\ ListIsFull(p) /\ hdr[p].space = NoPage /\ s # NoPage
         /\ AllocInternal(WithPart(WithSpace(hdr, p, s), p, q), q, kind)
         /\ blocks' = [blocks EXCEPT ![q] = n, ![s] = n]
      \/ /\ \/ q = NoPage
            \/ ListIsFull(p) /\ (hdr[p].space # NoPage \/ s = NoPage)
         /\ UNCHANGED <<hdr, blocks, live>>

-----------------------------------------------------------------------------
(* SASCompoundHeapAlloc, SPHCompoundPCQAlloc.                              *)
Alloc(t, p, kind) ==
  /\ Call(t, IF kind = "heap" THEN "alloc" ELSE "queue")
  /\ AtRest(t) /\ p \in Heaps
  /\ Goto(t, "first")
  /\ call' = [call EXCEPT ![t] = [NoCall EXCEPT !.heap = p, !.kind = kind]]
  /\ UNCHANGED <<hdr, blocks, lock, live, owned>>

(* The locks a call has at its end: of the first and the last part, of     *)
(* those looked through, of the part a near allocate began with.           *)
PartsAfterFirst_Fault(p, n) == {}
PartsAfterFirst(p, n) == {hdr[p].expand[j] : j \in 2..n}

ReleaseAll(lk, ps) ==
  [q \in Page |-> IF q \in ps THEN Released(lk, q)[q] ELSE lk[q]]

(* A near allocate that began with the first part has its lock twice.      *)
ReleaseCall(t, lk, ps) ==
  LET near == call[t].near
      once == ReleaseAll(lk, ps \ {NoPage})
  IN  IF near = NoPage THEN once ELSE Released(once, near)

Done(t, lk, ps) ==
  /\ lock' = ReleaseCall(t, lk, ps)
  /\ Finish(t)

LockFirst(t) ==
  LET p == call[t].heap
      lk == Locked(lock, p, t)
  IN  /\ pc[t] = "first"
      /\ CanLock(p, t)
      /\ \/ /\ ~ IsExpanding(p)
            /\ AllocInternal(hdr, p, call[t].kind)
            /\ Done(t, lk, {p})
         \/ /\ IsExpanding(p)
            /\ lock' = lk
            /\ IF LastPart(p) = p
                 THEN Goto(t, "pick") /\ call' = [call EXCEPT ![t].last = p]
                 ELSE Goto(t, "last") /\ call' = [call EXCEPT ![t].last = LastPart(p)]
            /\ UNCHANGED <<hdr, live>>
      /\ UNCHANGED <<blocks, owned, use, begun>>

LockLast(t) ==
  LET p == call[t].last
  IN  /\ pc[t] = "last"
      /\ CanLock(p, t)
      /\ lock' = Locked(lock, p, t)
      /\ Goto(t, "pick")
      /\ UNCHANGED <<hdr, blocks, live, owned, use, begun, call>>

(* The last part, unless it is loaded.                                     *)
Pick(t) ==
  LET p == call[t].heap
      last == call[t].last
  IN  /\ pc[t] = "pick"
      /\ \/ /\ ~ Loaded(last)
            /\ AllocInternal(hdr, last, call[t].kind)
            /\ Done(t, lock, {p, last})
         \/ /\ Loaded(last)
            /\ Goto(t, "scan")
            /\ call' = [call EXCEPT ![t].i = 1]
            /\ UNCHANGED <<hdr, live, lock>>
      /\ UNCHANGED <<blocks, owned, use, begun>>

(* The others, from the first, whose lock is held; or a new part.          *)
Others_Fault(n) == n - 2
Others(n) == n - 1

Scan(t) ==
  LET p == call[t].heap
      i == call[t].i
      n == Len(hdr[p].expand)
      q == hdr[p].expand[i]
      lk == IF i > 1 THEN Locked(lock, q, t) ELSE lock
  IN  /\ pc[t] = "scan"
      /\ \/ /\ i <= Others(n)
            /\ i > 1 => CanLock(q, t)
            /\ \/ /\ ~ Loaded(q)
                  /\ AllocInternal(hdr, q, call[t].kind)
                  /\ Done(t, lk, {p, call[t].last} \cup PartsAfterFirst(p, i))
               \/ /\ Loaded(q)
                  /\ lock' = lk
                  /\ call' = [call EXCEPT ![t].i = i + 1]
                  /\ UNCHANGED <<hdr, live, pc>>
            /\ UNCHANGED blocks
         \/ /\ i > Others(n)
            /\ Goto(t, "grow")
            /\ UNCHANGED <<hdr, blocks, lock, live, call>>
      /\ UNCHANGED <<owned, use, begun>>

(* SASCompoundHeapExpandCreate, of a call that has the locks of all parts: *)
(* each call of the region is a step, and others call it in between.       *)
(* SASBlockAlloc; again, after the list has moved.                         *)
ExpandDone(t) ==
  LET p == call[t].heap
  IN  Done(t, lock, {p, call[t].last} \cup PartsAfterFirst(p, Others(Len(hdr[p].expand))))

TakeBlock(t) ==
  LET p == call[t].heap
      n == hdr[p].size
      q == LowestBlock(n)
  IN  /\ pc[t] = "grow"
      /\ \/ /\ q = NoPage
            /\ ExpandDone(t)
            /\ UNCHANGED <<hdr, blocks, live>>
         \/ /\ q # NoPage /\ ~ ListIsFull(p)
            /\ AllocInternal(WithPart(hdr, p, q), q, call[t].kind)
            /\ blocks' = [blocks EXCEPT ![q] = n]
            /\ ExpandDone(t)
         \/ /\ q # NoPage /\ ListIsFull(p)
            /\ blocks' = [blocks EXCEPT ![q] = n]
            /\ call' = [call EXCEPT ![t].page = q]
            /\ Goto(t, IF hdr[p].space = NoPage THEN "space" ELSE "back")
            /\ UNCHANGED <<hdr, lock, live>>
      /\ UNCHANGED <<owned, use, begun>>

(* SASSimpleSpaceCreate.                                                   *)
MoveList(t) ==
  LET p == call[t].heap
      n == hdr[p].size
      s == LowestBlock(n)
  IN  /\ pc[t] = "space"
      /\ IF s = NoPage
           THEN UNCHANGED <<hdr, blocks>>
           ELSE /\ hdr' = WithSpace(hdr, p, s)
                /\ blocks' = [blocks EXCEPT ![s] = n]
      /\ Goto(t, "back")
      /\ UNCHANGED <<lock, live, owned, use, begun, call>>

(* SASBlockDealloc.                                                        *)
GiveBlock(t) ==
  LET q == call[t].page
  IN  /\ pc[t] = "back"
      /\ hdr' = [hdr EXCEPT ![q] = NoHeader]
      /\ blocks' = [blocks EXCEPT ![q] = 0]
      /\ IF ListIsFull(call[t].heap)
           THEN ExpandDone(t)
           ELSE /\ Goto(t, "grow")
                /\ call' = [call EXCEPT ![t].page = NoPage]
                /\ lock' = lock
      /\ UNCHANGED <<live, owned, use, begun>>

-----------------------------------------------------------------------------
(* SASCompoundHeapNearAlloc, SPHCompoundPCQNearAlloc: from the part of the *)
(* page given, whatever its load, or else as SASCompoundHeapAlloc does     *)
(* with the lock of that part held: so a queue asked for may be a heap.    *)
BaseOf(q) == IF hdr[q].base \notin {q, NoPage} THEN hdr[q].base ELSE q

FirstOf(p) == IF IsExpanding(p) THEN p ELSE BaseOf(p)

NearAllocPage(t, q, kind) ==
  /\ Call(t, "nearalloc")
  /\ kind = "queue" => "queue" \in use.ops
  /\ AtRest(t) /\ q \in Pages \cup Heaps
  /\ LET p == BaseOf(FindHeader(Address(q)))
     IN  call' = [call EXCEPT ![t] = [NoCall EXCEPT !.heap = FirstOf(p), !.near = p, !.kind = kind]]
  /\ Goto(t, "near")
  /\ UNCHANGED <<hdr, blocks, lock, live, owned>>

LockNear(t) ==
  LET p == call[t].near
      lk == Locked(lock, p, t)
  IN  /\ pc[t] = "near"
      /\ CanLock(p, t)
      /\ \/ /\ Avail(hdr, p)
            /\ AllocInternal(hdr, p, call[t].kind)
            /\ lock' = Released(lk, p)
            /\ Finish(t)
         \/ /\ ~ Avail(hdr, p)
            /\ lock' = lk
            /\ Goto(t, "first")
            /\ call' = [call EXCEPT ![t].kind = "heap"]
            /\ UNCHANGED <<hdr, live>>
      /\ UNCHANGED <<blocks, owned, use, begun>>

(* SASCompoundHeapNearDealloc: only the lock of the part.                  *)
NearDeallocPage(t, q) ==
  /\ Call(t, "dealloc")
  /\ AtRest(t) /\ q \in Pages
  /\ LET p == BaseOf(FindHeader(Address(q)))
     IN  /\ CanLock(p, t)
         /\ FreeInternal(p, q)
  /\ GiveUp(q)
  /\ UNCHANGED <<blocks, lock, pc, call>>

(* SASCompoundHeapFree, SPHCompoundPCQFree: through the parts until one    *)
(* contains the page.  Where the lock of a part should go back, that of    *)
(* the heap does.                                                          *)
FreePage(t, q) ==
  /\ Call(t, "free")
  /\ AtRest(t) /\ q \in Pages
  /\ LET p == FirstOf(BaseOf(q))
     IN  call' = [call EXCEPT ![t] = [NoCall EXCEPT !.heap = p, !.page = q, !.i = 1]]
  /\ GiveUp(q)
  /\ Goto(t, "freefirst")
  /\ UNCHANGED <<hdr, blocks, lock>>

FreeLockFirst(t) ==
  LET p == call[t].heap
  IN  /\ pc[t] = "freefirst"
      /\ CanLock(p, t)
      /\ lock' = Locked(lock, p, t)
      /\ Goto(t, "freescan")
      /\ UNCHANGED <<hdr, blocks, live, owned, use, begun, call>>

FreeScan(t) ==
  LET p == call[t].heap
      i == call[t].i
      q == Parts(hdr, p)[i]
      lk == IF i > 1 THEN Released(Locked(lock, q, t), p) ELSE lock
  IN  /\ pc[t] = "freescan"
      /\ i > 1 => CanLock(q, t)
      /\ \/ /\ Contains(q, call[t].page)
            /\ FreeInternal(q, call[t].page)
            /\ lock' = Released(lk, p)
            /\ Finish(t)
         \/ /\ ~ Contains(q, call[t].page)
            /\ i < Len(Parts(hdr, p))
            /\ lock' = lk
            /\ call' = [call EXCEPT ![t].i = i + 1]
            /\ UNCHANGED <<hdr, pc>>
      /\ UNCHANGED <<blocks, live, owned, use, begun>>

(* SASCompoundHeapAllocNoLock, ...FreeNoLock, ...NearAllocNoLock, and      *)
(* those for queues: by a program that is alone.                           *)
AllocNoLock(t, p, kind) ==
  LET parts == Parts(hdr, p)
      n == Len(parts)
      roomy == {i \in 1..n : ~ Loaded(parts[i])}
  IN  \/ /\ ~ IsExpanding(p)
         /\ AllocInternal(hdr, p, kind)
         /\ blocks' = blocks
      \/ /\ IsExpanding(p) /\ roomy # {}
         /\ AllocInternal(hdr, parts[IF n \in roomy THEN n
                                     ELSE CHOOSE i \in roomy : \A j \in roomy : i <= j], kind)
         /\ blocks' = blocks
      \/ /\ IsExpanding(p) /\ roomy = {}
         /\ Expand(t, p, kind)

NearAllocNoLock(t, q, kind) ==
  LET p == BaseOf(FindHeader(Address(q)))
  IN  \/ /\ Avail(hdr, p)
         /\ AllocInternal(hdr, p, kind)
         /\ blocks' = blocks
      \/ /\ ~ Avail(hdr, p)
         /\ AllocNoLock(t, FirstOf(p), "heap")

FreeNoLock(q) ==
  \E i \in DOMAIN Parts(hdr, FirstOf(BaseOf(q))) :
    LET p == Parts(hdr, FirstOf(BaseOf(q)))[i]
    IN  Contains(p, q) /\ FreeInternal(p, q)

NoLock(t) ==
  /\ Call(t, "nolock")
  /\ Alone(t) /\ AtRest(t)
  /\ \/ /\ \E kind \in {"heap", "queue"} :
             \/ \E p \in Heaps : AllocNoLock(t, p, kind)
             \/ \E q \in Pages : NearAllocNoLock(t, q, kind)
        /\ owned' = owned
     \/ /\ \E q \in Pages : FreeNoLock(q) /\ GiveUp(q)
        /\ blocks' = blocks
  /\ UNCHANGED <<lock, pc, call>>

(* SASCompoundHeapFreeSpace: all the locks, the first part's first.        *)
FreeSpace(t, p) ==
  /\ Call(t, "report")
  /\ AtRest(t) /\ p \in Heaps
  /\ CanLock(p, t)
  /\ lock' = Locked(lock, p, t)
  /\ call' = [call EXCEPT ![t] = [NoCall EXCEPT !.heap = p, !.i = 2]]
  /\ Goto(t, "sum")
  /\ UNCHANGED <<hdr, blocks, live, owned>>

SumSpace(t) ==
  LET p == call[t].heap
      i == call[t].i
      n == Len(Parts(hdr, p))
  IN  /\ pc[t] = "sum"
      /\ \/ /\ i <= n
            /\ CanLock(hdr[p].expand[i], t)
            /\ lock' = Locked(lock, hdr[p].expand[i], t)
            /\ call' = [call EXCEPT ![t].i = i + 1]
            /\ pc' = pc
         \/ /\ i > n
            /\ lock' = ReleaseAll(lock, {p} \cup PartsAfterFirst(p, n))
            /\ Finish(t)
      /\ UNCHANGED <<hdr, blocks, live, owned, use, begun>>

(* SASCompoundHeapAllocSpace and the advice to the system, WriteAll to     *)
(* RandomAccessAll: the blocks of all parts, under a read lock.            *)
Advise(t, p) ==
  /\ Call(t, "report")
  /\ AtRest(t) /\ p \in Heaps
  /\ CanLock(p, t)
  /\ UNCHANGED <<hdr, blocks, lock, live, owned, pc, call>>

CallSteps(t) ==
  \/ LockFirst(t) \/ LockLast(t) \/ Pick(t) \/ Scan(t)
  \/ TakeBlock(t) \/ MoveList(t) \/ GiveBlock(t)
  \/ LockNear(t) \/ FreeLockFirst(t) \/ FreeScan(t) \/ SumSpace(t)

CNext ==
  \E t \in Thread :
       \/ AtRest(t) /\ SOps(t) /\ UNCHANGED <<pc, call>>
       \/ CallSteps(t)
       \/ NoLock(t)
       \/ \E expanding \in BOOLEAN, n \in use.pages : CreateCompound(t, expanding, n)
       \/ \E p \in Heaps :
            \/ FreeSpace(t, p) \/ Advise(t, p) \/ DestroyCompound(t, p)
            \/ \E kind \in {"heap", "queue"} : Alloc(t, p, kind)
       \/ \E q \in Pages : NearDeallocPage(t, q) \/ FreePage(t, q)
       \/ \E q \in Pages \cup Heaps, kind \in {"heap", "queue"} : NearAllocPage(t, q, kind)

CSpec == CInit /\ [][CNext]_cvars

-----------------------------------------------------------------------------
(* Properties.                                                             *)

Freed == {call[t].page : t \in {u \in Thread : pc[u] \in {"freefirst", "freescan"}}}

PagesIn(p) == {q \in Pages \cup Freed : Contains(p, q)}

(* HeapsInv: each address of a heap is free or somebody's, once: pieces of *)
(* pages, pages of parts, parts of heaps, blocks of the region; an idle    *)
(* thread has no lock.                                                     *)
BlocksApart ==
  \A p, q \in Page : blocks[p] > 0 /\ blocks[q] > 0 =>
    /\ p % blocks[p] = 0
    /\ p = q \/ p + blocks[p] <= q \/ q + blocks[q] <= p

PartsInv(p) ==
  LET parts == Parts(hdr, p)
  IN  /\ \A i, j \in DOMAIN parts : parts[i] = parts[j] => i = j
      /\ parts[1] = p
      /\ \A i \in DOMAIN parts :
           LET q == parts[i]
           IN  /\ hdr[q].kind = "compound" /\ hdr[q].base = p
               /\ hdr[q].size = hdr[p].size /\ blocks[q] = hdr[q].size
               /\ IsFreeList(hdr[q].list)
               /\ Partition(PiecesOf(hdr[q].list)
                              \cup {Piece(Address(r), PageSize) : r \in PagesIn(q)},
                            HeapStart(q), HeapEnd(q))
               /\ \A r \in PagesIn(q) : hdr[r].base = q

(* The block in the hands of a call that expands: it has no part in it     *)
(* yet, and nobody else has it.                                            *)
InHand(t) == pc[t] \in {"space", "back"}

HandInv(t) ==
  LET q == call[t].page
  IN  /\ blocks[q] = hdr[call[t].heap].size
      /\ q \notin live /\ hdr[q].kind \notin {"compound", "space"}
      /\ \A u \in Thread \ {t} : InHand(u) => call[u].page # q

(* LocksGoBack: a lock is held inside of calls only.  It is so where no    *)
(* page of a heap that expands is freed: SASCompoundHeapFree keeps the     *)
(* lock of a further part when it returns.                                 *)
LocksGoBack == \A p \in Page : lock[p].owner # NoThread => ~ AtRest(lock[p].owner)

LocksInCalls == ~ ({"free", "expanding"} \subseteq use.ops) => LocksGoBack

HeapsInv ==
  /\ SimpleHeapsInv
  /\ BlocksApart
  /\ \A p \in live : hdr[p].kind # "none"
  /\ \A p \in Heaps : PartsInv(p)
  /\ \A q \in Pages : \E p \in Heaps : \E i \in DOMAIN Parts(hdr, p) : Contains(Parts(hdr, p)[i], q)
  /\ \A t \in Thread : InHand(t) => HandInv(t)
  /\ LocksInCalls

(* SomebodyRuns: calls never all wait for locks of each other, but for one *)
(* way: a near allocate has a part, and waits for the first one; the call  *)
(* that has that one waits for the part.                                   *)
WaitsFor(t) ==
  LET p == call[t].heap
      i == call[t].i
      n == Len(Parts(hdr, p))
  IN  CASE pc[t] \in {"first", "freefirst"} -> {p}
        [] pc[t] = "last" -> {call[t].last}
        [] pc[t] = "near" -> {call[t].near}
        [] pc[t] = "scan" /\ 1 < i /\ i <= Others(n) -> {hdr[p].expand[i]}
        [] pc[t] = "freescan" /\ 1 < i -> {hdr[p].expand[i]}
        [] pc[t] = "sum" /\ i <= n -> {hdr[p].expand[i]}
        [] OTHER -> {}

CanGo(t) == \A p \in WaitsFor(t) : CanLock(p, t)

Crossed(t, u) ==
  /\ pc[t] = "first" /\ lock[call[t].heap].owner = u
  /\ call[t].near \in WaitsFor(u) /\ lock[call[t].near].owner = t

SomebodyRuns ==
  (\E t \in Thread : ~ AtRest(t)) =>
    \/ \E t \in Thread : ~ AtRest(t) /\ CanGo(t)
    \/ \E t, u \in Thread : t # u /\ Crossed(t, u)

(* FailsOnlyWhenFull: an allocate of a page fails only when every part of  *)
(* the heap is loaded and the region has no block for one more, or the     *)
(* list of the parts no room; a fixed heap, when no page of it is free.    *)
(* The list has no room when its own space is full, or none can be had for *)
(* it; a call may also lose the block it gave back to move the list, when  *)
(* others take it first, and find that no other is left.                   *)
Fails(t) ==
  /\ pc[t] \in {"first", "pick", "grow", "back"}
  /\ pc'[t] = "idle"
  /\ live' = live

MovesNoList(t) ==
  /\ pc[t] = "space" /\ pc'[t] = "back"
  /\ hdr'[call[t].heap].space = NoPage

NoBlockFor(p) == BlocksFree(hdr[p].size) = {}

FailsOnlyWhenFull ==
  [][\A t \in Thread :
       LET p == call[t].heap
       IN  /\ Fails(t) =>
                IF IsExpanding(p)
                  THEN /\ NoBlockFor(p) \/ (pc[t] = "back" /\ ListIsFull(p))
                       /\ \A i \in DOMAIN hdr[p].expand : Loaded(hdr[p].expand[i])
                  ELSE ~ Avail(hdr, p)
           /\ MovesNoList(t) => NoBlockFor(p)]_cvars

-----------------------------------------------------------------------------
(* What the theorems ask of the programs.                                  *)

(* SafeUses: nobody asks for nothing; the near calls of simple heaps meet  *)
(* blocks of one size, that SASFindHeader probes; pages are freed in heaps *)
(* that expand by one thread, because that unlocks the wrong parts.        *)
SafeUses ==
  \A u \in Uses :
    /\ 0 \notin u.sizes
    /\ "near" \in u.ops => /\ \E n \in ProbedSizes : u.pages \subseteq {n}
                           /\ u.ops \cap {"expanding", "fixed"} = {}
    /\ {"free", "expanding"} \subseteq u.ops => \E t \in Thread : u.threads \subseteq {t}
=============================================================================
